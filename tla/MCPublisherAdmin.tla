-------------------------- MODULE MCPublisherAdmin --------------------------
(* PublisherAdmin on small instances: the feed with two operators, four    *)
(* keys, and one import that three callers repeat.                         *)
EXTENDS PublisherAdmin, MCPublisherFeed
=============================================================================
