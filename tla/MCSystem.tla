---------------------------- MODULE MCSystem -------------------------------
(* SystemParts on small instances.  The sets that are symmetric are the    *)
(* same in all parts.                                                      *)
EXTENDS SystemParts, TLC

(* Analysts supply units over two intermediate facts and the goal, some of *)
(* them options of one branch; reports describe the classes that produce   *)
(* and consume each other's effects.                                       *)
access == <<"host.access", "generic">>
discovered == <<"host.discovered", "generic">>
exfiltrated == <<"data.exfiltrated", "generic">>

Branches == {{}, {[group |-> 1, option |-> 1]}, {[group |-> 1, option |-> 2]}}
Shapes ==
    {<<{}, access>>, <<{discovered}, access>>, <<{}, discovered>>, <<{access}, discovered>>,
     <<{access}, exfiltrated>>, <<{access, discovered}, exfiltrated>>}
AttackUnits == {[pre |-> s[1], post |-> <<s[2]>>, branch |-> o] : s \in Shapes, o \in Branches}

ReportSteps ==
    {[class |-> c, object |-> o] :
        c \in {"delivery", "user_action", "download", "exploitation", "execute", "collection",
               "communication", "exfiltration"},
        o \in {"generic", "named"}}

KnownFacts ==
    {{}, {access, <<"network.reachable", "remote_server">>, <<"host.vuln_present", "generic">>}}

WantedGoals == {exfiltrated}

Symmetry == Permutations(Ips) \cup Permutations(Macs)
=============================================================================
