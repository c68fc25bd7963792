---------------------------- MODULE MCFindings ----------------------------
EXTENDS Findings

(* Two reports, decisions or feeds that have spoken about the finding are  *)
(* followed by any third; the reports of one series by more.               *)
Voices ==
    Len(imports)
      + Cardinality({f \in Feeds : intel[f].life # "none"})
      + Cardinality({a \in Analysts : manual[a].life # "none"})
OneSeries ==
    /\ Voices = Len(imports)
    /\ Cardinality({imports[i].series : i \in DOMAIN imports}) <= 1
Focus == Voices <= 2 \/ OneSeries
=============================================================================
