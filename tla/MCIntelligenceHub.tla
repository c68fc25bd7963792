------------------------- MODULE MCIntelligenceHub -------------------------
EXTENDS IntelligenceHub, FiniteSets, TLC

Symmetry == Permutations(Correlators)

(* Two correlations overlap around the first content and inventory only.   *)
(* The third content is a revision without end, delivered at the first     *)
(* moment, of a record whose observables are in the inventory.             *)
Correlating == {c \in Correlators : session[c].step # "idle"}
Third == contents = MaxContents \/ (contents = MaxContents - 1 /\ import.open)
Focus ==
    /\ Cardinality(Correlating) = 2 \/ crossed =>
          contents <= 1 /\ scan <= 1 /\ now = 0 /\ ~import.open
    /\ Third => /\ now = 0 /\ due = {} /\ matching = Records
                /\ \A r \in Records : record[r].until = Forever /\ ~raced[r]
                /\ import.open => import.kind = "revised" /\ import.until = Forever
=============================================================================
