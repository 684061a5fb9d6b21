----------------------------- MODULE MCEconomicStory -----------------------------
(* Two sessions over four runs: a condition; half a year with it; and the  *)
(* two quarters of that half, its absence in one and its return, worse, in *)
(* the other.  A run may retain Facts that agree independently or in part, *)
(* one that disagrees and one that shares the anchor's source and differs. *)
EXTENDS EconomicStory, TLC, FiniteSetsExt

CONSTANTS s1, s2, agreeing, partial, contrary, sharing

MCWindow == <<[from |-> 0, to |-> 2], [from |-> 3, to |-> 8],
              [from |-> 3, to |-> 5], [from |-> 6, to |-> 8]>>
MCChange == <<-2, -1, 0, -3>>
MCAssessed == <<"FINDING_CREATED", "FINDING_CREATED", "NOT_SIGNIFICANT", "FINDING_CREATED">>
MCOthers == {agreeing, partial, contrary, sharing}
MCIndependence ==
    (agreeing :> "INDEPENDENT" @@ partial :> "PARTIALLY_SHARED"
     @@ contrary :> "INDEPENDENT" @@ sharing :> "SAME_ANCESTRY")
MCTemporal == [o \in MCOthers |-> "SAME_COMPARABLE_PERIOD"]

Busy == {s \in Sessions : pending[s] # None}
Disturbances ==
    Cardinality(changed) + Cardinality(challenged) + Cardinality(UNION Range(retained) \ {agreeing})

(* What is explored: races on the first run, whose evidence is disturbed   *)
(* once; and one call at a time as runs follow each other, each with its   *)
(* own agreeing Fact and the first perhaps challenged.                     *)
Races ==
    /\ Len(observed) <= 1 /\ Disturbances <= 1 /\ Len(story) <= 2
    /\ \A r \in Runs : r # 1 => retained[r] = {}
    /\ \A r \in Runs, c \in Contracts : Len(interpretations[r][c]) <= 2
Passage ==
    /\ Cardinality(Busy) <= 1 /\ changed = {} /\ challenged \subseteq {1}
    /\ \A k \in 2 .. Len(observed) : observed[k - 1] < observed[k] /\ retained[observed[k - 1]] = {agreeing}
    /\ \A r \in Runs : retained[r] \subseteq IF r \in Range(observed) THEN {agreeing} ELSE {}
    /\ Len(observed) <= 3
    /\ \A r \in Runs : Len(interpretations[r]["INDEPENDENT_CORROBORATION"]) <= Cardinality(challenged) + 1
    /\ \A r \in Runs : Len(interpretations[r]["SHARED_CORROBORATION"]) <= Cardinality(challenged \cap {r}) + 1
    /\ \A s \in Busy : pending[s].op = "assess" => pending[s].run = Last(observed)
    /\ \A r \in Runs : (\E c \in Contracts : hypotheses[r][c] # None) => retained[r] = {agreeing}
Explored == Races \/ Passage

Symmetry == Permutations({s1, s2})
================================================================================
