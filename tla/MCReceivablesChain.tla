--------------------------- MODULE MCReceivablesChain ---------------------------
(* Two sessions over one ledger whose document goes from a to b and back, *)
(* two horizons, and a review that supports nothing.                       *)
EXTENDS ReceivablesChain, TLC

CONSTANTS a, b, full, long, weak, accept, reject

MCSnapshots == {a, b}
MCOverdue == (a :> 3 @@ b :> 2)
MCReviews == {full, long, weak}
MCHorizonOf == (full :> 30 @@ long :> 60 @@ weak :> 30)
MCCapture == (full :> (a :> 3 @@ b :> 2) @@ long :> (a :> 2 @@ b :> 2)
              @@ weak :> (a :> 0 @@ b :> 0))
MCVerdicts == {accept, reject}

Busy == {s \in Sessions : pending[s] # None}
Calling(ops) == \E s \in Busy : pending[s].op \in ops

(* What is explored past the first snapshot and Impact: races over the    *)
(* ledger and its Impacts alone; races over one candidate of one Impact;  *)
(* two horizons up to their totals; one call at a time while the ledger    *)
(* moves on under a priority; and races of decisions on two priorities.    *)
LedgerRaces == candidates = {} /\ evidence = {} /\ ~Calling({"candidate", "evidence"})
CandidateRaces ==
    /\ Cardinality(snapshots) <= 1 /\ Len(ledger) <= 1
    /\ \A c \in candidates : c.horizon = 30
    /\ \A i \in Revisions : Len(collected[i]) <= 2
    /\ Cardinality(assessments) <= 2
    /\ Cardinality(priorities) <= 2 /\ Cardinality(decisions) <= 1
Totals ==
    /\ priorities = {} /\ ~Calling({"priority"})
    /\ Cardinality(snapshots) <= 1 /\ Len(ledger) <= 1
    /\ Cardinality(evidence) <= 2 /\ Cardinality(Busy) <= 1
LedgerMoves ==
    /\ Cardinality(Busy) <= 1
    /\ decisions = {} /\ ~Calling({"decision"})
    /\ \A c \in candidates : c.horizon = 30
    /\ \A i \in Revisions : collected[i] \in {<<>>, <<full>>}
    /\ Cardinality(assessments) <= 2 /\ \A x \in assessments : x.evidence = 1

DecisionRaces ==
    /\ Cardinality(snapshots) <= 1 /\ Len(ledger) <= 1
    /\ \A i \in Revisions : collected[i] \in {<<>>, <<full>>, <<full, long>>}
    /\ \A x \in assessments \cup priorities \cup decisions : x.revision = 1
    /\ \A x \in assessments : x.evidence # 0
    /\ Cardinality(Busy) <= 1 \/ \A t \in Busy : pending[t].op = "decision"

Explored == LedgerRaces \/ CandidateRaces \/ Totals \/ LedgerMoves \/ DecisionRaces

SessionSymmetry == Permutations(Sessions)
=================================================================================
