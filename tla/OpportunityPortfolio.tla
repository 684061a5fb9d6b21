------------------------- MODULE OpportunityPortfolio -------------------------
(***************************************************************************)
(* Opportunities of one client, from the candidate to the portfolio:       *)
(* economic/engine.py from qualification on, and economic/portfolio.py.    *)
(*                                                                         *)
(* Every call is one SQLite transaction of its own: it checks, inserts and *)
(* commits, or raises before its first insert.  An opportunity is known by *)
(* its place in `opportunities`; its run, bucket and ceiling are those of  *)
(* its candidate.  Addressable amount, envelope and baseline are checked   *)
(* at qualification and never read again.                                  *)
(***************************************************************************)
EXTENDS Integers, Sequences, FiniteSetsExt, Functions

CONSTANTS
    Candidates,
    CandidateRun,       \* [Candidates -> runs]
    BucketOf,           \* [Candidates -> buckets]: economic_bucket of the benefit type
    Ceiling,            \* [Candidates -> at most one theoretical amount, as a set]
    Mechanisms,
    Amounts,            \* amounts a caller may state
    RelationTypes,      \* types a caller may state
    EnvelopeKeys,
    MaxOpportunities,   \* bound: opportunities qualified
    MaxRelations        \* bound: relationships recorded

SymmetricTypes == {"INDEPENDENT", "OVERLAPPING", "ALTERNATIVE", "SYNERGISTIC",
                   "MUTUALLY_EXCLUSIVE", "CASH_MANIFESTATION"}
Exclusive == {"ALTERNATIVE", "MUTUALLY_EXCLUSIVE"}
Additive == Exclusive \cup {"OVERLAPPING"}

ASSUME PortfolioAssumption ==
    /\ Amounts \subseteq Nat
    /\ \A c \in Candidates : Ceiling[c] \subseteq Nat
    /\ RelationTypes \subseteq SymmetricTypes \cup {"DEPENDENT", "SEQUENTIAL"}

VARIABLES
    evidenced,       \* opportunity_mechanism_evidence: <<candidate, mechanism>>
    opportunities,   \* opportunity, in order of qualification
    relations,       \* opportunity_relationship
    envelopes        \* opportunity_portfolio_envelope with its members

portfolioVars == <<evidenced, opportunities, relations, envelopes>>

Opportunity == [candidate : Candidates, expected : Amounts]
Relation == [left : Nat, right : Nat, type : RelationTypes, overlap : Amounts \cup {0}]
Envelope == [key : EnvelopeKeys, of : Candidates, cap : Amounts, members : SUBSET Nat]

(* The portfolio's tables keep their shape.                                *)
PortfolioTypeOK ==
    /\ evidenced \subseteq Candidates \X Mechanisms
    /\ opportunities \in Seq(Opportunity)
    /\ relations \subseteq Relation
    /\ envelopes \subseteq Envelope

PortfolioInit == evidenced = {} /\ opportunities = <<>> /\ relations = {} /\ envelopes = {}

Qualified == DOMAIN opportunities
RunOf(o) == CandidateRun[opportunities[o].candidate]
BucketAt(o) == BucketOf[opportunities[o].candidate]
Expected == [o \in Qualified |-> opportunities[o].expected]

-----------------------------------------------------------------------------
RecordMechanism(c, mechanism) ==
    /\ evidenced' = evidenced \cup {<<c, mechanism>>}
    /\ UNCHANGED <<opportunities, relations, envelopes>>

(* A candidate may be qualified again: its status is written, never read.  *)
Qualify(c, mechanism, addressable, expected, recovery) ==
    /\ <<c, mechanism>> \in evidenced
    /\ \A theoretical \in Ceiling[c] : addressable <= theoretical
    /\ expected <= addressable
    /\ expected <= recovery /\ addressable <= recovery
    /\ Len(opportunities) < MaxOpportunities
    /\ opportunities' = Append(opportunities, [candidate |-> c, expected |-> expected])
    /\ UNCHANGED <<evidenced, relations, envelopes>>

Pair(rel) == {rel.left, rel.right}

(* A relationship of any type may join two buckets.                        *)
Relate(l, r, type, overlap) ==
    /\ l # r /\ RunOf(l) = RunOf(r)
    /\ type \in SymmetricTypes =>
          ~\E rel \in relations : rel.type = type /\ Pair(rel) = {l, r}
    /\ Cardinality(relations) < MaxRelations
    /\ relations' = relations \cup {[left |-> l, right |-> r, type |-> type, overlap |-> overlap]}
    /\ UNCHANGED <<evidenced, opportunities, envelopes>>

(* Members in one run and bucket, those of `c`; keys are unique in a run.  *)
CreateEnvelope(key, c, cap, members) ==
    /\ members # {}
    /\ \A o \in members : RunOf(o) = CandidateRun[c] /\ BucketAt(o) = BucketOf[c]
    /\ ~\E e \in envelopes : e.key = key /\ CandidateRun[e.of] = CandidateRun[c]
    /\ envelopes' = envelopes \cup {[key |-> key, of |-> c, cap |-> cap, members |-> members]}
    /\ UNCHANGED <<evidenced, opportunities, relations>>

PortfolioNext ==
    \/ \E c \in Candidates, mechanism \in Mechanisms : RecordMechanism(c, mechanism)
    \/ \E c \in Candidates, mechanism \in Mechanisms, addressable, expected, recovery \in Amounts :
          Qualify(c, mechanism, addressable, expected, recovery)
    \/ \E l, r \in Qualified, type \in RelationTypes :
          \E overlap \in IF type = "OVERLAPPING" THEN Amounts ELSE {0} : Relate(l, r, type, overlap)
    \/ \E key \in EnvelopeKeys, c \in Candidates, cap \in Amounts, members \in SUBSET Qualified :
          CreateEnvelope(key, c, cap, members)

PortfolioSpec == PortfolioInit /\ [][PortfolioNext]_portfolioVars

-----------------------------------------------------------------------------
(* portfolio_economics: what a run's bucket is worth                       *)

InBucket(run, bucket) == {o \in Qualified : RunOf(o) = run /\ BucketAt(o) = bucket}
Gross(opps) == SumFunctionOnSet(Expected, opps)
Least(S) == CHOOSE x \in S : \A y \in S : x <= y
Greatest(S) == CHOOSE x \in S : \A y \in S : x >= y

(* What a related pair would count twice.                                  *)
Twice == [rel \in relations |->
    CASE rel.type = "OVERLAPPING" -> Least({rel.overlap, Expected[rel.left], Expected[rel.right]})
      [] rel.type \in Exclusive   -> Least({Expected[rel.left], Expected[rel.right]})
      [] OTHER -> 0]

(* An additive relationship across buckets makes the report raise.         *)
Blocked(run) ==
    \E rel \in relations : /\ RunOf(rel.left) = run /\ rel.type \in Additive
                           /\ BucketAt(rel.left) # BucketAt(rel.right)

Within(opps) == {rel \in relations : Pair(rel) \subseteq opps}
Excess(e) == Greatest({0, Gross(e.members) - e.cap})

(* A mutant: envelopes are left to the pairwise relationships.             *)
PairsOnly(run, bucket) == SumFunctionOnSet(Twice, Within(InBucket(run, bucket)))

(* The largest of the pairwise deductions and of each envelope's excess:   *)
(* the excesses of several envelopes are not added up.                     *)
Deduction(run, bucket) ==
    Greatest({SumFunctionOnSet(Twice, Within(InBucket(run, bucket)))} \cup
             {Excess(e) : e \in {f \in envelopes : /\ CandidateRun[f.of] = run
                                                   /\ BucketOf[f.of] = bucket}})

Net(run, bucket) == Greatest({0, Gross(InBucket(run, bucket)) - Deduction(run, bucket)})

-----------------------------------------------------------------------------
(* A bucket is never worth more than any one of its envelopes allows its   *)
(* members plus the gross of the others, whatever was qualified or related *)
(* before and after the envelope (economic/portfolio.py:78-85).            *)
EnvelopesCap ==
    \A e \in envelopes :
        LET run == CandidateRun[e.of]
            bucket == BucketOf[e.of]
        IN ~Blocked(run) => Net(run, bucket) <= e.cap + Gross(InBucket(run, bucket) \ e.members)

(* A related pair is counted once in its bucket, and a pair is related     *)
(* once per symmetric type, in whichever order its halves are named        *)
(* (economic/portfolio.py:63-76, economic/engine.py:117-123).              *)
PairsCountOnce ==
    /\ \A rel \in relations :
          LET run == RunOf(rel.left)
              opps == InBucket(run, BucketAt(rel.left))
          IN (rel \in Within(opps) /\ ~Blocked(run)) =>
                Net(run, BucketAt(rel.left)) <= Gross(opps) - Twice[rel]
    /\ \A x, y \in relations :
          (Pair(x) = Pair(y) /\ x.type = y.type /\ x.type \in SymmetricTypes) => x = y
=============================================================================
