--------------------------- MODULE BenefitRegister ----------------------------
(***************************************************************************)
(* From a decision on an opportunity to its realised benefit:              *)
(* management/engine.py for one client.                                    *)
(*                                                                         *)
(* Calls run one after another, each committing at its end or raising      *)
(* before its first write.  The rows of a decision, its actions and their  *)
(* benefit legs all carry the run of the opportunity, because each call    *)
(* refuses another; the model therefore leaves the run to the opportunity. *)
(* Of an action's progress rows the set of states is kept, and of a leg's  *)
(* observations and retentions what they said, in the order of their dates.*)
(***************************************************************************)
EXTENDS Integers, Sequences, FiniteSetsExt, Functions

CONSTANTS
    Supported,        \* opportunities with status SUPPORTED
    SupportedRun,     \* [Supported -> runs]
    NetAmounts,       \* gross less costs, as a caller may state them
    ProgressStates,   \* progress a caller may state
    Attributions,     \* attribution states a caller may state
    Retentions,       \* retention states a caller may state
    BenefitTypes,     \* relationship types a caller may state
    MaxActions, MaxLegs, MaxAssessments, MaxRelated   \* bounds

Unattributed == {"UNCERTAIN", "NOT_ATTRIBUTABLE"}
Unordered == {"INDEPENDENT", "CASH_MANIFESTATION", "OVERLAPPING"}

ASSUME BenefitAssumption ==
    /\ NetAmounts \subseteq Int
    /\ ProgressStates \subseteq {"OPEN", "IN_PROGRESS", "BLOCKED", "COMPLETED", "CANCELLED"}
    /\ Attributions \subseteq Unattributed \cup
          {"DIRECTLY_ATTRIBUTABLE", "STRONGLY_SUPPORTED", "PARTIALLY_ATTRIBUTABLE"}
    /\ Retentions \subseteq {"RETAINED", "PARTIALLY_RETAINED", "NOT_RETAINED", "TOO_EARLY"}
    /\ BenefitTypes \subseteq Unordered \cup {"OFFSETTING", "DERIVED_FROM"}

VARIABLES
    decided,       \* decision: the opportunities with one
    actions,       \* action, with its opportunity and its progress
    legs,          \* benefit_leg, with its assessments
    related        \* benefit_relationship

benefitVars == <<decided, actions, legs, related>>

Action == [opportunity : Supported, status : ProgressStates \cup {"OPEN"},
           progress : SUBSET ProgressStates]
Assessment == [verified : Attributions \cup {"AS_IT_IS"}] \cup [retention : Retentions]
Leg == [action : Nat, opportunity : Supported, net : Nat, attribution : Attributions,
        status : {"REALISED", "VERIFIED", "RETAINED"}, assessed : Seq(Assessment)]
Related == [left : Nat, right : Nat, type : BenefitTypes, overlap : Nat]

(* The register's tables keep their shape.                                 *)
BenefitTypeOK ==
    /\ decided \subseteq Supported
    /\ actions \in Seq(Action)
    /\ legs \in Seq(Leg)
    /\ related \subseteq Related

BenefitInit == decided = {} /\ actions = <<>> /\ legs = <<>> /\ related = {}

-----------------------------------------------------------------------------
RecordDecision(o) ==
    /\ decided' = decided \cup {o}
    /\ UNCHANGED <<actions, legs, related>>

CreateAction(o) ==
    /\ o \in decided
    /\ Len(actions) < MaxActions
    /\ actions' = Append(actions, [opportunity |-> o, status |-> "OPEN", progress |-> {}])
    /\ UNCHANGED <<decided, legs, related>>

(* Any state follows any other: a completed action may be reopened.        *)
UpdateProgress(a, state) ==
    /\ actions' = [actions EXCEPT ![a].status = state, ![a].progress = @ \cup {state}]
    /\ UNCHANGED <<decided, legs, related>>

RecordBenefit(o, a, net, attribution) ==
    /\ actions[a].opportunity = o
    /\ actions[a].status = "COMPLETED"
    /\ net >= 0
    /\ Len(legs) < MaxLegs
    /\ legs' = Append(legs, [action |-> a, opportunity |-> o, net |-> net,
                             attribution |-> attribution, status |-> "REALISED", assessed |-> <<>>])
    /\ UNCHANGED <<decided, actions, related>>

Assessments == SumFunction([b \in DOMAIN legs |-> Len(legs[b].assessed)])

(* A mutant: an uncertain benefit keeps the status it had.                 *)
VerifyUpwards(b, given) ==
    LET attribution == IF given = "AS_IT_IS" THEN legs[b].attribution ELSE given IN
    /\ Assessments < MaxAssessments
    /\ legs' = [legs EXCEPT ![b].attribution = attribution,
                            ![b].status = IF attribution \in Unattributed THEN @ ELSE "VERIFIED",
                            ![b].assessed = Append(@, [verified |-> given])]
    /\ UNCHANGED <<decided, actions, related>>

(* A verification may restate the attribution, and its verdict replaces    *)
(* whatever status the leg had, RETAINED included.                         *)
VerifyBenefit(b, given) ==
    LET attribution == IF given = "AS_IT_IS" THEN legs[b].attribution ELSE given IN
    /\ Assessments < MaxAssessments
    /\ legs' = [legs EXCEPT
          ![b].attribution = attribution,
          ![b].status = IF attribution \in Unattributed THEN "REALISED" ELSE "VERIFIED",
          ![b].assessed = Append(@, [verified |-> given])]
    /\ UNCHANGED <<decided, actions, related>>

AssessRetention(b, state) ==
    /\ Assessments < MaxAssessments
    /\ legs' = [legs EXCEPT
          ![b].status = IF state = "TOO_EARLY" THEN @ ELSE "RETAINED",
          ![b].assessed = Append(@, [retention |-> state])]
    /\ UNCHANGED <<decided, actions, related>>

RelateBenefits(l, r, type, overlap) ==
    /\ l # r /\ SupportedRun[legs[l].opportunity] = SupportedRun[legs[r].opportunity]
    /\ type \in Unordered => ~\E x \in related : x.type = type /\ {x.left, x.right} = {l, r}
    /\ Cardinality(related) < MaxRelated
    /\ related' = related \cup {[left |-> l, right |-> r, type |-> type, overlap |-> overlap]}
    /\ UNCHANGED <<decided, actions, legs>>

BenefitNext ==
    \/ \E o \in Supported : RecordDecision(o) \/ CreateAction(o)
    \/ \E a \in DOMAIN actions, state \in ProgressStates : UpdateProgress(a, state)
    \/ \E o \in Supported, a \in DOMAIN actions, net \in NetAmounts, attribution \in Attributions :
          RecordBenefit(o, a, net, attribution)
    \/ \E b \in DOMAIN legs, given \in Attributions \cup {"AS_IT_IS"} : VerifyBenefit(b, given)
    \/ \E b \in DOMAIN legs, state \in Retentions : AssessRetention(b, state)
    \/ \E l, r \in DOMAIN legs, type \in BenefitTypes :
          \E overlap \in IF type = "OVERLAPPING" THEN NetAmounts \cap Nat ELSE {0} :
             RelateBenefits(l, r, type, overlap)

BenefitSpec == BenefitInit /\ [][BenefitNext]_benefitVars

-----------------------------------------------------------------------------
(* realised_portfolio_value, over all runs of the client                   *)

NetOf == [b \in DOMAIN legs |-> legs[b].net]
Smallest(S) == CHOOSE x \in S : \A y \in S : x <= y
CountedTwice == [rel \in related |->
    CASE rel.type = "CASH_MANIFESTATION" -> Smallest({NetOf[rel.left], NetOf[rel.right]})
      [] rel.type = "OVERLAPPING" -> Smallest({rel.overlap, NetOf[rel.left], NetOf[rel.right]})
      [] OTHER -> 0]

RealisedGross == SumFunction(NetOf)
RealisedDeduction == SumFunction(CountedTwice)
Realised == IF RealisedGross > RealisedDeduction THEN RealisedGross - RealisedDeduction ELSE 0

-----------------------------------------------------------------------------
(* The assessments of a benefit leg that gave a verdict.                   *)
Verdicts(b) == {n \in DOMAIN legs[b].assessed : legs[b].assessed[n] # [retention |-> "TOO_EARLY"]}

(* What a benefit leg claims, its record earns: its action was completed,  *)
(* however it stands now, and its status is the verdict of its last        *)
(* assessment that gave one (management/engine.py:36, 58, 68).             *)
BenefitsAreEarned ==
    \A b \in DOMAIN legs :
        /\ legs[b].action \in DOMAIN actions
        /\ "COMPLETED" \in actions[legs[b].action].progress
        /\ actions[legs[b].action].opportunity = legs[b].opportunity
        /\ Verdicts(b) = {} => legs[b].status = "REALISED"
        /\ \A last \in Verdicts(b) : (\A n \in Verdicts(b) : n <= last) =>
              legs[b].status =
                 IF "retention" \in DOMAIN legs[b].assessed[last] THEN "RETAINED"
                 ELSE IF legs[b].attribution \in Unattributed THEN "REALISED" ELSE "VERIFIED"

(* What the client is told was realised counts no benefit and its cash, or *)
(* the overlap of two benefits, twice; and no pair of benefits is related  *)
(* twice by one type (management/engine.py:71-94).                         *)
BenefitsCountOnce ==
    /\ \A rel \in related :
          LET twice == IF rel.type = "CASH_MANIFESTATION" THEN {NetOf[rel.left], NetOf[rel.right]}
                       ELSE IF rel.type = "OVERLAPPING"
                       THEN {rel.overlap, NetOf[rel.left], NetOf[rel.right]} ELSE {0}
          IN Realised <= RealisedGross - Smallest(twice)
    /\ \A x, y \in related :
          ({x.left, x.right} = {y.left, y.right} /\ x.type = y.type /\ x.type \in Unordered) => x = y
=============================================================================
