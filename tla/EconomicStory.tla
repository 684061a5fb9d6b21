------------------------------ MODULE EconomicStory ------------------------------
(***************************************************************************)
(* Hypotheses about one Finding, their interpretations, and the Story that *)
(* is synthesised from them: reasoning/hypothesis and reasoning/story, on  *)
(* the evidence graph of one client.                                       *)
(*                                                                         *)
(* Runs are numbered in the order they started.  In each run the Finding   *)
(* has one observation, whose Fact is the anchor of everything assessed    *)
(* there; the run's other Facts of the same meaning and entity either      *)
(* agree with it or not and share its provenance or not.  What a session   *)
(* digests of its evidence is the record Evidence(r); two digests are      *)
(* equal exactly when the records are.                                     *)
(*                                                                         *)
(* A call reads what is committed, statement by statement, computes, and   *)
(* writes in its caller's transaction under compare-and-swap on a revision.*)
(* The statements between which another session can change an outcome are  *)
(* steps of their own: read and write of an assessment, and in a synthesis *)
(* the reading of the evidence, of the interpretations, and the write.     *)
(***************************************************************************)
EXTENDS Integers, Sequences, SequencesExt, FiniteSets

CONSTANTS
    Sessions,
    MaxRun,          \* bound: analytical runs
    MaxRevision,     \* bound: revisions of one object
    Window,          \* [Runs -> [from, to] or None]: the anchor's reporting period
    Change,          \* [Runs -> Int]: the measured margin change, in points
    Assessed,        \* [Runs -> outcomes of the Finding's assessment]
    Others,          \* other Facts a run may retain
    Agrees,          \* SUBSET Others: same measurements as the anchor
    Qualified,       \* SUBSET Others: eligible, complete ancestry
    Independence,    \* [Others -> class of provenance shared with the anchor]
    Temporal,        \* [Others -> relation of its period to the anchor's]
    Contracts,       \* proposition contracts of the Finding's type
    None

Runs == 1 .. MaxRun
Finding == 0         \* as an endpoint of a declared relationship
Outcomes == {"SUPPORTED", "PLAUSIBLE", "UNRESOLVED", "CONTRADICTED"}
HypothesisRow == [revision : Nat, status : Outcomes \cup {"GENERATED"}]
Shared == {"SAME_ANCESTRY", "SUBSTANTIALLY_SHARED"}
Classes == Shared \cup {"INDEPENDENT", "PARTIALLY_SHARED", "INDETERMINATE"}
Periods == {"SAME_COMPARABLE_PERIOD", "PRECEDES", "FOLLOWS", "OVERLAPS",
            "NOT_COMPARABLE", "INSUFFICIENT_PERIOD_INFORMATION"}

ASSUME StoryAssumption ==
    /\ MaxRun \in Nat /\ MaxRevision \in Nat
    /\ Window \in [Runs -> [from : Nat, to : Nat] \cup {None}]
    /\ Change \in [Runs -> Int]
    /\ Assessed \in [Runs -> {"FINDING_CREATED", "NOT_SIGNIFICANT", "HELD"}]
    \* a movement of a point or more is significant or held, never insignificant
    /\ \A r \in Runs : Change[r] <= -1 => Assessed[r] # "NOT_SIGNIFICANT"
    /\ Agrees \subseteq Others /\ Qualified \subseteq Others
    /\ Independence \in [Others -> Classes] /\ Temporal \in [Others -> Periods]
    /\ None \notin [from : Nat, to : Nat] \cup HypothesisRow

VARIABLES
    observed,        \* the Finding's observations, latest last
    retained,        \* [Runs -> Facts of the run besides the anchor]
    changed,         \* evidence whose owning Signal changed: <<run, Fact or None>>
    challenged,      \* runs' anchors and Finding under a declared challenge
    hypotheses,      \* canonical_hypothesis: [Runs -> [Contracts -> row or None]]
    interpretations, \* canonical_interpretation_revision, by revision
    story,           \* canonical_story_revision; the last is canonical_story
    pending          \* what each session has read and is about to write

evidence == <<observed, retained, changed, challenged>>
vars == <<observed, retained, changed, challenged, hypotheses, interpretations, story, pending>>

Earned == {"SUPPORTED", "PERSISTENT", "WORSENING", "IMPROVING"}
Statuses == Earned \cup {"INVESTIGATING", "RESOLVED"}
Transitions == {"FIRST_OBSERVATION", "REASSESSMENT", "COMPARABLE_PERIOD", "REOPENED", "NOT_COMPARABLE"}

(* What HypothesisService._search finds; `told`: a Story is linked to the  *)
(* Finding; `origin`: the anchor is current and the Finding significant.   *)
Seen == [finding : Seq(Runs), facts : SUBSET Others, usable : SUBSET Others,
         links : SUBSET (Runs \cup {Finding}), told : BOOLEAN, origin : BOOLEAN]
Interpretation == [evidence : Seen, outcome : Outcomes]
Cited == [run : Runs, contract : Contracts, revision : Nat, read : Interpretation]
Reading == [run : Runs, base : Nat, finding : Seq(Runs), facts : SUBSET Others,
            links : SUBSET (Runs \cup {Finding})]
Document == [evidence : Reading, cited : SUBSET Cited, status : Statuses, transition : Transitions]
Calls == [op : {"assess"}, run : Runs, contract : Contracts, base : Nat, read : Interpretation]
         \cup [op : {"gather"}, reading : Reading]
         \cup [op : {"write"}, document : Document]

(* Every table and every call in progress keeps its shape.                 *)
TypeOK ==
    /\ observed \in Seq(Runs)
    /\ retained \in [Runs -> SUBSET Others]
    /\ changed \subseteq Runs \X (Others \cup {None})
    /\ challenged \subseteq Runs \cup {Finding}
    /\ hypotheses \in [Runs -> [Contracts -> HypothesisRow \cup {None}]]
    /\ interpretations \in [Runs -> [Contracts -> Seq(Interpretation)]]
    /\ story \in Seq(Document)
    /\ pending \in [Sessions -> Calls \cup {None}]

Init ==
    /\ observed = <<>>
    /\ retained = [r \in Runs |-> {}]
    /\ changed = {} /\ challenged = {}
    /\ hypotheses = [r \in Runs |-> [c \in Contracts |-> None]]
    /\ interpretations = [r \in Runs |-> [c \in Contracts |-> <<>>]]
    /\ story = <<>>
    /\ pending = [s \in Sessions |-> None]

-----------------------------------------------------------------------------
(* The evidence of a run                                                   *)

Present(r) == Change[r] <= -1
AnchorCurrent(r) == <<r, None>> \notin changed

(* A Fact whose Signal, or whose anchor's Signal, changed is retained but  *)
(* cannot be revalidated.                                                  *)
Usable(r) == IF AnchorCurrent(r) THEN {o \in retained[r] : <<r, o>> \notin changed} ELSE {}

Evidence(r) ==
    [finding |-> observed, facts |-> retained[r], usable |-> Usable(r),
     links |-> challenged \cap {r, Finding}, told |-> story # <<>>,
     origin |-> AnchorCurrent(r) /\ Assessed[Last(observed)] = "FINDING_CREATED"]

(* Synthesis compares what it does not itself change.                      *)
SameSource(e, f) ==
    /\ e.finding = f.finding /\ e.facts = f.facts /\ e.usable = f.usable /\ e.links = f.links

Comparable(facts) == {o \in facts : Temporal[o] = "SAME_COMPARABLE_PERIOD"}

(* HypothesisService.assess: what each contract concludes from the         *)
(* evidence, and which gaps bar support or contradiction.                  *)
Conclusion(c, e) ==
    LET comparable == Comparable(e.usable \cap Qualified)
        matching == comparable \cap Agrees
        independent(S) == {o \in S : Independence[o] = "INDEPENDENT"}
        conflicting == independent(comparable \ Agrees)
    IN CASE c = "INDEPENDENT_CORROBORATION" ->
              IF conflicting # {} THEN "CONTRADICTED"
              ELSE IF independent(matching) # {} THEN "SUPPORTED"
              ELSE IF matching # {} THEN "PLAUSIBLE" ELSE "UNRESOLVED"
         [] c = "SHARED_CORROBORATION" ->
              IF \E o \in matching : Independence[o] \in Shared THEN "SUPPORTED"
              ELSE IF \E o \in matching : Independence[o] = "PARTIALLY_SHARED" THEN "PLAUSIBLE"
              ELSE IF matching # {} /\ independent(matching) = matching THEN "CONTRADICTED"
              ELSE "UNRESOLVED"
         [] OTHER -> "UNRESOLVED"    \* a mechanism's prerequisites are never met

BothBarred(e) ==
    \/ ~e.origin
    \/ e.usable # e.facts
    \/ e.usable = {}
    \/ \E o \in e.usable : Temporal[o] = "INSUFFICIENT_PERIOD_INFORMATION"
SupportBarred(e) ==
    \/ BothBarred(e)
    \/ e.links # {}
    \/ ~(e.usable \subseteq Qualified)
    \/ \E o \in Comparable(e.usable \cap Qualified) \ Agrees : Independence[o] # "INDEPENDENT"

Outcome(c, e) ==
    LET conclusion == Conclusion(c, e)
        barred == \/ conclusion = "SUPPORTED" /\ SupportBarred(e)
                  \/ conclusion = "CONTRADICTED" /\ BothBarred(e)
    IN IF barred \/ ~e.origin THEN "UNRESOLVED" ELSE conclusion

-----------------------------------------------------------------------------
(* What other services commit meanwhile                                    *)

(* CanonicalService.observe: the Finding gains the run's anchor.           *)
Observe(r) ==
    /\ r \notin Range(observed)
    /\ observed' = Append(observed, r)
    /\ UNCHANGED <<retained, changed, challenged, hypotheses, interpretations, story, pending>>

(* CanonicalService.canonicalise of another Signal of the run.             *)
Canonicalise(r, o) ==
    /\ o \notin retained[r]
    /\ retained' = [retained EXCEPT ![r] = @ \cup {o}]
    /\ UNCHANGED <<observed, changed, challenged, hypotheses, interpretations, story, pending>>

(* The owning store revises a Signal after canonicalisation.               *)
ChangeSignal(r, f) ==
    /\ f = None \/ f \in retained[r]
    /\ changed' = changed \cup {<<r, f>>}
    /\ changed' # changed
    /\ UNCHANGED <<observed, retained, challenged, hypotheses, interpretations, story, pending>>

(* EvidenceGraph.link of a contradiction, mitigation or management context.*)
Challenge(endpoint) ==
    /\ endpoint \notin challenged
    /\ endpoint # Finding => endpoint \in Range(observed)
    /\ observed # <<>>
    /\ challenged' = challenged \cup {endpoint}
    /\ UNCHANGED <<observed, retained, changed, hypotheses, interpretations, story, pending>>

-----------------------------------------------------------------------------
Idle(s) == pending[s] = None
Goes(s, call) == pending' = [pending EXCEPT ![s] = call]
Calling(s, op) == pending[s] # None /\ pending[s].op = op

(* HypothesisService.generate in a run whose Finding is eligible: every    *)
(* contract at once; what exists is answered.                              *)
Generate(r) ==
    /\ r \in Range(observed)
    /\ AnchorCurrent(r) /\ Assessed[Last(observed)] = "FINDING_CREATED"
    /\ \E c \in Contracts : hypotheses[r][c] = None
    /\ hypotheses' = [hypotheses EXCEPT ![r] = [c \in Contracts |->
                        IF @[c] = None THEN [revision |-> 1, status |-> "GENERATED"] ELSE @[c]]]
    /\ UNCHANGED <<evidence, interpretations, story, pending>>

(* HypothesisService.assess up to its writes: unchanged evidence is        *)
(* answered with the interpretation it has.                                *)
Assess(s, r, c) ==
    /\ Idle(s)
    /\ hypotheses[r][c] # None
    /\ LET prior == interpretations[r][c]
           e == Evidence(r)
       IN /\ prior # <<>> => Last(prior).evidence # e
          /\ Len(prior) < MaxRevision
          /\ Goes(s, [op |-> "assess", run |-> r, contract |-> c,
                      base |-> hypotheses[r][c].revision,
                      read |-> [evidence |-> e, outcome |-> Outcome(c, e)]])
    /\ UNCHANGED <<evidence, hypotheses, interpretations, story>>

(* A mutant: the last writer wins.                                         *)
StoreInterpretationAnyway(s) ==
    /\ Calling(s, "assess")
    /\ LET call == pending[s]
           r == call.run
           c == call.contract
       IN /\ interpretations' = [interpretations EXCEPT ![r][c] = Append(@, call.read)]
          /\ hypotheses' = [hypotheses EXCEPT ![r][c] =
                              [revision |-> call.base + 1, status |-> call.read.outcome]]
    /\ Goes(s, None)
    /\ UNCHANGED <<evidence, story>>

(* ... and its writes: the revision's primary key, then compare-and-swap   *)
(* on the Hypothesis.                                                      *)
StoreInterpretation(s) ==
    /\ Calling(s, "assess")
    /\ LET call == pending[s]
           r == call.run
           c == call.contract
       IN /\ Len(interpretations[r][c]) + 1 = call.base
          /\ hypotheses[r][c].revision = call.base
          /\ interpretations' = [interpretations EXCEPT ![r][c] = Append(@, call.read)]
          /\ hypotheses' = [hypotheses EXCEPT ![r][c] =
                              [revision |-> call.base + 1, status |-> call.read.outcome]]
    /\ Goes(s, None)
    /\ UNCHANGED <<evidence, story>>

(* StoryService.synthesise up to its links: the Finding's latest run only, *)
(* and every relevant Fact must be revalidated.                            *)
Gather(s, r) ==
    /\ Idle(s)
    /\ observed # <<>> /\ Last(observed) = r
    /\ AnchorCurrent(r) /\ Usable(r) = retained[r]
    /\ Len(story) < MaxRevision
    /\ Goes(s, [op |-> "gather",
                reading |-> [run |-> r, base |-> Len(story), finding |-> observed,
                             facts |-> retained[r], links |-> challenged \cap {r, Finding}]])
    /\ UNCHANGED <<evidence, hypotheses, interpretations, story>>

(* _interpretations: the latest of every Hypothesis of the run.            *)
Latest(r, c) == [run |-> r, contract |-> c, revision |-> Len(interpretations[r][c]),
                 read |-> Last(interpretations[r][c])]
CitedOf(r) == {Latest(r, c) : c \in {k \in Contracts : hypotheses[r][k] # None}}

(* A mutant: interpretations are not compared with the current evidence.   *)
AssessedOnly(r) ==
    \A c \in Contracts : hypotheses[r][c] # None => interpretations[r][c] # <<>>

(* ... each assessed, and on the evidence of this moment.                  *)
AssessedNow(r) ==
    \A c \in Contracts : hypotheses[r][c] # None =>
        /\ interpretations[r][c] # <<>>
        /\ SameSource(Last(interpretations[r][c]).evidence, Evidence(r))

Corroborated(facts) ==
    \E o \in Comparable(facts) \cap Agrees : Independence[o] = "INDEPENDENT"

Valid(reading, cited) ==
    LET r == reading.run IN
    /\ Window[r] # None
    /\ reading.facts \subseteq Qualified
    /\ \A o \in reading.facts : Temporal[o] # "INSUFFICIENT_PERIOD_INFORMATION"
    /\ Comparable(reading.facts) \subseteq Agrees /\ reading.links = {}
    /\ Corroborated(reading.facts)
    /\ IF Present(r)
       THEN /\ Assessed[r] = "FINDING_CREATED"
            /\ \E i \in cited : /\ i.contract = "INDEPENDENT_CORROBORATION"
                                /\ i.read.outcome = "SUPPORTED"
       ELSE Assessed[r] \in {"NOT_SIGNIFICANT", "FINDING_CREATED"}

(* A later run whose period lies after the earlier one's and is as long.   *)
NextPeriod(q, r) ==
    /\ Window[q] # None /\ Window[r] # None /\ q < r
    /\ Window[q].to < Window[r].from
    /\ Window[q].to - Window[q].from = Window[r].to - Window[r].from

(* Status and transition of the next revision after `old`.                 *)
Lifecycle(old, r, valid) ==
    LET q == old.evidence.run
        ordered == q # r /\ NextPeriod(q, r)
        plain == IF valid /\ Present(r) THEN "SUPPORTED" ELSE "INVESTIGATING"
        compared == IF Change[r] = Change[q] THEN "PERSISTENT"
                    ELSE IF Change[r] < Change[q] THEN "WORSENING" ELSE "IMPROVING"
        returns == valid /\ ordered /\ Present(r) /\ old.status = "RESOLVED"
    IN [transition |-> IF returns THEN "REOPENED"
                       ELSE IF q = r THEN "REASSESSMENT"
                       ELSE IF ordered THEN "COMPARABLE_PERIOD" ELSE "NOT_COMPARABLE",
        status |-> IF valid /\ ordered
                   THEN IF ~Present(r) THEN "RESOLVED"
                        ELSE IF returns \/ ~Present(q) \/ old.status = "INVESTIGATING" THEN plain
                        ELSE compared
                   ELSE IF ~Present(r) \/ old.status = "RESOLVED" THEN "INVESTIGATING" ELSE plain]

Composed(reading, found) ==
    LET old == story[reading.base]
        cited == IF found = {} /\ reading.base # 0 THEN old.cited ELSE found
        next == IF reading.base = 0
                THEN [status |-> "SUPPORTED", transition |-> "FIRST_OBSERVATION"]
                ELSE Lifecycle(old, reading.run, Valid(reading, found))
    IN [evidence |-> reading, cited |-> cited, status |-> next.status, transition |-> next.transition]

(* What the fingerprint of a Story covers.                                 *)
Fingerprint(d) == <<d.evidence.run, d.evidence.finding, d.evidence.facts, d.evidence.links, d.cited>>

(* ... its interpretations and its verdict: no first revision without a    *)
(* valid present condition, and unchanged evidence is answered.            *)
Compose(s) ==
    /\ Calling(s, "gather")
    /\ LET reading == pending[s].reading
           found == CitedOf(reading.run)
           document == Composed(reading, found)
       IN /\ AssessedNow(reading.run)
          /\ IF reading.base = 0
             THEN Valid(reading, found) /\ Present(reading.run) /\ found # {}
             ELSE Fingerprint(document) # Fingerprint(story[reading.base])
          /\ Goes(s, [op |-> "write", document |-> document])
    /\ UNCHANGED <<evidence, hypotheses, interpretations, story>>

(* ... and its writes, under compare-and-swap on the Story.                *)
WriteStory(s) ==
    /\ Calling(s, "write")
    /\ pending[s].document.evidence.base = Len(story)
    /\ story' = Append(story, pending[s].document)
    /\ Goes(s, None)
    /\ UNCHANGED <<evidence, hypotheses, interpretations>>

(* A call refused, answered without a write, or rolled back.               *)
Abandon(s) ==
    /\ ~Idle(s)
    /\ Goes(s, None)
    /\ UNCHANGED <<evidence, hypotheses, interpretations, story>>

Next ==
    \/ \E r \in Runs : Observe(r) \/ Generate(r)
    \/ \E r \in Runs, o \in Others : Canonicalise(r, o)
    \/ \E r \in Runs, f \in Others \cup {None} : ChangeSignal(r, f)
    \/ \E p \in Runs \cup {Finding} : Challenge(p)
    \/ \E s \in Sessions :
          \/ \E r \in Runs : Gather(s, r) \/ \E c \in Contracts : Assess(s, r, c)
          \/ StoreInterpretation(s) \/ Compose(s) \/ WriteStory(s) \/ Abandon(s)

Spec == Init /\ [][Next]_vars

-----------------------------------------------------------------------------
(* Whatever sessions raced, a Hypothesis agrees with its latest            *)
(* interpretation, so it stays readable, and no interpretation repeats the *)
(* evidence of the one before (hypothesis history, assess).                *)
HypothesesReadBack ==
    \A r \in Runs, c \in Contracts :
        LET h == hypotheses[r][c]
            past == interpretations[r][c]
        IN /\ h = None => past = <<>>
           /\ h # None => /\ h.revision = Len(past) + 1
                          /\ h.status = IF past = <<>> THEN "GENERATED" ELSE Last(past).outcome
           /\ \A k \in 2 .. Len(past) : past[k].evidence # past[k - 1].evidence

(* A Story is supported only on a supported interpretation of its own run, *)
(* made of at least the Facts the Story retains, and in neither does a     *)
(* comparable Fact disagree (story synthesise, _interpretations).          *)
StoriesAreEarned ==
    \A k \in 1 .. Len(story) : story[k].status \in Earned =>
        LET d == story[k] IN
        /\ Present(d.evidence.run)
        /\ \E i \in d.cited :
              /\ i.run = d.evidence.run
              /\ i.contract = "INDEPENDENT_CORROBORATION" /\ i.read.outcome = "SUPPORTED"
              /\ d.evidence.facts \subseteq i.read.evidence.facts
              /\ Comparable(i.read.evidence.facts) \subseteq Agrees
              /\ i.read.evidence.links = {}

(* Each revision brings new evidence or new interpretations, and its       *)
(* lifecycle follows from the revision before it: the condition is         *)
(* resolved, compared or reopened only by a corroborated                   *)
(* observation of the next comparable period, and what was resolved is     *)
(* supported again only as REOPENED (story synthesise; compare-and-swap).  *)
LifecycleIsEarned ==
    \A k \in 2 .. Len(story) :
        LET old == story[k - 1]
            new == story[k]
            q == old.evidence.run
            r == new.evidence.run
        IN /\ Fingerprint(new) # Fingerprint(old) /\ new.transition # "FIRST_OBSERVATION"
           /\ new.status \in {"RESOLVED", "PERSISTENT", "WORSENING", "IMPROVING"}
                 \/ new.transition = "REOPENED" =>
              /\ Window[q].to < Window[r].from
              /\ Window[q].to - Window[q].from = Window[r].to - Window[r].from
              /\ Corroborated(new.evidence.facts) /\ Comparable(new.evidence.facts) \subseteq Agrees
           /\ new.status = "RESOLVED" => ~Present(r)
           /\ new.status = "WORSENING" => Change[r] < Change[q]
           /\ new.status = "IMPROVING" => Change[r] > Change[q]
           /\ old.status = "RESOLVED" /\ new.status \in Earned => new.transition = "REOPENED"

(* What a Story says of its evidence and of its past is warranted.         *)
StoriesAreWarranted == StoriesAreEarned /\ LifecycleIsEarned
================================================================================
