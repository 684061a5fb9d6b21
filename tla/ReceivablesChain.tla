---------------------------- MODULE ReceivablesChain ----------------------------
(***************************************************************************)
(* One receivables series from its source documents to an adviser's        *)
(* decision: reasoning/receivables, impact, opportunity and priority of    *)
(* one client and run.  Every layer appends numbered revisions and may     *)
(* only build on what the layer below calls current.                       *)
(*                                                                         *)
(* The canonical tables are sets of rows under their unique constraints;   *)
(* the source registry is another store, which commits by itself before    *)
(* the canonical rows are written.  A session's call reads what is         *)
(* committed, then inserts and commits; between the two every other        *)
(* session may commit.  A call that is refused, or whose caller rolls it   *)
(* back, ends without a row (Abandon).                                     *)
(*                                                                         *)
(* A snapshot document stands for its invoices, a review for a collection  *)
(* evidence document.  A snapshot, and an evidence row, is identified by   *)
(* its dataset version, because the version is part of the hashed document.*)
(*                                                                         *)
(* A caller names as expected revision one it has read before: the checks  *)
(* that a session makes between its first read and its insert are one      *)
(* step, because the unique key on the revision refuses the insert when a  *)
(* rival's came between.  Only priorities whose source is an Opportunity   *)
(* are here; Findings are in CanonicalFindings.                            *)
(***************************************************************************)
EXTENDS Integers, Sequences, SequencesExt, FiniteSets, FiniteSetsExt

CONSTANTS
    Sessions,
    Snapshots,     \* receivables documents a producer may supply
    Overdue,       \* [Snapshots -> Nat]: unconstrained overdue balance, 0 if none qualifies
    Horizons,      \* assessment horizons, in days
    Reviews,       \* collection evidence documents
    HorizonOf,     \* [Reviews -> Horizons]
    Capture,       \* [Reviews -> [Snapshots -> Nat]]: high end of the range a review
                   \* supports for the overdue invoices of a snapshot
    Requests,      \* adviser request identities
    Verdicts,
    MaxVersions,   \* bound: versions of one logical dataset
    MaxRevision,   \* bound: revisions of one row
    None

ASSUME ChainAssumption ==
    /\ Overdue \in [Snapshots -> Nat]
    /\ HorizonOf \in [Reviews -> Horizons]
    /\ Capture \in [Reviews -> [Snapshots -> Nat]]
    \* a matched case has the invoice's exposure and receives at most that
    /\ \A r \in Reviews, d \in Snapshots : Capture[r][d] <= Overdue[d]
    /\ MaxVersions \in Nat
    /\ MaxRevision \in Nat

VARIABLES
    ledger,          \* source registry: versions of the series' dataset
    collected,       \* source registry: versions of each Impact's collection dataset
    snapshots,       \* canonical_receivables_snapshot
    qualifications,  \* canonical_impact_qualification, with its impact_source row
    candidates,      \* canonical_opportunity_candidate
    evidence,        \* canonical_collection_evidence
    assessments,     \* canonical_opportunity_assessment
    priorities,      \* canonical_priority_assessment
    decisions,       \* canonical_adviser_decision
    pending,         \* what each session is about to insert
    answered         \* decisions returned to a caller

registry == <<ledger, collected>>
vars == <<ledger, collected, snapshots, qualifications, candidates, evidence,
          assessments, priorities, decisions, pending, answered>>

Revisions == 1 .. MaxRevision
Versions == 1 .. MaxVersions

SnapshotRow == [revision : Revisions, version : Versions]
QualificationRow == [revision : Revisions, source : Versions, edge : Versions]
Candidate == [impact : Revisions, horizon : Horizons]
EvidenceRow == [impact : Revisions, version : Versions]
AssessmentRow == [candidate : Candidate, revision : Revisions, evidence : Versions \cup {0}]
PriorityRow == [candidate : Candidate, revision : Revisions, source : Revisions]
DecisionRow == [candidate : Candidate, revision : Revisions, priority : Revisions,
                request : Requests, choice : Verdicts]

Call(op, Row) == [op : {op}, row : Row]
Calls == [op : {"registered"}, version : Versions, expected : Versions \cup {0}]
         \cup Call("snapshot", SnapshotRow) \cup Call("impact", [revision : Revisions, source : Versions])
         \cup Call("candidate", Candidate) \cup Call("evidence", EvidenceRow)
         \cup Call("assessment", AssessmentRow) \cup Call("priority", PriorityRow)
         \cup Call("decision", DecisionRow)

(* The tables and the calls in progress keep their shape.                  *)
TypeOK ==
    /\ ledger \in Seq(Snapshots)
    /\ collected \in [Revisions -> Seq(Reviews)]
    /\ snapshots \subseteq SnapshotRow
    /\ qualifications \subseteq QualificationRow
    /\ candidates \subseteq Candidate
    /\ evidence \subseteq EvidenceRow
    /\ assessments \subseteq AssessmentRow
    /\ priorities \subseteq PriorityRow
    /\ decisions \subseteq DecisionRow
    /\ pending \in [Sessions -> Calls \cup {None}]
    /\ answered \subseteq DecisionRow

Init ==
    /\ ledger = <<>>
    /\ collected = [i \in Revisions |-> <<>>]
    /\ snapshots = {} /\ qualifications = {} /\ candidates = {} /\ evidence = {}
    /\ assessments = {} /\ priorities = {} /\ decisions = {}
    /\ pending = [s \in Sessions |-> None]
    /\ answered = {}

-----------------------------------------------------------------------------
(* register_dataset_version: a document whose file the latest version      *)
(* already names is that version again.                                    *)
Registered(versions, document) ==
    IF versions # <<>> /\ Last(versions) = document
    THEN versions ELSE Append(versions, document)

(* The newest revision in a table's rows, 0 when there is none.            *)
Latest(rows) == IF rows = {} THEN 0 ELSE Max({r.revision : r \in rows})

Of(rows, c) == {r \in rows : r.candidate = c}
At(rows, n) == CHOOSE r \in rows : r.revision = n

LatestVersion == IF snapshots = {} THEN 0 ELSE At(snapshots, Latest(snapshots)).version

(* A mutant: evidence that repeats an older document is not a change.      *)
ImpactCurrentByContent(i) ==
    /\ i # 0 /\ i = Latest(qualifications)
    /\ LET q == At(qualifications, i)
       IN q.source = q.edge /\ ledger[q.source] = ledger[LatestVersion] /\ Overdue[ledger[q.source]] > 0

(* ImpactService.get: the row and its impact_source edge must agree.       *)
Readable(q) == q.source = q.edge

(* ImpactService.get(current=True) of a qualified Impact.                  *)
ImpactCurrent(i) ==
    /\ i # 0 /\ i = Latest(qualifications)
    /\ LET q == At(qualifications, i)
       IN Readable(q) /\ q.source = LatestVersion /\ Overdue[ledger[q.source]] > 0

(* OpportunityService.get_candidate(current=True).                         *)
CandidateCurrent(c) == c \in candidates /\ ImpactCurrent(c.impact)

Captured(a) ==
    IF a.evidence = 0 THEN 0
    ELSE Capture[collected[a.candidate.impact][a.evidence]]
                [ledger[At(qualifications, a.candidate.impact).source]]

(* OpportunityService.get(current=True) with a qualified Opportunity.      *)
OpportunityCurrent(c, n) ==
    /\ CandidateCurrent(c)
    /\ n # 0 /\ n = Latest(Of(assessments, c))
    /\ Captured(At(Of(assessments, c), n)) > 0

(* PriorityService.get(current=True).                                      *)
PriorityCurrent(c, n) ==
    /\ n # 0 /\ n = Latest(Of(priorities, c))
    /\ OpportunityCurrent(c, At(Of(priorities, c), n).source)

-----------------------------------------------------------------------------
Idle(s) == pending[s] = None
Prepare(s, call) == pending' = [pending EXCEPT ![s] = call]
Inserting(s, op) == pending[s] # None /\ pending[s].op = op
Row(s) == pending[s].row
Return(s) == pending' = [pending EXCEPT ![s] = None]

(* ReceivablesService.ingest_csv: the registry commits the version first,  *)
(* whatever becomes of the canonical rows.                                 *)
RegisterSnapshot(s, document, expected) ==
    /\ Idle(s)
    /\ ledger' = Registered(ledger, document)
    /\ Len(ledger') <= MaxVersions
    /\ Prepare(s, [op |-> "registered", version |-> Len(ledger'), expected |-> expected])
    /\ UNCHANGED <<collected, snapshots, qualifications, candidates, evidence,
                   assessments, priorities, decisions, answered>>

(* ... then a version already held is answered, and a new one must name    *)
(* the latest snapshot as its predecessor.                                 *)
CheckSnapshot(s) ==
    /\ pending[s] # None /\ pending[s].op = "registered"
    /\ LET call == pending[s] IN
       \/ /\ \E r \in snapshots : r.version = call.version
          /\ Return(s)
       \/ /\ \A r \in snapshots : r.version # call.version
          /\ call.expected = LatestVersion
          /\ Latest(snapshots) < MaxRevision
          /\ Prepare(s, [op |-> "snapshot",
                        row |-> [revision |-> Latest(snapshots) + 1, version |-> call.version]])
    /\ UNCHANGED <<registry, snapshots, qualifications, candidates, evidence,
                   assessments, priorities, decisions, answered>>

(* uq_ar_series_revision and the primary key on the snapshot's identity.   *)
InsertSnapshot(s) ==
    /\ Inserting(s, "snapshot")
    /\ \A r \in snapshots : r.revision # Row(s).revision /\ r.version # Row(s).version
    /\ snapshots' = snapshots \cup {Row(s)}
    /\ Return(s)
    /\ UNCHANGED <<registry, qualifications, candidates, evidence, assessments,
                   priorities, decisions, answered>>

(* Mutants: the same evidence again makes a revision; revisions start at 0.*)
AssessImpactAgain(s, expected) ==
    /\ Idle(s)
    /\ snapshots # {}
    /\ expected = Latest(qualifications) /\ expected < MaxRevision
    /\ Prepare(s, [op |-> "impact", row |-> [revision |-> expected + 1, source |-> LatestVersion]])
    /\ UNCHANGED <<registry, snapshots, qualifications, candidates, evidence,
                   assessments, priorities, decisions, answered>>
AssessImpactFromZero(s, expected) ==
    /\ Idle(s)
    /\ snapshots # {}
    /\ expected = Latest(qualifications) /\ expected < MaxRevision
    /\ Prepare(s, [op |-> "impact", row |-> [revision |-> expected, source |-> LatestVersion]])
    /\ UNCHANGED <<registry, snapshots, qualifications, candidates, evidence,
                   assessments, priorities, decisions, answered>>

(* ImpactService.assess up to its savepoint: the previous revision, then   *)
(* the series' latest snapshot.  The same evidence again is answered with  *)
(* the previous revision, and changes nothing.                             *)
AssessImpact(s, expected) ==
    /\ Idle(s)
    /\ snapshots # {}
    /\ expected = Latest(qualifications) /\ expected < MaxRevision
    /\ expected # 0 => LET q == At(qualifications, expected)
                       IN Readable(q) /\ q.source # LatestVersion
    /\ Prepare(s, [op |-> "impact", row |-> [revision |-> expected + 1, source |-> LatestVersion]])
    /\ UNCHANGED <<registry, snapshots, qualifications, candidates, evidence,
                   assessments, priorities, decisions, answered>>

(* ... and inside it: the impact_source row asks for the latest snapshot   *)
(* once more.                                                              *)
InsertImpact(s) ==
    /\ Inserting(s, "impact")
    /\ \A q \in qualifications : q.revision # Row(s).revision
    /\ qualifications' = qualifications \cup
          {[revision |-> Row(s).revision, source |-> Row(s).source, edge |-> LatestVersion]}
    /\ Return(s)
    /\ UNCHANGED <<registry, snapshots, candidates, evidence, assessments,
                   priorities, decisions, answered>>

(* OpportunityService.create_candidate; an existing one is answered.       *)
CreateCandidate(s, c) ==
    /\ Idle(s)
    /\ ImpactCurrent(c.impact)
    /\ c \notin candidates
    /\ Prepare(s, [op |-> "candidate", row |-> c])
    /\ UNCHANGED <<registry, snapshots, qualifications, candidates, evidence,
                   assessments, priorities, decisions, answered>>

InsertCandidate(s) ==
    /\ Inserting(s, "candidate")
    /\ Row(s) \notin candidates
    /\ candidates' = candidates \cup {Row(s)}
    /\ Return(s)
    /\ UNCHANGED <<registry, snapshots, qualifications, evidence, assessments,
                   priorities, decisions, answered>>

(* ingest_evidence: the Impact must be current; the registry commits first.*)
RegisterEvidence(s, i, review) ==
    /\ Idle(s)
    /\ ImpactCurrent(i)
    /\ collected' = [collected EXCEPT ![i] = Registered(@, review)]
    /\ Len(collected'[i]) <= MaxVersions
    /\ Prepare(s, [op |-> "evidence", row |-> [impact |-> i, version |-> Len(collected'[i])]])
    /\ UNCHANGED <<ledger, snapshots, qualifications, candidates, evidence,
                   assessments, priorities, decisions, answered>>

(* ... an evidence row that exists is answered.                            *)
InsertEvidence(s) ==
    /\ Inserting(s, "evidence")
    /\ evidence' = evidence \cup {Row(s)}
    /\ Return(s)
    /\ UNCHANGED <<registry, snapshots, qualifications, candidates, assessments,
                   priorities, decisions, answered>>

(* OpportunityService.qualify: version 0 assesses without evidence.        *)
Qualify(s, c, version, expected) ==
    /\ Idle(s)
    /\ CandidateCurrent(c)
    /\ version # 0 =>
          /\ [impact |-> c.impact, version |-> version] \in evidence
          /\ HorizonOf[collected[c.impact][version]] = c.horizon
    /\ expected = Latest(Of(assessments, c)) /\ expected < MaxRevision
    /\ expected # 0 => At(Of(assessments, c), expected).evidence # version
    /\ Prepare(s, [op |-> "assessment",
                  row |-> [candidate |-> c, revision |-> expected + 1, evidence |-> version]])
    /\ UNCHANGED <<registry, snapshots, qualifications, candidates, evidence,
                   assessments, priorities, decisions, answered>>

InsertAssessment(s) ==
    /\ Inserting(s, "assessment")
    /\ \A a \in Of(assessments, Row(s).candidate) : a.revision # Row(s).revision
    /\ assessments' = assessments \cup {Row(s)}
    /\ Return(s)
    /\ UNCHANGED <<registry, snapshots, qualifications, candidates, evidence,
                   priorities, decisions, answered>>

(* PriorityService.assess of an Opportunity: only a current qualified one  *)
(* has a basis; the same basis is answered with the revision it has.       *)
AssessPriority(s, c, expected) ==
    /\ Idle(s)
    /\ LET n == Latest(Of(assessments, c)) IN
       /\ OpportunityCurrent(c, n)
       /\ expected = Latest(Of(priorities, c)) /\ expected < MaxRevision
       /\ expected # 0 => At(Of(priorities, c), expected).source # n
       /\ Prepare(s, [op |-> "priority",
                     row |-> [candidate |-> c, revision |-> expected + 1, source |-> n]])
    /\ UNCHANGED <<registry, snapshots, qualifications, candidates, evidence,
                   assessments, priorities, decisions, answered>>

InsertPriority(s) ==
    /\ Inserting(s, "priority")
    /\ \A p \in Of(priorities, Row(s).candidate) : p.revision # Row(s).revision
    /\ priorities' = priorities \cup {Row(s)}
    /\ Return(s)
    /\ UNCHANGED <<registry, snapshots, qualifications, candidates, evidence,
                   assessments, decisions, answered>>

(* PriorityService.decide of a request identity not seen before.           *)
Decide(s, c, n, request, choice, expected) ==
    /\ Idle(s)
    /\ \A d \in decisions : d.request # request
    /\ PriorityCurrent(c, n)
    /\ expected = Latest(Of(decisions, c)) /\ expected < MaxRevision
    /\ Prepare(s, [op |-> "decision",
                  row |-> [candidate |-> c, revision |-> expected + 1, priority |-> n,
                           request |-> request, choice |-> choice]])
    /\ UNCHANGED <<registry, snapshots, qualifications, candidates, evidence,
                   assessments, priorities, decisions, answered>>

(* A mutant: no uq_adviser_request.                                        *)
InsertDecisionAnyRequest(s) ==
    /\ Inserting(s, "decision")
    /\ \A d \in Of(decisions, Row(s).candidate) : d.revision # Row(s).revision
    /\ decisions' = decisions \cup {Row(s)}
    /\ answered' = answered \cup {Row(s)}
    /\ Return(s)
    /\ UNCHANGED <<registry, snapshots, qualifications, candidates, evidence,
                   assessments, priorities>>

(* uq_adviser_request and the primary key.                                 *)
InsertDecision(s) ==
    /\ Inserting(s, "decision")
    /\ \A d \in decisions : d.request # Row(s).request
    /\ \A d \in Of(decisions, Row(s).candidate) : d.revision # Row(s).revision
    /\ decisions' = decisions \cup {Row(s)}
    /\ answered' = answered \cup {Row(s)}
    /\ Return(s)
    /\ UNCHANGED <<registry, snapshots, qualifications, candidates, evidence,
                   assessments, priorities>>

(* The same request again: the original decision, even after reassessment; *)
(* the same identity with other content is refused.                        *)
ReplayDecision(s, c, n, request, choice) ==
    /\ Idle(s)
    /\ \E d \in decisions :
          /\ d.request = request
          /\ d.candidate = c /\ d.priority = n /\ d.choice = choice
          /\ answered' = answered \cup {d}
    /\ UNCHANGED <<registry, snapshots, qualifications, candidates, evidence,
                   assessments, priorities, decisions, pending>>

(* A refusal, an integrity error or the caller's rollback.                 *)
Abandon(s) ==
    /\ ~Idle(s)
    /\ Return(s)
    /\ UNCHANGED <<registry, snapshots, qualifications, candidates, evidence,
                   assessments, priorities, decisions, answered>>

Reads(s) ==
    \/ \E d \in Snapshots, n \in 0 .. MaxVersions : RegisterSnapshot(s, d, n)
    \/ CheckSnapshot(s)
    \/ \E n \in 0 .. MaxRevision : AssessImpact(s, n)
    \/ \E c \in Candidate : CreateCandidate(s, c)
    \/ \E i \in Revisions, r \in Reviews : RegisterEvidence(s, i, r)
    \/ \E c \in candidates, v \in 0 .. MaxVersions, n \in 0 .. MaxRevision : Qualify(s, c, v, n)
    \/ \E c \in candidates, n \in 0 .. MaxRevision : AssessPriority(s, c, n)
    \/ \E c \in candidates, p \in Revisions, q \in Requests, k \in Verdicts, n \in 0 .. MaxRevision :
          Decide(s, c, p, q, k, n)

Commits(s) ==
    \/ InsertSnapshot(s) \/ InsertImpact(s) \/ InsertCandidate(s) \/ InsertEvidence(s)
    \/ InsertAssessment(s) \/ InsertPriority(s) \/ InsertDecision(s)
    \/ \E c \in candidates, p \in Revisions, q \in Requests, k \in Verdicts :
          ReplayDecision(s, c, p, q, k)
    \/ Abandon(s)

Next == \E s \in Sessions : Reads(s) \/ Commits(s)
Spec == Init /\ [][Next]_vars

-----------------------------------------------------------------------------
SnapshotRevision(v) == (CHOOSE r \in snapshots : r.version = v).revision

(* A revision rests on later evidence than the one it supersedes, however  *)
(* the sessions race: no Impact assessment falls back to an earlier        *)
(* snapshot, no priority to an earlier Opportunity, and none repeats what  *)
(* its predecessor already said (impact assess, priority assess).          *)
RevisionsAdvance ==
    /\ \A q, r \in qualifications : q.revision < r.revision =>
          SnapshotRevision(q.source) < SnapshotRevision(r.source)
    /\ \A p, r \in priorities : p.candidate = r.candidate /\ p.revision < r.revision =>
          p.source < r.source

(* What was once not current is never current again: evidence that returns *)
(* to an earlier document is a new version, so a priority assessed on the  *)
(* old one does not come back to life (priority get, down to the snapshot).*)
StaleStaysStale ==
    [][\A p \in priorities :
          ~PriorityCurrent(p.candidate, p.revision) => ~PriorityCurrent(p.candidate, p.revision)']_vars

(* A request identity is answered with one decision, whatever is retried,  *)
(* reassessed or raced, and that decision is kept (decide).                *)
RequestsDecideOnce ==
    /\ answered \subseteq decisions
    /\ \A d, e \in decisions : d.request = e.request => d = e

(* A mutant: every assessment of one effect is another value.              *)
TotalOfViews(keys) ==
    LET last(c) == At(Of(assessments, c), Latest(Of(assessments, c)))
        counted == {c \in keys : Captured(last(c)) > 0}
        sum[S \in SUBSET counted] ==
            IF S = {} THEN 0
            ELSE LET c == CHOOSE x \in S : TRUE IN Captured(last(c)) + sum[S \ {c}]
    IN IF \E c \in keys : ~CandidateCurrent(c) \/ Of(assessments, c) = {} THEN None
       ELSE sum[counted]

(* OpportunityService.aggregate over keys, without its blockers' wording.  *)
Total(keys) ==
    LET last(c) == At(Of(assessments, c), Latest(Of(assessments, c)))
        counted == {c \in keys : Captured(last(c)) > 0}
        effect(c) == At(qualifications, c.impact).source
    IN IF \E c \in keys : ~CandidateCurrent(c) \/ Of(assessments, c) = {} THEN None
       ELSE IF counted = {} THEN 0
       ELSE IF Cardinality({c.horizon : c \in counted}) # 1
               \/ Cardinality({effect(c) : c \in counted}) # 1 THEN None
       ELSE Captured(last(CHOOSE c \in counted : TRUE))

(* No set of candidates totals more cash than the latest snapshot shows    *)
(* overdue: stale, overlapping and repeated views of it block the total.   *)
TotalsAreOwed ==
    \A keys \in SUBSET candidates :
       Total(keys) # None /\ keys # {} => Total(keys) <= Overdue[ledger[LatestVersion]]

(* V2_49_RECEIVABLES_QUALIFICATION.md: "Impact qualification retains its   *)
(* own revision, exclusions, source snapshot, required position and audit";*)
(* a revision whose edge names another snapshot than its document retains  *)
(* none: get and assess refuse it ever after (impact assess, get).         *)
RevisionsReadBack == \A q \in qualifications : Readable(q)
=================================================================================
