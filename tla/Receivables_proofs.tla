-------------------------- MODULE Receivables_proofs ---------------------------
(***************************************************************************)
(* Theorems about ReceivablesChain, for any sessions, documents, bounds    *)
(* and requests.  Every table numbers its rows 1, 2, ... because a call    *)
(* inserts the revision after one it has read and the unique key refuses   *)
(* the rest; the inductive invariant adds what a call still knows when it  *)
(* inserts, although any other session may have committed since.           *)
(*                                                                         *)
(* Theorems about ReceivablesEvidence, for any packages, proofs,           *)
(* definitions and readers.  A row keeps what it was derived from; reading *)
(* it derives it again from the documents as they now stand.               *)
(***************************************************************************)
EXTENDS ReceivablesChain, ReceivablesEvidence, SequenceTheorems, WellFoundedInduction, TLAPS

RevisionsOf(rows) == {r.revision : r \in rows}

\* The revisions are 1 .. n, one row each.
Numbered(rows) ==
    /\ \E n \in 0 .. MaxRevision : RevisionsOf(rows) = 1 .. n
    /\ \A q, r \in rows : q.revision = r.revision => q = r

AllNumbered ==
    /\ Numbered(snapshots) /\ Numbered(qualifications)
    /\ \A c \in Candidate :
          /\ Numbered(Of(assessments, c))
          /\ Numbered(Of(priorities, c))
          /\ Numbered(Of(decisions, c))

\* What a row points at exists.
References ==
    /\ \A q, r \in snapshots : q.version = r.version => q = r
    /\ \A r \in snapshots : r.version <= Len(ledger)
    /\ \A q \in qualifications : \E r \in snapshots : r.version = q.source
    /\ \A c \in candidates : c.impact \in RevisionsOf(qualifications)
    /\ \A e \in evidence : e.version <= Len(collected[e.impact])
    /\ \A a \in assessments : /\ a.candidate \in candidates
                              /\ a.evidence <= Len(collected[a.candidate.impact])
    /\ \A p \in priorities : /\ p.candidate \in candidates
                             /\ p.source \in RevisionsOf(Of(assessments, p.candidate))

SnapshotReady(r) == r.version <= Len(ledger) /\ r.revision <= Latest(snapshots) + 1
ImpactReady(q) ==
    /\ q.revision <= Latest(qualifications) + 1
    /\ \E r \in snapshots : r.version = q.source
    /\ \A p \in qualifications : p.revision < q.revision =>
          SnapshotRevision(p.source) < SnapshotRevision(q.source)
CandidateReady(c) == c.impact \in RevisionsOf(qualifications)
EvidenceReady(e) == e.version <= Len(collected[e.impact])
AssessmentReady(a) ==
    /\ a.candidate \in candidates
    /\ a.evidence <= Len(collected[a.candidate.impact])
    /\ a.revision <= Latest(Of(assessments, a.candidate)) + 1
PriorityReady(p) ==
    /\ p.candidate \in candidates
    /\ p.revision <= Latest(Of(priorities, p.candidate)) + 1
    /\ p.source \in RevisionsOf(Of(assessments, p.candidate))
    /\ \A q \in Of(priorities, p.candidate) : q.revision < p.revision => q.source < p.source
DecisionReady(d) == d.revision <= Latest(Of(decisions, d.candidate)) + 1

\* What a call knows when it inserts.
Ready(call) ==
    /\ call.op = "registered" => call.version <= Len(ledger)
    /\ call.op = "snapshot" => SnapshotReady(call.row)
    /\ call.op = "impact" => ImpactReady(call.row)
    /\ call.op = "candidate" => CandidateReady(call.row)
    /\ call.op = "evidence" => EvidenceReady(call.row)
    /\ call.op = "assessment" => AssessmentReady(call.row)
    /\ call.op = "priority" => PriorityReady(call.row)
    /\ call.op = "decision" => DecisionReady(call.row)

AllReady == \A s \in Sessions, x \in Calls : pending[s] # None /\ pending[s] = x => Ready(x)

Inv ==
    /\ TypeOK
    /\ AllNumbered
    /\ References
    /\ AllReady
    /\ RevisionsAdvance
    /\ RequestsDecideOnce

-------------------------------------------------------------------------------
(* Lemmas about numbered rows *)

\* The greatest of 1 .. n.
LEMMA MaxOfRange ==
    ASSUME NEW n \in Nat \ {0} PROVE Max(1 .. n) = n
<1>1. n \in 1 .. n /\ \A y \in 1 .. n : n >= y
    OBVIOUS
<1>2. \A x \in 1 .. n : (\A y \in 1 .. n : x >= y) => x = n
    OBVIOUS
<1> QED  BY <1>1, <1>2 DEF Max

\* Latest is the number of rows, and each number up to it has its row.
LEMMA LatestOf ==
    ASSUME NEW rows, Numbered(rows)
    PROVE  /\ Latest(rows) \in 0 .. MaxRevision
           /\ RevisionsOf(rows) = 1 .. Latest(rows)
           /\ \A k \in 1 .. Latest(rows) : At(rows, k) \in rows /\ At(rows, k).revision = k
           /\ \A r \in rows : r.revision \in 1 .. Latest(rows) /\ At(rows, r.revision) = r
<1> USE ChainAssumption
<1>1. PICK n \in 0 .. MaxRevision : RevisionsOf(rows) = 1 .. n
    BY DEF Numbered
<1>2. Latest(rows) = n
    <2>1. CASE n = 0
        <3>1. ASSUME NEW r \in rows PROVE FALSE
            <4>1. r.revision \in 1 .. n
                BY <1>1 DEF RevisionsOf
            <4> QED  BY <2>1, <4>1
        <3> QED  BY <3>1, <2>1 DEF Latest
    <2>2. CASE n # 0
        <3>1. rows # {}
            <4>1. 1 \in RevisionsOf(rows)
                BY <1>1, <2>2
            <4> QED  BY <4>1 DEF RevisionsOf
        <3>2. {r.revision : r \in rows} = 1 .. n /\ n \in Nat \ {0}
            BY <1>1, <2>2 DEF RevisionsOf
        <3> QED  BY <3>1, <3>2, MaxOfRange DEF Latest
    <2> QED  BY <2>1, <2>2
<1>3. \A k \in 1 .. n : \E r \in rows : r.revision = k
    BY <1>1 DEF RevisionsOf
<1>4. \A r \in rows : r.revision \in 1 .. n
    BY <1>1 DEF RevisionsOf
<1>5. \A k \in 1 .. n : At(rows, k) \in rows /\ At(rows, k).revision = k
    BY <1>3 DEF At
<1>6. \A r \in rows : At(rows, r.revision) = r
    <2> SUFFICES ASSUME NEW r \in rows PROVE At(rows, r.revision) = r
        OBVIOUS
    <2>1. At(rows, r.revision) \in rows /\ At(rows, r.revision).revision = r.revision
        BY <1>4, <1>5
    <2> QED  BY <2>1 DEF Numbered
<1> QED  BY <1>1, <1>2, <1>4, <1>5, <1>6

\* A row inserted at a revision nobody holds, no further than the next one,
\* is the next one.
LEMMA Insertion ==
    ASSUME NEW rows, Numbered(rows), NEW row, row.revision \in Revisions,
           row.revision <= Latest(rows) + 1, \A r \in rows : r.revision # row.revision
    PROVE  /\ Numbered(rows \cup {row})
           /\ row.revision = Latest(rows) + 1
           /\ Latest(rows \cup {row}) = Latest(rows) + 1
<1> USE ChainAssumption
<1> DEFINE n == Latest(rows)
           more == rows \cup {row}
<1>1. n \in 0 .. MaxRevision /\ RevisionsOf(rows) = 1 .. n
    BY LatestOf
<1>2. row.revision \notin 1 .. n
    BY <1>1 DEF RevisionsOf
<1>3. row.revision = n + 1
    BY <1>1, <1>2 DEF Revisions
<1>4. RevisionsOf(more) = RevisionsOf(rows) \cup {row.revision}
    BY DEF RevisionsOf
<1>5. RevisionsOf(more) = 1 .. n + 1 /\ n + 1 \in 0 .. MaxRevision
    <2>1. (1 .. n) \cup {n + 1} = 1 .. n + 1
        BY <1>1
    <2>2. RevisionsOf(more) = (1 .. n) \cup {n + 1}
        BY <1>1, <1>3, <1>4
    <2>3. n + 1 \in 0 .. MaxRevision
        BY <1>1, <1>3 DEF Revisions
    <2> QED  BY <2>1, <2>2, <2>3
<1>6. Numbered(more)
    BY <1>5 DEF Numbered
<1>7. Latest(more) = n + 1
    <2>1. RevisionsOf(more) = 1 .. Latest(more) /\ Latest(more) \in 0 .. MaxRevision
        BY <1>6, LatestOf
    <2>2. ASSUME NEW k \in Nat, NEW l \in Nat, 1 .. k = 1 .. l PROVE k = l
        <3>1. k \in 1 .. k \/ k = 0
            OBVIOUS
        <3>2. l \in 1 .. l \/ l = 0
            OBVIOUS
        <3>3. k \in 1 .. k => k \in 1 .. l
            BY <2>2, Zenon
        <3>4. l \in 1 .. l => l \in 1 .. k
            BY <2>2, Zenon
        <3> QED  BY <3>1, <3>2, <3>3, <3>4
    <2>3. n + 1 \in Nat /\ Latest(more) \in Nat
        BY <1>1, <2>1
    <2> QED  BY <1>5, <2>1, <2>2, <2>3
<1> QED  BY <1>3, <1>6, <1>7

\* An insertion reaches one candidate's rows.
LEMMA OfInsertion ==
    ASSUME NEW rows, NEW row, NEW c
    PROVE  Of(rows \cup {row}, c) = IF row.candidate = c THEN Of(rows, c) \cup {row}
                                    ELSE Of(rows, c)
BY DEF Of

\* A version that a snapshot holds has one revision.
LEMMA SnapshotRevisionOf ==
    ASSUME References, NEW r \in snapshots
    PROVE  SnapshotRevision(r.version) = r.revision
BY DEF References, SnapshotRevision

-------------------------------------------------------------------------------
(* Steps *)

\* A session's own call changes, and what the other calls know still holds.
LEMMA Calling ==
    ASSUME Inv, NEW s \in Sessions, NEW call \in Calls \cup {None},
           Prepare(s, call), call # None => Ready(call)',
           \A x \in Calls : Ready(x) => Ready(x)'
    PROVE  AllReady' /\ pending' \in [Sessions -> Calls \cup {None}]
<1>1. pending \in [Sessions -> Calls \cup {None}] /\ pending' = [pending EXCEPT ![s] = call]
    BY DEF Inv, TypeOK, Prepare
<1>2. pending' \in [Sessions -> Calls \cup {None}]
    BY <1>1
<1>3. ASSUME NEW t \in Sessions, NEW x \in Calls, pending'[t] # None, pending'[t] = x
      PROVE  Ready(x)'
    <2>1. CASE t = s
        <3>1. call = x /\ call # None
            BY <1>1, <1>3, <2>1
        <3> QED  BY <3>1
    <2>2. CASE t # s
        <3>1. pending[t] = x /\ pending[t] # None
            BY <1>1, <1>3, <2>2
        <3>2. Ready(x)
            BY <3>1 DEF Inv, AllReady
        <3> QED  BY <3>2
    <2> QED  BY <2>1, <2>2
<1> QED  BY <1>2, <1>3 DEF AllReady

\* Only the session's call changes.
LEMMA Prepares ==
    ASSUME Inv, NEW s \in Sessions, NEW call \in Calls \cup {None},
           Prepare(s, call), call # None => Ready(call),
           UNCHANGED <<registry, snapshots, qualifications, candidates, evidence,
                       assessments, priorities, decisions>>,
           answered' \subseteq decisions
    PROVE  Inv'
<1> USE DEF registry
<1>1. \A x : Ready(x) <=> Ready(x)'
    BY DEF Ready, SnapshotReady, ImpactReady, CandidateReady, EvidenceReady, AssessmentReady,
           PriorityReady, DecisionReady, SnapshotRevision
<1>2. AllReady' /\ pending' \in [Sessions -> Calls \cup {None}]
    BY <1>1, Calling
<1>3. TypeOK'
    BY <1>2 DEF Inv, TypeOK
<1>4. AllNumbered' /\ References'
    BY DEF Inv, AllNumbered, References
<1>5. RevisionsAdvance' /\ RequestsDecideOnce'
    BY DEF Inv, RevisionsAdvance, RequestsDecideOnce, SnapshotRevision
<1> QED  BY <1>2, <1>3, <1>4, <1>5 DEF Inv

\* A call ends.
LEMMA ReturnInv ==
    ASSUME Inv, NEW s \in Sessions, Return(s),
           UNCHANGED <<registry, snapshots, qualifications, candidates, evidence,
                       assessments, priorities, decisions>>,
           answered' \subseteq decisions
    PROVE  Inv'
BY Prepares DEF Return, Prepare

\* A registration appends one version or none.
LEMMA RegisteredOf ==
    ASSUME NEW D, NEW versions \in Seq(D), NEW d \in D
    PROVE  /\ Registered(versions, d) \in Seq(D)
           /\ Len(Registered(versions, d)) \in Nat \ {0}
           /\ Len(versions) <= Len(Registered(versions, d))
           /\ \A i \in 1 .. Len(versions) : Registered(versions, d)[i] = versions[i]
<1>1. CASE versions # <<>> /\ Last(versions) = d
    <2>1. Len(versions) # 0
        BY <1>1
    <2> QED  BY <1>1, <2>1 DEF Registered
<1>2. CASE ~(versions # <<>> /\ Last(versions) = d)
    BY <1>2, AppendProperties DEF Registered
<1> QED  BY <1>1, <1>2

LEMMA RegisterSnapshotInv ==
    ASSUME Inv, NEW s \in Sessions, NEW d \in Snapshots, NEW n \in 0 .. MaxVersions,
           RegisterSnapshot(s, d, n)
    PROVE  Inv'
<1>1. ledger \in Seq(Snapshots)
    BY DEF Inv, TypeOK
<1>2. /\ ledger' \in Seq(Snapshots) /\ Len(ledger') \in Versions
      /\ Len(ledger) <= Len(ledger') /\ Len(ledger) \in Nat
    <2>1. ledger' = Registered(ledger, d) /\ Len(ledger') <= MaxVersions
        BY DEF RegisterSnapshot
    <2>2. /\ Registered(ledger, d) \in Seq(Snapshots)
          /\ Len(Registered(ledger, d)) \in Nat \ {0}
          /\ Len(ledger) <= Len(Registered(ledger, d))
        BY <1>1, RegisteredOf
    <2> QED  BY <1>1, <2>1, <2>2, ChainAssumption DEF Versions
<1>3. PICK call \in Calls : /\ call = [op |-> "registered", version |-> Len(ledger'), expected |-> n]
                            /\ Prepare(s, call)
    <2>1. n \in Versions \cup {0}
        BY ChainAssumption DEF Versions
    <2>2. [op |-> "registered", version |-> Len(ledger'), expected |-> n] \in Calls
        BY <1>2, <2>1 DEF Calls
    <2> QED  BY <2>2 DEF RegisterSnapshot
<1>4. ASSUME NEW x \in Calls, Ready(x) PROVE Ready(x)'
    <2>1. x.op = "registered" => x.version <= Len(ledger') /\ x.version \in Nat
        <3>1. x.op = "registered" => x.version \in Versions
            BY DEF Calls, Call
        <3> QED  BY <1>2, <1>4, <3>1, ChainAssumption DEF Ready, Versions
    <2>2. x.op = "snapshot" => SnapshotReady(x.row)'
        <3>1. x.op = "snapshot" => x.row.version \in Versions
            BY DEF Calls, Call, SnapshotRow
        <3> QED  BY <1>2, <1>4, <3>1, ChainAssumption
                 DEF RegisterSnapshot, Ready, SnapshotReady, Versions
    <2> QED
        BY <1>4, <2>1, <2>2
        DEF RegisterSnapshot, Ready, ImpactReady, CandidateReady, EvidenceReady,
            AssessmentReady, PriorityReady, DecisionReady, SnapshotRevision
<1>5. Ready(call)'
    BY <1>2, <1>3, ChainAssumption DEF Ready, Versions
<1>6. AllReady' /\ pending' \in [Sessions -> Calls \cup {None}]
    BY <1>3, <1>4, <1>5, Calling
<1>7. TypeOK'
    BY <1>2, <1>6 DEF Inv, TypeOK, RegisterSnapshot
<1>8. AllNumbered' /\ RevisionsAdvance' /\ RequestsDecideOnce'
    BY DEF Inv, AllNumbered, RevisionsAdvance, RequestsDecideOnce, SnapshotRevision, RegisterSnapshot
<1>9. References'
    <2>1. \A r \in snapshots : r.version \in Nat
        BY ChainAssumption DEF Inv, TypeOK, SnapshotRow, Versions
    <2>2. \A r \in snapshots : r.version <= Len(ledger')
        BY <1>2, <2>1 DEF Inv, References
    <2> QED  BY <2>2 DEF Inv, References, RegisterSnapshot
<1> QED  BY <1>6, <1>7, <1>8, <1>9 DEF Inv

LEMMA CheckSnapshotInv ==
    ASSUME Inv, NEW s \in Sessions, CheckSnapshot(s) PROVE Inv'
<1> USE ChainAssumption
<1>1. UNCHANGED <<registry, snapshots, qualifications, candidates, evidence,
                  assessments, priorities, decisions, answered>>
    BY DEF CheckSnapshot
<1>2. CASE Return(s)
    BY <1>1, <1>2, ReturnInv DEF Inv, RequestsDecideOnce
<1>3. CASE /\ Latest(snapshots) < MaxRevision
           /\ Prepare(s, [op |-> "snapshot", row |-> [revision |-> Latest(snapshots) + 1,
                                                     version |-> pending[s].version]])
    <2> DEFINE r == [revision |-> Latest(snapshots) + 1, version |-> pending[s].version]
               call == [op |-> "snapshot", row |-> r]
    <2>1. pending[s] \in Calls /\ pending[s].op = "registered" /\ Ready(pending[s])
        BY DEF CheckSnapshot, Inv, TypeOK, AllReady
    <2>2. pending[s].version \in Versions /\ pending[s].version <= Len(ledger)
        BY <2>1 DEF Calls, Call, Ready
    <2>3. Latest(snapshots) \in 0 .. MaxRevision
        BY LatestOf DEF Inv, AllNumbered
    <2>4. r \in SnapshotRow
        BY <1>3, <2>2, <2>3 DEF SnapshotRow, Revisions
    <2>5. SnapshotReady(r)
        BY <2>2, <2>3 DEF SnapshotReady
    <2>6. call \in Calls /\ Ready(call)
        BY <2>4, <2>5 DEF Calls, Call, Ready
    <2>7. Prepare(s, call)
        BY <1>3
    <2> HIDE DEF call
    <2> QED  BY <1>1, <2>6, <2>7, Prepares DEF Inv, RequestsDecideOnce
<1> QED  BY <1>2, <1>3 DEF CheckSnapshot

\* The latest snapshot is one of them.
LEMMA LatestVersionOf ==
    ASSUME Inv, snapshots # {}
    PROVE  \E r \in snapshots :
              /\ r.version = LatestVersion /\ r.revision = Latest(snapshots)
              /\ \A q \in snapshots : q.revision <= r.revision
<1> USE ChainAssumption
<1>1. Numbered(snapshots)
    BY DEF Inv, AllNumbered
<1>2. /\ \A k \in 1 .. Latest(snapshots) :
            At(snapshots, k) \in snapshots /\ At(snapshots, k).revision = k
      /\ \A r \in snapshots : r.revision \in 1 .. Latest(snapshots)
      /\ Latest(snapshots) \in 0 .. MaxRevision
    BY <1>1, LatestOf
<1>3. Latest(snapshots) \in 1 .. Latest(snapshots)
    BY <1>2
<1> QED  BY <1>2, <1>3 DEF LatestVersion

\* A new assessment rests on a later snapshot than every earlier one.
LEMMA AssessImpactInv ==
    ASSUME Inv, NEW s \in Sessions, NEW n \in 0 .. MaxRevision, AssessImpact(s, n) PROVE Inv'
<1> USE ChainAssumption
<1> DEFINE q == [revision |-> n + 1, source |-> LatestVersion]
           call == [op |-> "impact", row |-> q]
<1>1. snapshots \subseteq SnapshotRow /\ qualifications \subseteq QualificationRow
    BY DEF Inv, TypeOK
<1>2. PICK r \in snapshots : /\ r.version = LatestVersion /\ r.revision = Latest(snapshots)
                             /\ \A x \in snapshots : x.revision <= r.revision
    BY LatestVersionOf DEF AssessImpact
<1>3. q \in [revision : Revisions, source : Versions]
    BY <1>1, <1>2 DEF AssessImpact, SnapshotRow, Revisions
<1>4. call \in Calls
    BY <1>3 DEF Calls, Call
<1>5. n = Latest(qualifications)
    BY DEF AssessImpact
<1>6. ASSUME NEW p \in qualifications, p.revision < n + 1
      PROVE  SnapshotRevision(p.source) < SnapshotRevision(LatestVersion)
    <2>1. /\ p.revision \in 1 .. n
          /\ At(qualifications, n) \in qualifications /\ At(qualifications, n).revision = n
          /\ At(qualifications, p.revision) = p
        BY <1>5, LatestOf DEF Inv, AllNumbered
    <2>2. At(qualifications, n).source # LatestVersion
        BY <2>1 DEF AssessImpact
    <2>3. PICK x \in snapshots : x.version = p.source
        BY DEF Inv, References
    <2>4. PICK y \in snapshots : y.version = At(qualifications, n).source
        BY <2>1 DEF Inv, References
    <2>5. /\ SnapshotRevision(p.source) = x.revision
          /\ SnapshotRevision(At(qualifications, n).source) = y.revision
          /\ SnapshotRevision(LatestVersion) = r.revision
        BY <1>2, <2>3, <2>4, SnapshotRevisionOf DEF Inv
    <2>6. y.revision < r.revision
        <3>1. y # r
            BY <1>2, <2>2, <2>4
        <3>2. y.revision # r.revision
            BY <3>1 DEF Inv, AllNumbered, Numbered
        <3>3. y.revision \in Nat /\ r.revision \in Nat
            BY <1>1 DEF SnapshotRow, Revisions
        <3>4. y.revision <= r.revision
            BY <1>2
        <3>5. \A i, j \in Nat : i <= j /\ i # j => i < j
            OBVIOUS
        <3> QED  BY <3>2, <3>3, <3>4, <3>5, Zenon
    <2>7. CASE p.revision = n
        BY <2>1, <2>5, <2>6, <2>7
    <2>8. CASE p.revision < n
        <3>1. x.revision < y.revision
            BY <2>1, <2>5, <2>8 DEF Inv, RevisionsAdvance
        <3>2. x.revision \in Nat /\ y.revision \in Nat /\ r.revision \in Nat
            BY <1>1 DEF SnapshotRow, Revisions
        <3>3. x.revision < r.revision
            BY <2>6, <3>1, <3>2
        <3> QED  BY <2>5, <3>3, Zenon
    <2>9. p.revision = n \/ p.revision < n
        <3>1. \A k \in 1 .. n : k = n \/ k < n
            OBVIOUS
        <3> QED  BY <2>1, <3>1, Zenon
    <2> QED  BY <2>7, <2>8, <2>9, Zenon
<1>7. ImpactReady(q)
    BY <1>2, <1>5, <1>6 DEF ImpactReady
<1>8. Ready(call)
    BY <1>7 DEF Ready
<1>9. Prepare(s, call)
    BY DEF AssessImpact
<1> HIDE DEF call
<1> QED  BY <1>4, <1>8, <1>9, Prepares DEF AssessImpact, Inv, RequestsDecideOnce

\* An Impact that is current is the latest one.
LEMMA CurrentImpactExists ==
    ASSUME Inv, NEW i, ImpactCurrent(i)
    PROVE  /\ i \in RevisionsOf(qualifications)
           /\ i \in Revisions
           /\ At(qualifications, i) \in qualifications
           /\ At(qualifications, i).source = LatestVersion
<1>1. Numbered(qualifications)
    BY DEF Inv, AllNumbered
<1>2. /\ Latest(qualifications) \in 0 .. MaxRevision
      /\ RevisionsOf(qualifications) = 1 .. Latest(qualifications)
      /\ \A k \in 1 .. Latest(qualifications) : At(qualifications, k) \in qualifications
    BY <1>1, LatestOf
<1>3. i = Latest(qualifications) /\ i # 0 /\ At(qualifications, i).source = LatestVersion
    BY DEF ImpactCurrent
<1>4. i \in 1 .. Latest(qualifications) /\ i \in Revisions
    BY <1>2, <1>3, ChainAssumption DEF Revisions
<1> QED  BY <1>2, <1>3, <1>4

LEMMA CreateCandidateInv ==
    ASSUME Inv, NEW s \in Sessions, NEW c \in Candidate, CreateCandidate(s, c) PROVE Inv'
<1> DEFINE call == [op |-> "candidate", row |-> c]
<1>1. CandidateReady(c)
    BY CurrentImpactExists DEF CreateCandidate, CandidateReady
<1>2. call \in Calls /\ Ready(call)
    BY <1>1 DEF Calls, Call, Ready
<1>3. Prepare(s, call)
    BY DEF CreateCandidate
<1> HIDE DEF call
<1> QED  BY <1>2, <1>3, Prepares DEF CreateCandidate, Inv, RequestsDecideOnce

LEMMA QualifyInv ==
    ASSUME Inv, NEW s \in Sessions, NEW c \in candidates,
           NEW v \in 0 .. MaxVersions, NEW n \in 0 .. MaxRevision, Qualify(s, c, v, n)
    PROVE  Inv'
<1> USE ChainAssumption
<1> DEFINE a == [candidate |-> c, revision |-> n + 1, evidence |-> v]
           call == [op |-> "assessment", row |-> a]
<1>1. c \in Candidate /\ n + 1 \in Revisions /\ n = Latest(Of(assessments, c))
    BY DEF Inv, TypeOK, Qualify, Revisions
<1>2. v \in Versions \cup {0}
    BY DEF Versions
<1>3. a \in AssessmentRow
    BY <1>1, <1>2 DEF AssessmentRow
<1>4. v <= Len(collected[c.impact])
    <2>1. CASE v = 0
        <3>1. collected[c.impact] \in Seq(Reviews)
            BY <1>1 DEF Inv, TypeOK, Candidate
        <3> QED  BY <2>1, <3>1
    <2>2. CASE v # 0
        <3>1. [impact |-> c.impact, version |-> v] \in evidence
            BY <2>2 DEF Qualify
        <3> QED  BY <3>1 DEF Inv, References
    <2> QED  BY <2>1, <2>2
<1>5. AssessmentReady(a)
    BY <1>1, <1>4 DEF AssessmentReady
<1>6. call \in Calls /\ Ready(call)
    BY <1>3, <1>5 DEF Calls, Call, Ready
<1>7. Prepare(s, call)
    BY DEF Qualify
<1> HIDE DEF call
<1> QED  BY <1>6, <1>7, Prepares DEF Qualify, Inv, RequestsDecideOnce

\* A new priority rests on a later Opportunity than every earlier one.
LEMMA AssessPriorityInv ==
    ASSUME Inv, NEW s \in Sessions, NEW c \in candidates, NEW n \in 0 .. MaxRevision,
           AssessPriority(s, c, n)
    PROVE  Inv'
<1> USE ChainAssumption
<1> DEFINE m == Latest(Of(assessments, c))
           prior == At(Of(priorities, c), n)
           p == [candidate |-> c, revision |-> n + 1, source |-> m]
           call == [op |-> "priority", row |-> p]
<1>1. c \in Candidate /\ n + 1 \in Revisions /\ n = Latest(Of(priorities, c))
    BY DEF Inv, TypeOK, AssessPriority, Revisions
<1>2. m # 0 /\ (n # 0 => prior.source # m)
    BY DEF AssessPriority, OpportunityCurrent
<1>3. Numbered(Of(assessments, c)) /\ Numbered(Of(priorities, c))
    BY <1>1 DEF Inv, AllNumbered
<1>4. /\ m \in 0 .. MaxRevision /\ RevisionsOf(Of(assessments, c)) = 1 .. m
      /\ m \in Revisions /\ m \in RevisionsOf(Of(assessments, c))
    <2>1. m \in 0 .. MaxRevision /\ RevisionsOf(Of(assessments, c)) = 1 .. m
        BY <1>3, LatestOf
    <2>2. m \in Revisions /\ m \in 1 .. m
        BY <1>2, <2>1 DEF Revisions
    <2> QED  BY <2>1, <2>2
<1>5. p \in PriorityRow
    BY <1>1, <1>4 DEF PriorityRow
<1>6. ASSUME NEW q \in Of(priorities, c), q.revision < n + 1 PROVE q.source < m
    <2>1. /\ q.revision \in 1 .. n /\ prior \in Of(priorities, c) /\ prior.revision = n
          /\ At(Of(priorities, c), q.revision) = q
        BY <1>1, <1>3, LatestOf
    <2>2. /\ q \in priorities /\ q.candidate = c
          /\ prior \in priorities /\ prior.candidate = c
        BY <2>1 DEF Of
    <2>3. q.source \in 1 .. m /\ prior.source \in 1 .. m
        <3>1. /\ q.source \in RevisionsOf(Of(assessments, c))
              /\ prior.source \in RevisionsOf(Of(assessments, c))
            BY <2>2 DEF Inv, References
        <3> QED  BY <1>4, <3>1
    <2>4. prior.source < m
        BY <1>2, <1>4, <2>1, <2>3
    <2>5. CASE q.revision = n
        BY <2>1, <2>4, <2>5
    <2>6. CASE q.revision < n
        <3>1. q.source < prior.source
            BY <2>1, <2>2, <2>6 DEF Inv, RevisionsAdvance
        <3> QED  BY <2>3, <2>4, <3>1, <1>4
    <2>7. q.revision = n \/ q.revision < n
        <3>1. \A k \in 1 .. n : k = n \/ k < n
            OBVIOUS
        <3> QED  BY <2>1, <3>1, Zenon
    <2> QED  BY <2>5, <2>6, <2>7, Zenon
<1>7. PriorityReady(p)
    <2> HIDE DEF m
    <2> QED  BY <1>1, <1>4, <1>6 DEF PriorityReady
<1>8. call \in Calls /\ Ready(call)
    BY <1>5, <1>7 DEF Calls, Call, Ready
<1>9. Prepare(s, call)
    BY DEF AssessPriority
<1> HIDE DEF call
<1> QED  BY <1>8, <1>9, Prepares DEF AssessPriority, Inv, RequestsDecideOnce

LEMMA DecideInv ==
    ASSUME Inv, NEW s \in Sessions, NEW c \in candidates, NEW p \in Revisions,
           NEW q \in Requests, NEW k \in Verdicts, NEW n \in 0 .. MaxRevision,
           Decide(s, c, p, q, k, n)
    PROVE  Inv'
<1> USE ChainAssumption
<1> DEFINE d == [candidate |-> c, revision |-> n + 1, priority |-> p, request |-> q, choice |-> k]
           call == [op |-> "decision", row |-> d]
<1>1. c \in Candidate /\ n + 1 \in Revisions /\ n = Latest(Of(decisions, c))
    BY DEF Inv, TypeOK, Decide, Revisions
<1>2. d \in DecisionRow /\ DecisionReady(d)
    BY <1>1 DEF DecisionRow, DecisionReady
<1>3. call \in Calls /\ Ready(call)
    BY <1>2 DEF Calls, Call, Ready
<1>4. Prepare(s, call)
    BY DEF Decide
<1> HIDE DEF call
<1> QED  BY <1>3, <1>4, Prepares DEF Decide, Inv, RequestsDecideOnce

\* A decision is returned again, or a call ends without a row.
LEMMA AnsweredInv ==
    ASSUME Inv, NEW s \in Sessions,
           Abandon(s) \/ \E c \in candidates, p \in Revisions, q \in Requests, k \in Verdicts :
                            ReplayDecision(s, c, p, q, k)
    PROVE  Inv'
<1>1. CASE Abandon(s)
    BY <1>1, ReturnInv DEF Abandon, Inv, RequestsDecideOnce
<1>2. ASSUME NEW c \in candidates, NEW p \in Revisions, NEW q \in Requests, NEW k \in Verdicts,
             ReplayDecision(s, c, p, q, k)
      PROVE  Inv'
    <2>1. answered' \subseteq decisions
        BY <1>2 DEF ReplayDecision, Inv, RequestsDecideOnce
    <2>2. /\ pending[s] \in Calls \cup {None}
          /\ Prepare(s, pending[s]) /\ pending[s] = None
        BY <1>2 DEF ReplayDecision, Idle, Prepare, Inv, TypeOK
    <2> QED  BY <1>2, <2>1, <2>2, Prepares DEF ReplayDecision
<1> QED  BY <1>1, <1>2

LEMMA RegisterEvidenceInv ==
    ASSUME Inv, NEW s \in Sessions, NEW i \in Revisions, NEW r \in Reviews,
           RegisterEvidence(s, i, r)
    PROVE  Inv'
<1>1. collected \in [Revisions -> Seq(Reviews)]
    BY DEF Inv, TypeOK
<1>2. /\ collected' \in [Revisions -> Seq(Reviews)]
      /\ Len(collected'[i]) \in Versions
      /\ \A j \in Revisions : /\ Len(collected[j]) \in Nat /\ Len(collected'[j]) \in Nat
                              /\ Len(collected[j]) <= Len(collected'[j])
    <2>1. /\ Registered(collected[i], r) \in Seq(Reviews)
          /\ Len(Registered(collected[i], r)) \in Nat \ {0}
          /\ Len(collected[i]) <= Len(Registered(collected[i], r))
        BY <1>1, RegisteredOf
    <2>2. /\ collected' = [collected EXCEPT ![i] = Registered(@, r)]
          /\ Len(collected'[i]) <= MaxVersions
        BY DEF RegisterEvidence
    <2>3. /\ collected' \in [Revisions -> Seq(Reviews)]
          /\ collected'[i] = Registered(collected[i], r)
          /\ \A j \in Revisions : j # i => collected'[j] = collected[j]
        BY <1>1, <2>1, <2>2
    <2>4. Len(collected'[i]) \in Versions
        BY <2>1, <2>2, <2>3, ChainAssumption DEF Versions
    <2>5. ASSUME NEW j \in Revisions
          PROVE  /\ Len(collected[j]) \in Nat /\ Len(collected'[j]) \in Nat
                 /\ Len(collected[j]) <= Len(collected'[j])
        <3>1. Len(collected[j]) \in Nat /\ Len(collected'[j]) \in Nat
            BY <1>1, <2>3
        <3>2. CASE j = i
            BY <2>1, <2>3, <3>1, <3>2
        <3>3. CASE j # i
            BY <2>3, <3>1, <3>3
        <3> QED  BY <3>2, <3>3
    <2> QED  BY <2>3, <2>4, <2>5
<1>3. PICK call \in Calls :
         /\ call = [op |-> "evidence", row |-> [impact |-> i, version |-> Len(collected'[i])]]
         /\ Prepare(s, call)
    <2>1. [impact |-> i, version |-> Len(collected'[i])] \in EvidenceRow
        BY <1>2 DEF EvidenceRow
    <2>2. [op |-> "evidence", row |-> [impact |-> i, version |-> Len(collected'[i])]] \in Calls
        BY <2>1 DEF Calls, Call
    <2> QED  BY <2>2 DEF RegisterEvidence
<1>4. \A v \in Versions \cup {0}, j \in Revisions :
         v <= Len(collected[j]) => v <= Len(collected'[j])
    BY <1>2, ChainAssumption DEF Versions
<1>5. ASSUME NEW x \in Calls, Ready(x) PROVE Ready(x)'
    <2>1. x.op = "evidence" => EvidenceReady(x.row)'
        <3>1. x.op = "evidence" => x.row \in EvidenceRow
            BY DEF Calls, Call
        <3> QED  BY <1>4, <1>5, <3>1 DEF Ready, EvidenceReady, EvidenceRow
    <2>2. x.op = "assessment" => AssessmentReady(x.row)'
        <3>1. x.op = "assessment" => x.row \in AssessmentRow
            BY DEF Calls, Call
        <3>2. x.op = "assessment" => x.row.evidence \in Versions \cup {0}
                                     /\ x.row.candidate.impact \in Revisions
            BY <3>1 DEF AssessmentRow, Candidate
        <3> QED  BY <1>4, <1>5, <3>2 DEF RegisterEvidence, Ready, AssessmentReady
    <2> QED
        BY <1>5, <2>1, <2>2
        DEF RegisterEvidence, Ready, SnapshotReady, ImpactReady, CandidateReady,
            PriorityReady, DecisionReady, SnapshotRevision
<1>6. Ready(call)'
    <2>1. call.op = "evidence" /\ call.row.impact = i /\ call.row.version = Len(collected'[i])
        BY <1>3
    <2>2. EvidenceReady(call.row)'
        BY <1>2, <2>1 DEF EvidenceReady
    <2> QED  BY <2>1, <2>2 DEF Ready
<1>7. AllReady' /\ pending' \in [Sessions -> Calls \cup {None}]
    BY <1>3, <1>5, <1>6, Calling
<1>8. TypeOK'
    BY <1>2, <1>7 DEF Inv, TypeOK, RegisterEvidence
<1>9. AllNumbered' /\ RevisionsAdvance' /\ RequestsDecideOnce'
    BY DEF Inv, AllNumbered, RevisionsAdvance, RequestsDecideOnce, SnapshotRevision, RegisterEvidence
<1>10. References'
    <2>1. \A e \in evidence : e.version <= Len(collected'[e.impact])
        BY <1>4 DEF Inv, TypeOK, EvidenceRow, References
    <2>2. \A a \in assessments : a.evidence <= Len(collected'[a.candidate.impact])
        <3> SUFFICES ASSUME NEW a \in assessments
                     PROVE  a.evidence <= Len(collected'[a.candidate.impact])
            OBVIOUS
        <3>1. a.evidence \in Versions \cup {0} /\ a.candidate.impact \in Revisions
            BY DEF Inv, TypeOK, AssessmentRow, Candidate
        <3> QED  BY <1>4, <3>1 DEF Inv, References
    <2> QED  BY <2>1, <2>2 DEF Inv, References, RegisterEvidence
<1> QED  BY <1>7, <1>8, <1>9, <1>10 DEF Inv

-------------------------------------------------------------------------------
(* Inserts *)

\* The row a call inserts is of its table and still ready.
LEMMA InsertingOf ==
    ASSUME Inv, NEW s \in Sessions, NEW op, Inserting(s, op)
    PROVE  /\ pending[s] \in Calls /\ pending[s].op = op /\ Ready(pending[s])
           /\ op = "snapshot" => Row(s) \in SnapshotRow /\ SnapshotReady(Row(s))
           /\ op = "impact" => /\ Row(s) \in [revision : Revisions, source : Versions]
                               /\ ImpactReady(Row(s))
           /\ op = "candidate" => Row(s) \in Candidate /\ CandidateReady(Row(s))
           /\ op = "evidence" => Row(s) \in EvidenceRow /\ EvidenceReady(Row(s))
           /\ op = "assessment" => Row(s) \in AssessmentRow /\ AssessmentReady(Row(s))
           /\ op = "priority" => Row(s) \in PriorityRow /\ PriorityReady(Row(s))
           /\ op = "decision" => Row(s) \in DecisionRow /\ DecisionReady(Row(s))
<1>1. pending[s] \in Calls /\ pending[s].op = op /\ Ready(pending[s])
    BY DEF Inserting, Inv, TypeOK, AllReady
<1>2. /\ op = "snapshot" => Row(s) \in SnapshotRow
      /\ op = "impact" => Row(s) \in [revision : Revisions, source : Versions]
      /\ op = "candidate" => Row(s) \in Candidate
      /\ op = "evidence" => Row(s) \in EvidenceRow
      /\ op = "assessment" => Row(s) \in AssessmentRow
      /\ op = "priority" => Row(s) \in PriorityRow
      /\ op = "decision" => Row(s) \in DecisionRow
    BY <1>1 DEF Calls, Call, Row
<1> QED  BY <1>1, <1>2 DEF Ready, Row

\* A call that has inserted knows nothing any more.
LEMMA Inserted ==
    ASSUME Inv, NEW s \in Sessions, Return(s), \A x \in Calls : Ready(x) => Ready(x)'
    PROVE  AllReady' /\ pending' \in [Sessions -> Calls \cup {None}]
BY Calling DEF Return, Prepare

LEMMA InsertSnapshotInv ==
    ASSUME Inv, NEW s \in Sessions, InsertSnapshot(s) PROVE Inv'
<1> USE ChainAssumption
<1> DEFINE row == Row(s)
<1>1. row \in SnapshotRow /\ SnapshotReady(row)
    BY InsertingOf DEF InsertSnapshot
<1>2. /\ snapshots' = snapshots \cup {row} /\ Return(s)
      /\ \A r \in snapshots : r.revision # row.revision /\ r.version # row.version
    BY DEF InsertSnapshot
<1>3. UNCHANGED <<registry, qualifications, candidates, evidence, assessments, priorities,
                  decisions, answered>>
    BY DEF InsertSnapshot
<1> HIDE DEF row
<1>4. row.revision \in Revisions /\ row.revision <= Latest(snapshots) + 1
    BY <1>1 DEF SnapshotRow, SnapshotReady
<1>5. Numbered(snapshots)
    BY DEF Inv, AllNumbered
<1>6. Numbered(snapshots') /\ Latest(snapshots') = Latest(snapshots) + 1
    BY <1>2, <1>4, <1>5, Insertion
<1>7. Latest(snapshots) \in Nat
    BY <1>5, LatestOf
<1>8. References'
    <2>1. \A q, r \in snapshots' : q.version = r.version => q = r
        BY <1>2 DEF Inv, References
    <2>2. \A r \in snapshots' : r.version <= Len(ledger)
        BY <1>1, <1>2 DEF Inv, References, SnapshotReady
    <2> QED  BY <1>2, <1>3, <2>1, <2>2 DEF Inv, References, registry
<1>9. ASSUME NEW r \in snapshots
      PROVE  SnapshotRevision(r.version)' = SnapshotRevision(r.version)
    <2>1. SnapshotRevision(r.version) = r.revision
        BY SnapshotRevisionOf DEF Inv
    <2>2. (CHOOSE x \in snapshots' : x.version = r.version) = r
        BY <1>2, <1>8 DEF References
    <2> QED  BY <2>1, <2>2 DEF SnapshotRevision
<1>10. \A q \in qualifications : SnapshotRevision(q.source)' = SnapshotRevision(q.source)
    BY <1>9 DEF Inv, References
<1>11. ASSUME NEW x \in Calls, Ready(x) PROVE Ready(x)'
    <2>1. x.op = "snapshot" => SnapshotReady(x.row)'
        <3>1. x.op = "snapshot" => x.row.revision \in Revisions
            BY DEF Calls, Call, SnapshotRow
        <3> QED  BY <1>3, <1>6, <1>7, <1>11, <3>1 DEF Ready, SnapshotReady, registry, Revisions
    <2>2. x.op = "impact" => ImpactReady(x.row)'
        <3> SUFFICES ASSUME x.op = "impact" PROVE ImpactReady(x.row)'
            OBVIOUS
        <3>1. ImpactReady(x.row)
            BY <1>11 DEF Ready
        <3>2. PICK r \in snapshots : r.version = x.row.source
            BY <3>1 DEF ImpactReady
        <3>3. SnapshotRevision(x.row.source)' = SnapshotRevision(x.row.source)
            BY <1>9, <3>2
        <3>4. qualifications' = qualifications /\ r \in snapshots'
            BY <1>2, <1>3
        <3> QED  BY <1>10, <3>1, <3>2, <3>3, <3>4 DEF ImpactReady
    <2> QED
        BY <1>3, <1>11, <2>1, <2>2
        DEF Ready, CandidateReady, EvidenceReady, AssessmentReady, PriorityReady,
            DecisionReady, registry
<1>12. AllReady' /\ pending' \in [Sessions -> Calls \cup {None}]
    BY <1>2, <1>11, Inserted
<1>13. TypeOK'
    BY <1>1, <1>2, <1>3, <1>12 DEF Inv, TypeOK, registry
<1>14. AllNumbered'
    BY <1>3, <1>6 DEF Inv, AllNumbered
<1>15. RevisionsAdvance' /\ RequestsDecideOnce'
    BY <1>3, <1>10 DEF Inv, RevisionsAdvance, RequestsDecideOnce
<1> QED  BY <1>8, <1>12, <1>13, <1>14, <1>15 DEF Inv

LEMMA InsertImpactInv ==
    ASSUME Inv, NEW s \in Sessions, InsertImpact(s) PROVE Inv'
<1> USE ChainAssumption
<1> DEFINE row == [revision |-> Row(s).revision, source |-> Row(s).source, edge |-> LatestVersion]
<1>1. /\ Row(s) \in [revision : Revisions, source : Versions]
      /\ ImpactReady(Row(s))
    BY InsertingOf DEF InsertImpact
<1>2. /\ qualifications' = qualifications \cup {row} /\ Return(s)
      /\ \A q \in qualifications : q.revision # row.revision
    BY DEF InsertImpact
<1>3. UNCHANGED <<registry, snapshots, candidates, evidence, assessments, priorities,
                  decisions, answered>>
    BY DEF InsertImpact
<1>4. row \in QualificationRow
    <2>1. snapshots # {}
        BY <1>1 DEF ImpactReady
    <2>2. LatestVersion \in Versions
        BY <2>1, LatestVersionOf DEF Inv, TypeOK, SnapshotRow
    <2> QED  BY <1>1, <2>2 DEF QualificationRow
<1>5. ImpactReady(row)
    <2>1. row.revision = Row(s).revision /\ row.source = Row(s).source
        OBVIOUS
    <2> HIDE DEF row
    <2> QED  BY <1>1, <2>1 DEF ImpactReady
<1> HIDE DEF row
<1>6. Numbered(qualifications)
    BY DEF Inv, AllNumbered
<1>7. /\ Numbered(qualifications') /\ Latest(qualifications') = Latest(qualifications) + 1
      /\ row.revision = Latest(qualifications) + 1
    BY <1>2, <1>4, <1>5, <1>6, Insertion DEF QualificationRow, ImpactReady
<1>8. /\ Latest(qualifications) \in Nat
      /\ \A q \in qualifications : q.revision < row.revision /\ q.revision \in Nat
    BY <1>6, <1>7, LatestOf
<1>9. RevisionsOf(qualifications) \subseteq RevisionsOf(qualifications')
    BY <1>2 DEF RevisionsOf
<1>10. ASSUME NEW x \in Calls, Ready(x) PROVE Ready(x)'
    <2>1. x.op = "impact" => ImpactReady(x.row)'
        <3> SUFFICES ASSUME x.op = "impact" PROVE ImpactReady(x.row)'
            OBVIOUS
        <3>1. ImpactReady(x.row) /\ x.row.revision \in Nat
            BY <1>10 DEF Ready, Calls, Call, Revisions
        <3>2. x.row.revision <= Latest(qualifications') + 1
            BY <1>7, <1>8, <3>1 DEF ImpactReady
        <3>3. ~(row.revision < x.row.revision)
            BY <1>7, <1>8, <3>1 DEF ImpactReady
        <3>4. \A p \in qualifications' : p.revision < x.row.revision => p \in qualifications
            BY <1>2, <3>3
        <3> QED  BY <1>3, <3>1, <3>2, <3>4 DEF ImpactReady, SnapshotRevision
    <2>2. x.op = "candidate" => CandidateReady(x.row)'
        BY <1>9, <1>10 DEF Ready, CandidateReady
    <2> QED
        BY <1>3, <1>10, <2>1, <2>2
        DEF Ready, SnapshotReady, EvidenceReady, AssessmentReady, PriorityReady,
            DecisionReady, registry
<1>11. AllReady' /\ pending' \in [Sessions -> Calls \cup {None}]
    BY <1>2, <1>10, Inserted
<1>12. TypeOK'
    BY <1>2, <1>3, <1>4, <1>11 DEF Inv, TypeOK, registry
<1>13. AllNumbered'
    BY <1>3, <1>7 DEF Inv, AllNumbered
<1>14. References'
    <2>1. \A q \in qualifications' : \E r \in snapshots : r.version = q.source
        BY <1>2, <1>5 DEF Inv, References, ImpactReady
    <2>2. \A c \in candidates : c.impact \in RevisionsOf(qualifications')
        BY <1>9 DEF Inv, References
    <2> QED  BY <1>3, <2>1, <2>2 DEF Inv, References, registry
<1>15. RevisionsAdvance'
    <2>1. ASSUME NEW q \in qualifications', NEW r \in qualifications', q.revision < r.revision
          PROVE  SnapshotRevision(q.source) < SnapshotRevision(r.source)
        <3>1. CASE r \in qualifications
            <4>1. q # row
                BY <1>7, <1>8, <2>1, <3>1
            <4> QED  BY <1>2, <2>1, <3>1, <4>1 DEF Inv, RevisionsAdvance
        <3>2. CASE r = row
            <4>1. q \in qualifications
                BY <1>2, <1>7, <1>8, <2>1, <3>2
            <4> QED  BY <1>5, <2>1, <3>2, <4>1 DEF ImpactReady
        <3> QED  BY <1>2, <3>1, <3>2
    <2> QED  BY <1>3, <2>1 DEF Inv, RevisionsAdvance, SnapshotRevision
<1> QED  BY <1>3, <1>11, <1>12, <1>13, <1>14, <1>15 DEF Inv, RequestsDecideOnce

\* An insertion among one candidate's rows keeps every candidate's numbered.
LEMMA CandidateInsertion ==
    ASSUME NEW rows, NEW row, row.candidate \in Candidate, row.revision \in Revisions,
           \A c \in Candidate : Numbered(Of(rows, c)),
           row.revision <= Latest(Of(rows, row.candidate)) + 1,
           \A r \in Of(rows, row.candidate) : r.revision # row.revision
    PROVE  /\ row.revision = Latest(Of(rows, row.candidate)) + 1
           /\ \A c \in Candidate :
                 /\ Numbered(Of(rows \cup {row}, c))
                 /\ Latest(Of(rows, c)) \in Nat /\ Latest(Of(rows \cup {row}, c)) \in Nat
                 /\ Latest(Of(rows, c)) <= Latest(Of(rows \cup {row}, c))
                 /\ RevisionsOf(Of(rows, c)) \subseteq RevisionsOf(Of(rows \cup {row}, c))
<1> USE ChainAssumption
<1>1. /\ row.revision = Latest(Of(rows, row.candidate)) + 1
      /\ Numbered(Of(rows, row.candidate) \cup {row})
      /\ Latest(Of(rows, row.candidate) \cup {row}) = Latest(Of(rows, row.candidate)) + 1
    BY Insertion
<1>2. ASSUME NEW c \in Candidate
      PROVE  /\ Numbered(Of(rows \cup {row}, c))
             /\ Latest(Of(rows, c)) \in Nat /\ Latest(Of(rows \cup {row}, c)) \in Nat
             /\ Latest(Of(rows, c)) <= Latest(Of(rows \cup {row}, c))
             /\ RevisionsOf(Of(rows, c)) \subseteq RevisionsOf(Of(rows \cup {row}, c))
    <2> DEFINE old == Of(rows, c)
               new == Of(rows \cup {row}, c)
    <2>1. Latest(old) \in Nat /\ Numbered(old)
        BY LatestOf
    <2>2. CASE c = row.candidate
        <3>1. new = old \cup {row}
            BY <2>2, OfInsertion
        <3>2. Numbered(new) /\ Latest(new) = Latest(old) + 1
            BY <1>1, <2>2, <3>1
        <3>3. RevisionsOf(old) \subseteq RevisionsOf(new)
            BY <3>1 DEF RevisionsOf
        <3> HIDE DEF old, new
        <3>4. Latest(new) \in Nat /\ Latest(old) <= Latest(new)
            BY <2>1, <3>2
        <3> QED  BY <2>1, <3>2, <3>3, <3>4 DEF old, new
    <2>3. CASE c # row.candidate
        <3>1. new = old
            BY <2>3, OfInsertion
        <3> HIDE DEF old, new
        <3>2. Numbered(new) /\ Latest(old) <= Latest(new) /\ RevisionsOf(old) \subseteq RevisionsOf(new)
            BY <2>1, <3>1
        <3> QED  BY <2>1, <3>1, <3>2 DEF old, new
    <2> QED  BY <2>2, <2>3
<1> QED  BY <1>1, <1>2

LEMMA InsertCandidateInv ==
    ASSUME Inv, NEW s \in Sessions, InsertCandidate(s) PROVE Inv'
<1> DEFINE row == Row(s)
<1>1. row \in Candidate /\ CandidateReady(row)
    BY InsertingOf DEF InsertCandidate
<1>2. candidates' = candidates \cup {row} /\ Return(s)
    BY DEF InsertCandidate
<1>3. UNCHANGED <<registry, snapshots, qualifications, evidence, assessments, priorities,
                  decisions, answered>>
    BY DEF InsertCandidate
<1> HIDE DEF row
<1>4. ASSUME NEW x \in Calls, Ready(x) PROVE Ready(x)'
    BY <1>2, <1>3, <1>4
    DEF Ready, SnapshotReady, ImpactReady, CandidateReady, EvidenceReady, AssessmentReady,
        PriorityReady, DecisionReady, SnapshotRevision, registry
<1>5. AllReady' /\ pending' \in [Sessions -> Calls \cup {None}]
    BY <1>2, <1>4, Inserted
<1>6. TypeOK'
    BY <1>1, <1>2, <1>3, <1>5 DEF Inv, TypeOK, registry
<1>7. AllNumbered' /\ RevisionsAdvance' /\ RequestsDecideOnce'
    BY <1>3 DEF Inv, AllNumbered, RevisionsAdvance, RequestsDecideOnce, SnapshotRevision
<1>8. References'
    BY <1>1, <1>2, <1>3 DEF Inv, References, CandidateReady, registry
<1> QED  BY <1>5, <1>6, <1>7, <1>8 DEF Inv

LEMMA InsertEvidenceInv ==
    ASSUME Inv, NEW s \in Sessions, InsertEvidence(s) PROVE Inv'
<1> DEFINE row == Row(s)
<1>1. row \in EvidenceRow /\ EvidenceReady(row)
    BY InsertingOf DEF InsertEvidence
<1>2. evidence' = evidence \cup {row} /\ Return(s)
    BY DEF InsertEvidence
<1>3. UNCHANGED <<registry, snapshots, qualifications, candidates, assessments, priorities,
                  decisions, answered>>
    BY DEF InsertEvidence
<1> HIDE DEF row
<1>4. ASSUME NEW x \in Calls, Ready(x) PROVE Ready(x)'
    BY <1>2, <1>3, <1>4
    DEF Ready, SnapshotReady, ImpactReady, CandidateReady, EvidenceReady, AssessmentReady,
        PriorityReady, DecisionReady, SnapshotRevision, registry
<1>5. AllReady' /\ pending' \in [Sessions -> Calls \cup {None}]
    BY <1>2, <1>4, Inserted
<1>6. TypeOK'
    BY <1>1, <1>2, <1>3, <1>5 DEF Inv, TypeOK, registry
<1>7. AllNumbered' /\ RevisionsAdvance' /\ RequestsDecideOnce'
    BY <1>3 DEF Inv, AllNumbered, RevisionsAdvance, RequestsDecideOnce, SnapshotRevision
<1>8. References'
    BY <1>1, <1>2, <1>3 DEF Inv, References, EvidenceReady, registry
<1> QED  BY <1>5, <1>6, <1>7, <1>8 DEF Inv

LEMMA InsertAssessmentInv ==
    ASSUME Inv, NEW s \in Sessions, InsertAssessment(s) PROVE Inv'
<1> USE ChainAssumption
<1> DEFINE row == Row(s)
<1>1. row \in AssessmentRow /\ AssessmentReady(row)
    BY InsertingOf DEF InsertAssessment
<1>2. /\ assessments' = assessments \cup {row} /\ Return(s)
      /\ \A a \in Of(assessments, row.candidate) : a.revision # row.revision
    BY DEF InsertAssessment
<1>3. UNCHANGED <<registry, snapshots, qualifications, candidates, evidence, priorities,
                  decisions, answered>>
    BY DEF InsertAssessment
<1> HIDE DEF row
<1>4. row.candidate \in Candidate /\ row.revision \in Revisions
    BY <1>1 DEF AssessmentRow
<1>5. \A c \in Candidate : Numbered(Of(assessments, c))
    BY DEF Inv, AllNumbered
<1>6. \A c \in Candidate :
         /\ Numbered(Of(assessments', c))
         /\ Latest(Of(assessments, c)) \in Nat /\ Latest(Of(assessments', c)) \in Nat
         /\ Latest(Of(assessments, c)) <= Latest(Of(assessments', c))
         /\ RevisionsOf(Of(assessments, c)) \subseteq RevisionsOf(Of(assessments', c))
    BY <1>1, <1>2, <1>4, <1>5, CandidateInsertion DEF AssessmentReady
<1>7. ASSUME NEW x \in Calls, Ready(x) PROVE Ready(x)'
    <2>1. x.op = "assessment" => AssessmentReady(x.row)'
        <3> SUFFICES ASSUME x.op = "assessment" PROVE AssessmentReady(x.row)'
            OBVIOUS
        <3>1. x.row \in AssessmentRow /\ AssessmentReady(x.row)
            BY <1>7 DEF Calls, Call, Ready
        <3>2. x.row.candidate \in Candidate /\ x.row.revision \in Nat
            BY <3>1 DEF AssessmentRow, Revisions
        <3>3. x.row.revision <= Latest(Of(assessments', x.row.candidate)) + 1
            BY <1>6, <3>1, <3>2 DEF AssessmentReady
        <3> QED  BY <1>3, <3>1, <3>3 DEF AssessmentReady, registry
    <2>2. x.op = "priority" => PriorityReady(x.row)'
        <3> SUFFICES ASSUME x.op = "priority" PROVE PriorityReady(x.row)'
            OBVIOUS
        <3>1. x.row \in PriorityRow /\ PriorityReady(x.row)
            BY <1>7 DEF Calls, Call, Ready
        <3>2. x.row.source \in RevisionsOf(Of(assessments', x.row.candidate))
            BY <1>6, <3>1 DEF PriorityRow, PriorityReady
        <3> QED  BY <1>3, <3>1, <3>2 DEF PriorityReady
    <2> QED
        BY <1>3, <1>7, <2>1, <2>2
        DEF Ready, SnapshotReady, ImpactReady, CandidateReady, EvidenceReady,
            DecisionReady, SnapshotRevision, registry
<1>8. AllReady' /\ pending' \in [Sessions -> Calls \cup {None}]
    BY <1>2, <1>7, Inserted
<1>9. TypeOK'
    BY <1>1, <1>2, <1>3, <1>8 DEF Inv, TypeOK, registry
<1>10. AllNumbered'
    BY <1>3, <1>6 DEF Inv, AllNumbered
<1>11. References'
    <2>1. \A p \in priorities : p.source \in RevisionsOf(Of(assessments', p.candidate))
        BY <1>6 DEF Inv, TypeOK, PriorityRow, References
    <2> QED  BY <1>1, <1>2, <1>3, <2>1 DEF Inv, References, AssessmentReady, registry
<1>12. RevisionsAdvance' /\ RequestsDecideOnce'
    BY <1>3 DEF Inv, RevisionsAdvance, RequestsDecideOnce, SnapshotRevision
<1> QED  BY <1>8, <1>9, <1>10, <1>11, <1>12 DEF Inv

LEMMA InsertPriorityInv ==
    ASSUME Inv, NEW s \in Sessions, InsertPriority(s) PROVE Inv'
<1> USE ChainAssumption
<1> DEFINE row == Row(s)
<1>1. row \in PriorityRow /\ PriorityReady(row)
    BY InsertingOf DEF InsertPriority
<1>2. /\ priorities' = priorities \cup {row} /\ Return(s)
      /\ \A p \in Of(priorities, row.candidate) : p.revision # row.revision
    BY DEF InsertPriority
<1>3. UNCHANGED <<registry, snapshots, qualifications, candidates, evidence, assessments,
                  decisions, answered>>
    BY DEF InsertPriority
<1> HIDE DEF row
<1>4. row.candidate \in Candidate /\ row.revision \in Revisions
    BY <1>1 DEF PriorityRow
<1>5. \A c \in Candidate : Numbered(Of(priorities, c))
    BY DEF Inv, AllNumbered
<1>6. /\ row.revision = Latest(Of(priorities, row.candidate)) + 1
      /\ \A c \in Candidate :
            /\ Numbered(Of(priorities', c))
            /\ Latest(Of(priorities, c)) \in Nat /\ Latest(Of(priorities', c)) \in Nat
            /\ Latest(Of(priorities, c)) <= Latest(Of(priorities', c))
    BY <1>1, <1>2, <1>4, <1>5, CandidateInsertion DEF PriorityReady
<1>7. \A p \in Of(priorities, row.candidate) : p.revision < row.revision /\ p.revision \in Nat
    BY <1>4, <1>5, <1>6, LatestOf
<1>8. ASSUME NEW x \in Calls, Ready(x) PROVE Ready(x)'
    <2>1. x.op = "priority" => PriorityReady(x.row)'
        <3> SUFFICES ASSUME x.op = "priority" PROVE PriorityReady(x.row)'
            OBVIOUS
        <3>1. x.row \in PriorityRow /\ PriorityReady(x.row)
            BY <1>8 DEF Calls, Call, Ready
        <3>2. x.row.candidate \in Candidate /\ x.row.revision \in Nat
            BY <3>1 DEF PriorityRow, Revisions
        <3>3. x.row.revision <= Latest(Of(priorities', x.row.candidate)) + 1
            BY <1>6, <3>1, <3>2 DEF PriorityReady
        <3>4. ASSUME NEW q \in Of(priorities', x.row.candidate), q.revision < x.row.revision
              PROVE  q.source < x.row.source
            <4>1. CASE q \in priorities
                BY <3>1, <3>4, <4>1 DEF PriorityReady, Of
            <4>2. CASE q = row /\ q \notin priorities
                <5>1. x.row.candidate = row.candidate
                    BY <4>2 DEF Of
                <5>2. ~(row.revision < x.row.revision)
                    BY <1>6, <3>1, <3>2, <5>1 DEF PriorityReady
                <5> QED  BY <3>4, <4>2, <5>2
            <4> QED  BY <1>2, <4>1, <4>2 DEF Of
        <3> QED  BY <1>3, <3>1, <3>3, <3>4 DEF PriorityReady
    <2> QED
        BY <1>3, <1>8, <2>1
        DEF Ready, SnapshotReady, ImpactReady, CandidateReady, EvidenceReady, AssessmentReady,
            DecisionReady, SnapshotRevision, registry
<1>9. AllReady' /\ pending' \in [Sessions -> Calls \cup {None}]
    BY <1>2, <1>8, Inserted
<1>10. TypeOK'
    BY <1>1, <1>2, <1>3, <1>9 DEF Inv, TypeOK, registry
<1>11. AllNumbered'
    BY <1>3, <1>6 DEF Inv, AllNumbered
<1>12. References'
    BY <1>1, <1>2, <1>3 DEF Inv, References, PriorityReady, registry
<1>13. RevisionsAdvance'
    <2>1. ASSUME NEW p \in priorities', NEW r \in priorities', p.candidate = r.candidate,
                 p.revision < r.revision
          PROVE  p.source < r.source
        <3>1. CASE r \in priorities
            <4>1. ~(p = row /\ p \notin priorities)
                <5> SUFFICES ASSUME p = row PROVE FALSE
                    OBVIOUS
                <5>1. r \in Of(priorities, row.candidate)
                    BY <2>1, <3>1 DEF Of
                <5>2. r.revision < row.revision /\ r.revision \in Nat /\ row.revision \in Nat
                    BY <1>4, <1>7, <5>1 DEF Revisions
                <5> QED  BY <2>1, <5>2
            <4> QED  BY <1>2, <2>1, <3>1, <4>1 DEF Inv, RevisionsAdvance
        <3>2. CASE r = row
            <4>1. p \in Of(priorities, row.candidate)
                BY <1>2, <1>4, <2>1, <3>2 DEF Of, Revisions
            <4> QED  BY <1>1, <2>1, <3>2, <4>1 DEF PriorityReady
        <3> QED  BY <1>2, <3>1, <3>2
    <2> QED  BY <1>3, <2>1 DEF Inv, RevisionsAdvance, SnapshotRevision
<1> QED  BY <1>3, <1>9, <1>10, <1>11, <1>12, <1>13 DEF Inv, RequestsDecideOnce

LEMMA InsertDecisionInv ==
    ASSUME Inv, NEW s \in Sessions, InsertDecision(s) PROVE Inv'
<1> USE ChainAssumption
<1> DEFINE row == Row(s)
<1>1. row \in DecisionRow /\ DecisionReady(row)
    BY InsertingOf DEF InsertDecision
<1>2. /\ decisions' = decisions \cup {row} /\ answered' = answered \cup {row} /\ Return(s)
      /\ \A d \in decisions : d.request # row.request
      /\ \A d \in Of(decisions, row.candidate) : d.revision # row.revision
    BY DEF InsertDecision
<1>3. UNCHANGED <<registry, snapshots, qualifications, candidates, evidence, assessments,
                  priorities>>
    BY DEF InsertDecision
<1> HIDE DEF row
<1>4. row.candidate \in Candidate /\ row.revision \in Revisions
    BY <1>1 DEF DecisionRow
<1>5. \A c \in Candidate : Numbered(Of(decisions, c))
    BY DEF Inv, AllNumbered
<1>6. \A c \in Candidate :
         /\ Numbered(Of(decisions', c))
         /\ Latest(Of(decisions, c)) \in Nat /\ Latest(Of(decisions', c)) \in Nat
         /\ Latest(Of(decisions, c)) <= Latest(Of(decisions', c))
    BY <1>1, <1>2, <1>4, <1>5, CandidateInsertion DEF DecisionReady
<1>7. ASSUME NEW x \in Calls, Ready(x) PROVE Ready(x)'
    <2>1. x.op = "decision" => DecisionReady(x.row)'
        <3> SUFFICES ASSUME x.op = "decision" PROVE DecisionReady(x.row)'
            OBVIOUS
        <3>1. x.row \in DecisionRow /\ DecisionReady(x.row)
            BY <1>7 DEF Calls, Call, Ready
        <3>2. x.row.candidate \in Candidate /\ x.row.revision \in Nat
            BY <3>1 DEF DecisionRow, Revisions
        <3> QED  BY <1>6, <3>1, <3>2 DEF DecisionReady
    <2> QED
        BY <1>3, <1>7, <2>1
        DEF Ready, SnapshotReady, ImpactReady, CandidateReady, EvidenceReady, AssessmentReady,
            PriorityReady, SnapshotRevision, registry
<1>8. AllReady' /\ pending' \in [Sessions -> Calls \cup {None}]
    BY <1>2, <1>7, Inserted
<1>9. TypeOK'
    BY <1>1, <1>2, <1>3, <1>8 DEF Inv, TypeOK, registry
<1>10. AllNumbered' /\ References'
    BY <1>3, <1>6 DEF Inv, AllNumbered, References, registry
<1>11. RevisionsAdvance'
    BY <1>3 DEF Inv, RevisionsAdvance, SnapshotRevision
<1>12. RequestsDecideOnce'
    BY <1>2 DEF Inv, RequestsDecideOnce
<1> QED  BY <1>8, <1>9, <1>10, <1>11, <1>12 DEF Inv

-------------------------------------------------------------------------------
(* Theorems *)

\* No table has a row at first.
LEMMA InitInv == Init => Inv
<1> SUFFICES ASSUME Init PROVE Inv
    OBVIOUS
<1> USE ChainAssumption DEF Init
<1>1. TypeOK
    BY DEF TypeOK
<1>2. Numbered({})
    <2>1. RevisionsOf({}) = 1 .. 0 /\ 0 \in 0 .. MaxRevision
        BY DEF RevisionsOf
    <2> QED  BY <2>1 DEF Numbered
<1>3. AllNumbered
    <2>1. \A c : Of({}, c) = {}
        BY DEF Of
    <2> QED  BY <1>2, <2>1 DEF AllNumbered
<1>4. References /\ AllReady /\ RevisionsAdvance /\ RequestsDecideOnce
    BY DEF References, AllReady, RevisionsAdvance, RequestsDecideOnce
<1> QED  BY <1>1, <1>3, <1>4 DEF Inv

\* The invariant survives every step.
LEMMA StepInv ==
    ASSUME Inv, NEW s \in Sessions, Reads(s) \/ Commits(s) PROVE Inv'
BY RegisterSnapshotInv, CheckSnapshotInv, AssessImpactInv, CreateCandidateInv,
   RegisterEvidenceInv, QualifyInv, AssessPriorityInv, DecideInv, AnsweredInv,
   InsertSnapshotInv, InsertImpactInv, InsertCandidateInv, InsertEvidenceInv,
   InsertAssessmentInv, InsertPriorityInv, InsertDecisionInv
   DEF Reads, Commits

LEMMA StutterInv ==
    ASSUME Inv, UNCHANGED vars PROVE Inv'
BY DEF Inv, vars, TypeOK, AllNumbered, References, AllReady, RevisionsAdvance, RequestsDecideOnce,
       Ready, SnapshotReady, ImpactReady, CandidateReady, EvidenceReady, AssessmentReady,
       PriorityReady, DecisionReady, SnapshotRevision

LEMMA SpecInv == Spec => []Inv
<1>1. Inv /\ [Next]_vars => Inv'
    BY StepInv, StutterInv DEF Next
<1> QED  BY InitInv, <1>1, PTL DEF Spec

\* Every table and every call in progress keeps its shape (the schema of
\* persistence.py in each package).
THEOREM TypeCorrect == Spec => []TypeOK
<1>1. Inv => TypeOK
    BY DEF Inv
<1> QED  BY SpecInv, <1>1, PTL

\* However the sessions race, an Impact revision rests on a later snapshot and
\* a priority revision on a later Opportunity than those they supersede.
THEOREM LaterRevisionsRestOnLaterEvidence == Spec => []RevisionsAdvance
<1>1. Inv => RevisionsAdvance
    BY DEF Inv
<1> QED  BY SpecInv, <1>1, PTL

\* A request identity is answered with one decision, which is kept.
THEOREM RequestsAreDecidedOnce == Spec => []RequestsDecideOnce
<1>1. Inv => RequestsDecideOnce
    BY DEF Inv
<1> QED  BY SpecInv, <1>1, PTL

\* An Opportunity captures at most the balance its Impact's snapshot shows overdue.
LEMMA CapturedIsBounded ==
    ASSUME Inv, NEW a \in assessments,
           At(qualifications, a.candidate.impact).source \in Versions,
           ledger[At(qualifications, a.candidate.impact).source] \in Snapshots
    PROVE  Captured(a) <= Overdue[ledger[At(qualifications, a.candidate.impact).source]]
<1> USE ChainAssumption
<1> DEFINE d == ledger[At(qualifications, a.candidate.impact).source]
           i == a.candidate.impact
<1>1. Overdue[d] \in Nat
    OBVIOUS
<1>2. CASE a.evidence = 0
    BY <1>1, <1>2 DEF Captured
<1>3. CASE a.evidence # 0
    <2>1. i \in Revisions /\ a.evidence \in Versions
        BY <1>3 DEF Inv, TypeOK, AssessmentRow, Candidate
    <2>2. collected[i] \in Seq(Reviews) /\ a.evidence \in 1 .. Len(collected[i])
        BY <2>1 DEF Inv, TypeOK, References, Versions
    <2>3. collected[i][a.evidence] \in Reviews
        BY <2>2
    <2> QED  BY <1>3, <2>3 DEF Captured
<1> QED  BY <1>2, <1>3

\* The snapshot of an Impact is a document of the ledger.
LEMMA SourceExists ==
    ASSUME Inv, NEW q \in qualifications
    PROVE  q.source \in 1 .. Len(ledger) /\ q.source \in Versions /\ ledger[q.source] \in Snapshots
<1> USE ChainAssumption
<1>1. PICK r \in snapshots : r.version = q.source
    BY DEF Inv, References
<1>2. r.version \in Versions /\ r.version <= Len(ledger) /\ ledger \in Seq(Snapshots)
    BY DEF Inv, TypeOK, SnapshotRow, References
<1>3. q.source \in 1 .. Len(ledger)
    BY <1>1, <1>2 DEF Versions
<1> QED  BY <1>1, <1>2, <1>3

\* No set of candidates totals more than the latest snapshot shows overdue.
THEOREM TotalsStayOwed == Spec => []TotalsAreOwed
<1>1. ASSUME Inv, NEW keys \in SUBSET candidates, Total(keys) # None, keys # {}
      PROVE  Total(keys) <= Overdue[ledger[LatestVersion]]
    <2> DEFINE last(c) == At(Of(assessments, c), Latest(Of(assessments, c)))
               counted == {c \in keys : Captured(last(c)) > 0}
    <2>1. \A c \in keys : CandidateCurrent(c) /\ Of(assessments, c) # {}
        BY <1>1 DEF Total
    <2>2. PICK e \in keys : TRUE
        BY <1>1
    <2>3. \A c \in keys : /\ At(qualifications, c.impact) \in qualifications
                          /\ At(qualifications, c.impact).source = LatestVersion
        BY <1>1, <2>1, CurrentImpactExists DEF CandidateCurrent
    <2>4. LatestVersion \in Versions /\ ledger[LatestVersion] \in Snapshots
        BY <1>1, <2>2, <2>3, SourceExists
    <2>5. CASE counted = {}
        <3>1. Total(keys) = 0
            BY <2>1, <2>5 DEF Total
        <3> QED  BY <2>4, <3>1, ChainAssumption
    <2>6. CASE counted # {}
        <3> DEFINE c == CHOOSE x \in counted : TRUE
        <3>1. c \in counted /\ c \in keys
            BY <2>6
        <3>2. Total(keys) = Captured(last(c))
            BY <1>1, <2>1, <2>6 DEF Total
        <3>3. last(c) \in Of(assessments, c)
            <4>1. c \in Candidate /\ Of(assessments, c) # {}
                BY <1>1, <2>1, <3>1 DEF Inv, TypeOK
            <4>2. Numbered(Of(assessments, c))
                BY <1>1, <4>1 DEF Inv, AllNumbered
            <4> HIDE DEF c
            <4>3. /\ Latest(Of(assessments, c)) \in 0 .. MaxRevision
                  /\ \A k \in 1 .. Latest(Of(assessments, c)) :
                        At(Of(assessments, c), k) \in Of(assessments, c)
                  /\ \A r \in Of(assessments, c) : r.revision \in 1 .. Latest(Of(assessments, c))
                BY <4>2, LatestOf
            <4>4. Latest(Of(assessments, c)) \in 1 .. Latest(Of(assessments, c))
                BY <4>1, <4>3, ChainAssumption
            <4> QED  BY <4>3, <4>4
        <3>4. last(c) \in assessments /\ last(c).candidate = c
            BY <3>3 DEF Of
        <3> HIDE DEF c, last
        <3>5. Captured(last(c)) <= Overdue[ledger[LatestVersion]]
            BY <1>1, <2>3, <2>4, <3>1, <3>4, CapturedIsBounded
        <3> QED  BY <3>2, <3>5
    <2> QED  BY <2>5, <2>6
<1>2. Inv => TotalsAreOwed
    BY <1>1 DEF TotalsAreOwed
<1> QED  BY SpecInv, <1>2, PTL

-------------------------------------------------------------------------------
(* What is stale stays stale *)

\* No row is ever removed and no version of a dataset replaced.
Grown ==
    /\ \A v \in 1 .. Len(ledger) : ledger'[v] = ledger[v]
    /\ \A i \in Revisions : \A v \in 1 .. Len(collected[i]) : collected'[i][v] = collected[i][v]
    /\ snapshots \subseteq snapshots' /\ qualifications \subseteq qualifications'
    /\ candidates \subseteq candidates' /\ assessments \subseteq assessments'
    /\ priorities \subseteq priorities'

LEMMA StepGrows ==
    ASSUME Inv, [Next]_vars PROVE Grown
<1> DEFINE Same == UNCHANGED <<ledger, collected>>
           More == /\ snapshots \subseteq snapshots' /\ qualifications \subseteq qualifications'
                   /\ candidates \subseteq candidates' /\ assessments \subseteq assessments'
                   /\ priorities \subseteq priorities'
<1>1. ASSUME NEW s \in Sessions, NEW d \in Snapshots, NEW n \in 0 .. MaxVersions,
             RegisterSnapshot(s, d, n)
      PROVE  Grown
    <2>1. ledger \in Seq(Snapshots)
        BY DEF Inv, TypeOK
    <2>2. \A v \in 1 .. Len(ledger) : Registered(ledger, d)[v] = ledger[v]
        BY <2>1, RegisteredOf
    <2>3. ledger' = Registered(ledger, d)
        BY <1>1 DEF RegisterSnapshot
    <2> QED  BY <1>1, <2>2, <2>3 DEF RegisterSnapshot, Grown
<1>2. ASSUME NEW s \in Sessions, NEW i \in Revisions, NEW r \in Reviews, RegisterEvidence(s, i, r)
      PROVE  Grown
    <2>1. collected \in [Revisions -> Seq(Reviews)]
        BY DEF Inv, TypeOK
    <2>2. \A v \in 1 .. Len(collected[i]) : Registered(collected[i], r)[v] = collected[i][v]
        <3>1. collected[i] \in Seq(Reviews)
            BY <2>1
        <3> DEFINE old == collected[i]
                   new == Registered(collected[i], r)
        <3>2. old \in Seq(Reviews) /\ r \in Reviews /\ new = Registered(old, r)
            BY <3>1
        <3> HIDE DEF old, new
        <3>3. \A v \in 1 .. Len(old) : new[v] = old[v]
            BY <3>2, RegisteredOf
        <3> QED  BY <3>3 DEF old, new
    <2>3. \A j \in Revisions : collected'[j] = IF j = i THEN Registered(collected[i], r)
                                               ELSE collected[j]
        <3>1. collected' = [collected EXCEPT ![i] = Registered(collected[i], r)]
            BY <1>2 DEF RegisterEvidence
        <3> QED  BY <2>1, <3>1
    <2> QED  BY <1>2, <2>2, <2>3 DEF RegisterEvidence, Grown
<1>3. Same /\ More => Grown
    BY DEF Grown
<1>4. ASSUME NEW s \in Sessions, Reads(s) PROVE Grown
    <2>1. ASSUME \/ CheckSnapshot(s)
                 \/ \E n \in 0 .. MaxRevision : AssessImpact(s, n)
                 \/ \E c \in Candidate : CreateCandidate(s, c)
          PROVE  Same /\ More
        BY <2>1 DEF CheckSnapshot, AssessImpact, CreateCandidate, registry
    <2>2. ASSUME \/ \E c \in candidates, v \in 0 .. MaxVersions, n \in 0 .. MaxRevision :
                       Qualify(s, c, v, n)
                 \/ \E c \in candidates, n \in 0 .. MaxRevision : AssessPriority(s, c, n)
                 \/ \E c \in candidates, p \in Revisions, q \in Requests, k \in Verdicts,
                       n \in 0 .. MaxRevision : Decide(s, c, p, q, k, n)
          PROVE  Same /\ More
        BY <2>2 DEF Qualify, AssessPriority, Decide, registry
    <2> HIDE DEF Same, More
    <2> QED  BY <1>1, <1>2, <1>3, <1>4, <2>1, <2>2 DEF Reads
<1>5. ASSUME NEW s \in Sessions, Commits(s) PROVE Grown
    <2>1. ASSUME \/ InsertSnapshot(s) \/ InsertImpact(s) \/ InsertCandidate(s) \/ InsertEvidence(s)
          PROVE  Same /\ More
        BY <2>1 DEF InsertSnapshot, InsertImpact, InsertCandidate, InsertEvidence, registry
    <2>2. ASSUME \/ InsertAssessment(s) \/ InsertPriority(s) \/ InsertDecision(s) \/ Abandon(s)
                 \/ \E c \in candidates, p \in Revisions, q \in Requests, k \in Verdicts :
                       ReplayDecision(s, c, p, q, k)
          PROVE  Same /\ More
        BY <2>2 DEF InsertAssessment, InsertPriority, InsertDecision, Abandon, ReplayDecision, registry
    <2> HIDE DEF Same, More
    <2> QED  BY <1>3, <1>5, <2>1, <2>2 DEF Commits
<1>6. CASE UNCHANGED vars
    BY <1>3, <1>6 DEF vars
<1> QED  BY <1>4, <1>5, <1>6 DEF Next

\* The latest of more rows, when it is among the fewer, is their latest.
LEMMA LatestBefore ==
    ASSUME NEW rows, NEW more, Numbered(rows), Numbered(more), rows \subseteq more,
           Latest(more) \in RevisionsOf(rows)
    PROVE  /\ Latest(more) = Latest(rows)
           /\ At(rows, Latest(rows)) \in rows
           /\ At(more, Latest(more)) = At(rows, Latest(rows))
<1> USE ChainAssumption
<1>1. PICK r \in rows : r.revision = Latest(more)
    BY DEF RevisionsOf
<1>2. r.revision \in 1 .. Latest(rows) /\ At(rows, r.revision) = r
    BY LatestOf
<1>3. Latest(rows) \in 0 .. MaxRevision /\ Latest(more) \in 0 .. MaxRevision
    BY LatestOf
<1>4. PICK q \in rows : q.revision = Latest(rows)
    <2>1. Latest(rows) \in 1 .. Latest(rows)
        BY <1>2, <1>3
    <2> QED  BY <2>1, LatestOf
<1>5. q \in more /\ q.revision \in 1 .. Latest(more)
    BY LatestOf
<1>6. Latest(more) = Latest(rows)
    <2>1. Latest(more) <= Latest(rows)
        BY <1>1, <1>2
    <2>2. Latest(rows) <= Latest(more)
        BY <1>4, <1>5
    <2>3. \A i, j \in 0 .. MaxRevision : i <= j /\ j <= i => i = j
        OBVIOUS
    <2> QED  BY <1>3, <2>1, <2>2, <2>3, Zenon
<1>7. r \in more /\ At(more, r.revision) = r
    BY LatestOf
<1> QED  BY <1>1, <1>2, <1>6, <1>7

\* An Impact that a candidate names and that is current after a step was so before.
LEMMA ImpactWasCurrent ==
    ASSUME Inv, Inv', Grown, NEW i \in RevisionsOf(qualifications), ImpactCurrent(i)'
    PROVE  /\ ImpactCurrent(i)
           /\ At(qualifications', i) = At(qualifications, i)
           /\ ledger'[At(qualifications, i).source] = ledger[At(qualifications, i).source]
<1> DEFINE q == At(qualifications, i)
<1>1. Numbered(qualifications) /\ Numbered(qualifications') /\ qualifications \subseteq qualifications'
    BY DEF Inv, AllNumbered, Grown
<1>2. /\ i # 0 /\ i = Latest(qualifications')
      /\ At(qualifications', i).source = At(qualifications', i).edge
      /\ At(qualifications', i).source = LatestVersion'
      /\ Overdue[ledger'[At(qualifications', i).source]] > 0
    BY DEF ImpactCurrent, Readable
<1>3. i = Latest(qualifications) /\ q \in qualifications /\ At(qualifications', i) = q
    BY <1>1, <1>2, LatestBefore
<1>4. q.source = LatestVersion
    <2>1. PICK r \in snapshots : r.version = q.source
        BY <1>3 DEF Inv, References
    <2>2. snapshots' # {} /\ snapshots # {} /\ r \in snapshots'
        BY <2>1 DEF Grown
    <2>3. PICK t \in snapshots' : t.version = LatestVersion' /\ t.revision = Latest(snapshots')
        <3>1. (snapshots # {})' /\ Inv'
            BY <2>2
        <3>2. \E t \in snapshots' : t.version = LatestVersion' /\ t.revision = Latest(snapshots')
            <4>1. Numbered(snapshots')
                BY DEF Inv, AllNumbered
            <4>2. /\ Latest(snapshots') \in 0 .. MaxRevision
                  /\ \A k \in 1 .. Latest(snapshots') :
                        At(snapshots', k) \in snapshots' /\ At(snapshots', k).revision = k
                  /\ \A x \in snapshots' : x.revision \in 1 .. Latest(snapshots')
                BY <4>1, LatestOf
            <4>3. Latest(snapshots') \in 1 .. Latest(snapshots')
                BY <2>2, <4>2, ChainAssumption
            <4> QED  BY <2>2, <4>2, <4>3 DEF LatestVersion
        <3> QED  BY <3>2
    <2>4. t = r
        BY <1>2, <1>3, <2>1, <2>2, <2>3 DEF Inv, References
    <2>5. Latest(snapshots') \in RevisionsOf(snapshots)
        BY <2>3, <2>4 DEF RevisionsOf
    <2>6. Numbered(snapshots) /\ Numbered(snapshots') /\ snapshots \subseteq snapshots'
        BY DEF Inv, AllNumbered, Grown
    <2>7. At(snapshots', Latest(snapshots')) = At(snapshots, Latest(snapshots))
        BY <2>5, <2>6, LatestBefore
    <2> QED  BY <1>2, <1>3, <2>2, <2>7 DEF LatestVersion
<1>5. ledger'[q.source] = ledger[q.source]
    BY <1>3, SourceExists DEF Grown
<1> HIDE DEF q
<1> QED  BY <1>2, <1>3, <1>4, <1>5 DEF q, ImpactCurrent, Readable

\* Evidence that returns to an earlier document is a new version: a priority
\* that is not current is never current again.
THEOREM StaleIsForever == Spec => StaleStaysStale
<1>1. ASSUME Inv, Inv', [Next]_vars, NEW p \in priorities, PriorityCurrent(p.candidate, p.revision)'
      PROVE  PriorityCurrent(p.candidate, p.revision)
    <2> DEFINE c == p.candidate
               i == c.impact
               m == p.source
    <2>1. Grown
        BY <1>1, StepGrows
    <2>2. /\ c \in Candidate /\ c \in candidates /\ i \in RevisionsOf(qualifications)
          /\ i \in Revisions /\ m \in RevisionsOf(Of(assessments, c))
        BY <1>1 DEF Inv, TypeOK, PriorityRow, Candidate, References
    <2>3. /\ Numbered(Of(priorities, c)) /\ Numbered(Of(priorities', c))
          /\ Numbered(Of(assessments, c)) /\ Numbered(Of(assessments', c))
        BY <1>1, <2>2 DEF Inv, AllNumbered
    <2>4. Of(priorities, c) \subseteq Of(priorities', c) /\ Of(assessments, c) \subseteq Of(assessments', c)
        BY <2>1 DEF Grown, Of
    <2>5. /\ p.revision # 0 /\ p.revision = Latest(Of(priorities', c))
          /\ OpportunityCurrent(c, At(Of(priorities, c), p.revision).source)'
        BY <1>1 DEF PriorityCurrent
    <2>6. p \in Of(priorities, c) /\ p.revision \in RevisionsOf(Of(priorities, c))
        BY DEF Of, RevisionsOf
    <2>7. /\ p.revision = Latest(Of(priorities, c))
          /\ At(Of(priorities, c), p.revision) = p
          /\ At(Of(priorities', c), p.revision) = p
        <3>1. At(Of(priorities, c), p.revision) = p
            BY <2>3, <2>6, LatestOf
        <3> QED  BY <2>3, <2>4, <2>5, <2>6, <3>1, LatestBefore
    <2>8. OpportunityCurrent(c, m)'
        BY <2>5, <2>7
    <2>9. PICK a \in Of(assessments, c) : a.revision = m
        BY <2>2 DEF RevisionsOf
    <2>10. /\ ImpactCurrent(i)' /\ m # 0 /\ m = Latest(Of(assessments', c))
           /\ Captured(At(Of(assessments, c), m))' > 0
        BY <2>8 DEF OpportunityCurrent, CandidateCurrent
    <2>11. /\ m = Latest(Of(assessments, c)) /\ At(Of(assessments, c), m) = a
           /\ At(Of(assessments', c), m) = a
        <3>1. m = Latest(Of(assessments, c)) /\ At(Of(assessments', c), m) = At(Of(assessments, c), m)
            BY <2>2, <2>3, <2>4, <2>10, LatestBefore
        <3> QED  BY <2>3, <2>9, <3>1, LatestOf
    <2>12. /\ ImpactCurrent(i)
           /\ At(qualifications', i) = At(qualifications, i)
           /\ ledger'[At(qualifications, i).source] = ledger[At(qualifications, i).source]
        BY <1>1, <2>1, <2>2, <2>10, ImpactWasCurrent
    <2>13. Captured(a) > 0
        <3>1. a \in assessments /\ a.candidate = c
            BY <2>9 DEF Of
        <3>2. a.evidence # 0 => a.evidence \in 1 .. Len(collected[i])
            BY <1>1, <3>1, ChainAssumption
            DEF Inv, TypeOK, AssessmentRow, Versions, References
        <3>3. a.evidence # 0 => collected'[i][a.evidence] = collected[i][a.evidence]
            BY <2>1, <2>2, <3>2 DEF Grown
        <3>4. Captured(a)' = Captured(a)
            BY <2>12, <3>1, <3>3 DEF Captured
        <3>5. Captured(a)' > 0
            BY <2>10, <2>11 DEF Captured
        <3> QED  BY <3>4, <3>5
    <2> QED  BY <2>2, <2>5, <2>7, <2>10, <2>11, <2>12, <2>13
             DEF PriorityCurrent, OpportunityCurrent, CandidateCurrent
<1>2. ASSUME Inv, Inv', [Next]_vars
      PROVE  [\A p \in priorities : ~PriorityCurrent(p.candidate, p.revision)
                 => ~PriorityCurrent(p.candidate, p.revision)']_vars
    BY <1>1, <1>2
<1> QED  BY SpecInv, <1>2, PTL DEF Spec, StaleStaysStale

-----------------------------------------------------------------------------
(* Receivables evidence *)

\* A set of natural numbers has a least one.
LEMMA LeastNatural ==
    ASSUME NEW T, T \subseteq Nat, T # {}
    PROVE  \E m \in T : \A j \in T : m <= j
<1> DEFINE below == {ss \in Nat \X Nat : ss[1] < ss[2]}
<1>1. IsWellFoundedOn(below, Nat)
    BY NatLessThanWellFounded, Zenon DEF OpToRel
<1>2. PICK m \in T : \A i \in T : ~ (<<i, m>> \in below)
    <2> HIDE DEF below
    <2> QED  BY <1>1, WFMin, Zenon
<1>3. ASSUME NEW j \in T PROVE m <= j
    <2>1. ~ (<<j, m>> \in below) /\ <<j, m>> \in Nat \X Nat
        BY <1>2
    <2>2. <<j, m>>[1] = j /\ <<j, m>>[2] = m /\ j \in Nat /\ m \in Nat
        OBVIOUS
    <2>3. ~ (j < m)
        BY <2>1, <2>2
    <2> QED  BY <2>2, <2>3
<1> QED  BY <1>3

\* The alternative that is taken is one whose condition holds, and none before it does.
LEMMA FirstDecides ==
    ASSUME NEW n \in Nat, NEW s, DOMAIN s = 1 .. n, NEW k \in 1 .. n, s[k][1]
    PROVE  \E i \in 1 .. k : Decides(s, i) /\ FirstOf(s) = s[i][2]
<1> DEFINE T == {i \in 1 .. k : s[i][1]}
<1>1. PICK m \in T : \A j \in T : m <= j
    <2>1. T # {} /\ T \subseteq Nat
        OBVIOUS
    <2> HIDE DEF T
    <2> QED  BY <2>1, LeastNatural
<1>2. m \in DOMAIN s /\ Decides(s, m)
    <2>1. \A j \in 1 .. m - 1 : j \in 1 .. k /\ j < m
        BY <1>1
    <2> QED  BY <1>1, <2>1 DEF Decides
<1> DEFINE c == CHOOSE i \in DOMAIN s : Decides(s, i)
<1>3. c \in DOMAIN s /\ Decides(s, c)
    BY <1>2
<1>4. FirstOf(s) = s[c][2]
    BY DEF FirstOf
<1> HIDE DEF c
<1>5. c <= k
    <2>1. SUFFICES ASSUME c > k PROVE FALSE
        BY <1>3
    <2>2. k \in 1 .. c - 1
        BY <1>3, <2>1
    <2> QED  BY <1>3, <2>2 DEF Decides
<1> QED  BY <1>3, <1>4, <1>5

\* Nothing is refused exactly when no ground for a refusal holds.
LEMMA NothingRefused ==
    ASSUME NEW s, DOMAIN s = 1 .. 9, s[9][1],
           /\ s[1][2] = "DEFINITION_AUTHORITY" /\ s[2][2] = "SOURCE_AUTHORITY" /\ s[3][2] = "OWNER_STALE"
           /\ s[4][2] = "ABSENCE_NOT_VERIFIED" /\ s[5][2] = "DEFINITION_INSUFFICIENT" /\ s[6][2] = "REVISION_AUTHORITY"
           /\ s[7][2] = "ORIGINALS_COMPETE" /\ s[8][2] = "ORIGINALS_COMPETE" /\ s[9][2] = "NONE"
    PROVE  FirstOf(s) \in RefusalReason \cup {"NONE"} /\ (FirstOf(s) = "NONE" => \A j \in 1 .. 8 : ~s[j][1])
<1> DEFINE r == FirstOf(s)
<1>1. PICK i \in 1 .. 9 : Decides(s, i) /\ r = s[i][2]
    <2>1. 9 \in Nat /\ 9 \in 1 .. 9
        OBVIOUS
    <2> QED  BY <2>1, FirstDecides, Zenon
<1>2. i \in {1, 2, 3, 4, 5, 6, 7, 8, 9}
    OBVIOUS
<1> HIDE DEF r
<1>3. r \in RefusalReason \cup {"NONE"}
    BY <1>1, <1>2 DEF RefusalReason
<1>4. ASSUME r = "NONE" PROVE \A j \in 1 .. 8 : ~s[j][1]
    <2>1. i = 9
        <3>1. \A j \in {1, 2, 3, 4, 5, 6, 7, 8} : s[j][2] # "NONE"
            OBVIOUS
        <3>2. s[i][2] = "NONE"
            BY <1>1, <1>4
        <3> QED  BY <1>2, <3>1, <3>2
    <2> QED  BY <1>1, <2>1 DEF Decides
<1> QED  BY <1>3, <1>4 DEF r

-----------------------------------------------------------------------------
(* What the rows say of their basis: an assessment is blocked by the gaps  *)
(* of its package, by the authority it lacked and by an empty ledger that  *)
(* nothing proved to be empty, and concludes only when nothing blocks it.  *)
RowOk(row) ==
    LET p == row.basis.package IN
    /\ Package[p].gaps \subseteq row.blockers
    /\ ~row.basis.genuine => "AUTHORITY" \in row.blockers
    /\ Package[p].empty /\ row.basis.proof = "NONE" => "EMPTY" \in row.blockers
    /\ row.outcome # "NOT_ASSESSED" => row.blockers = {}

Meaning == {"SUPERSEDED", "CHANGED", "CONFLICTED", "INSUFFICIENT", "PARTIAL", "VERIFIED"}
ReadinessRow == [refs : SUBSET Reference, basis : SUBSET (Reference \X Meaning)]

EvidenceInv ==
    /\ EvidenceTypeOK
    /\ Len(absences) <= MaxRows
    /\ \A i \in DOMAIN absences : RowOk(absences[i])
    /\ \A d \in Definitions : named[d] # 0 =>
           named[d] \in DOMAIN absences /\ absences[named[d]].basis.package = Definition[d].package
    /\ \A k \in DOMAIN projections : named[projections[k].definition] # 0
    /\ readiness \in [Domain -> Seq(ReadinessRow)]

\* What is derived of a package is an assessment that says what blocks it.
LEMMA AssessmentOk ==
    ASSUME EvidenceInv, NEW run \in Readers, NEW p \in Packages, NEW z \in ZeroProofs \cup {"NONE"}
    PROVE  Assessment(p, z, run, absences) \in AbsenceRow /\ RowOk(Assessment(p, z, run, absences))
<1> DEFINE genuine == Genuine(p)
           originals == Originals
           gaps == Package[p].gaps
           reader == IF z = "NONE" THEN 0 ELSE run
           basis == [package |-> p, genuine |-> genuine, originals |-> originals, proof |-> z, run |-> reader]
           found == Blockers(p, z, absences)
           outcome == IF found # {} THEN "NOT_ASSESSED"
                      ELSE IF Package[p].qualifying THEN "QUALIFYING_BALANCE_PRESENT" ELSE "ABSENT_VERIFIED"
           fresh == [basis |-> basis, run |-> run, blockers |-> found, outcome |-> outcome]
           value == Assessment(p, z, run, absences)
<1>1. value = fresh \/ (absences # <<>> /\ value = Last(absences))
    BY DEF Assessment
<1>2. CASE absences # <<>> /\ value = Last(absences)
    <2>1. absences \in Seq(AbsenceRow)
        BY DEF EvidenceInv, EvidenceTypeOK
    <2>2. Len(absences) \in DOMAIN absences /\ absences[Len(absences)] \in AbsenceRow
        <3> HIDE DEF value
        <3> QED  BY <1>2, <2>1
    <2>3. RowOk(absences[Len(absences)])
        BY <2>2 DEF EvidenceInv
    <2> HIDE DEF value
    <2>4. value \in AbsenceRow /\ RowOk(value)
        BY <1>2, <2>2, <2>3 DEF Last
    <2> QED  BY <2>4 DEF value
<1>3. CASE value = fresh
    <2>1. gaps \subseteq Gaps
        BY EvidenceAssumption
    <2>2. found \subseteq Blocker /\ gaps \subseteq found /\ (~genuine => "AUTHORITY" \in found)
          /\ (Package[p].empty /\ z = "NONE" => "EMPTY" \in found)
        <3> DEFINE authority == {b \in {"AUTHORITY"} : ~genuine}
                   empty == {b \in {"EMPTY"} : Package[p].empty /\ z = "NONE"}
                   revision == {b \in {"REVISION"} : ~RevisionAuthorised(p, absences)}
        <3>1. found = gaps \cup authority \cup empty \cup revision
            BY DEF Blockers
        <3>2. authority \subseteq {"AUTHORITY"} /\ empty \subseteq {"EMPTY"} /\ revision \subseteq {"REVISION"}
            OBVIOUS
        <3>3. (~genuine => "AUTHORITY" \in authority) /\ (Package[p].empty /\ z = "NONE" => "EMPTY" \in empty)
            OBVIOUS
        <3> HIDE DEF authority, empty, revision, found, gaps, genuine
        <3> QED  BY <2>1, <3>1, <3>2, <3>3 DEF Blocker
    <2>3. genuine \in BOOLEAN /\ originals \in SUBSET Packages /\ reader \in Readers \cup {0}
        BY DEF Genuine, Originals
    <2>4. outcome \in Outcome /\ (outcome # "NOT_ASSESSED" => found = {})
        BY DEF Outcome
    <2> HIDE DEF genuine, originals, gaps, reader, found, outcome, value
    <2>5. basis \in Basis
        BY <2>3 DEF Basis
    <2>6. fresh \in AbsenceRow
        <3> HIDE DEF basis
        <3> QED  BY <2>2, <2>4, <2>5 DEF AbsenceRow
    <2>7. fresh.basis.package = p /\ fresh.basis.genuine = genuine /\ fresh.basis.proof = z
          /\ fresh.blockers = found /\ fresh.outcome = outcome
        OBVIOUS
    <2> HIDE DEF fresh
    <2>8. RowOk(fresh)
        BY <2>2, <2>4, <2>7 DEF RowOk, gaps
    <2>9. value \in AbsenceRow /\ RowOk(value)
        BY <1>3, <2>6, <2>8
    <2> QED  BY <2>9 DEF value
<1> QED  BY <1>1, <1>2, <1>3

\* One of three.
LEMMA OneOfThree ==
    ASSUME NEW s, DOMAIN s = 1 .. 3, s[3][1]
    PROVE  \/ s[1][1] /\ FirstOf(s) = s[1][2]
           \/ ~s[1][1] /\ s[2][1] /\ FirstOf(s) = s[2][2]
           \/ ~s[1][1] /\ ~s[2][1] /\ FirstOf(s) = s[3][2]
<1>1. PICK i \in 1 .. 3 : Decides(s, i) /\ FirstOf(s) = s[i][2]
    <2>1. 3 \in Nat /\ 3 \in 1 .. 3
        OBVIOUS
    <2> QED  BY <2>1, FirstDecides, Zenon
<1>2. CASE i = 1
    BY <1>1, <1>2 DEF Decides
<1>3. CASE i = 2
    <2>1. 1 \in 1 .. i - 1
        BY <1>3
    <2> QED  BY <1>1, <1>3, <2>1 DEF Decides
<1>4. CASE i = 3
    <2>1. 1 \in 1 .. i - 1 /\ 2 \in 1 .. i - 1
        BY <1>4
    <2> QED  BY <1>1, <1>4, <2>1 DEF Decides
<1> QED  BY <1>1, <1>2, <1>3, <1>4

\* One of six.
LEMMA OneOfSix ==
    ASSUME NEW s, DOMAIN s = 1 .. 6, s[6][1]
    PROVE  /\ FirstOf(s) \in {s[1][2], s[2][2], s[3][2], s[4][2], s[5][2], s[6][2]}
           /\ s[1][1] => FirstOf(s) = s[1][2]
<1>1. \E i \in 1 .. 6 : Decides(s, i) /\ FirstOf(s) = s[i][2]
    <2>1. 6 \in Nat /\ 6 \in 1 .. 6
        OBVIOUS
    <2> QED  BY <2>1, FirstDecides, Zenon
<1>2. ASSUME s[1][1] PROVE FirstOf(s) = s[1][2]
    <2>1. 6 \in Nat /\ 1 \in 1 .. 6
        OBVIOUS
    <2>2. \E i \in 1 .. 1 : Decides(s, i) /\ FirstOf(s) = s[i][2]
        BY <1>2, <2>1, FirstDecides, Zenon
    <2> QED  BY <2>2
<1>3. \A i \in 1 .. 6 : i \in {1, 2, 3, 4, 5, 6}
    OBVIOUS
<1> QED  BY <1>1, <1>2, <1>3

\* What a row is good for.
LEMMA ClassifyTyped ==
    ASSUME NEW domain \in Domain, NEW ref \in Reference
    PROVE  Classify(domain, ref) \in Meaning
<1>1. ref[1] \in {"ABSENCE", "ZERO", "PROJECTION", "UNKNOWN"}
    BY DEF Reference
<1>2. CASE ref[1] = "ABSENCE"
    <2> DEFINE row == absences[ref[2]]
               p == row.basis.package
               v == Classify(domain, ref)
    <2>1. v = ClassifyAbsence(domain, row)
        BY <1>2 DEF Classify
    <2>2. CASE domain = "ABSENCE"
        <3> DEFINE s == << <<row.outcome = "ABSENT_VERIFIED", "VERIFIED">>,
                           <<"MISMATCH" \in Package[p].gaps, "CONFLICTED">>, <<TRUE, "INSUFFICIENT">> >>
        <3>1. v = FirstOf(s)
            BY <2>1, <2>2 DEF ClassifyAbsence
        <3>2. DOMAIN s = 1 .. 3 /\ s[3][1] /\ s[1][2] = "VERIFIED" /\ s[2][2] = "CONFLICTED" /\ s[3][2] = "INSUFFICIENT"
            OBVIOUS
        <3> HIDE DEF v, s
        <3>3. v = "VERIFIED" \/ v = "CONFLICTED" \/ v = "INSUFFICIENT"
            BY <3>1, <3>2, OneOfThree
        <3> QED  BY <3>3 DEF v, Meaning
    <2>3. CASE domain # "ABSENCE"
        <3> DEFINE s == << <<~Genuine(p), "INSUFFICIENT">>,
                           <<"MISMATCH" \in Package[p].gaps, "CONFLICTED">>,
                           <<"MEMBERSHIP" \in Package[p].gaps, "PARTIAL">>,
                           <<Package[p].empty /\ row.basis.proof = "NONE", "INSUFFICIENT">>,
                           <<row.blockers \cap {"REVISION", "BOUNDARY"} # {}, "CONFLICTED">>,
                           <<TRUE, "VERIFIED">> >>
        <3>1. v = FirstOf(s)
            BY <2>1, <2>3 DEF ClassifyAbsence
        <3>2. /\ DOMAIN s = 1 .. 6 /\ s[6][1] /\ s[1][2] = "INSUFFICIENT" /\ s[2][2] = "CONFLICTED"
              /\ s[3][2] = "PARTIAL" /\ s[4][2] = "INSUFFICIENT" /\ s[5][2] = "CONFLICTED" /\ s[6][2] = "VERIFIED"
            OBVIOUS
        <3> HIDE DEF v, s
        <3>3. v \in {"INSUFFICIENT", "CONFLICTED", "PARTIAL", "VERIFIED"}
            BY <3>1, <3>2, OneOfSix
        <3> QED  BY <3>3 DEF v, Meaning
    <2> QED  BY <2>2, <2>3
<1>3. CASE ref[1] # "ABSENCE"
    BY <1>1, <1>3 DEF Classify, Meaning
<1> QED  BY <1>2, <1>3

\* How a reference stands.
LEMMA StandsAs ==
    ASSUME NEW domain \in Domain, NEW refs \in SUBSET Reference, NEW reader, NEW x \in Standing(domain, refs, reader)
    PROVE  /\ x \in Reference \X Meaning /\ x[1] \in refs
           /\ \/ x[2] \in {"SUPERSEDED", "CHANGED"}
              \/ /\ x[1][2] = Len(RowsOf(x[1][1])) /\ ReferenceCurrent(x[1], reader)
                 /\ x[2] = Classify(domain, x[1])
<1> DEFINE As(ref) == FirstOf(<< <<ref[2] # Len(RowsOf(ref[1])), "SUPERSEDED">>,
                                 <<~ReferenceCurrent(ref, reader), "CHANGED">>, <<TRUE, Classify(domain, ref)>> >>)
<1>1. PICK ref \in refs : x = <<ref, As(ref)>>
    BY DEF Standing
<1> DEFINE v == As(ref)
<1>2. \/ ref[2] # Len(RowsOf(ref[1])) /\ v = "SUPERSEDED"
      \/ ~ReferenceCurrent(ref, reader) /\ v = "CHANGED"
      \/ /\ ref[2] = Len(RowsOf(ref[1])) /\ ReferenceCurrent(ref, reader)
         /\ v = Classify(domain, ref)
    <2> DEFINE s == << <<ref[2] # Len(RowsOf(ref[1])), "SUPERSEDED">>, <<~ReferenceCurrent(ref, reader), "CHANGED">>,
                       <<TRUE, Classify(domain, ref)>> >>
    <2>1. v = FirstOf(s)
        OBVIOUS
    <2>2. /\ DOMAIN s = 1 .. 3 /\ s[3][1]
          /\ s[1][1] = (ref[2] # Len(RowsOf(ref[1]))) /\ s[2][1] = (~ReferenceCurrent(ref, reader))
          /\ s[1][2] = "SUPERSEDED" /\ s[2][2] = "CHANGED" /\ s[3][2] = Classify(domain, ref)
        OBVIOUS
    <2> HIDE DEF v, s
    <2> QED  BY <2>1, <2>2, OneOfThree
<1>3. x = <<ref, v>>
    BY <1>1
<1> HIDE DEF v
<1>4. Classify(domain, ref) \in Meaning
    BY ClassifyTyped
<1>5. v \in Meaning
    BY <1>2, <1>4 DEF Meaning
<1>6. ref \in Reference
    OBVIOUS
<1> QED  BY <1>2, <1>3, <1>5, <1>6

\* A view that nothing refuses.
LEMMA Views ==
    ASSUME NEW d, NEW before, NEW reader
    PROVE  /\ Refusal(d, before, reader) \in RefusalReason \cup {"NONE"}
           /\ Refusal(d, before, reader) = "NONE" =>
                /\ Genuine(d) /\ Genuine(Definition[d].package) /\ AbsenceCurrent(named[d], reader)
                /\ absences[named[d]].outcome = "ABSENT_VERIFIED" /\ Cardinality(Originals) = 1
<1> DEFINE x == Definition[d]
           p == Package[x.package]
           n == named[d]
           prior == Definition[Last(before).definition]
           c6 == IF before = <<>> THEN p.kind # "ORIGINAL" \/ p.from # "NONE" \/ x.revision # 1 \/ x.from # "NONE"
                 ELSE \/ x.revision # prior.revision + 1 \/ x.from # Last(before).definition \/ x.kind # "CORRECTION"
                      \/ x.package # prior.package /\ ~(p.from = prior.package /\ p.kind = "CORRECTION")
           c8 == before = <<>> /\ Originals # {x.package}
           s == << <<~Genuine(d), "DEFINITION_AUTHORITY">>,
                   <<~Genuine(x.package), "SOURCE_AUTHORITY">>,
                   <<~AbsenceCurrent(n, reader), "OWNER_STALE">>,
                   <<absences[n].outcome # "ABSENT_VERIFIED", "ABSENCE_NOT_VERIFIED">>,
                   <<~x.complete, "DEFINITION_INSUFFICIENT">>,
                   <<c6, "REVISION_AUTHORITY">>,
                   <<Cardinality(Originals) # 1, "ORIGINALS_COMPETE">>,
                   <<c8, "ORIGINALS_COMPETE">>,
                   <<TRUE, "NONE">> >>
           r == Refusal(d, before, reader)
<1>1. r = FirstOf(s)
    BY DEF Refusal
<1> HIDE DEF c6, c8
<1>2. DOMAIN s = 1 .. 9 /\ s[9][1]
    OBVIOUS
<1>3. /\ s[1][2] = "DEFINITION_AUTHORITY" /\ s[2][2] = "SOURCE_AUTHORITY" /\ s[3][2] = "OWNER_STALE"
      /\ s[4][2] = "ABSENCE_NOT_VERIFIED" /\ s[5][2] = "DEFINITION_INSUFFICIENT" /\ s[6][2] = "REVISION_AUTHORITY"
      /\ s[7][2] = "ORIGINALS_COMPETE" /\ s[8][2] = "ORIGINALS_COMPETE" /\ s[9][2] = "NONE"
    OBVIOUS
<1>4. /\ s[1][1] = (~Genuine(d)) /\ s[2][1] = (~Genuine(x.package)) /\ s[3][1] = (~AbsenceCurrent(n, reader))
      /\ s[4][1] = (absences[n].outcome # "ABSENT_VERIFIED") /\ s[7][1] = (Cardinality(Originals) # 1)
    OBVIOUS
<1> HIDE DEF s, r
<1>5. r \in RefusalReason \cup {"NONE"} /\ (r = "NONE" => \A j \in 1 .. 8 : ~s[j][1])
    BY <1>1, <1>2, <1>3, NothingRefused
<1>6. ASSUME r = "NONE"
      PROVE  /\ Genuine(d) /\ Genuine(x.package) /\ AbsenceCurrent(n, reader)
             /\ absences[n].outcome = "ABSENT_VERIFIED" /\ Cardinality(Originals) = 1
    <2>1. ~s[1][1] /\ ~s[2][1] /\ ~s[3][1] /\ ~s[4][1] /\ ~s[7][1]
        BY <1>5, <1>6
    <2> QED  BY <1>4, <2>1
<1> QED  BY <1>5, <1>6 DEF r

LEMMA EvidenceStarts == EvidenceInit => EvidenceInv
<1> SUFFICES ASSUME EvidenceInit PROVE EvidenceInv
    OBVIOUS
<1>1. EvidenceTypeOK
    BY EvidenceAssumption DEF EvidenceInit, EvidenceTypeOK
<1>2. readiness \in [Domain -> Seq(ReadinessRow)]
    BY DEF EvidenceInit
<1> QED  BY <1>1, <1>2, EvidenceAssumption DEF EvidenceInit, EvidenceInv

\* The end of a table is one of its rows.
LEMMA RowAdded ==
    ASSUME NEW S, NEW s \in Seq(S), NEW e \in S
    PROVE  /\ Append(s, e) \in Seq(S) /\ Len(Append(s, e)) = Len(s) + 1
           /\ DOMAIN s \subseteq DOMAIN Append(s, e)
           /\ \A i \in DOMAIN s : Append(s, e)[i] = s[i]
           /\ \A i \in DOMAIN Append(s, e) : i \in DOMAIN s \/ Append(s, e)[i] = e
<1> QED  OBVIOUS

LEMMA ZerosKept ==
    ASSUME EvidenceInv, NEW z \in ZeroProofs, NEW run \in Readers
    PROVE  Kept(z, run) \in Seq(ZeroRow)
<1>1. zeros \in Seq(ZeroRow) /\ [proof |-> z, run |-> run] \in ZeroRow
    BY DEF EvidenceInv, EvidenceTypeOK, ZeroRow
<1> QED  BY <1>1 DEF Kept

LEMMA SourcesInv ==
    ASSUME EvidenceInv, UNCHANGED <<named, absences, zeros, projections, unknowns, readiness>>,
           registered' \subseteq Packages \cup ZeroProofs, withdrawn' \subseteq Issued
    PROVE  EvidenceInv'
<1>1. EvidenceTypeOK'
    BY DEF EvidenceInv, EvidenceTypeOK
<1> QED  BY <1>1 DEF EvidenceInv, RowOk

LEMMA RegisterDefinitionInv ==
    ASSUME EvidenceInv, NEW d \in Definitions, NEW n \in DOMAIN absences, RegisterDefinition(d, n)
    PROVE  EvidenceInv'
<1>1. /\ absences[n].basis.package = Definition[d].package /\ named[d] = 0
      /\ named' = [named EXCEPT ![d] = n]
      /\ UNCHANGED <<registered, withdrawn, absences, zeros, projections, unknowns, readiness>>
    BY DEF RegisterDefinition
<1>2. absences \in Seq(AbsenceRow) /\ named \in [Definitions -> 0 .. MaxRows] /\ Len(absences) <= MaxRows
    BY DEF EvidenceInv, EvidenceTypeOK
<1>3. n \in 1 .. MaxRows
    BY <1>2, EvidenceAssumption
<1>4. EvidenceTypeOK'
    <2>1. named' \in [Definitions -> 0 .. MaxRows]
        BY <1>1, <1>2, <1>3
    <2> QED  BY <1>1, <2>1 DEF EvidenceInv, EvidenceTypeOK
<1>5. (\A i \in DOMAIN absences : RowOk(absences[i]))'
    BY <1>1 DEF EvidenceInv, RowOk
<1>6. \A e \in Definitions : named'[e] # 0 =>
         named'[e] \in DOMAIN absences' /\ absences'[named'[e]].basis.package = Definition[e].package
    <2>1. \A e \in Definitions : named[e] # 0 =>
             named[e] \in DOMAIN absences /\ absences[named[e]].basis.package = Definition[e].package
        BY DEF EvidenceInv
    <2> QED  BY <1>1, <1>2, <2>1
<1>7. \A k \in DOMAIN projections : named'[projections[k].definition] # 0
    <2>1. \A k \in DOMAIN projections : projections[k].definition \in Definitions
                /\ named[projections[k].definition] # 0
        <3>1. projections \in Seq(ProjectionRow)
            BY DEF EvidenceInv, EvidenceTypeOK
        <3>2. \A k \in DOMAIN projections : projections[k] \in ProjectionRow
            BY <3>1
        <3> QED  BY <3>2 DEF EvidenceInv, ProjectionRow
    <2> QED  BY <1>1, <1>2, <1>3, <2>1
<1> QED  BY <1>1, <1>4, <1>5, <1>6, <1>7 DEF EvidenceInv

LEMMA CaptureZeroInv ==
    ASSUME EvidenceInv, NEW z \in ZeroProofs, NEW run \in Readers, CaptureZero(run, z)
    PROVE  EvidenceInv'
<1>1. zeros' \in Seq(ZeroRow) /\ UNCHANGED <<registered, withdrawn, named, absences, projections, unknowns, readiness>>
    BY ZerosKept DEF CaptureZero
<1>2. EvidenceTypeOK'
    BY <1>1 DEF EvidenceInv, EvidenceTypeOK
<1> QED  BY <1>1, <1>2 DEF EvidenceInv, RowOk

LEMMA AssessAbsenceInv ==
    ASSUME EvidenceInv, NEW p \in Packages, NEW z \in ZeroProofs \cup {"NONE"}, NEW run \in Readers,
           Len(absences) < MaxRows, AssessAbsence(run, p, z)
    PROVE  EvidenceInv'
<1> DEFINE value == Assessment(p, z, run, absences)
<1>1. /\ zeros' = IF z = "NONE" THEN zeros ELSE Kept(z, run)
      /\ absences' = Append(absences, value)
      /\ UNCHANGED <<registered, withdrawn, named, projections, unknowns, readiness>>
    BY DEF AssessAbsence
<1>2. value \in AbsenceRow /\ RowOk(value)
    BY AssessmentOk
<1>3. zeros' \in Seq(ZeroRow)
    <2>1. zeros \in Seq(ZeroRow)
        BY DEF EvidenceInv, EvidenceTypeOK
    <2>2. CASE z = "NONE"
        BY <1>1, <2>1, <2>2
    <2>3. CASE z # "NONE"
        BY <1>1, <2>3, ZerosKept
    <2> QED  BY <2>2, <2>3
<1> HIDE DEF value
<1>4. absences \in Seq(AbsenceRow)
    BY DEF EvidenceInv, EvidenceTypeOK
<1>5. /\ absences' \in Seq(AbsenceRow) /\ Len(absences') = Len(absences) + 1
      /\ DOMAIN absences \subseteq DOMAIN absences'
      /\ \A i \in DOMAIN absences : absences'[i] = absences[i]
      /\ \A i \in DOMAIN absences' : i \in DOMAIN absences \/ absences'[i] = value
    BY <1>1, <1>2, <1>4, RowAdded
<1>6. EvidenceTypeOK'
    BY <1>1, <1>3, <1>5 DEF EvidenceInv, EvidenceTypeOK
<1>7. \A i \in DOMAIN absences' : RowOk(absences'[i])
    BY <1>2, <1>5 DEF EvidenceInv
<1>8. Len(absences') <= MaxRows
    BY <1>4, <1>5, EvidenceAssumption
<1>9. \A d \in Definitions : named'[d] # 0 =>
         named'[d] \in DOMAIN absences' /\ absences'[named'[d]].basis.package = Definition[d].package
    BY <1>1, <1>5 DEF EvidenceInv
<1>10. (\A i \in DOMAIN absences : RowOk(absences[i]))'
    BY <1>7 DEF RowOk
<1> QED  BY <1>1, <1>6, <1>8, <1>9, <1>10 DEF EvidenceInv

LEMMA CaptureProjectionInv ==
    ASSUME EvidenceInv, NEW d \in Definitions, NEW reader \in Readers, CaptureProjection(reader, d)
    PROVE  EvidenceInv'
<1> DEFINE row == [definition |-> d, run |-> reader]
<1>1. /\ named[d] # 0 /\ projections' = Append(projections, row)
      /\ UNCHANGED <<registered, withdrawn, named, absences, zeros, unknowns, readiness>>
    BY DEF CaptureProjection
<1>2. row \in ProjectionRow /\ row.definition = d
    BY DEF ProjectionRow
<1> HIDE DEF row
<1>3. projections \in Seq(ProjectionRow)
    BY DEF EvidenceInv, EvidenceTypeOK
<1>4. /\ projections' \in Seq(ProjectionRow)
      /\ \A i \in DOMAIN projections : projections'[i] = projections[i]
      /\ \A i \in DOMAIN projections' : i \in DOMAIN projections \/ projections'[i] = row
    BY <1>1, <1>2, <1>3, RowAdded
<1>5. EvidenceTypeOK'
    BY <1>1, <1>4 DEF EvidenceInv, EvidenceTypeOK
<1>6. \A k \in DOMAIN projections' : named'[projections'[k].definition] # 0
    BY <1>1, <1>2, <1>4 DEF EvidenceInv
<1> QED  BY <1>1, <1>5, <1>6 DEF EvidenceInv, RowOk

LEMMA CaptureUnknownInv ==
    ASSUME EvidenceInv, NEW d \in Definitions, NEW reader \in Readers, CaptureUnknown(reader, d)
    PROVE  EvidenceInv'
<1> DEFINE reason == Refusal(d, Placed(d), reader)
           row == Refused(reader, d)
<1>1. /\ row.reason # "NONE" /\ unknowns' = Append(unknowns, row)
      /\ UNCHANGED <<registered, withdrawn, named, absences, zeros, projections, readiness>>
    BY DEF CaptureUnknown
<1>2. row \in UnknownRow
    <2>1. reason \in RefusalReason
        <3>1. reason \in RefusalReason \cup {"NONE"}
            BY Views
        <3>2. reason # "NONE"
            BY <1>1 DEF Refused
        <3> QED  BY <3>1, <3>2
    <2>2. named[d] \in Nat
        BY EvidenceAssumption DEF EvidenceInv, EvidenceTypeOK
    <2>3. row = [definition |-> d, owner |-> named[d], reason |-> reason]
        BY DEF Refused
    <2> HIDE DEF reason, row
    <2> QED  BY <2>1, <2>2, <2>3 DEF UnknownRow
<1> HIDE DEF row
<1>3. unknowns \in Seq(UnknownRow)
    BY DEF EvidenceInv, EvidenceTypeOK
<1>4. /\ unknowns' \in Seq(UnknownRow)
      /\ \A i \in DOMAIN unknowns : unknowns'[i] = unknowns[i]
      /\ \A i \in DOMAIN unknowns' : i \in DOMAIN unknowns \/ unknowns'[i] = row
    BY <1>1, <1>2, <1>3, RowAdded
<1>5. EvidenceTypeOK'
    BY <1>1, <1>4 DEF EvidenceInv, EvidenceTypeOK
<1> QED  BY <1>1, <1>5 DEF EvidenceInv, RowOk

LEMMA AssessReadinessInv ==
    ASSUME EvidenceInv, NEW domain \in Domain, NEW refs \in SUBSET Reference, NEW run \in Readers,
           AssessReadiness(run, domain, refs)
    PROVE  EvidenceInv'
<1> DEFINE basis == Standing(domain, refs, run)
           row == [refs |-> refs, basis |-> basis]
<1>1. /\ readiness' = [readiness EXCEPT ![domain] = Append(@, row)]
      /\ UNCHANGED <<registered, withdrawn, named, absences, zeros, projections, unknowns>>
    BY DEF AssessReadiness
<1>2. basis \in SUBSET (Reference \X Meaning)
    BY StandsAs
<1>3. row \in ReadinessRow
    <2> HIDE DEF basis
    <2> QED  BY <1>2 DEF ReadinessRow
<1> HIDE DEF row
<1>4. readiness' \in [Domain -> Seq(ReadinessRow)]
    <2>1. readiness \in [Domain -> Seq(ReadinessRow)]
        BY DEF EvidenceInv
    <2>2. Append(readiness[domain], row) \in Seq(ReadinessRow)
        BY <1>3, <2>1, RowAdded
    <2> QED  BY <1>1, <2>1, <2>2
<1>5. /\ DOMAIN readiness' = Domain
      /\ \A d \in Domain : \A i \in DOMAIN readiness'[d] : readiness'[d][i].refs \subseteq Reference
    <2>1. \A d \in Domain : \A i \in DOMAIN readiness'[d] : readiness'[d][i] \in ReadinessRow
        BY <1>4
    <2> QED  BY <1>4, <2>1 DEF ReadinessRow
<1>6. EvidenceTypeOK'
    BY <1>1, <1>5 DEF EvidenceInv, EvidenceTypeOK
<1> QED  BY <1>1, <1>4, <1>6 DEF EvidenceInv, RowOk

LEMMA EvidenceSteps == EvidenceInv /\ [EvidenceNext]_evidenceVars => EvidenceInv'
<1> SUFFICES ASSUME EvidenceInv, [EvidenceNext]_evidenceVars PROVE EvidenceInv'
    OBVIOUS
<1>1. registered \subseteq Packages \cup ZeroProofs /\ withdrawn \subseteq Issued
    BY DEF EvidenceInv, EvidenceTypeOK
<1>2. ASSUME NEW d \in (Packages \cup ZeroProofs) \ registered, RegisterSource(d) PROVE EvidenceInv'
    <2>1. registered' \subseteq Packages \cup ZeroProofs /\ withdrawn' \subseteq Issued
        BY <1>1, <1>2 DEF RegisterSource
    <2> QED  BY <1>2, <2>1, SourcesInv DEF RegisterSource
<1>3. ASSUME NEW d \in Issued, ChangeAuthority(d) PROVE EvidenceInv'
    <2>1. registered' \subseteq Packages \cup ZeroProofs /\ withdrawn' \subseteq Issued
        BY <1>1, <1>3 DEF ChangeAuthority
    <2> QED  BY <1>3, <2>1, SourcesInv DEF ChangeAuthority
<1>4. ASSUME NEW d \in Definitions, NEW n \in DOMAIN absences, RegisterDefinition(d, n) PROVE EvidenceInv'
    BY <1>4, RegisterDefinitionInv
<1>5. ASSUME NEW run \in Readers, NEW z \in ZeroProofs, CaptureZero(run, z) PROVE EvidenceInv'
    BY <1>5, CaptureZeroInv
<1>6. ASSUME NEW run \in Readers, NEW p \in Packages, NEW z \in ZeroProofs \cup {"NONE"},
             Len(absences) < MaxRows, AssessAbsence(run, p, z)
      PROVE  EvidenceInv'
    BY <1>6, AssessAbsenceInv
<1>7. ASSUME NEW run \in Readers, NEW d \in Definitions, CaptureProjection(run, d) PROVE EvidenceInv'
    BY <1>7, CaptureProjectionInv
<1>8. ASSUME NEW run \in Readers, NEW d \in Definitions, CaptureUnknown(run, d) PROVE EvidenceInv'
    BY <1>8, CaptureUnknownInv
<1>9. ASSUME NEW run \in Readers, NEW domain \in Domain, NEW ref \in Referable(domain),
             AssessReadiness(run, domain, {ref})
      PROVE  EvidenceInv'
    <2>1. {ref} \in SUBSET Reference
        BY DEF Referable
    <2> QED  BY <1>9, <2>1, AssessReadinessInv
<1>10. CASE UNCHANGED evidenceVars
    <2>1. UNCHANGED <<named, absences, zeros, projections, unknowns, readiness>> /\ registered' = registered
          /\ withdrawn' = withdrawn
        BY <1>10 DEF evidenceVars
    <2> QED  BY <1>1, <2>1, SourcesInv
<1> QED  BY <1>2, <1>3, <1>4, <1>5, <1>6, <1>7, <1>8, <1>9, <1>10 DEF EvidenceNext

LEMMA EvidenceInvariance == EvidenceSpec => []EvidenceInv
<1> QED  BY EvidenceStarts, EvidenceSteps, PTL DEF EvidenceSpec

\* The tables keep the shape of their contracts.
THEOREM EvidenceTypeCorrect == EvidenceSpec => []EvidenceTypeOK
<1>1. EvidenceInv => EvidenceTypeOK
    BY DEF EvidenceInv
<1> QED  BY <1>1, EvidenceInvariance, PTL

\* A definition has one place among the projections, and there it is refused or not.
LEMMA NeverBoth == EvidenceInv => NeverBothTold
<1> SUFFICES ASSUME EvidenceInv, NEW reader \in Readers, projections # <<>>, unknowns # <<>>,
                    ProjectionCurrent(Len(projections), reader), UnknownCurrent(Len(unknowns), reader),
                    Last(projections).definition = Last(unknowns).definition
             PROVE  FALSE
    BY DEF NeverBothTold
<1> DEFINE n == Len(projections)
           k == Len(unknowns)
           d == projections[n].definition
<1>1. projections \in Seq(ProjectionRow) /\ unknowns \in Seq(UnknownRow)
    BY DEF EvidenceInv, EvidenceTypeOK
<1>2. n \in DOMAIN projections /\ k \in DOMAIN unknowns /\ unknowns[k] \in UnknownRow
    BY <1>1
<1>3. unknowns[k].definition = d
    BY DEF Last
<1>4. Refusal(d, Front(projections), reader) = "NONE"
    BY DEF ProjectionCurrent
<1>5. Refused(reader, d) = unknowns[k]
    BY <1>3 DEF UnknownCurrent
<1>6. d \in Viewed
    BY <1>2 DEF Viewed
<1>7. Refused(reader, d).reason = Refusal(d, Front(projections), reader)
    BY <1>6 DEF Refused, Placed
<1>8. unknowns[k].reason \in RefusalReason
    BY <1>2 DEF UnknownRow
<1> QED  BY <1>4, <1>5, <1>7, <1>8 DEF RefusalReason

\* An assessment that would be derived again is of the present authority of its package.
LEMMA PresentBasis ==
    ASSUME NEW p, NEW z, NEW run, NEW before, NEW row, Assessment(p, z, run, before) = row
    PROVE  row.basis.genuine = Genuine(p)
<1> DEFINE basis == [package |-> p, genuine |-> Genuine(p), originals |-> Originals, proof |-> z,
                     run |-> IF z = "NONE" THEN 0 ELSE run]
<1>1. row.basis = basis
    <2>1. CASE before # <<>> /\ Last(before).basis = basis
        BY <2>1 DEF Assessment
    <2>2. CASE ~(before # <<>> /\ Last(before).basis = basis)
        <3> DEFINE found == Blockers(p, z, before)
                   outcome == IF found # {} THEN "NOT_ASSESSED"
                              ELSE IF Package[p].qualifying THEN "QUALIFYING_BALANCE_PRESENT" ELSE "ABSENT_VERIFIED"
        <3>1. row = [basis |-> basis, run |-> run, blockers |-> found, outcome |-> outcome]
            BY <2>2 DEF Assessment
        <3> HIDE DEF basis, found, outcome
        <3> QED  BY <3>1
    <2> QED  BY <2>1, <2>2
<1> DEFINE genuine == Genuine(p)
           originals == Originals
<1>2. basis.genuine = genuine
    OBVIOUS
<1> QED  BY <1>1, <1>2

\* A current assessment is the latest and, if nothing blocked it, of a package that is still vouched for.
LEMMA CurrentAssessment ==
    ASSUME EvidenceInv, NEW n \in DOMAIN absences, NEW reader, AbsenceCurrent(n, reader)
    PROVE  LET row == absences[n]  p == row.basis.package IN
           /\ n = Len(absences) /\ absences # <<>> /\ p \in Packages /\ RowOk(row)
           /\ row.blockers = {} => Genuine(p) /\ Package[p].gaps = {}
           /\ row.basis.proof # "NONE" => Last(zeros).proof = row.basis.proof /\ ZeroCurrent(Len(zeros), reader)
<1> DEFINE row == absences[n]
           p == row.basis.package
<1>1. row \in AbsenceRow /\ absences # <<>>
    <2>1. absences \in Seq(AbsenceRow)
        BY DEF EvidenceInv, EvidenceTypeOK
    <2> QED  BY <2>1
<1>2. RowOk(row)
    BY DEF EvidenceInv
<1>3. p \in Packages
    BY <1>1 DEF AbsenceRow, Basis
<1>4. Assessment(p, row.basis.proof, row.run, Front(absences)) = row
    BY DEF AbsenceCurrent
<1>5. row.basis.genuine = Genuine(p)
    <2> HIDE DEF row, p
    <2> QED  BY <1>4, PresentBasis
<1>6. n = Len(absences)
      /\ (row.basis.proof # "NONE" => Last(zeros).proof = row.basis.proof /\ ZeroCurrent(Len(zeros), reader))
    BY DEF AbsenceCurrent
<1>7. ASSUME row.blockers = {} PROVE Genuine(p) /\ Package[p].gaps = {}
    BY <1>2, <1>5, <1>7 DEF RowOk
<1> QED  BY <1>1, <1>2, <1>3, <1>6, <1>7

-----------------------------------------------------------------------------
(* The proofs of empty ledgers that hold: the least set that has every     *)
(* proof that holds by itself, and every one that corrects one it has.     *)
Holds(z) ==
    LET x == ZeroProof[z]  p == Package[x.package] IN
    /\ {z, x.package} \subseteq registered /\ Genuine(z) /\ Genuine(x.package)
    /\ x.completed /\ p.empty /\ p.gaps \cap {"MEMBERSHIP", "BOUNDARY", "CONTROL", "MISMATCH"} = {}
Starts(z) ==
    LET x == ZeroProof[z]  p == Package[x.package] IN
    /\ x.revision = 1 /\ x.from = "NONE" /\ x.kind = "ORIGINAL"
    /\ p.kind = "ORIGINAL" /\ Originals = {x.package}
Corrects(z) ==
    LET x == ZeroProof[z]  p == Package[x.package] IN
    /\ x.revision > 1 /\ x.from # "NONE" /\ x.kind = "CORRECTION"
    /\ ZeroProof[x.from].revision = x.revision - 1
    /\ \/ x.package = ZeroProof[x.from].package
       \/ p.from = ZeroProof[x.from].package /\ p.kind = "CORRECTION"
Inductive(T) == \A z \in ZeroProofs : Holds(z) /\ (Starts(z) \/ (Corrects(z) /\ ZeroProof[z].from \in T)) => z \in T
Supported == {z \in ZeroProofs : \A T \in SUBSET ZeroProofs : Inductive(T) => z \in T}

\* A member is there for one of the two reasons.
LEMMA SupportedIs ==
    ASSUME NEW z \in ZeroProofs
    PROVE  z \in Supported <=> Holds(z) /\ (Starts(z) \/ (Corrects(z) /\ ZeroProof[z].from \in Supported))
<1> DEFINE F(w, T) == Holds(w) /\ (Starts(w) \/ (Corrects(w) /\ ZeroProof[w].from \in T))
<1>1. Supported \subseteq ZeroProofs
    BY DEF Supported
<1>2. ASSUME NEW w \in ZeroProofs, F(w, Supported) PROVE w \in Supported
    <2>1. SUFFICES ASSUME NEW T \in SUBSET ZeroProofs, Inductive(T) PROVE w \in T
        BY DEF Supported
    <2>2. Supported \subseteq T
        BY <2>1 DEF Supported
    <2> QED  BY <1>2, <2>1, <2>2 DEF Inductive
<1>3. ASSUME z \in Supported PROVE F(z, Supported)
    <2> DEFINE U == {w \in Supported : F(w, Supported)}
    <2>1. U \in SUBSET ZeroProofs /\ U \subseteq Supported
        BY <1>1
    <2>2. Inductive(U)
        <3>1. SUFFICES ASSUME NEW w \in ZeroProofs, F(w, U) PROVE w \in U
            BY DEF Inductive
        <3>2. F(w, Supported)
            BY <2>1, <3>1
        <3> QED  BY <1>2, <3>2
    <2>3. z \in U
        <3> HIDE DEF U
        <3> QED  BY <1>3, <2>1, <2>2 DEF Supported
    <2> QED  BY <2>3
<1> QED  BY <1>2, <1>3

\* A proof that holds is registered, as is its package, and both are vouched for.
LEMMA EmptiesHold ==
    ASSUME NEW z \in ZeroProofs, Empties[z]
    PROVE  Holds(z)
<1> DEFINE Body(f, w) ==
               LET x == ZeroProof[w]  p == Package[x.package] IN
               /\ {w, x.package} \subseteq registered /\ Genuine(w) /\ Genuine(x.package)
               /\ x.completed /\ p.empty /\ p.gaps \cap {"MEMBERSHIP", "BOUNDARY", "CONTROL", "MISMATCH"} = {}
               /\ \/ /\ x.revision = 1 /\ x.from = "NONE" /\ x.kind = "ORIGINAL"
                     /\ p.kind = "ORIGINAL" /\ Originals = {x.package}
                  \/ /\ x.revision > 1 /\ x.from # "NONE" /\ x.kind = "CORRECTION"
                     /\ ZeroProof[x.from].revision = x.revision - 1 /\ f[x.from]
                     /\ \/ x.package = ZeroProof[x.from].package
                        \/ p.from = ZeroProof[x.from].package /\ p.kind = "CORRECTION"
           Eq(f) == f = [w \in ZeroProofs |-> Body(f, w)]
           g == [w \in ZeroProofs |-> w \in Supported]
<1>1. Empties = CHOOSE f : Eq(f)
    BY DEF Empties
<1>2. \A w \in ZeroProofs : g[w] = Body(g, w)
    <2> SUFFICES ASSUME NEW w \in ZeroProofs PROVE g[w] = Body(g, w)
        OBVIOUS
    <2>1. w \in Supported <=> Holds(w) /\ (Starts(w) \/ (Corrects(w) /\ ZeroProof[w].from \in Supported))
        BY SupportedIs
    <2>2. Corrects(w) => ZeroProof[w].from \in ZeroProofs
        BY EvidenceAssumption DEF Corrects
    <2>3. Corrects(w) => (g[ZeroProof[w].from] <=> ZeroProof[w].from \in Supported)
        BY <2>2
    <2>4. Body(g, w) <=> Holds(w) /\ (Starts(w) \/ (Corrects(w) /\ g[ZeroProof[w].from]))
        <3> HIDE DEF g
        <3> QED  BY Zenon DEF Holds, Starts, Corrects
    <2>5. Body(g, w) <=> w \in Supported
        <3> HIDE DEF g, Body
        <3> QED  BY <2>1, <2>3, <2>4
    <2>6. Body(g, w) \in BOOLEAN
        <3> HIDE DEF g
        <3> QED  OBVIOUS
    <2>7. g[w] = (w \in Supported)
        OBVIOUS
    <2> HIDE DEF Body, g
    <2> QED  BY <2>5, <2>6, <2>7
<1>3. Eq(g)
    <2> HIDE DEF Body
    <2>1. g = [w \in ZeroProofs |-> g[w]]
        OBVIOUS
    <2> HIDE DEF g
    <2>2. [w \in ZeroProofs |-> g[w]] = [w \in ZeroProofs |-> Body(g, w)]
        BY <1>2
    <2> QED  BY <2>1, <2>2
<1>4. Eq(Empties)
    <2> HIDE DEF Eq
    <2> QED  BY <1>1, <1>3
<1>5. Empties[z] = Body(Empties, z)
    <2> HIDE DEF Body
    <2> QED  BY <1>4
<1>6. Body(Empties, z)
    BY <1>5
<1> QED  BY <1>6 DEF Holds

\* A zero population that reads as current is of a proof that is vouched for with its package.
LEMMA CurrentZero ==
    ASSUME EvidenceInv, NEW k \in DOMAIN zeros, NEW reader, ZeroCurrent(k, reader)
    PROVE  {zeros[k].proof, ZeroProof[zeros[k].proof].package} \cap withdrawn = {}
<1>1. zeros[k].proof \in ZeroProofs
    <2>1. zeros \in Seq(ZeroRow)
        BY DEF EvidenceInv, EvidenceTypeOK
    <2>2. zeros[k] \in ZeroRow
        BY <2>1
    <2> QED  BY <2>2 DEF ZeroRow
<1>2. Holds(zeros[k].proof)
    BY <1>1, EmptiesHold DEF ZeroCurrent
<1> QED  BY <1>2 DEF Holds, Genuine

\* A semantic view that reads as current has its definition, its package and the assessment it names.
LEMMA CurrentView ==
    ASSUME EvidenceInv, NEW reader, projections # <<>>, ProjectionCurrent(Len(projections), reader)
    PROVE  LET d == Last(projections).definition  p == Definition[d].package IN
           /\ d \in Definitions /\ {d, p} \cap withdrawn = {} /\ Cardinality(Originals) = 1
           /\ named[d] \in DOMAIN absences /\ AbsenceCurrent(named[d], reader)
           /\ absences[named[d]].outcome = "ABSENT_VERIFIED" /\ absences[named[d]].basis.package = p
<1> DEFINE d == Last(projections).definition
<1>1. projections \in Seq(ProjectionRow)
    BY DEF EvidenceInv, EvidenceTypeOK
<1>2. Len(projections) \in DOMAIN projections /\ Last(projections) = projections[Len(projections)]
    BY <1>1 DEF Last
<1>3. projections[Len(projections)] \in ProjectionRow
    BY <1>1, <1>2
<1>4. d \in Definitions
    BY <1>2, <1>3 DEF ProjectionRow
<1>5. named[d] \in DOMAIN absences /\ absences[named[d]].basis.package = Definition[d].package
    BY <1>2, <1>4 DEF EvidenceInv
<1>6. Refusal(d, Front(projections), reader) = "NONE"
    BY <1>2 DEF ProjectionCurrent
<1>7. /\ Genuine(d) /\ Genuine(Definition[d].package) /\ AbsenceCurrent(named[d], reader)
      /\ absences[named[d]].outcome = "ABSENT_VERIFIED" /\ Cardinality(Originals) = 1
    BY <1>6, Views
<1> QED  BY <1>4, <1>5, <1>7 DEF Genuine

LEMMA ViewsWarranted == EvidenceInv => ViewsAreWarranted
<1> SUFFICES ASSUME EvidenceInv, NEW reader \in Readers, projections # <<>>,
                    ProjectionCurrent(Len(projections), reader)
             PROVE  LET d == Last(projections).definition  p == Definition[d].package IN
                    /\ {d, p} \cap withdrawn = {} /\ Package[p].gaps = {}
                    /\ Last(absences).basis.package = p /\ Last(absences).outcome = "ABSENT_VERIFIED"
                    /\ Package[p].empty => Last(zeros).proof \notin withdrawn
                    /\ Cardinality(Originals) = 1
    BY DEF ViewsAreWarranted
<1> DEFINE d == Last(projections).definition
           p == Definition[d].package
           n == named[d]
           row == absences[n]
<1>1. /\ d \in Definitions /\ {d, p} \cap withdrawn = {} /\ Cardinality(Originals) = 1
      /\ n \in DOMAIN absences /\ AbsenceCurrent(n, reader) /\ row.outcome = "ABSENT_VERIFIED" /\ row.basis.package = p
    BY CurrentView
<1> HIDE DEF d, p, n
<1>2. /\ n = Len(absences) /\ absences # <<>> /\ RowOk(row)
      /\ (row.blockers = {} => Genuine(p) /\ Package[p].gaps = {})
      /\ (row.basis.proof # "NONE" => Last(zeros).proof = row.basis.proof /\ ZeroCurrent(Len(zeros), reader))
    BY <1>1, CurrentAssessment
<1>3. row.blockers = {}
    BY <1>1, <1>2 DEF RowOk
<1>4. Last(absences) = row
    BY <1>2 DEF Last
<1>5. ASSUME Package[p].empty PROVE Last(zeros).proof \notin withdrawn
    <2>1. row.basis.proof # "NONE"
        BY <1>1, <1>2, <1>3, <1>5 DEF RowOk
    <2>2. Last(zeros).proof = row.basis.proof /\ ZeroCurrent(Len(zeros), reader)
        BY <1>2, <2>1
    <2>3. row.basis.proof \in ZeroProofs
        <3>1. row \in AbsenceRow
            <4>1. absences \in Seq(AbsenceRow)
                BY DEF EvidenceInv, EvidenceTypeOK
            <4> QED  BY <1>1, <4>1
        <3> QED  BY <2>1, <3>1 DEF AbsenceRow, Basis
    <2>4. Empties[row.basis.proof]
        BY <2>2 DEF ZeroCurrent, Last
    <2>5. Holds(row.basis.proof)
        BY <2>3, <2>4, EmptiesHold
    <2> QED  BY <2>2, <2>5 DEF Holds, Genuine
<1> QED  BY <1>1, <1>2, <1>3, <1>4, <1>5 DEF d, p

\* Readiness is verified only of references that are each good for it.
LEMMA OnlyVerified ==
    ASSUME NEW stands, Status(stands) = "VERIFIED", NEW x \in stands
    PROVE  x[2] \notin {"SUPERSEDED", "CHANGED", "CONFLICTED", "INSUFFICIENT", "PARTIAL"}
<1> DEFINE found == {y[2] : y \in stands}
           s == << <<found = {}, "NOT_PROVIDED">>,
                   <<found \cap {"SUPERSEDED", "CHANGED", "CONFLICTED"} # {}, "CONFLICTED">>,
                   <<"INSUFFICIENT" \in found, "INSUFFICIENT">>,
                   <<"PARTIAL" \in found, "PARTIAL">>,
                   <<TRUE, "VERIFIED">> >>
<1>1. FirstOf(s) = "VERIFIED"
    BY DEF Status
<1>2. x[2] \in found
    OBVIOUS
<1> HIDE DEF found
<1>3. /\ DOMAIN s = 1 .. 5 /\ s[5][1]
      /\ s[1][2] = "NOT_PROVIDED" /\ s[2][2] = "CONFLICTED" /\ s[3][2] = "INSUFFICIENT" /\ s[4][2] = "PARTIAL"
    OBVIOUS
<1>4. /\ s[2][1] = (found \cap {"SUPERSEDED", "CHANGED", "CONFLICTED"} # {})
      /\ s[3][1] = ("INSUFFICIENT" \in found) /\ s[4][1] = ("PARTIAL" \in found)
    OBVIOUS
<1> HIDE DEF s
<1>5. ASSUME NEW k \in 1 .. 4, s[k][1] PROVE FALSE
    <2>1. 5 \in Nat /\ k \in 1 .. 5
        OBVIOUS
    <2>2. \E i \in 1 .. k : Decides(s, i) /\ FirstOf(s) = s[i][2]
        BY <1>3, <1>5, <2>1, FirstDecides, Zenon
    <2>3. PICK i \in 1 .. k : FirstOf(s) = s[i][2]
        BY <2>2
    <2>4. i \in {1, 2, 3, 4}
        OBVIOUS
    <2> QED  BY <1>1, <1>3, <2>3, <2>4
<1>6. ~s[2][1] /\ ~s[3][1] /\ ~s[4][1]
    BY <1>5
<1> QED  BY <1>2, <1>4, <1>6

LEMMA ReadinessWarranted == EvidenceInv => ReadinessIsWarranted
<1> SUFFICES ASSUME EvidenceInv, NEW domain \in Domain, NEW reader \in Readers, ReadinessCurrent(domain, reader),
                    Status(Last(readiness[domain]).basis) = "VERIFIED", NEW ref \in Last(readiness[domain]).refs
             PROVE  /\ ref[2] = Len(RowsOf(ref[1]))
                    /\ CASE ref[1] = "ABSENCE" ->
                            /\ Last(absences).basis.package \notin withdrawn
                            /\ domain = "ABSENCE" => Last(absences).blockers = {}
                         [] ref[1] = "ZERO" ->
                            {Last(zeros).proof, ZeroProof[Last(zeros).proof].package} \cap withdrawn = {}
                         [] ref[1] = "PROJECTION" ->
                            Definition[Last(projections).definition].package \notin withdrawn
                         [] OTHER -> FALSE
    BY DEF ReadinessIsWarranted
<1> DEFINE row == Last(readiness[domain])
           basis == Standing(domain, row.refs, reader)
<1>1. basis = row.basis
    BY DEF ReadinessCurrent
<1>2. row.refs \in SUBSET Reference
    <2>1. readiness[domain] \in Seq(ReadinessRow) /\ readiness[domain] # <<>>
        BY DEF EvidenceInv, ReadinessCurrent
    <2>2. row \in ReadinessRow
        BY <2>1 DEF Last
    <2> HIDE DEF row
    <2> QED  BY <2>2 DEF ReadinessRow
<1>3. PICK x \in basis : x[1] = ref
    <2> DEFINE As(e) == FirstOf(<< <<e[2] # Len(RowsOf(e[1])), "SUPERSEDED">>,
                                   <<~ReferenceCurrent(e, reader), "CHANGED">>, <<TRUE, Classify(domain, e)>> >>)
    <2>1. basis = {<<e, As(e)>> : e \in row.refs}
        BY DEF Standing
    <2> HIDE DEF As, basis
    <2>2. <<ref, As(ref)>> \in basis
        BY <2>1
    <2> QED  BY <2>2
<1>4. ref \in Reference
    BY <1>2
<1>5. x[2] \notin {"SUPERSEDED", "CHANGED", "CONFLICTED", "INSUFFICIENT", "PARTIAL"}
    BY <1>1, OnlyVerified
<1> HIDE DEF row, basis
<1>6. ref[2] = Len(RowsOf(ref[1])) /\ ReferenceCurrent(ref, reader) /\ x[2] = Classify(domain, ref)
    <2>1. x \in Standing(domain, row.refs, reader)
        BY DEF basis
    <2>2. \/ x[2] \in {"SUPERSEDED", "CHANGED"}
          \/ /\ x[1][2] = Len(RowsOf(x[1][1])) /\ ReferenceCurrent(x[1], reader) /\ x[2] = Classify(domain, x[1])
        BY <1>2, <2>1, StandsAs
    <2> QED  BY <1>3, <1>5, <2>2
<1>7. ref[1] \in {"ABSENCE", "ZERO", "PROJECTION", "UNKNOWN"} /\ ref[2] \in 1 .. MaxRows
    BY <1>4 DEF Reference
<1>8. CASE ref[1] = "ABSENCE"
    <2> DEFINE n == ref[2]
               a == absences[n]
               p == a.basis.package
    <2>1. AbsenceCurrent(n, reader) /\ n = Len(absences)
        BY <1>6, <1>8 DEF ReferenceCurrent, RowsOf
    <2>2. n \in DOMAIN absences
        <3>1. absences \in Seq(AbsenceRow) /\ n >= 1
            BY <1>7, EvidenceAssumption DEF EvidenceInv, EvidenceTypeOK
        <3> QED  BY <2>1, <3>1
    <2>3. RowOk(a) /\ Last(absences) = a /\ a.basis.genuine = Genuine(p)
        <3>1. RowOk(a)
            BY <2>2 DEF EvidenceInv
        <3>2. Assessment(p, a.basis.proof, a.run, Front(absences)) = a
            BY <2>1 DEF AbsenceCurrent
        <3>3. a.basis.genuine = Genuine(p)
            <4> HIDE DEF a, p
            <4> QED  BY <3>2, PresentBasis
        <3> QED  BY <2>1, <3>1, <3>3 DEF Last
    <2>4. x[2] = ClassifyAbsence(domain, a)
        BY <1>6, <1>8 DEF Classify
    <2>5. CASE domain = "ABSENCE"
        <3> DEFINE s == << <<a.outcome = "ABSENT_VERIFIED", "VERIFIED">>,
                           <<"MISMATCH" \in Package[p].gaps, "CONFLICTED">>, <<TRUE, "INSUFFICIENT">> >>
        <3>1. x[2] = FirstOf(s)
            BY <2>4, <2>5 DEF ClassifyAbsence
        <3>2. DOMAIN s = 1 .. 3 /\ s[3][1] /\ s[1][1] = (a.outcome = "ABSENT_VERIFIED")
              /\ s[2][2] = "CONFLICTED" /\ s[3][2] = "INSUFFICIENT"
            OBVIOUS
        <3> HIDE DEF s
        <3>3. a.outcome = "ABSENT_VERIFIED"
            BY <1>5, <3>1, <3>2, OneOfThree
        <3>4. a.blockers = {}
            BY <2>3, <3>3 DEF RowOk
        <3>5. Genuine(p)
            BY <2>3, <3>4 DEF RowOk
        <3> QED  BY <1>6, <1>8, <2>3, <3>4, <3>5 DEF Genuine
    <2>6. CASE domain # "ABSENCE"
        <3> DEFINE s == << <<~Genuine(p), "INSUFFICIENT">>,
                           <<"MISMATCH" \in Package[p].gaps, "CONFLICTED">>,
                           <<"MEMBERSHIP" \in Package[p].gaps, "PARTIAL">>,
                           <<Package[p].empty /\ a.basis.proof = "NONE", "INSUFFICIENT">>,
                           <<a.blockers \cap {"REVISION", "BOUNDARY"} # {}, "CONFLICTED">>,
                           <<TRUE, "VERIFIED">> >>
        <3>1. x[2] = FirstOf(s)
            BY <2>4, <2>6 DEF ClassifyAbsence
        <3>2. DOMAIN s = 1 .. 6 /\ s[6][1] /\ s[1][1] = (~Genuine(p)) /\ s[1][2] = "INSUFFICIENT"
            OBVIOUS
        <3> HIDE DEF s
        <3>3. Genuine(p)
            BY <1>5, <3>1, <3>2, OneOfSix
        <3> QED  BY <1>6, <1>8, <2>3, <2>6, <3>3 DEF Genuine
    <2> QED  BY <2>5, <2>6
<1>9. CASE ref[1] = "ZERO"
    <2>1. ZeroCurrent(ref[2], reader) /\ ref[2] = Len(zeros)
        BY <1>6, <1>9 DEF ReferenceCurrent, RowsOf
    <2>2. ref[2] \in DOMAIN zeros /\ Last(zeros) = zeros[ref[2]]
        <3>1. zeros \in Seq(ZeroRow) /\ ref[2] >= 1
            BY <1>7, EvidenceAssumption DEF EvidenceInv, EvidenceTypeOK
        <3> QED  BY <2>1, <3>1 DEF Last
    <2>3. {zeros[ref[2]].proof, ZeroProof[zeros[ref[2]].proof].package} \cap withdrawn = {}
        BY <2>1, <2>2, CurrentZero
    <2> QED  BY <1>6, <1>9, <2>2, <2>3
<1>10. CASE ref[1] = "PROJECTION"
    <2>1. ProjectionCurrent(ref[2], reader) /\ ref[2] = Len(projections)
        BY <1>6, <1>10 DEF ReferenceCurrent, RowsOf
    <2>2. projections # <<>>
        <3>1. projections \in Seq(ProjectionRow) /\ ref[2] >= 1
            BY <1>7, EvidenceAssumption DEF EvidenceInv, EvidenceTypeOK
        <3> QED  BY <2>1, <3>1
    <2>3. {Last(projections).definition, Definition[Last(projections).definition].package} \cap withdrawn = {}
        BY <2>1, <2>2, CurrentView
    <2> QED  BY <1>6, <1>10, <2>3
<1>11. CASE ref[1] = "UNKNOWN"
    BY <1>5, <1>6, <1>11 DEF Classify
<1> QED  BY <1>7, <1>8, <1>9, <1>10, <1>11

\* What is told of receivables documents holds of them now: nobody is told of one definition
\* both that it is qualified and that it is refused, a view rests on documents that are
\* vouched for and on an absence that was verified, and what is VERIFIED would be found again.
THEOREM EvidenceWarranted == EvidenceSpec => []EvidenceIsWarranted
<1>1. EvidenceInv => EvidenceIsWarranted
    BY NeverBoth, ViewsWarranted, ReadinessWarranted DEF EvidenceIsWarranted
<1> QED  BY <1>1, EvidenceInvariance, PTL
================================================================================
