-------------------------- MODULE ReceivablesEvidence --------------------------
(***************************************************************************)
(* What registered receivables documents may be held to show: the absence  *)
(* of a qualifying overdue balance, an empty ledger, a semantic view for   *)
(* comparison over time, a retained refusal, and the readiness that sums   *)
(* them up (reasoning/production_evidence: absence, zero, ar_semantics,    *)
(* history, readiness, service), for one client, ledger scope and system.  *)
(*                                                                         *)
(* Every call derives its answer from the documents as the authority       *)
(* resolver judges them now, and appends a revision if the answer is new.  *)
(* Reading a row as current derives it again.  A call is one transaction:  *)
(* it raises and leaves nothing, or commits.                               *)
(*                                                                         *)
(* A package is an export with its manifest and control; its facts stand   *)
(* for the comparisons of their contents.  Digests are equal exactly when  *)
(* what is digested is.                                                    *)
(***************************************************************************)
EXTENDS Integers, Sequences, FiniteSets, SequencesExt

CONSTANTS
    Packages,
    Package,        \* [Packages -> [empty, qualifying, gaps, kind, from]]
    ZeroProofs,
    ZeroProof,      \* [ZeroProofs -> [package, completed, revision, kind, from]]
    Definitions,    \* semantic evidence documents
    Definition,     \* [Definitions -> [package, complete, revision, kind, from]]
    Readers,        \* engine runs of the client
    MaxWithdrawn,   \* bound: documents without authority at a time
    MaxRows         \* bound: rows of one series

Gaps == {"MEMBERSHIP", "BOUNDARY", "CONTROL", "MISMATCH", "REVIEW"}
Kinds == {"ORIGINAL", "CORRECTION", "UNKNOWN"}
Issued == Packages \cup ZeroProofs \cup Definitions

ASSUME EvidenceAssumption ==
    /\ Package \in [Packages -> [empty : BOOLEAN, qualifying : BOOLEAN, gaps : SUBSET Gaps,
                                 kind : Kinds, from : Packages \cup {"NONE"}]]
    /\ ZeroProof \in [ZeroProofs -> [package : Packages, completed : BOOLEAN, revision : Nat \ {0},
                                     kind : Kinds, from : ZeroProofs \cup {"NONE"}]]
    /\ Definition \in [Definitions -> [package : Packages, complete : BOOLEAN, revision : Nat \ {0},
                                       kind : Kinds, from : Definitions \cup {"NONE"}]]
    /\ MaxRows \in Nat

VARIABLES
    registered,     \* packages and zero proofs with a completed ingestion
    withdrawn,      \* documents the authority resolver does not vouch for
    named,          \* [Definitions -> the absence revision it names, 0 before it is registered]
    absences,       \* the series' absence assessments, by revision
    zeros,          \* zero populations, by revision
    projections,    \* semantic projections, by revision
    unknowns,       \* retained refusals, by revision
    readiness       \* [domain -> its readiness rows, by revision]

evidenceVars == <<registered, withdrawn, named, absences, zeros, projections, unknowns, readiness>>

Domain == {"SNAPSHOT", "ABSENCE"}
Outcome == {"NOT_ASSESSED", "ABSENT_VERIFIED", "QUALIFYING_BALANCE_PRESENT"}
Blocker == Gaps \cup {"AUTHORITY", "EMPTY", "REVISION"}
Basis == [package : Packages, genuine : BOOLEAN, originals : SUBSET Packages,
          proof : ZeroProofs \cup {"NONE"}, run : Readers \cup {0}]
AbsenceRow == [basis : Basis, run : Readers, blockers : SUBSET Blocker, outcome : Outcome]
ZeroRow == [proof : ZeroProofs, run : Readers]
ProjectionRow == [definition : Definitions, run : Readers]
RefusalReason == {"DEFINITION_AUTHORITY", "SOURCE_AUTHORITY", "OWNER_STALE", "ABSENCE_NOT_VERIFIED",
                  "DEFINITION_INSUFFICIENT", "REVISION_AUTHORITY", "ORIGINALS_COMPETE"}
UnknownRow == [definition : Definitions, owner : Nat, reason : RefusalReason]
Reference == {"ABSENCE", "ZERO", "PROJECTION", "UNKNOWN"} \X (1 .. MaxRows)

(* The tables keep the shape of their contracts.                           *)
EvidenceTypeOK ==
    /\ registered \subseteq Packages \cup ZeroProofs /\ withdrawn \subseteq Issued
    /\ named \in [Definitions -> 0 .. MaxRows]
    /\ absences \in Seq(AbsenceRow) /\ zeros \in Seq(ZeroRow)
    /\ projections \in Seq(ProjectionRow) /\ unknowns \in Seq(UnknownRow)
    /\ DOMAIN readiness = Domain
    /\ \A d \in Domain : \A i \in DOMAIN readiness[d] : readiness[d][i].refs \subseteq Reference

EvidenceInit ==
    /\ registered = {} /\ withdrawn = {} /\ named = [d \in Definitions |-> 0]
    /\ absences = <<>> /\ zeros = <<>> /\ projections = <<>> /\ unknowns = <<>>
    /\ readiness = [d \in Domain |-> <<>>]

(* The first of the alternatives <<condition, value>> whose condition holds. *)
Decides(alternatives, i) == alternatives[i][1] /\ \A j \in 1 .. i - 1 : ~alternatives[j][1]
FirstOf(alternatives) == alternatives[CHOOSE i \in DOMAIN alternatives : Decides(alternatives, i)][2]

----------------------------------------------------------------------------
(* Sources: documents are registered, and an authority that was given may  *)
(* lapse and return.                                                       *)
RegisterSource(d) ==
    /\ registered' = registered \cup {d}
    /\ UNCHANGED <<withdrawn, named, absences, zeros, projections, unknowns, readiness>>

ChangeAuthority(d) ==
    /\ withdrawn' = IF d \in withdrawn THEN withdrawn \ {d} ELSE withdrawn \cup {d}
    /\ Cardinality(withdrawn') <= MaxWithdrawn
    /\ UNCHANGED <<registered, named, absences, zeros, projections, unknowns, readiness>>

(* A definition can name an assessment only once it has an identity.       *)
RegisterDefinition(d, n) ==
    /\ named[d] = 0 /\ absences[n].basis.package = Definition[d].package
    /\ named' = [named EXCEPT ![d] = n]
    /\ UNCHANGED <<registered, withdrawn, absences, zeros, projections, unknowns, readiness>>

Genuine(d) == d \notin withdrawn
Originals == {p \in Packages \cap registered : Package[p].from = "NONE"}

----------------------------------------------------------------------------
(* A proof that the ledger is empty, and the proofs it corrects.           *)
Empties[z \in ZeroProofs] ==
    LET x == ZeroProof[z]  p == Package[x.package] IN
    /\ {z, x.package} \subseteq registered /\ Genuine(z) /\ Genuine(x.package)
    /\ x.completed /\ p.empty /\ p.gaps \cap {"MEMBERSHIP", "BOUNDARY", "CONTROL", "MISMATCH"} = {}
    /\ \/ /\ x.revision = 1 /\ x.from = "NONE" /\ x.kind = "ORIGINAL"
          /\ p.kind = "ORIGINAL" /\ Originals = {x.package}
       \/ /\ x.revision > 1 /\ x.from # "NONE" /\ x.kind = "CORRECTION"
          /\ ZeroProof[x.from].revision = x.revision - 1 /\ Empties[x.from]
          /\ \/ x.package = ZeroProof[x.from].package
             \/ p.from = ZeroProof[x.from].package /\ p.kind = "CORRECTION"

(* A proof is kept once, and replaced only by the one that corrects it.    *)
MayKeep(z, run) ==
    /\ Empties[z]
    /\ IF zeros = <<>> THEN ZeroProof[z].revision = 1
       ELSE Last(zeros) = [proof |-> z, run |-> run] \/ Last(zeros).proof = ZeroProof[z].from
Kept(z, run) ==
    LET row == [proof |-> z, run |-> run]
    IN  IF zeros # <<>> /\ Last(zeros) = row THEN zeros ELSE Append(zeros, row)

CaptureZero(run, z) ==
    /\ MayKeep(z, run) /\ zeros' = Kept(z, run)
    /\ UNCHANGED <<registered, withdrawn, named, absences, projections, unknowns, readiness>>

ZeroCurrent(k, reader) ==
    /\ k = Len(zeros) /\ zeros[k].run = reader
    /\ Empties[zeros[k].proof]

----------------------------------------------------------------------------
(* Whether the package's place among the client's is settled.              *)
RevisionAuthorised(p, before) ==
    IF before = <<>> THEN Package[p].kind = "ORIGINAL" /\ Package[p].from = "NONE" /\ Cardinality(Originals) = 1
    ELSE Package[p].kind = "CORRECTION" /\ Package[p].from = Last(before).basis.package

Blockers(p, z, before) ==
    Package[p].gaps
    \cup {b \in {"AUTHORITY"} : ~Genuine(p)}
    \cup {b \in {"EMPTY"} : Package[p].empty /\ z = "NONE"}
    \cup {b \in {"REVISION"} : ~RevisionAuthorised(p, before)}

(* The assessment of a package after the rows `before` it: the last of     *)
(* these again, when nothing it was derived from has changed.              *)
Assessment(p, z, run, before) ==
    LET basis == [package |-> p, genuine |-> Genuine(p), originals |-> Originals, proof |-> z,
                  run |-> IF z = "NONE" THEN 0 ELSE run]
        found == Blockers(p, z, before)
    IN  IF before # <<>> /\ Last(before).basis = basis THEN Last(before)
        ELSE [basis |-> basis, run |-> run, blockers |-> found,
              outcome |-> IF found # {} THEN "NOT_ASSESSED"
                          ELSE IF Package[p].qualifying THEN "QUALIFYING_BALANCE_PRESENT"
                          ELSE "ABSENT_VERIFIED"]

AssessAbsence(run, p, z) ==
    /\ p \in registered
    /\ z # "NONE" => ZeroProof[z].package = p /\ MayKeep(z, run)
    /\ zeros' = IF z = "NONE" THEN zeros ELSE Kept(z, run)
    /\ LET value == Assessment(p, z, run, absences)
       IN  ~IsSuffix(<<value>>, absences) /\ absences' = Append(absences, value)
    /\ UNCHANGED <<registered, withdrawn, named, projections, unknowns, readiness>>

AbsenceCurrent(n, reader) ==
    LET row == absences[n] IN
    /\ n = Len(absences)
    /\ row.basis.proof # "NONE" => Last(zeros).proof = row.basis.proof /\ ZeroCurrent(Len(zeros), reader)
    /\ Assessment(row.basis.package, row.basis.proof, row.run, Front(absences)) = row

----------------------------------------------------------------------------
(* What a semantic view after the projections `before` it must show, in    *)
(* the order it is asked for.                                              *)
Refusal(d, before, reader) ==
    LET x == Definition[d]  p == Package[x.package]  n == named[d]
        prior == Definition[Last(before).definition]
    IN  FirstOf(<<
            <<~Genuine(d), "DEFINITION_AUTHORITY">>,
            <<~Genuine(x.package), "SOURCE_AUTHORITY">>,
            <<~AbsenceCurrent(n, reader), "OWNER_STALE">>,
            <<absences[n].outcome # "ABSENT_VERIFIED", "ABSENCE_NOT_VERIFIED">>,
            <<~x.complete, "DEFINITION_INSUFFICIENT">>,
            <<IF before = <<>> THEN p.kind # "ORIGINAL" \/ p.from # "NONE" \/ x.revision # 1 \/ x.from # "NONE"
              ELSE \/ x.revision # prior.revision + 1 \/ x.from # Last(before).definition \/ x.kind # "CORRECTION"
                   \/ x.package # prior.package /\ ~(p.from = prior.package /\ p.kind = "CORRECTION"),
              "REVISION_AUTHORITY">>,
            <<Cardinality(Originals) # 1, "ORIGINALS_COMPETE">>,
            <<before = <<>> /\ Originals # {x.package}, "ORIGINALS_COMPETE">>,
            <<TRUE, "NONE">> >>)

Viewed == {projections[k].definition : k \in DOMAIN projections \cap {Len(projections)}}

CaptureProjection(reader, d) ==
    /\ named[d] # 0 /\ d \notin Viewed
    /\ Refusal(d, projections, reader) = "NONE"
    /\ projections' = Append(projections, [definition |-> d, run |-> reader])
    /\ UNCHANGED <<registered, withdrawn, named, absences, zeros, unknowns, readiness>>

ProjectionCurrent(k, reader) ==
    /\ k = Len(projections) /\ projections[k].run = reader
    /\ Refusal(projections[k].definition, Front(projections), reader) = "NONE"

(* A refusal is the verification of a definition in the place it has, or   *)
(* would have, among the projections.                                      *)
\* Mutant: the definition's own projection is taken as its predecessor.
PlacedLast(d) == projections

Placed(d) == IF d \in Viewed THEN Front(projections) ELSE projections

Refused(reader, d) ==
    [definition |-> d, owner |-> named[d], reason |-> Refusal(d, Placed(d), reader)]

CaptureUnknown(reader, d) ==
    /\ named[d] # 0 /\ AbsenceCurrent(named[d], reader)
    /\ Refused(reader, d).reason # "NONE"
    /\ Refused(reader, d) \notin Range(unknowns)
    /\ unknowns' = Append(unknowns, Refused(reader, d))
    /\ UNCHANGED <<registered, withdrawn, named, absences, zeros, projections, readiness>>

UnknownCurrent(k, reader) ==
    /\ k = Len(unknowns) /\ AbsenceCurrent(unknowns[k].owner, reader)
    /\ Refused(reader, unknowns[k].definition) = unknowns[k]

----------------------------------------------------------------------------
Allowed == [SNAPSHOT |-> {"ABSENCE", "PROJECTION", "ZERO"}, ABSENCE |-> {"ABSENCE", "UNKNOWN", "ZERO"}]
RowsOf(kind) ==
    CASE kind = "ABSENCE" -> absences [] kind = "ZERO" -> zeros
      [] kind = "PROJECTION" -> projections [] kind = "UNKNOWN" -> unknowns
Referable(domain) == {ref \in Reference : ref[1] \in Allowed[domain] /\ ref[2] <= Len(RowsOf(ref[1]))}

ReferenceCurrent(ref, reader) ==
    CASE ref[1] = "ABSENCE" -> AbsenceCurrent(ref[2], reader)
      [] ref[1] = "ZERO" -> ZeroCurrent(ref[2], reader)
      [] ref[1] = "PROJECTION" -> ProjectionCurrent(ref[2], reader)
      [] ref[1] = "UNKNOWN" -> UnknownCurrent(ref[2], reader)

ClassifyAbsence(domain, row) ==
    LET p == row.basis.package IN
    IF domain = "ABSENCE"
    THEN FirstOf(<< <<row.outcome = "ABSENT_VERIFIED", "VERIFIED">>,
                    <<"MISMATCH" \in Package[p].gaps, "CONFLICTED">>,
                    <<TRUE, "INSUFFICIENT">> >>)
    ELSE FirstOf(<< <<~Genuine(p), "INSUFFICIENT">>,
                    <<"MISMATCH" \in Package[p].gaps, "CONFLICTED">>,
                    <<"MEMBERSHIP" \in Package[p].gaps, "PARTIAL">>,
                    <<Package[p].empty /\ row.basis.proof = "NONE", "INSUFFICIENT">>,
                    <<row.blockers \cap {"REVISION", "BOUNDARY"} # {}, "CONFLICTED">>,
                    <<TRUE, "VERIFIED">> >>)

Classify(domain, ref) ==
    CASE ref[1] = "ABSENCE" -> ClassifyAbsence(domain, absences[ref[2]])
      [] ref[1] = "UNKNOWN" -> "INSUFFICIENT"
      [] ref[1] = "PROJECTION" -> "VERIFIED"
      [] ref[1] = "ZERO" -> IF domain = "SNAPSHOT" THEN "VERIFIED" ELSE "INSUFFICIENT"

(* Each reference with how it stands: superseded, changed since, or what   *)
(* it is good for.                                                         *)
Standing(domain, refs, reader) ==
    {<<ref, FirstOf(<< <<ref[2] # Len(RowsOf(ref[1])), "SUPERSEDED">>,
                       <<~ReferenceCurrent(ref, reader), "CHANGED">>,
                       <<TRUE, Classify(domain, ref)>> >>)>> : ref \in refs}

Status(standing) ==
    LET found == {x[2] : x \in standing}
    IN  FirstOf(<< <<found = {}, "NOT_PROVIDED">>,
                   <<found \cap {"SUPERSEDED", "CHANGED", "CONFLICTED"} # {}, "CONFLICTED">>,
                   <<"INSUFFICIENT" \in found, "INSUFFICIENT">>,
                   <<"PARTIAL" \in found, "PARTIAL">>,
                   <<TRUE, "VERIFIED">> >>)

AssessReadiness(run, domain, refs) ==
    LET row == [refs |-> refs, basis |-> Standing(domain, refs, run)] IN
    /\ row \notin Range(readiness[domain])
    /\ readiness' = [readiness EXCEPT ![domain] = Append(@, row)]
    /\ UNCHANGED <<registered, withdrawn, named, absences, zeros, projections, unknowns>>

ReadinessCurrent(domain, reader) ==
    /\ readiness[domain] # <<>>
    /\ LET row == Last(readiness[domain]) IN Standing(domain, row.refs, reader) = row.basis

EvidenceNext ==
    \/ \E d \in (Packages \cup ZeroProofs) \ registered : RegisterSource(d)
    \/ \E d \in Issued : ChangeAuthority(d)
    \/ \E d \in Definitions, n \in DOMAIN absences : RegisterDefinition(d, n)
    \/ \E run \in Readers :
        \/ \E z \in ZeroProofs : Len(zeros) < MaxRows /\ CaptureZero(run, z)
        \/ \E p \in Packages, z \in ZeroProofs \cup {"NONE"} :
               Len(absences) < MaxRows /\ AssessAbsence(run, p, z)
        \/ \E d \in Definitions : CaptureProjection(run, d)
        \/ \E d \in Definitions : Len(unknowns) < MaxRows /\ CaptureUnknown(run, d)
        \/ \E domain \in Domain : \E ref \in Referable(domain) :
               Len(readiness[domain]) < MaxRows /\ AssessReadiness(run, domain, {ref})

EvidenceSpec == EvidenceInit /\ [][EvidenceNext]_evidenceVars

----------------------------------------------------------------------------
(* No reader is told of one definition both that its view is qualified and *)
(* that it had to be refused (history.py:143, :86).                        *)
NeverBothTold ==
    \A reader \in Readers :
        projections # <<>> /\ unknowns # <<>>
        /\ ProjectionCurrent(Len(projections), reader) /\ UnknownCurrent(Len(unknowns), reader)
            => Last(projections).definition # Last(unknowns).definition

(* A semantic view that reads as current rests, now, on authenticated      *)
(* documents, on the latest assessment, which verified the absence, and on *)
(* a ledger whose original export is undisputed (ar_semantics.py:153).     *)
ViewsAreWarranted ==
    \A reader \in Readers :
        projections # <<>> /\ ProjectionCurrent(Len(projections), reader) =>
            LET d == Last(projections).definition  p == Definition[d].package IN
            /\ {d, p} \cap withdrawn = {} /\ Package[p].gaps = {}
            /\ Last(absences).basis.package = p /\ Last(absences).outcome = "ABSENT_VERIFIED"
            /\ Package[p].empty => Last(zeros).proof \notin withdrawn
            /\ Cardinality(Originals) = 1

(* Readiness that reads as current and VERIFIED still has what it was      *)
(* derived from: every reference is the latest of its series, and what it  *)
(* refers to would be concluded again (readiness.py:150, :196).            *)
ReadinessIsWarranted ==
    \A domain \in Domain, reader \in Readers :
        /\ ReadinessCurrent(domain, reader)
        /\ Status(Last(readiness[domain]).basis) = "VERIFIED"
        => \A ref \in Last(readiness[domain]).refs :
            /\ ref[2] = Len(RowsOf(ref[1]))
            /\ CASE ref[1] = "ABSENCE" ->
                    /\ Last(absences).basis.package \notin withdrawn
                    /\ domain = "ABSENCE" => Last(absences).blockers = {}
                 [] ref[1] = "ZERO" ->
                    {Last(zeros).proof, ZeroProof[Last(zeros).proof].package} \cap withdrawn = {}
                 [] ref[1] = "PROJECTION" ->
                    Definition[Last(projections).definition].package \notin withdrawn
                 [] OTHER -> FALSE

EvidenceIsWarranted == NeverBothTold /\ ViewsAreWarranted /\ ReadinessIsWarranted
================================================================================
