---------------------------- MODULE CanonicalFindings ----------------------------
(***************************************************************************)
(* The canonical Facts and Findings of reasoning/canonical/service.py on   *)
(* the envelopes of reasoning/domain/service.py.  Sessions of one client   *)
(* share one PostgreSQL store at its default isolation: a statement reads  *)
(* what is committed, an insert waits for an open insert of the same key,  *)
(* an update waits for the row's lock.  The caller owns the transaction    *)
(* and rolls back on every exception; here it holds one call.              *)
(*                                                                         *)
(* The Signals are those of one semantic key (one measure, entity, basis), *)
(* one per run, so a Signal also names its run.  A snapshot stands for the *)
(* owning store's rows of a Signal and for their digest: what a Fact keeps *)
(* of them is which policy outcome they earn.  A Finding's identity holds  *)
(* the mapping version, so <<"FINDING", v>> names it.                      *)
(***************************************************************************)
EXTENDS Naturals, Sequences, SequencesExt

CONSTANTS
    Writers,      \* database sessions
    Signals,      \* source Signals of the key, each of its own run
    Contexts,     \* foundation objects that may challenge a Fact
    Snapshots,    \* what the owning store may say of a Signal
    Refused,      \* snapshots canonicalise refuses (inactive, ineligible, malformed)
    Limited,      \* snapshots with partial eligibility or recorded limitations
    Significant,  \* snapshots past the type's threshold
    Started,      \* when a Signal's run started
    Period,       \* the reporting period of a Signal, 0 when a date is missing
    LastVersion,  \* bound: the mapping version deployed last
    MaxRevision,  \* bound: revisions of a Finding
    None

ASSUME ConstantsAssumption ==
    /\ Refused \subseteq Snapshots
    /\ Limited \subseteq Snapshots
    /\ Significant \subseteq Snapshots
    /\ Started \in [Signals -> Nat]
    /\ Period \in [Signals -> Nat]
    /\ LastVersion \in Nat \ {0}
    /\ MaxRevision \in Nat \ {0}
    /\ "FINDING" \notin Signals

VARIABLES
    mapping,     \* the version REGISTRY holds
    source,      \* the owning store: a Signal's rows as they are now
    row,         \* committed document of each Fact and Finding, None if absent
    envelope,    \* committed revision of its reasoning_object, 0 if absent
    registered,  \* Signals with a committed SIGNAL identity
    links,       \* committed evidence links <<source, target, relationship>>
    tx           \* each session's open transaction

store == <<row, envelope, registered, links>>
vars == <<mapping, source, row, envelope, registered, links, tx>>

Versions == 1 .. LastVersion
Facts == Signals \X Versions
Findings == {"FINDING"} \X Versions
Objects == Facts \cup Findings

FactRow == [state : {"OBSERVED", "SUPERSEDED", "INVALIDATED"}, digest : Snapshots,
            supersedes : Facts \cup {None}, revision : Nat \ {0}]

Outcomes == {"FINDING_CREATED", "NOT_SIGNIFICANT", "HELD_LIMITED", "INSUFFICIENT_EVIDENCE"}
TemporalStates == {"FIRST_OBSERVATION", "REPEATED_OBSERVATION", "PREVIOUS_COMPARABLE_PERIOD",
                   "INSUFFICIENT_TEMPORAL_EVIDENCE"}
FindingRow == [first : Signals, latest : Signals, observations : Seq(Facts), outcome : Outcomes,
               challenges : SUBSET Contexts, temporal : TemporalStates, revision : Nat \ {0}]

ASSUME NoneAssumption == None \notin Objects \cup FactRow \cup FindingRow

(***************************************************************************)
(* A transaction: the step it is at, the object it works on, the document  *)
(* it read, the one it will write, the envelope revision it read; writes,  *)
(* born and joined become visible when it commits.                         *)
(***************************************************************************)
Idle == [step |-> "idle", target |-> None, prior |-> None, outcome |-> None, challenges |-> {},
         old |-> None, new |-> None, seen |-> 0, fresh |-> FALSE,
         writes |-> {}, born |-> {}, joined |-> {}]

\* The call returns or raises having written nothing.
Ends(w) == tx' = [tx EXCEPT ![w] = Idle] /\ UNCHANGED store
Goes(w, t) == tx' = [tx EXCEPT ![w] = t] /\ UNCHANGED store

\* Another open transaction has written the object and holds its row.
Locked(w, o) == \E u \in Writers \ {w} : \E x \in tx[u].writes : x.object = o

-------------------------------------------------------------------------------
(***************************************************************************)
(* canonicalise                                                            *)
(***************************************************************************)

\* A correction names an observed Fact of the same Signal, under another mapping.
Correctable(s, prior) ==
    /\ prior \in Facts /\ prior[1] = s /\ prior[2] # mapping
    /\ row[prior] # None
    /\ row[prior].state = "OBSERVED"

\* The reads: the source with its digest, the predecessor, an existing Fact.
\* Refusals and replays write nothing.
Canonicalise(w, s, prior) ==
    /\ tx[w].step = "idle"
    /\ source[s] \notin Refused
    /\ prior = None \/ Correctable(s, prior)
    /\ row[<<s, mapping>>] = None
    /\ Goes(w, [Idle EXCEPT !.step = "insert", !.target = <<s, mapping>>, !.prior = prior,
                            !.new = [state |-> "OBSERVED", digest |-> source[s],
                                     supersedes |-> prior, revision |-> 1],
                            !.joined = {<<s, <<s, mapping>>, "SUPPORTS">>}])
    /\ UNCHANGED <<mapping, source>>

\* create_object and _write of a new identity; the primary key refuses a second.
\* A Fact's transaction then looks whether its Signal has an identity.
Insert(w) ==
    /\ tx[w].step = "insert"
    /\ ~Locked(w, tx[w].target)
    /\ LET o == tx[w].target
       IN  IF row[o] # None
           THEN Ends(w)
           ELSE Goes(w, [tx[w] EXCEPT
                   !.step = IF o \in Facts THEN "register" ELSE "commit",
                   !.fresh = o \in Facts /\ o[1] \notin registered,
                   !.writes = {[object |-> o, document |-> tx[w].new, revision |-> 1]}])
    /\ UNCHANGED <<mapping, source>>

\* The SIGNAL identity, created by whichever Fact of the Signal comes first.
Register(w) ==
    /\ tx[w].step = "register"
    /\ LET s == tx[w].target[1]
           next == IF tx[w].prior = None THEN "commit" ELSE "correct"
       IN  \/ ~tx[w].fresh /\ Goes(w, [tx[w] EXCEPT !.step = next])
           \/ /\ tx[w].fresh
              /\ \A u \in Writers \ {w} : s \notin tx[u].born
              /\ IF s \in registered
                 THEN Ends(w)
                 ELSE Goes(w, [tx[w] EXCEPT !.step = next, !.born = {s}])
    /\ UNCHANGED <<mapping, source>>

-------------------------------------------------------------------------------
(***************************************************************************)
(* invalidate, called by the adviser or by canonicalise for a correction   *)
(***************************************************************************)

Retired(document, state) ==
    [document EXCEPT !.state = state, !.revision = @ + 1]

Invalidate(w, f) ==
    /\ tx[w].step = "idle"
    /\ row[f] # None
    /\ row[f].state = "OBSERVED"
    /\ Goes(w, [Idle EXCEPT !.step = "plan", !.target = f, !.old = row[f],
                            !.new = Retired(row[f], "INVALIDATED")])
    /\ UNCHANGED <<mapping, source>>

\* Mutant: the predecessor's state is not looked at again.
CorrectUnread(w) ==
    /\ tx[w].step = "correct"
    /\ LET f == tx[w].prior
       IN  Goes(w, [tx[w] EXCEPT !.step = "plan", !.target = f, !.old = row[f],
                                 !.new = Retired(row[f], "SUPERSEDED")])
    /\ UNCHANGED <<mapping, source>>

\* The predecessor is read again: it may have been retired since the first read.
Correct(w) ==
    /\ tx[w].step = "correct"
    /\ LET f == tx[w].prior
       IN  IF row[f].state # "OBSERVED"
           THEN Ends(w)
           ELSE Goes(w, [tx[w] EXCEPT !.step = "plan", !.target = f, !.old = row[f],
                                      !.new = Retired(row[f], "SUPERSEDED")])
    /\ UNCHANGED <<mapping, source>>

-------------------------------------------------------------------------------
(***************************************************************************)
(* assess                                                                  *)
(***************************************************************************)

\* Mutant: limitations do not hold an assessment.
OutcomeUnlimited(document, challenges) ==
    IF document.state # "OBSERVED" THEN "INSUFFICIENT_EVIDENCE"
    ELSE IF challenges # {} THEN "HELD_LIMITED"
    ELSE IF document.digest \in Significant THEN "FINDING_CREATED" ELSE "NOT_SIGNIFICANT"

Outcome(document, challenges) ==
    IF document.state # "OBSERVED" THEN "INSUFFICIENT_EVIDENCE"
    ELSE IF challenges # {} \/ document.digest \in Limited THEN "HELD_LIMITED"
    ELSE IF document.digest \in Significant THEN "FINDING_CREATED" ELSE "NOT_SIGNIFICANT"

\* How an observation relates in time to the one before it; periods are of equal length.
Temporal(a, b) ==
    IF Period[a] = 0 \/ Period[b] = 0 THEN "INSUFFICIENT_TEMPORAL_EVIDENCE"
    ELSE IF Period[a] = Period[b] THEN "REPEATED_OBSERVATION"
    ELSE IF Period[a] < Period[b] /\ Started[a] < Started[b] THEN "PREVIOUS_COMPARABLE_PERIOD"
    ELSE "INSUFFICIENT_TEMPORAL_EVIDENCE"

\* The Fact is read and judged; its policy outcome is kept for the Finding.
Assess(w, f, challenges) ==
    /\ tx[w].step = "idle"
    /\ row[f] # None
    /\ Goes(w, [Idle EXCEPT !.step = "assess", !.target = f, !.challenges = challenges,
                            !.outcome = Outcome(row[f], challenges)])
    /\ UNCHANGED <<mapping, source>>

NewFinding(f, outcome, challenges) ==
    [first |-> f[1], latest |-> f[1], observations |-> <<f>>, outcome |-> outcome,
     challenges |-> challenges, temporal |-> "FIRST_OBSERVATION", revision |-> 1]

\* Mutant: only the last observation counts as a repetition.
RepeatedLast(old, f) == f = Last(old.observations)

Repeated(old, f) == f \in Range(old.observations)

\* Mutant: a repeated judgement recomputes the temporal state.
NextFindingRetimed(old, f, outcome, challenges) ==
    [old EXCEPT !.latest = f[1], !.outcome = outcome, !.challenges = challenges,
        !.observations = IF Repeated(old, f) THEN @ ELSE Append(@, f),
        !.temporal = Temporal(Last(old.observations)[1], f[1]),
        !.revision = @ + 1]

\* Mutant: a new observation replaces the earlier ones.
NextFindingForgetful(old, f, outcome, challenges) ==
    [old EXCEPT !.latest = f[1], !.outcome = outcome, !.challenges = challenges,
        !.observations = IF Repeated(old, f) THEN @ ELSE <<f>>,
        !.temporal = IF Repeated(old, f) THEN @ ELSE Temporal(Last(old.observations)[1], f[1]),
        !.revision = @ + 1]

\* The next revision of a Finding; a Fact it has observed is judged again, not added.
NextFinding(old, f, outcome, challenges) ==
    [old EXCEPT !.latest = f[1], !.outcome = outcome, !.challenges = challenges,
        !.observations = IF Repeated(old, f) THEN @ ELSE Append(@, f),
        !.temporal = IF Repeated(old, f) THEN @ ELSE Temporal(Last(old.observations)[1], f[1]),
        !.revision = @ + 1]

\* The links a Finding's revision adds.
Evidence(f, g, challenges) == {<<f, g, "SUPPORTS">>} \cup (challenges \X {g} \X {"CONTRADICTS"})

\* Only a significant Fact starts a Finding; an unchanged assessment writes nothing.
ReadFinding(w) ==
    /\ tx[w].step = "assess"
    /\ LET f == tx[w].target
           g == <<"FINDING", f[2]>>
           old == row[g]
           outcome == tx[w].outcome
           challenges == tx[w].challenges
           joined == Evidence(f, g, challenges)
       IN  \/ /\ old = None /\ outcome # "FINDING_CREATED"
              /\ Ends(w)
           \/ /\ old = None /\ outcome = "FINDING_CREATED"
              /\ Goes(w, [tx[w] EXCEPT !.step = "insert", !.target = g, !.joined = joined,
                                       !.new = NewFinding(f, outcome, challenges)])
           \/ /\ old # None
              /\ Repeated(old, f) /\ old.outcome = outcome /\ old.challenges = challenges
              /\ Ends(w)
           \/ /\ old # None
              /\ ~(Repeated(old, f) /\ old.outcome = outcome /\ old.challenges = challenges)
              /\ old.revision < MaxRevision
              /\ Goes(w, [tx[w] EXCEPT !.step = "plan", !.target = g, !.old = old,
                                       !.joined = joined,
                                       !.new = NextFinding(old, f, outcome, challenges)])
    /\ UNCHANGED <<mapping, source>>

-------------------------------------------------------------------------------
(***************************************************************************)
(* update_object and _write of an existing identity                        *)
(***************************************************************************)

\* The envelope is read apart from the document it belongs to.  A Finding brings
\* its own next revision, which must be the envelope's; a Fact takes the envelope's.
Plan(w) ==
    /\ tx[w].step = "plan"
    /\ LET o == tx[w].target
       IN  IF o \in Facts \/ tx[w].new.revision = envelope[o] + 1
           THEN Goes(w, [tx[w] EXCEPT !.step = "update", !.seen = envelope[o]])
           ELSE Ends(w)
    /\ UNCHANGED <<mapping, source>>

\* Mutant: the document is overwritten whatever its revision.
UnmovedAlways(w) == TRUE

\* The document is still the one the call read.
Unmoved(w) == row[tx[w].target].revision = tx[w].old.revision

\* Two conditional updates, the envelope's and the document's.  Every writer takes
\* the envelope's lock first, so nothing comes between the two.
Update(w) ==
    /\ tx[w].step = "update"
    /\ ~Locked(w, tx[w].target)
    /\ LET o == tx[w].target
       IN  IF envelope[o] = tx[w].seen /\ Unmoved(w)
           THEN Goes(w, [tx[w] EXCEPT !.step = "commit",
                    !.writes = @ \cup {[object |-> o, document |-> tx[w].new,
                                        revision |-> tx[w].seen + 1]}])
           ELSE Ends(w)
    /\ UNCHANGED <<mapping, source>>

-------------------------------------------------------------------------------
(***************************************************************************)
(* The caller's transaction                                                *)
(***************************************************************************)

Commit(w) ==
    /\ tx[w].step = "commit"
    /\ LET written == {x.object : x \in tx[w].writes}
           write(o) == CHOOSE x \in tx[w].writes : x.object = o
       IN  /\ row' = [o \in Objects |-> IF o \in written THEN write(o).document ELSE row[o]]
           /\ envelope' = [o \in Objects |->
                  IF o \in written THEN write(o).revision ELSE envelope[o]]
    /\ registered' = registered \cup tx[w].born
    /\ links' = links \cup tx[w].joined
    /\ tx' = [tx EXCEPT ![w] = Idle]
    /\ UNCHANGED <<mapping, source>>

\* The caller gives up, its process ends, or the database refuses a statement.
Rollback(w) ==
    /\ tx[w].step # "idle"
    /\ Ends(w)
    /\ UNCHANGED <<mapping, source>>

-------------------------------------------------------------------------------
(***************************************************************************)
(* The surroundings                                                        *)
(***************************************************************************)

\* The diagnostics rewrite a Signal's rows in the owning store.
SourceChanges(s, x) ==
    /\ x # source[s]
    /\ source' = [source EXCEPT ![s] = x]
    /\ UNCHANGED <<mapping, store, tx>>

\* A release deploys the next mapping version; the registry keeps the old ones.
Upgrade ==
    /\ mapping < LastVersion
    /\ mapping' = mapping + 1
    /\ UNCHANGED <<source, store, tx>>

Init ==
    /\ mapping = 1
    /\ source \in [Signals -> Snapshots]
    /\ row = [o \in Objects |-> None]
    /\ envelope = [o \in Objects |-> 0]
    /\ registered = {}
    /\ links = {}
    /\ tx = [w \in Writers |-> Idle]

Next ==
    \/ \E w \in Writers :
          \/ \E s \in Signals, prior \in Facts \cup {None} : Canonicalise(w, s, prior)
          \/ \E f \in Facts : Invalidate(w, f)
          \/ \E f \in Facts, challenges \in SUBSET Contexts : Assess(w, f, challenges)
          \/ Insert(w) \/ Register(w) \/ Correct(w) \/ ReadFinding(w)
          \/ Plan(w) \/ Update(w) \/ Commit(w) \/ Rollback(w)
    \/ \E s \in Signals, x \in Snapshots : SourceChanges(s, x)
    \/ Upgrade

Spec == Init /\ [][Next]_vars

-------------------------------------------------------------------------------
(***************************************************************************)
(* Properties                                                              *)
(***************************************************************************)

Links == (Signals \cup Facts \cup Contexts) \X Objects \X {"SUPPORTS", "CONTRADICTS"}

Transaction ==
    [step : {"idle", "insert", "register", "correct", "assess", "plan", "update", "commit"},
     target : Objects \cup {None}, prior : Facts \cup {None},
     outcome : Outcomes \cup {None}, challenges : SUBSET Contexts,
     old : FactRow \cup FindingRow \cup {None}, new : FactRow \cup FindingRow \cup {None},
     seen : Nat, fresh : BOOLEAN,
     writes : SUBSET [object : Objects, document : FactRow \cup FindingRow, revision : Nat \ {0}],
     born : SUBSET Signals, joined : SUBSET Links]

TypeOK ==
    /\ mapping \in Versions
    /\ source \in [Signals -> Snapshots]
    /\ DOMAIN row = Objects
    /\ \A f \in Facts : row[f] \in FactRow \cup {None}
    /\ \A g \in Findings : row[g] \in FindingRow \cup {None}
    /\ envelope \in [Objects -> Nat]
    /\ registered \subseteq Signals
    /\ links \subseteq Links
    /\ tx \in [Writers -> Transaction]

\* _get refuses an object whose document and envelope disagree on the revision:
\* no order of rival calls brings a Fact or a Finding there (service.py 43).
EnvelopesAgree ==
    \A o \in Objects : envelope[o] = IF row[o] = None THEN 0 ELSE row[o].revision

\* A Fact is superseded exactly when one other Fact names it as its predecessor,
\* so a correction racing an invalidation or another correction never leaves two
\* heirs, an orphan or a live predecessor (service.py 108-113, 143-144, 151-157).
Heirs(f) == {h \in Facts : row[h] # None /\ row[h].supersedes = f}

SupersessionIsChain ==
    \A f \in Facts :
        LET heirs == Heirs(f) IN
        /\ heirs # {} <=> row[f] # None /\ row[f].state = "SUPERSEDED"
        /\ \A h, i \in heirs : h = i /\ h[1] = f[1] /\ h[2] # f[2]

\* Two calls that judge Facts of one Finding at once neither lose an observation
\* nor record a Fact twice, and the Finding is seen from its first observation on
\* (service.py 199-240).
EachFactObservedOnce ==
    \A g \in Findings : row[g] # None =>
        /\ IsInjective(row[g].observations)
        /\ row[g].first = row[g].observations[1][1]
        /\ \A f \in Range(row[g].observations) :
              f[2] = g[2] /\ row[f] # None /\ row[g].latest \in {h[1] : h \in Range(row[g].observations)}

\* A Finding exists only because a Fact of full eligibility passed the threshold;
\* a held or minor Fact joins one but never starts one (service.py 211-212).  The
\* Fact may have been retired since it was judged, by a call that committed first.
FindingsBeginSignificant ==
    \A g \in Findings : row[g] # None =>
        row[row[g].observations[1]].digest \in Significant \ Limited

\* The temporal state a Finding shows is the one its last two observations earn,
\* however often they were judged again and by whom (service.py 217-232).
TemporalIsEarned ==
    \A g \in Findings : row[g] # None =>
        LET o == row[g].observations
        IN  row[g].temporal = IF Len(o) = 1 THEN "FIRST_OBSERVATION"
                              ELSE Temporal(o[Len(o) - 1][1], o[Len(o)][1])

\* Every observation supports its Finding, every declared challenge contradicts it
\* and every Fact is supported by its Signal's identity (service.py 133-141, 247-255).
EvidenceIsLinked ==
    /\ \A f \in Facts : row[f] # None =>
          f[1] \in registered /\ <<f[1], f, "SUPPORTS">> \in links
    /\ \A g \in Findings : row[g] # None =>
          /\ \A f \in Range(row[g].observations) : <<f, g, "SUPPORTS">> \in links
          /\ \A c \in row[g].challenges : <<c, g, "CONTRADICTS">> \in links

\* Observations and links tell one story: a Finding observes each of its Facts once,
\* and they are linked to it as its support, its challenges as contradiction, every
\* Fact to its Signal (service.py 133-141, 199-255).
FactsAreLinked == EachFactObservedOnce /\ EvidenceIsLinked

\* What a Finding shows was earned: it began with a Fact whose source passed the
\* threshold without limits, which need not be live any more, and its
\* temporal state is that of its last two observations (service.py 211-232).
FindingsAreGrounded == FindingsBeginSignificant /\ TemporalIsEarned

\* What a committed step may do to a document: a Fact keeps its source digest and
\* predecessor and once retired stays so; a Finding keeps every observation in
\* order; each commit adds one revision (service.py 64-76, 147-166, 199-240).
Follows(o, old, new) ==
    /\ new.revision = old.revision + 1
    /\ o \in Facts =>
          /\ old.state = "OBSERVED" /\ new.state # "OBSERVED"
          /\ new.digest = old.digest /\ new.supersedes = old.supersedes
    /\ o \in Findings =>
          /\ new.first = old.first
          /\ IsPrefix(old.observations, new.observations)

Evolves(o) ==
    \/ row'[o] = row[o]
    \/ row[o] = None /\ row'[o].revision = 1
    \/ row[o] # None /\ row'[o] # None /\ Follows(o, row[o], row'[o])

DocumentsOnlyEvolve == [][\A o \in Objects : Evolves(o)]_vars

(***************************************************************************)
(* The calls implement a register in which each of them happens at once,   *)
(* when it commits: whatever was read steps before, a correction retires a *)
(* Fact that still stands and a judgement goes on from the newest document *)
(* of its Finding.  Only the state of the Fact may have changed since it   *)
(* was judged (service.py 108-113, 147-166, 199-255).                      *)
(***************************************************************************)
Canon == INSTANCE CanonicalRegister WITH
    documents <- row, identities <- registered, Accepted <- Snapshots \ Refused,
    Verdict <- Outcome, Relates <- Temporal

ImplementsRegister == Canon!Spec
===============================================================================
