------------------------ MODULE CanonicalFindings_proofs ------------------------
(***************************************************************************)
(* Theorems about CanonicalFindings, for any sessions, Signals, snapshots  *)
(* and number of mapping versions.  A transaction works on documents it    *)
(* read earlier, outside any lock.  The inductive invariant says what it   *)
(* still knows of them: what it is about to write follows the document it  *)
(* read, which is the committed one unless that has a higher revision, and *)
(* what it has written nobody else can write.  Two more invariants rest on *)
(* it: what a Finding shows was earned (GroundInv), and what a transaction *)
(* is about to do is one operation of CanonicalRegister (IntentInv).       *)
(***************************************************************************)
EXTENDS CanonicalFindings, TLAPS

RowOf(o) == IF o \in Facts THEN FactRow ELSE FindingRow

\* The correction names a committed Fact of the same Signal and another mapping.
Heir(h, p) == h[1] = p[1] /\ h[2] # p[2]

\* The write of a new Fact over the committed documents r.
Birth(h, d, r) ==
    /\ r[h] = None
    /\ d.state = "OBSERVED" /\ d.revision = 1
    /\ d.supersedes # None => Heir(h, d.supersedes)

Write(o, d) == [object |-> o, document |-> d, revision |-> d.revision]

\* The transaction has written its Fact and nothing else.
Born(t, r) ==
    \E h \in Facts, d \in FactRow :
        t.writes = {Write(h, d)} /\ d.supersedes = t.prior /\ Birth(h, d, r)

\* It is about to write a first document.
Inserting(t, r) ==
    /\ t.target \in Objects /\ t.new \in RowOf(t.target) /\ t.new.revision = 1
    /\ t.writes = {}
    /\ t.target \in Findings => t.prior = None
    /\ t.target \in Facts =>
          /\ t.new.state = "OBSERVED" /\ t.new.supersedes = t.prior
          /\ t.prior # None => Heir(t.target, t.prior)

\* It is about to write the document that follows the one it read.
Updating(t, r) ==
    /\ t.target \in Objects /\ r[t.target] # None
    /\ t.old \in RowOf(t.target) /\ t.new \in RowOf(t.target)
    /\ Follows(t.target, t.old, t.new)
    /\ t.old.revision <= r[t.target].revision
    /\ t.old.revision = r[t.target].revision => t.old = r[t.target]
    /\ t.prior = None =>
          t.writes = {} /\ (t.target \in Facts => t.new.state # "SUPERSEDED")
    /\ t.prior # None =>
          t.target = t.prior /\ t.new.state = "SUPERSEDED" /\ Born(t, r)

WritesFact(t, r) ==
    \E h \in Facts, d \in FactRow :
        t.writes = {Write(h, d)} /\ d.supersedes = None /\ Birth(h, d, r)

WritesFinding(t, r) ==
    \E g \in Findings, d \in FindingRow :
        t.writes = {Write(g, d)} /\ r[g] = None /\ d.revision = 1

WritesNext(t, r) ==
    \E o \in Objects : \E d \in RowOf(o) :
        /\ t.writes = {Write(o, d)}
        /\ r[o] # None /\ Follows(o, r[o], d)
        /\ o \in Facts => d.state # "SUPERSEDED"

WritesCorrection(t, r) ==
    \E h, p \in Facts, d, e \in FactRow :
        /\ t.writes = {Write(h, d), Write(p, e)}
        /\ d.supersedes = p /\ Birth(h, d, r)
        /\ r[p] # None /\ Follows(p, r[p], e) /\ e.state = "SUPERSEDED"

\* What a transaction knows at each step.
Consistent(t, r) ==
    /\ t.prior # None => r[t.prior] # None
    /\ t.step = "idle" => t.writes = {}
    /\ t.step = "insert" => Inserting(t, r)
    /\ t.step \in {"register", "correct"} => t.target \in Facts /\ Born(t, r)
    /\ t.step = "correct" => t.prior # None
    /\ t.step = "assess" =>
          /\ t.target \in Facts /\ t.outcome \in Outcomes
          /\ t.prior = None /\ t.writes = {}
    /\ t.step \in {"plan", "update"} => Updating(t, r)
    /\ t.step = "commit" =>
          \/ WritesFact(t, r) \/ WritesFinding(t, r)
          \/ WritesNext(t, r) \/ WritesCorrection(t, r)

AllConsistent == \A w \in Writers : Consistent(tx[w], row)

\* An object is written by one open transaction at most.
LocksHeld ==
    \A u, w \in Writers : u # w =>
        \A x \in tx[u].writes, y \in tx[w].writes : x.object # y.object

Inv ==
    /\ TypeOK
    /\ EnvelopesAgree
    /\ SupersessionIsChain
    /\ AllConsistent
    /\ LocksHeld

-------------------------------------------------------------------------------
(* Lemmas *)

\* No Fact is a Finding.
LEMMA Apart == Facts \cap Findings = {}
BY ConstantsAssumption DEF Facts, Findings

\* A committed document is of its object's kind.
LEMMA RowTyped ==
    ASSUME TypeOK, NEW o \in Objects, row[o] # None
    PROVE  row[o] \in RowOf(o)
BY Apart DEF TypeOK, Objects, RowOf

\* A session that changes its own transaction only, and writes what no other has.
LEMMA Keeps ==
    ASSUME Inv, NEW w \in Writers, NEW t \in Transaction,
           tx' = [tx EXCEPT ![w] = t], UNCHANGED <<mapping, source, store>>,
           Consistent(t, row),
           \A x \in t.writes : x \in tx[w].writes \/ ~Locked(w, x.object)
    PROVE  Inv'
<1>1. TypeOK'
    BY DEF Inv, TypeOK, store
<1>2. EnvelopesAgree' /\ SupersessionIsChain'
    BY DEF Inv, EnvelopesAgree, SupersessionIsChain, Heirs, store
<1>3. AllConsistent'
    <2>1. \A u \in Writers : tx'[u] = IF u = w THEN t ELSE tx[u]
        BY DEF Inv, TypeOK
    <2>2. row' = row
        BY DEF store
    <2>3. ASSUME NEW u \in Writers PROVE Consistent(tx'[u], row')
        <3>1. Consistent(tx[u], row)
            BY DEF Inv, AllConsistent
        <3> QED  BY <2>1, <2>2, <3>1
    <2> QED  BY <2>3 DEF AllConsistent
<1>4. LocksHeld'
    BY DEF Inv, TypeOK, LocksHeld, Locked
<1> QED  BY <1>1, <1>2, <1>3, <1>4 DEF Inv

\* The call ends without a write.
LEMMA EndsInv ==
    ASSUME Inv, NEW w \in Writers, Ends(w), UNCHANGED <<mapping, source>> PROVE Inv'
<1>1. Idle \in Transaction
    BY DEF Idle, Transaction, Links
<1>2. Consistent(Idle, row)
    BY DEF Idle, Consistent
<1>3. Idle.writes = {}
    BY DEF Idle
<1> QED  BY <1>1, <1>2, <1>3, Keeps DEF Ends, store

\* A call about to write a new Fact, perhaps as the heir of another.
LEMMA CanonicaliseInv ==
    ASSUME Inv, NEW w \in Writers, NEW s \in Signals, NEW prior \in Facts \cup {None},
           Canonicalise(w, s, prior)
    PROVE  Inv'
<1> DEFINE f == <<s, mapping>>
           d == [state |-> "OBSERVED", digest |-> source[s], supersedes |-> prior, revision |-> 1]
           t == [Idle EXCEPT !.step = "insert", !.target = f, !.prior = prior, !.new = d,
                             !.joined = {<<s, f, "SUPPORTS">>}]
<1>1. f \in Facts /\ f \in Objects /\ f \notin Findings
    BY Apart DEF Inv, TypeOK, Facts, Objects
<1>2. d \in FactRow
    BY DEF Inv, TypeOK, FactRow
<1>3. t.joined \subseteq Links
    BY <1>1 DEF Links, Idle
<1>4. t \in Transaction
    BY <1>1, <1>2, <1>3 DEF Idle, Transaction
<1>5. prior # None => row[prior] # None /\ Heir(f, prior)
    BY DEF Canonicalise, Correctable, Heir
<1>6. Consistent(t, row)
    BY <1>1, <1>2, <1>5 DEF Idle, Consistent, Inserting, RowOf
<1>7. t.writes = {}
    BY DEF Idle
<1>8. tx' = [tx EXCEPT ![w] = t] /\ UNCHANGED <<mapping, source, store>>
    BY DEF Canonicalise, Goes, store
<1> HIDE DEF t
<1> QED  BY <1>4, <1>6, <1>7, <1>8, Keeps

\* The insert takes a key nobody holds: the object is born in this transaction.
LEMMA InsertInv ==
    ASSUME Inv, NEW w \in Writers, Insert(w) PROVE Inv'
<1> DEFINE o == tx[w].target
           d == tx[w].new
           next == IF o \in Facts THEN "register" ELSE "commit"
           fresh == o \in Facts /\ o[1] \notin registered
           ws == {[object |-> o, document |-> d, revision |-> 1]}
           t == [tx[w] EXCEPT !.step = next, !.fresh = fresh, !.writes = ws]
<1>1. CASE row[o] # None
    BY <1>1, EndsInv DEF Insert
<1>2. CASE row[o] = None
    <2>1. tx[w] \in Transaction /\ Consistent(tx[w], row) /\ tx[w].step = "insert"
        BY DEF Inv, TypeOK, AllConsistent, Insert
    <2>2. Inserting(tx[w], row) /\ (tx[w].prior # None => row[tx[w].prior] # None)
        BY <2>1 DEF Consistent
    <2>3. o \in Objects /\ d \in RowOf(o) /\ d \in FactRow \cup FindingRow /\ d.revision = 1
        BY <2>2 DEF Inserting, RowOf
    <2>a. fresh \in BOOLEAN /\ next \in {"register", "commit"}
        OBVIOUS
    <2>b. ws \in SUBSET [object : Objects, document : FactRow \cup FindingRow, revision : Nat \ {0}]
        BY <2>3
    <2>c. ws = {Write(o, d)}
        BY <2>3 DEF Write
    <2> HIDE DEF fresh, next, ws
    <2>4. t \in Transaction
        BY <2>1, <2>a, <2>b DEF Transaction
    <2>5. t.writes = {Write(o, d)} /\ t.prior = tx[w].prior /\ t.target = o /\ t.step = next
        BY <2>1, <2>c DEF Transaction
    <2> HIDE DEF t
    <2>6. ASSUME o \in Facts PROVE Consistent(t, row)
        <3>1. d \in FactRow /\ Birth(o, d, row) /\ d.supersedes = t.prior
            BY <1>2, <2>2, <2>3, <2>5, <2>6 DEF Inserting, RowOf, Birth
        <3>2. Born(t, row)
            BY <2>5, <2>6, <3>1 DEF Born
        <3>3. t.step = "register"
            BY <2>5, <2>6 DEF next
        <3> QED  BY <2>2, <2>5, <2>6, <3>2, <3>3 DEF Consistent
    <2>7. ASSUME o \notin Facts PROVE Consistent(t, row)
        <3>1. o \in Findings /\ d \in FindingRow
            BY <2>3, <2>7 DEF Objects, RowOf
        <3>2. WritesFinding(t, row)
            BY <1>2, <2>3, <2>5, <3>1 DEF WritesFinding
        <3>3. t.step = "commit"
            BY <2>5, <2>7 DEF next
        <3> QED  BY <2>2, <2>5, <2>7, <3>2, <3>3 DEF Consistent
    <2>8. Consistent(t, row)
        BY <2>6, <2>7
    <2>9. tx' = [tx EXCEPT ![w] = t] /\ UNCHANGED <<mapping, source, store>> /\ ~Locked(w, o)
        BY <1>2 DEF Insert, Goes, store, t, fresh, next, ws
    <2>10. \A x \in t.writes : x.object = o
        BY <2>5 DEF Write
    <2> QED  BY <2>4, <2>8, <2>9, <2>10, Keeps
<1> QED  BY <1>1, <1>2

\* The identity of a Signal is no document: what the transaction wrote stays.
LEMMA RegisterInv ==
    ASSUME Inv, NEW w \in Writers, Register(w) PROVE Inv'
<1> DEFINE s == tx[w].target[1]
           next == IF tx[w].prior = None THEN "commit" ELSE "correct"
<1>1. /\ tx[w] \in Transaction /\ tx[w].target \in Facts /\ Born(tx[w], row)
      /\ tx[w].prior # None => row[tx[w].prior] # None
    BY DEF Inv, TypeOK, AllConsistent, Consistent, Register
<1>2. s \in Signals
    BY <1>1 DEF Facts
<1>3. ASSUME NEW t \in Transaction, t.step = next, t.writes = tx[w].writes,
             t.prior = tx[w].prior, t.target = tx[w].target
      PROVE  Consistent(t, row)
    <2>1. Born(t, row)
        BY <1>1, <1>3 DEF Born
    <2>2. t.prior = None => WritesFact(t, row)
        BY <2>1 DEF Born, WritesFact
    <2> QED  BY <1>1, <1>3, <2>1, <2>2 DEF Consistent
<1>4. CASE tx' = [tx EXCEPT ![w] = [tx[w] EXCEPT !.step = next]] /\ UNCHANGED store
    <2> DEFINE t == [tx[w] EXCEPT !.step = next]
    <2>1. t \in Transaction /\ t.step = next /\ t.writes = tx[w].writes
          /\ t.prior = tx[w].prior /\ t.target = tx[w].target
        BY <1>1 DEF Transaction
    <2> HIDE DEF t
    <2>2. Consistent(t, row)
        BY <1>3, <2>1
    <2>3. tx' = [tx EXCEPT ![w] = t] /\ UNCHANGED <<mapping, source, store>>
        BY <1>4 DEF t, Register
    <2> QED  BY <2>1, <2>2, <2>3, Keeps
<1>5. CASE tx' = [tx EXCEPT ![w] = [tx[w] EXCEPT !.step = next, !.born = {s}]] /\ UNCHANGED store
    <2> DEFINE t == [tx[w] EXCEPT !.step = next, !.born = {s}]
    <2>a. {s} \in SUBSET Signals /\ next \in {"commit", "correct"}
        BY <1>2
    <2> HIDE DEF next, s
    <2>b. t \in Transaction
        BY <1>1, <2>a DEF Transaction
    <2>c. t.step = next /\ t.writes = tx[w].writes /\ t.prior = tx[w].prior
          /\ t.target = tx[w].target
        BY <1>1 DEF Transaction
    <2>1. t \in Transaction /\ t.step = next /\ t.writes = tx[w].writes
          /\ t.prior = tx[w].prior /\ t.target = tx[w].target
        BY <2>b, <2>c
    <2> HIDE DEF t
    <2>2. Consistent(t, row)
        BY <1>3, <2>1
    <2>3. tx' = [tx EXCEPT ![w] = t] /\ UNCHANGED <<mapping, source, store>>
        BY <1>5 DEF t, Register
    <2> QED  BY <2>1, <2>2, <2>3, Keeps
<1> QED  BY <1>4, <1>5, EndsInv DEF Register, Goes

\* Retiring an observed Fact follows it.
LEMMA RetiredFollows ==
    ASSUME NEW f \in Facts, NEW d \in FactRow, d.state = "OBSERVED",
           NEW state \in {"SUPERSEDED", "INVALIDATED"}
    PROVE  /\ Retired(d, state) \in FactRow
           /\ Retired(d, state).state = state
           /\ Follows(f, d, Retired(d, state))
<1> DEFINE e == [d EXCEPT !.state = state, !.revision = d.revision + 1]
<1>1. e = Retired(d, state)
    BY DEF Retired
<1>2. d.revision + 1 \in Nat \ {0}
    BY DEF FactRow
<1>3. e \in FactRow
    BY <1>2 DEF FactRow
<1>4. /\ e.state = state /\ e.revision = d.revision + 1
      /\ e.digest = d.digest /\ e.supersedes = d.supersedes
    BY DEF FactRow
<1>5. f \notin Findings
    BY Apart
<1>6. Follows(f, d, e)
    BY <1>4, <1>5 DEF Follows
<1> QED  BY <1>1, <1>3, <1>4, <1>6

\* An invalidation starts from the observed document it read.
LEMMA InvalidateInv ==
    ASSUME Inv, NEW w \in Writers, NEW f \in Facts, Invalidate(w, f) PROVE Inv'
<1> DEFINE d == row[f]
           e == Retired(d, "INVALIDATED")
           t == [Idle EXCEPT !.step = "plan", !.target = f, !.old = d, !.new = e]
<1>1. f \in Objects /\ d # None /\ d \in FactRow /\ d.state = "OBSERVED"
    BY DEF Inv, TypeOK, Invalidate, Objects
<1>2. e \in FactRow /\ e.state = "INVALIDATED" /\ Follows(f, d, e)
    BY <1>1, RetiredFollows
<1>3. d.revision \in Nat
    BY <1>1 DEF FactRow
<1>4. tx' = [tx EXCEPT ![w] = t] /\ UNCHANGED <<mapping, source, store>>
    BY DEF Invalidate, Goes, store
<1> HIDE DEF e
<1>5. t \in Transaction
    BY <1>1, <1>2 DEF Idle, Transaction
<1>6. /\ t.step = "plan" /\ t.target = f /\ t.old = d /\ t.new = e
      /\ t.prior = None /\ t.writes = {}
    BY DEF Idle
<1> HIDE DEF t
<1>7. Updating(t, row)
    BY <1>1, <1>2, <1>3, <1>6 DEF Updating, RowOf
<1>8. Consistent(t, row)
    BY <1>6, <1>7 DEF Consistent
<1> QED  BY <1>4, <1>5, <1>6, <1>8, Keeps

\* A correction reads its predecessor again and starts from what it read.
LEMMA CorrectInv ==
    ASSUME Inv, NEW w \in Writers, Correct(w) PROVE Inv'
<1> DEFINE f == tx[w].prior
           d == row[f]
           e == Retired(d, "SUPERSEDED")
           t == [tx[w] EXCEPT !.step = "plan", !.target = f, !.old = d, !.new = e]
<1>1. CASE d.state # "OBSERVED"
    BY <1>1, EndsInv DEF Correct
<1>2. CASE d.state = "OBSERVED"
    <2>1. /\ tx[w] \in Transaction /\ Born(tx[w], row) /\ f # None /\ d # None
          /\ f \in Facts /\ f \in Objects
        BY DEF Inv, TypeOK, AllConsistent, Consistent, Correct, Transaction, Objects
    <2>2. d \in FactRow
        BY <2>1 DEF Inv, TypeOK
    <2>3. d.revision \in Nat
        BY <2>2 DEF FactRow
    <2>4. e \in FactRow /\ e.state = "SUPERSEDED" /\ Follows(f, d, e)
        BY <1>2, <2>1, <2>2, RetiredFollows
    <2>5. tx' = [tx EXCEPT ![w] = t] /\ UNCHANGED <<mapping, source, store>>
        BY <1>2 DEF Correct, Goes, store
    <2> HIDE DEF e, d, f
    <2>6. t \in Transaction
        BY <2>1, <2>2, <2>4 DEF Transaction
    <2>7. /\ t.step = "plan" /\ t.target = f /\ t.old = d /\ t.new = e
          /\ t.prior = tx[w].prior /\ t.writes = tx[w].writes
        BY <2>1 DEF Transaction
    <2> HIDE DEF t
    <2>8. t.prior = f /\ Born(t, row) /\ d = row[f]
        BY <2>1, <2>7 DEF f, d, Born
    <2>9. Updating(t, row)
        BY <2>1, <2>2, <2>3, <2>4, <2>7, <2>8 DEF Updating, RowOf
    <2>10. Consistent(t, row)
        BY <2>1, <2>7, <2>8, <2>9 DEF Consistent
    <2> QED  BY <2>5, <2>6, <2>7, <2>10, Keeps
<1> QED  BY <1>1, <1>2

\* An assessment keeps its Fact and outcome until the Finding is read.
LEMMA AssessInv ==
    ASSUME Inv, NEW w \in Writers, NEW f \in Facts, NEW challenges \in SUBSET Contexts,
           Assess(w, f, challenges)
    PROVE  Inv'
<1> DEFINE outcome == Outcome(row[f], challenges)
           t == [Idle EXCEPT !.step = "assess", !.target = f, !.challenges = challenges,
                             !.outcome = outcome]
<1>1. outcome \in Outcomes
    BY DEF Outcome, Outcomes
<1>2. tx' = [tx EXCEPT ![w] = t] /\ UNCHANGED <<mapping, source, store>>
    BY DEF Assess, Goes, store
<1> HIDE DEF outcome
<1>3. f \in Objects
    BY DEF Objects
<1>4. t \in Transaction
    BY <1>1, <1>3 DEF Idle, Transaction
<1>5. /\ t.step = "assess" /\ t.target = f /\ t.outcome = outcome
      /\ t.prior = None /\ t.writes = {}
    BY DEF Idle
<1> HIDE DEF t
<1>6. Consistent(t, row)
    BY <1>1, <1>5 DEF Consistent
<1> QED  BY <1>2, <1>4, <1>5, <1>6, Keeps

\* A first Finding document, and the one that follows another.
LEMMA NewFindingTyped ==
    ASSUME NEW f \in Facts, NEW outcome \in Outcomes, NEW challenges \in SUBSET Contexts
    PROVE  /\ NewFinding(f, outcome, challenges) \in FindingRow
           /\ NewFinding(f, outcome, challenges).revision = 1
BY DEF NewFinding, FindingRow, Facts, TemporalStates

\* The next document of a Finding follows the one it was made from.
LEMMA NextFindingFollows ==
    ASSUME NEW g \in Findings, NEW old \in FindingRow,
           NEW f \in Facts, NEW outcome \in Outcomes, NEW challenges \in SUBSET Contexts
    PROVE  /\ NextFinding(old, f, outcome, challenges) \in FindingRow
           /\ Follows(g, old, NextFinding(old, f, outcome, challenges))
<1> DEFINE o == old.observations
           observations == IF Repeated(old, f) THEN o ELSE Append(o, f)
           temporal == IF Repeated(old, f) THEN old.temporal ELSE Temporal(Last(o)[1], f[1])
           e == [old EXCEPT !.latest = f[1], !.outcome = outcome, !.challenges = challenges,
                            !.observations = observations, !.temporal = temporal,
                            !.revision = old.revision + 1]
<1>0. e = NextFinding(old, f, outcome, challenges)
    BY DEF NextFinding
<1>1. o \in Seq(Facts) /\ old.temporal \in TemporalStates /\ f[1] \in Signals
      /\ old.revision + 1 \in Nat \ {0}
    BY DEF FindingRow, Facts
<1>2. observations \in Seq(Facts)
    BY <1>1
<1>3. temporal \in TemporalStates
    BY <1>1 DEF Temporal, TemporalStates
<1>4. IsPrefix(o, observations)
    <2>1. Len(o) <= Len(observations)
        BY <1>1
    <2>2. SubSeq(o, 1, Len(o)) = SubSeq(observations, 1, Len(o))
        BY <1>1
    <2> QED  BY <2>1, <2>2 DEF IsPrefix
<1> HIDE DEF observations, temporal
<1>5. e \in FindingRow
    BY <1>1, <1>2, <1>3 DEF FindingRow
<1>6. e.revision = old.revision + 1 /\ e.first = old.first /\ e.observations = observations
    BY DEF FindingRow
<1>7. g \notin Facts
    BY Apart
<1>8. Follows(g, old, e)
    BY <1>4, <1>6, <1>7 DEF Follows
<1> QED  BY <1>0, <1>5, <1>8

\* An assessment writes nothing, a first document, or the one that follows.
LEMMA ReadFindingInv ==
    ASSUME Inv, NEW w \in Writers, ReadFinding(w) PROVE Inv'
<1> DEFINE f == tx[w].target
           g == <<"FINDING", f[2]>>
           old == row[g]
           outcome == tx[w].outcome
           challenges == tx[w].challenges
           joined == Evidence(f, g, challenges)
<1>1. /\ tx[w] \in Transaction /\ f \in Facts /\ outcome \in Outcomes
      /\ challenges \in SUBSET Contexts
      /\ tx[w].prior = None /\ tx[w].writes = {}
    BY DEF Inv, TypeOK, AllConsistent, Consistent, ReadFinding, Transaction
<1>2. g \in Findings /\ g \in Objects /\ g \notin Facts
    BY <1>1, Apart DEF Facts, Findings, Objects
<1>3. joined \in SUBSET Links
    BY <1>1, <1>2 DEF Evidence, Links
<1>4. CASE old = None /\ outcome # "FINDING_CREATED" /\ Ends(w)
    BY <1>4, EndsInv DEF ReadFinding
<1>5. CASE old # None /\ Ends(w)
    BY <1>5, EndsInv DEF ReadFinding
<1>6. CASE old = None /\ Goes(w, [tx[w] EXCEPT !.step = "insert", !.target = g, !.joined = joined,
                                               !.new = NewFinding(f, outcome, challenges)])
    <2> DEFINE d == NewFinding(f, outcome, challenges)
               t == [tx[w] EXCEPT !.step = "insert", !.target = g, !.joined = joined, !.new = d]
    <2>1. d \in FindingRow /\ d.revision = 1
        BY <1>1, NewFindingTyped
    <2>2. tx' = [tx EXCEPT ![w] = t] /\ UNCHANGED <<mapping, source, store>>
        BY <1>6 DEF ReadFinding, Goes, store
    <2> HIDE DEF d, g, joined, old, f, outcome, challenges
    <2>a. tx[w] \in Transaction /\ g \in Objects /\ joined \in SUBSET Links /\ d \in FindingRow
        BY <1>1, <1>2, <1>3, <2>1
    <2>3. t \in Transaction
        BY <2>a DEF Transaction
    <2>4. t.step = "insert" /\ t.target = g /\ t.new = d /\ t.prior = None /\ t.writes = {}
        BY <1>1 DEF Transaction
    <2> HIDE DEF t
    <2>5. Consistent(t, row)
        BY <1>2, <2>1, <2>4 DEF Consistent, Inserting, RowOf
    <2> QED  BY <2>2, <2>3, <2>4, <2>5, Keeps
<1>7. CASE old # None /\ Goes(w, [tx[w] EXCEPT !.step = "plan", !.target = g, !.old = old,
                                    !.joined = joined,
                                    !.new = NextFinding(old, f, outcome, challenges)])
    <2> DEFINE d == NextFinding(old, f, outcome, challenges)
               t == [tx[w] EXCEPT !.step = "plan", !.target = g, !.old = old,
                                  !.joined = joined, !.new = d]
    <2>1. old \in FindingRow
        BY <1>2, <1>7 DEF Inv, TypeOK
    <2>2. d \in FindingRow /\ Follows(g, old, d) /\ old.revision \in Nat
        BY <1>1, <1>2, <2>1, NextFindingFollows DEF FindingRow
    <2>3. tx' = [tx EXCEPT ![w] = t] /\ UNCHANGED <<mapping, source, store>>
        BY <1>7 DEF ReadFinding, Goes, store
    <2>4. old = row[g]
        OBVIOUS
    <2> HIDE DEF d, g, joined, old
    <2>5. t \in Transaction
        BY <1>1, <1>2, <1>3, <2>1, <2>2, ZenonT(30) DEF Transaction
    <2>6. /\ t.step = "plan" /\ t.target = g /\ t.old = old /\ t.new = d
          /\ t.prior = None /\ t.writes = {}
        BY <1>1 DEF Transaction
    <2> HIDE DEF t
    <2>7. Updating(t, row)
        BY <1>2, <1>7, <2>1, <2>2, <2>4, <2>6 DEF Updating, RowOf
    <2>8. Consistent(t, row)
        BY <2>6, <2>7 DEF Consistent
    <2> QED  BY <2>3, <2>5, <2>6, <2>8, Keeps
<1> QED  BY <1>4, <1>5, <1>6, <1>7 DEF ReadFinding

\* Reading the envelope changes nothing the transaction knows.
LEMMA PlanInv ==
    ASSUME Inv, NEW w \in Writers, Plan(w) PROVE Inv'
<1> DEFINE seen == envelope[tx[w].target]
           t == [tx[w] EXCEPT !.step = "update", !.seen = seen]
           fits == tx[w].target \in Facts \/ tx[w].new.revision = seen + 1
<1>1. CASE ~fits
    BY <1>1, EndsInv DEF Plan
<1>2. CASE fits
    <2>1. tx[w] \in Transaction /\ Consistent(tx[w], row) /\ tx[w].step = "plan"
        BY DEF Inv, TypeOK, AllConsistent, Plan
    <2>2. Updating(tx[w], row) /\ (tx[w].prior # None => row[tx[w].prior] # None)
        BY <2>1 DEF Consistent
    <2>3. seen \in Nat
        BY <2>2 DEF Inv, TypeOK, Updating
    <2>4. tx' = [tx EXCEPT ![w] = t] /\ UNCHANGED <<mapping, source, store>>
        BY <1>2 DEF Plan, Goes, store
    <2> HIDE DEF seen
    <2>5. t \in Transaction
        BY <2>1, <2>3 DEF Transaction
    <2>6. /\ t.step = "update" /\ t.target = tx[w].target /\ t.old = tx[w].old
          /\ t.new = tx[w].new /\ t.prior = tx[w].prior /\ t.writes = tx[w].writes
        BY <2>1 DEF Transaction
    <2> HIDE DEF t
    <2>7. Updating(t, row)
        BY <2>2, <2>6 DEF Updating, Born
    <2>8. Consistent(t, row)
        BY <2>2, <2>6, <2>7 DEF Consistent
    <2> QED  BY <2>4, <2>5, <2>6, <2>8, Keeps
<1> QED  BY <1>1, <1>2

\* The conditional updates pass only on the document the call read.
LEMMA UpdateInv ==
    ASSUME Inv, NEW w \in Writers, Update(w) PROVE Inv'
<1> DEFINE o == tx[w].target
           d == tx[w].new
           ws == tx[w].writes \cup
                   {[object |-> o, document |-> d, revision |-> tx[w].seen + 1]}
           t == [tx[w] EXCEPT !.step = "commit", !.writes = ws]
<1>1. CASE ~(envelope[o] = tx[w].seen /\ Unmoved(w))
    BY <1>1, EndsInv DEF Update
<1>2. CASE envelope[o] = tx[w].seen /\ Unmoved(w)
    <2>1. tx[w] \in Transaction /\ Consistent(tx[w], row) /\ tx[w].step = "update"
        BY DEF Inv, TypeOK, AllConsistent, Update
    <2>2. Updating(tx[w], row)
        BY <2>1 DEF Consistent
    <2>3. o \in Objects /\ row[o] # None /\ tx[w].old = row[o] /\ d \in RowOf(o)
          /\ Follows(o, row[o], d) /\ d \in FactRow \cup FindingRow
        BY <1>2, <2>2 DEF Updating, Unmoved, RowOf
    <2>4. d.revision = tx[w].seen + 1 /\ tx[w].seen + 1 \in Nat \ {0}
        BY <1>2, <2>1, <2>3 DEF Inv, EnvelopesAgree, Follows, Transaction
    <2>5. ws = tx[w].writes \cup {Write(o, d)}
        BY <2>4 DEF Write
    <2>6. ws \in SUBSET [object : Objects, document : FactRow \cup FindingRow,
                         revision : Nat \ {0}]
        BY <2>1, <2>3, <2>4 DEF Transaction
    <2>7. /\ tx' = [tx EXCEPT ![w] = t] /\ UNCHANGED <<mapping, source, store>>
          /\ ~Locked(w, o)
        BY <1>2 DEF Update, Goes, store
    <2> HIDE DEF ws
    <2>8. t \in Transaction
        BY <2>1, <2>6 DEF Transaction
    <2>9. t.step = "commit" /\ t.writes = ws /\ t.prior = tx[w].prior
        BY <2>1 DEF Transaction
    <2> HIDE DEF t
    <2>10. ASSUME tx[w].prior = None PROVE WritesNext(t, row)
        <3>1. ws = {Write(o, d)} /\ (o \in Facts => d.state # "SUPERSEDED")
            BY <2>2, <2>5, <2>10 DEF Updating
        <3> QED  BY <2>3, <2>9, <3>1 DEF WritesNext
    <2>11. ASSUME tx[w].prior # None PROVE WritesCorrection(t, row)
        <3>1. /\ o = tx[w].prior /\ d.state = "SUPERSEDED" /\ Born(tx[w], row)
              /\ o \in Facts /\ d \in FactRow
            BY <2>1, <2>2, <2>3, <2>11 DEF Updating, Transaction, RowOf
        <3>2. PICK h \in Facts, b \in FactRow :
                  tx[w].writes = {Write(h, b)} /\ b.supersedes = tx[w].prior /\ Birth(h, b, row)
            BY <3>1 DEF Born
        <3>3. ws = {Write(h, b), Write(o, d)} /\ b.supersedes = o
            BY <2>5, <3>1, <3>2
        <3> QED  BY <2>3, <2>9, <3>1, <3>2, <3>3 DEF WritesCorrection
    <2>12. Consistent(t, row)
        BY <2>1, <2>9, <2>10, <2>11 DEF Consistent
    <2>13. \A x \in t.writes : x \in tx[w].writes \/ x.object = o
        BY <2>5, <2>9 DEF Write
    <2> QED  BY <2>7, <2>8, <2>12, <2>13, Keeps
<1> QED  BY <1>1, <1>2

\* How the committed documents may move from r to q under another's commit.
Grown(r, q) ==
    \A o \in Objects :
        \/ q[o] = r[o]
        \/ r[o] = None /\ q[o] # None
        \/ r[o] # None /\ q[o] # None /\ q[o].revision = r[o].revision + 1

\* What a transaction knows survives the commit of another that wrote none of its objects.
LEMMA Stable ==
    ASSUME NEW t \in Transaction, NEW r, NEW q, Consistent(t, r), Grown(r, q),
           \A o \in Objects : r[o] # None => r[o].revision \in Nat,
           \A x \in t.writes : q[x.object] = r[x.object]
    PROVE  Consistent(t, q)
<1>1. \A o \in Objects : r[o] # None => q[o] # None
    BY DEF Grown
<1>2. t.prior # None => q[t.prior] # None
    BY <1>1 DEF Consistent, Transaction, Objects
<1>3. ASSUME NEW o, NEW d, Write(o, d) \in t.writes PROVE q[o] = r[o]
    BY <1>3 DEF Write
<1>4. Born(t, r) => Born(t, q)
    BY <1>3 DEF Born, Birth
<1>5. Inserting(t, r) => Inserting(t, q)
    BY DEF Inserting
<1>6. ASSUME Updating(t, r) PROVE Updating(t, q)
    <2> DEFINE o == t.target
    <2>1. /\ o \in Objects /\ r[o] # None /\ q[o] # None /\ r[o].revision \in Nat
          /\ q[o] = r[o] \/ q[o].revision = r[o].revision + 1
        BY <1>1, <1>6 DEF Updating, Grown
    <2>2. t.old.revision \in Nat
        BY <1>6 DEF Updating, RowOf, FactRow, FindingRow
    <2>3. t.old.revision <= q[o].revision
        BY <1>6, <2>1, <2>2 DEF Updating
    <2>4. t.old.revision = q[o].revision => t.old = q[o]
        BY <1>6, <2>1, <2>2 DEF Updating
    <2> QED  BY <1>4, <1>6, <2>1, <2>3, <2>4 DEF Updating
<1>7. /\ WritesFact(t, r) => WritesFact(t, q)
      /\ WritesFinding(t, r) => WritesFinding(t, q)
      /\ WritesNext(t, r) => WritesNext(t, q)
    BY <1>3 DEF WritesFact, WritesFinding, WritesNext, Birth
<1>8. ASSUME WritesCorrection(t, r) PROVE WritesCorrection(t, q)
    <2>1. PICK h, p \in Facts, d, e \in FactRow :
              /\ t.writes = {Write(h, d), Write(p, e)}
              /\ d.supersedes = p /\ Birth(h, d, r)
              /\ r[p] # None /\ Follows(p, r[p], e) /\ e.state = "SUPERSEDED"
        BY <1>8 DEF WritesCorrection
    <2>2. q[h] = r[h] /\ q[p] = r[p]
        BY <1>3, <2>1
    <2>3. Birth(h, d, q)
        BY <2>1, <2>2 DEF Birth
    <2> QED  BY <2>1, <2>2, <2>3 DEF WritesCorrection
<1> QED  BY <1>2, <1>4, <1>5, <1>6, <1>7, <1>8 DEF Consistent

\* A commit puts each written document and its revision in place, and nothing else.
LEMMA CommitEffect ==
    ASSUME Inv, NEW w \in Writers, Commit(w),
           \A x, y \in tx[w].writes : x.object = y.object => x = y
    PROVE  /\ \A x \in tx[w].writes :
                 row'[x.object] = x.document /\ envelope'[x.object] = x.revision
           /\ \A o \in Objects : (\A x \in tx[w].writes : x.object # o) =>
                 row'[o] = row[o] /\ envelope'[o] = envelope[o]
           /\ DOMAIN row' = Objects /\ DOMAIN envelope' = Objects
<1> DEFINE ws == tx[w].writes
           written == {x.object : x \in ws}
           write(o) == CHOOSE x \in ws : x.object = o
<1>1. /\ row' = [o \in Objects |-> IF o \in written THEN write(o).document ELSE row[o]]
      /\ envelope' = [o \in Objects |-> IF o \in written THEN write(o).revision ELSE envelope[o]]
    BY DEF Commit
<1>2. ASSUME NEW x \in ws PROVE write(x.object) = x /\ x.object \in Objects /\ x.object \in written
    <2>1. x.object \in Objects
        BY DEF Inv, TypeOK, Transaction
    <2>2. write(x.object) \in ws /\ write(x.object).object = x.object
        OBVIOUS
    <2> QED  BY <2>1, <2>2
<1> HIDE DEF write
<1>3. ASSUME NEW x \in ws
      PROVE  row'[x.object] = x.document /\ envelope'[x.object] = x.revision
    BY <1>1, <1>2
<1>4. ASSUME NEW o \in Objects, \A x \in ws : x.object # o
      PROVE  row'[o] = row[o] /\ envelope'[o] = envelope[o]
    <2>1. o \notin written
        BY <1>4
    <2> QED  BY <1>1, <2>1
<1> QED  BY <1>1, <1>3, <1>4

\* The committed part of the invariant.
StoreOK ==
    /\ DOMAIN row = Objects /\ DOMAIN envelope = Objects
    /\ \A o \in Objects : row[o] \in RowOf(o) \cup {None}
    /\ EnvelopesAgree
    /\ SupersessionIsChain

\* One document written: the rest is as it was.
Puts(o, d) ==
    /\ DOMAIN row' = Objects /\ DOMAIN envelope' = Objects
    /\ row'[o] = d /\ envelope'[o] = d.revision
    /\ \A u \in Objects : u # o => row'[u] = row[u] /\ envelope'[u] = envelope[u]

\* The store part of the invariant.
LEMMA InvStore == ASSUME Inv PROVE StoreOK
BY Apart DEF Inv, StoreOK, TypeOK, Objects, RowOf

\* A document is a value with a revision.
LEMMA Documents ==
    ASSUME NEW o \in Objects, NEW d \in RowOf(o)
    PROVE  d # None /\ d.revision \in Nat
BY NoneAssumption DEF RowOf, FactRow, FindingRow

\* A commit of one write.
LEMMA CommitPuts ==
    ASSUME Inv, NEW w \in Writers, Commit(w), NEW o \in Objects, NEW d,
           tx[w].writes = {Write(o, d)}
    PROVE  Puts(o, d)
<1>1. /\ Write(o, d) \in tx[w].writes
      /\ Write(o, d).object = o /\ Write(o, d).document = d /\ Write(o, d).revision = d.revision
    BY DEF Write
<1>2. \A x, y \in tx[w].writes : x.object = y.object => x = y
    OBVIOUS
<1>3. row'[o] = d /\ envelope'[o] = d.revision
    BY <1>1, <1>2, CommitEffect
<1>4. \A u \in Objects : u # o => \A x \in tx[w].writes : x.object # u
    BY <1>1
<1>5. /\ DOMAIN row' = Objects /\ DOMAIN envelope' = Objects
      /\ \A u \in Objects : u # o => row'[u] = row[u] /\ envelope'[u] = envelope[u]
    BY <1>2, <1>4, CommitEffect
<1> QED  BY <1>3, <1>5 DEF Puts

\* A new Fact without a predecessor has no heirs and is nobody's heir.
LEMMA PutsFact ==
    ASSUME StoreOK, NEW h \in Facts, NEW d \in FactRow, Puts(h, d),
           d.supersedes = None, Birth(h, d, row)
    PROVE  StoreOK' /\ Grown(row, row') /\ \A o \in Objects : Evolves(o)
<1>1. h \in Objects /\ d \in RowOf(h) /\ d # None /\ row[h] = None /\ d.revision = 1
      /\ d.state = "OBSERVED"
    BY Documents DEF Objects, RowOf, Birth
<1>2. /\ \A o \in Objects : row'[o] \in RowOf(o) \cup {None}
      /\ EnvelopesAgree'
    BY <1>1 DEF StoreOK, Puts, EnvelopesAgree
<1>3. ASSUME NEW f \in Facts PROVE Heirs(f)' = Heirs(f)
    <2>1. f # None
        BY NoneAssumption DEF Objects
    <2>2. ASSUME NEW i \in Facts
          PROVE  (row'[i] # None /\ row'[i].supersedes = f) <=> (row[i] # None /\ row[i].supersedes = f)
        BY <1>1, <2>1 DEF Puts, Objects
    <2> QED  BY <2>2 DEF Heirs
<1>4. SupersessionIsChain'
    <2>1. ASSUME NEW f \in Facts
          PROVE  (row'[f] # None /\ row'[f].state = "SUPERSEDED")
                     <=> (row[f] # None /\ row[f].state = "SUPERSEDED")
        BY <1>1 DEF Puts, Objects
    <2> QED  BY <1>3, <2>1 DEF StoreOK, SupersessionIsChain
<1>5. Grown(row, row') /\ \A o \in Objects : Evolves(o)
    BY <1>1 DEF Puts, Grown, Evolves
<1> QED  BY <1>2, <1>4, <1>5 DEF StoreOK, Puts

\* Writing a Finding leaves the Facts alone.
LEMMA PutsFinding ==
    ASSUME StoreOK, NEW g \in Findings, NEW d \in FindingRow, Puts(g, d),
           \/ row[g] = None /\ d.revision = 1
           \/ row[g] # None /\ Follows(g, row[g], d)
    PROVE  StoreOK' /\ Grown(row, row') /\ \A o \in Objects : Evolves(o)
<1>1. g \in Objects /\ g \notin Facts /\ d \in RowOf(g)
    BY Apart DEF Objects, RowOf
<1>2. d # None
    BY <1>1, Documents
<1>3. /\ \A o \in Objects : row'[o] \in RowOf(o) \cup {None}
      /\ EnvelopesAgree'
    BY <1>1, <1>2 DEF StoreOK, Puts, EnvelopesAgree
<1>4. \A f \in Facts : row'[f] = row[f]
    BY <1>1 DEF Puts, Objects
<1>5. SupersessionIsChain'
    <2>1. \A f \in Facts : Heirs(f)' = Heirs(f)
        BY <1>4 DEF Heirs
    <2> QED  BY <1>4, <2>1 DEF StoreOK, SupersessionIsChain
<1>6. Grown(row, row') /\ \A o \in Objects : Evolves(o)
    BY <1>1, <1>2 DEF Puts, Grown, Evolves, Follows
<1> QED  BY <1>3, <1>5, <1>6 DEF StoreOK, Puts

\* An invalidation: the Fact was observed, had no heirs and gets none.
LEMMA PutsInvalidated ==
    ASSUME StoreOK, NEW p \in Facts, NEW d \in FactRow, Puts(p, d),
           row[p] # None, Follows(p, row[p], d), d.state # "SUPERSEDED"
    PROVE  StoreOK' /\ Grown(row, row') /\ \A o \in Objects : Evolves(o)
<1>1. /\ p \in Objects /\ d \in RowOf(p) /\ d # None
      /\ row[p].state = "OBSERVED" /\ d.supersedes = row[p].supersedes
    BY Documents DEF Objects, RowOf, Follows
<1>2. /\ \A o \in Objects : row'[o] \in RowOf(o) \cup {None}
      /\ EnvelopesAgree'
    BY <1>1 DEF StoreOK, Puts, EnvelopesAgree
<1>3. ASSUME NEW f \in Facts PROVE Heirs(f)' = Heirs(f)
    <2>1. ASSUME NEW i \in Facts
          PROVE  (row'[i] # None /\ row'[i].supersedes = f) <=> (row[i] # None /\ row[i].supersedes = f)
        BY <1>1 DEF Puts, Objects
    <2> QED  BY <2>1 DEF Heirs
<1>4. SupersessionIsChain'
    <2>1. ASSUME NEW f \in Facts
          PROVE  (row'[f] # None /\ row'[f].state = "SUPERSEDED")
                     <=> (row[f] # None /\ row[f].state = "SUPERSEDED")
        BY <1>1 DEF Puts, Objects
    <2> QED  BY <1>3, <2>1 DEF StoreOK, SupersessionIsChain
<1>5. Grown(row, row') /\ \A o \in Objects : Evolves(o)
    BY <1>1 DEF Puts, Grown, Evolves, Follows
<1> QED  BY <1>2, <1>4, <1>5 DEF StoreOK, Puts

\* A correction: the observed predecessor, without heirs so far, gets the new Fact as its one.
LEMMA PutsCorrection ==
    ASSUME StoreOK, NEW h \in Facts, NEW p \in Facts, NEW d \in FactRow, NEW e \in FactRow,
           DOMAIN row' = Objects, DOMAIN envelope' = Objects,
           row'[h] = d, envelope'[h] = d.revision,
           row'[p] = e, envelope'[p] = e.revision,
           \A u \in Objects : u # h /\ u # p => row'[u] = row[u] /\ envelope'[u] = envelope[u],
           d.supersedes = p, Birth(h, d, row),
           row[p] # None, Follows(p, row[p], e), e.state = "SUPERSEDED"
    PROVE  StoreOK' /\ Grown(row, row') /\ \A o \in Objects : Evolves(o)
<1>1. /\ h \in Objects /\ d \in RowOf(h) /\ d # None /\ row[h] = None
      /\ d.state = "OBSERVED" /\ d.revision = 1
    BY Documents DEF Objects, RowOf, Birth
<1>2. /\ p \in Objects /\ e \in RowOf(p) /\ e # None
      /\ row[p].state = "OBSERVED" /\ e.supersedes = row[p].supersedes
      /\ e.revision = row[p].revision + 1
    BY Documents DEF Objects, RowOf, Follows
<1>3. Heir(h, p) /\ h # p
    BY <1>1, <1>2, NoneAssumption DEF Birth, Objects
<1>4. /\ \A o \in Objects : row'[o] \in RowOf(o) \cup {None}
      /\ EnvelopesAgree'
    BY <1>1, <1>2 DEF StoreOK, EnvelopesAgree
<1>5. ASSUME NEW f \in Facts, NEW i \in Facts
      PROVE  (row'[i] # None /\ row'[i].supersedes = f)
                 <=> (IF i = h THEN f = p ELSE row[i] # None /\ row[i].supersedes = f)
    BY <1>1, <1>2, <1>3 DEF Objects
<1>6. Heirs(p) = {} /\ Heirs(h) = {}
    BY <1>1, <1>2 DEF StoreOK, SupersessionIsChain
<1>7. Heirs(p)' = {h}
    BY <1>1, <1>5, <1>6 DEF Heirs
<1>8. ASSUME NEW f \in Facts, f # p PROVE Heirs(f)' = Heirs(f)
    <2>1. h \notin Heirs(f)
        BY <1>1 DEF Heirs
    <2> QED  BY <1>5, <1>8, <2>1 DEF Heirs
<1>9. SupersessionIsChain'
    <2>1. ASSUME NEW f \in Facts, f # p
          PROVE  (row'[f] # None /\ row'[f].state = "SUPERSEDED")
                     <=> (row[f] # None /\ row[f].state = "SUPERSEDED")
        BY <1>1, <2>1 DEF Objects
    <2>2. row'[p] # None /\ row'[p].state = "SUPERSEDED"
        BY <1>2
    <2> QED  BY <1>3, <1>7, <1>8, <2>1, <2>2 DEF StoreOK, SupersessionIsChain, Heir
<1>10. Grown(row, row') /\ \A o \in Objects : Evolves(o)
    BY <1>1, <1>2 DEF Grown, Evolves
<1> QED  BY <1>4, <1>9, <1>10 DEF StoreOK

\* Whatever a transaction wrote, its commit keeps the store well-formed.
LEMMA CommitStore ==
    ASSUME Inv, NEW w \in Writers, Commit(w)
    PROVE  /\ StoreOK' /\ Grown(row, row') /\ \A o \in Objects : Evolves(o)
           /\ \A x, y \in tx[w].writes : x.object = y.object => x = y
<1>1. StoreOK
    BY InvStore
<1>2. \/ WritesFact(tx[w], row) \/ WritesFinding(tx[w], row)
      \/ WritesNext(tx[w], row) \/ WritesCorrection(tx[w], row)
    BY DEF Inv, AllConsistent, Consistent, Commit
<1>3. CASE WritesFact(tx[w], row)
    <2>1. PICK h \in Facts, d \in FactRow :
              tx[w].writes = {Write(h, d)} /\ d.supersedes = None /\ Birth(h, d, row)
        BY <1>3 DEF WritesFact
    <2>2. Puts(h, d)
        BY <2>1, CommitPuts DEF Objects
    <2> QED  BY <1>1, <2>1, <2>2, PutsFact
<1>4. CASE WritesFinding(tx[w], row)
    <2>1. PICK g \in Findings, d \in FindingRow :
              tx[w].writes = {Write(g, d)} /\ row[g] = None /\ d.revision = 1
        BY <1>4 DEF WritesFinding
    <2>2. Puts(g, d)
        BY <2>1, CommitPuts DEF Objects
    <2> QED  BY <1>1, <2>1, <2>2, PutsFinding
<1>5. CASE WritesNext(tx[w], row)
    <2>1. PICK o \in Objects : \E d \in RowOf(o) :
              /\ tx[w].writes = {Write(o, d)}
              /\ row[o] # None /\ Follows(o, row[o], d)
              /\ o \in Facts => d.state # "SUPERSEDED"
        BY <1>5 DEF WritesNext
    <2>2. PICK d \in RowOf(o) :
              /\ tx[w].writes = {Write(o, d)}
              /\ row[o] # None /\ Follows(o, row[o], d)
              /\ o \in Facts => d.state # "SUPERSEDED"
        BY <2>1
    <2>3. Puts(o, d)
        BY <2>2, CommitPuts
    <2>4. \/ o \in Facts /\ d \in FactRow
          \/ o \in Findings /\ d \in FindingRow
        BY DEF Objects, RowOf
    <2> QED  BY <1>1, <2>2, <2>3, <2>4, PutsInvalidated, PutsFinding
<1>6. CASE WritesCorrection(tx[w], row)
    <2>1. PICK h, p \in Facts, d, e \in FactRow :
              /\ tx[w].writes = {Write(h, d), Write(p, e)}
              /\ d.supersedes = p /\ Birth(h, d, row)
              /\ row[p] # None /\ Follows(p, row[p], e) /\ e.state = "SUPERSEDED"
        BY <1>6 DEF WritesCorrection
    <2>2. h # p /\ h \in Objects /\ p \in Objects
        BY <2>1 DEF Birth, Objects
    <2>3. \A x, y \in tx[w].writes : x.object = y.object => x = y
        BY <2>1, <2>2 DEF Write
    <2>4. /\ DOMAIN row' = Objects /\ DOMAIN envelope' = Objects
          /\ row'[h] = d /\ envelope'[h] = d.revision
          /\ row'[p] = e /\ envelope'[p] = e.revision
          /\ \A u \in Objects : u # h /\ u # p => row'[u] = row[u] /\ envelope'[u] = envelope[u]
        BY <2>1, <2>2, <2>3, CommitEffect DEF Write
    <2> QED  BY <1>1, <2>1, <2>3, <2>4, PutsCorrection
<1> QED  BY <1>2, <1>3, <1>4, <1>5, <1>6

\* A commit keeps the invariant: the store, and what every other transaction knows.
LEMMA CommitInv ==
    ASSUME Inv, NEW w \in Writers, Commit(w) PROVE Inv'
<1>1. /\ StoreOK' /\ Grown(row, row')
      /\ \A x, y \in tx[w].writes : x.object = y.object => x = y
    BY CommitStore
<1>2. Idle \in Transaction
    BY DEF Idle, Transaction, Links
<1>3. tx' = [tx EXCEPT ![w] = Idle] /\ UNCHANGED <<mapping, source>>
    BY DEF Commit
<1>4. TypeOK'
    <2>1. \A o \in Objects : row'[o] \in RowOf(o) \cup {None}
        BY <1>1 DEF StoreOK
    <2>2. DOMAIN row' = Objects
          /\ (\A f \in Facts : row'[f] \in FactRow \cup {None})
          /\ (\A g \in Findings : row'[g] \in FindingRow \cup {None})
        BY <1>1, <2>1, Apart DEF StoreOK, RowOf, Objects
    <2>3. envelope' \in [Objects -> Nat]
        <3>1. \A o \in Objects : envelope'[o] \in Nat
            BY <1>1, <2>1, Documents DEF StoreOK, EnvelopesAgree
        <3>2. envelope' = [o \in Objects |-> envelope'[o]]
            BY DEF Commit
        <3> QED  BY <3>1, <3>2
    <2>4. registered' \subseteq Signals /\ links' \subseteq Links
        BY DEF Inv, TypeOK, Transaction, Commit
    <2>5. tx' \in [Writers -> Transaction]
        BY <1>2, <1>3 DEF Inv, TypeOK
    <2>6. mapping' \in Versions /\ source' \in [Signals -> Snapshots]
        BY <1>3 DEF Inv, TypeOK
    <2> QED  BY <2>2, <2>3, <2>4, <2>5, <2>6 DEF TypeOK
<1>5. AllConsistent'
    <2>1. ASSUME NEW u \in Writers PROVE Consistent(tx'[u], row')
        <3>1. CASE u = w
            <4>1. tx'[u] = Idle
                BY <1>3, <3>1 DEF Inv, TypeOK
            <4>2. Consistent(Idle, row')
                BY DEF Idle, Consistent
            <4> QED  BY <4>1, <4>2
        <3>2. CASE u # w
            <4>1. tx'[u] = tx[u] /\ tx[u] \in Transaction /\ Consistent(tx[u], row)
                BY <1>3, <3>2 DEF Inv, TypeOK, AllConsistent
            <4>2. \A o \in Objects : row[o] # None => row[o].revision \in Nat
                BY RowTyped, Documents DEF Inv
            <4>3. \A x \in tx[u].writes : x.object \in Objects
                BY <4>1 DEF Transaction
            <4>4. \A x \in tx[u].writes : row'[x.object] = row[x.object]
                BY <1>1, <3>2, <4>3, CommitEffect DEF Inv, LocksHeld
            <4>5. Consistent(tx[u], row')
                BY <1>1, <4>1, <4>2, <4>4, Stable
            <4> QED  BY <4>1, <4>5
        <3> QED  BY <3>1, <3>2
    <2> QED  BY <2>1 DEF AllConsistent
<1>6. LocksHeld'
    <2>1. Idle.writes = {}
        BY DEF Idle
    <2> QED  BY <1>3, <2>1 DEF Inv, TypeOK, LocksHeld
<1> QED  BY <1>1, <1>4, <1>5, <1>6 DEF Inv, StoreOK

\* The diagnostics rewrite a Signal, a release changes the mapping.
LEMMA SurroundingsInv ==
    ASSUME Inv,
           (\E s \in Signals, x \in Snapshots : SourceChanges(s, x)) \/ Upgrade \/ UNCHANGED vars
    PROVE  Inv'
<1>1. UNCHANGED <<store, tx>>
    BY DEF SourceChanges, Upgrade, vars, store
<1>2. TypeOK'
    <2>1. mapping' \in Versions /\ source' \in [Signals -> Snapshots]
        BY ConstantsAssumption DEF Inv, TypeOK, SourceChanges, Upgrade, vars, Versions
    <2> QED  BY <1>1, <2>1 DEF Inv, TypeOK, store
<1>3. EnvelopesAgree' /\ SupersessionIsChain'
    BY <1>1 DEF Inv, EnvelopesAgree, SupersessionIsChain, Heirs, store
<1>4. AllConsistent' /\ LocksHeld'
    <2>1. tx' = tx /\ row' = row
        BY <1>1 DEF store
    <2> QED  BY <2>1 DEF Inv, AllConsistent, LocksHeld
<1> QED  BY <1>2, <1>3, <1>4 DEF Inv

\* The invariant holds of the empty store.
LEMMA InitInv == Init => Inv
<1> SUFFICES ASSUME Init PROVE Inv
    OBVIOUS
<1>1. Idle \in Transaction /\ Consistent(Idle, row) /\ Idle.writes = {}
    BY DEF Idle, Transaction, Links, Consistent
<1>2. \A w \in Writers : tx[w] = Idle
    BY DEF Init
<1>3. TypeOK
    BY <1>1, ConstantsAssumption DEF Init, TypeOK, Versions, Objects
<1>4. EnvelopesAgree /\ SupersessionIsChain
    BY DEF Init, EnvelopesAgree, SupersessionIsChain, Heirs, Objects
<1>5. AllConsistent /\ LocksHeld
    BY <1>1, <1>2 DEF AllConsistent, LocksHeld
<1> QED  BY <1>3, <1>4, <1>5 DEF Inv

\* Every step keeps the invariant.
LEMMA NextInv == Inv /\ [Next]_vars => Inv'
<1> SUFFICES ASSUME Inv, [Next]_vars PROVE Inv'
    OBVIOUS
<1>1. ASSUME NEW w \in Writers, Rollback(w) PROVE Inv'
    BY <1>1, EndsInv DEF Rollback
<1> QED
    BY <1>1, CanonicaliseInv, InvalidateInv, AssessInv, InsertInv, RegisterInv, CorrectInv,
       ReadFindingInv, PlanInv, UpdateInv, CommitInv, SurroundingsInv DEF Next

\* Calls in any number and order keep store and transactions consistent: the inductive
\* invariant behind the theorems below (service.py 64-76, 82-257).
THEOREM Invariance == Spec => []Inv
BY InitInv, NextInv, PTL DEF Spec

-------------------------------------------------------------------------------
(* Theorems *)

\* The store and every open transaction keep their types.
THEOREM TypeCorrect == Spec => []TypeOK
<1>1. Inv => TypeOK
    BY DEF Inv
<1> QED  BY <1>1, Invariance, PTL

\* Whatever calls race, a committed document and its envelope carry one revision,
\* so no Fact or Finding is ever left unreadable (service.py 33-50).
THEOREM AlwaysReadable == Spec => []EnvelopesAgree
<1>1. Inv => EnvelopesAgree
    BY DEF Inv
<1> QED  BY <1>1, Invariance, PTL

\* However corrections and invalidations race across releases, a superseded Fact
\* has one successor and only a superseded Fact has one (service.py 82-166).
THEOREM OneSuccessor == Spec => []SupersessionIsChain
<1>1. Inv => SupersessionIsChain
    BY DEF Inv
<1> QED  BY <1>1, Invariance, PTL

\* No step takes back a retirement, changes what a Fact rests on, drops an
\* observation or skips a revision (service.py 64-76, 147-166, 199-240).
THEOREM NothingIsRewritten == Spec => DocumentsOnlyEvolve
<1>1. ASSUME Inv, [Next]_vars PROVE [\A o \in Objects : Evolves(o)]_vars
    <2>1. CASE \E w \in Writers : Commit(w)
        BY <1>1, <2>1, CommitStore
    <2>2. CASE ~\E w \in Writers : Commit(w)
        <3>1. UNCHANGED row
            BY <1>1, <2>2, ZenonT(30) DEF Next, vars, store, Canonicalise, Invalidate, Assess, Insert,
                Register, Correct, ReadFinding, Plan, Update, Rollback, Goes, Ends,
                SourceChanges, Upgrade
        <3> QED  BY <3>1 DEF Evolves
    <2> QED  BY <2>1, <2>2
<1> QED  BY <1>1, Invariance, PTL DEF Spec, DocumentsOnlyEvolve

-------------------------------------------------------------------------------
(***************************************************************************)
(* What Findings rest on.  The invariant above says which document a       *)
(* transaction may write; this one what that document shows: the Facts it  *)
(* observes, their digests, and the links that are committed or will be    *)
(* with it.  Facts stay and keep their digests, so it outlasts whatever    *)
(* commits between the reads and the write.                                *)
(***************************************************************************)

\* What the document d of Finding g shows of the committed Facts r.
Grounded(g, d, r) ==
    LET o == d.observations IN
    /\ o \in Seq(Facts) /\ o # <<>> /\ IsInjective(o)
    /\ d.first = o[1][1] /\ \E f \in Range(o) : d.latest = f[1]
    /\ \A f \in Range(o) : f[2] = g[2] /\ r[f] # None
    /\ r[o[1]].digest \in Significant \ Limited
    /\ d.temporal = IF Len(o) = 1 THEN "FIRST_OBSERVATION" ELSE Temporal(o[Len(o) - 1][1], o[Len(o)][1])

\* Its observations and challenges are linked to it in l.
Supported(g, d, l) ==
    /\ \A f \in Range(d.observations) : <<f, g, "SUPPORTS">> \in l
    /\ \A c \in d.challenges : <<c, g, "CONTRADICTS">> \in l

StoreGrounded(r, ids, l) ==
    /\ \A f \in Facts : r[f] # None => f[1] \in ids /\ <<f[1], f, "SUPPORTS">> \in l
    /\ \A g \in Findings : r[g] # None => Grounded(g, r[g], r) /\ Supported(g, r[g], l)

\* What a transaction has written: a new Fact with its link and, once looked for, its
\* Signal's identity; a Finding with its links.
WritesWarranted(t, r, ids, l) ==
    \A x \in t.writes :
        /\ x.object \in Facts /\ r[x.object] = None =>
              /\ <<x.object[1], x.object, "SUPPORTS">> \in t.joined
              /\ t.step # "register" => x.object[1] \in ids \cup t.born
        /\ x.object \in Findings =>
              Grounded(x.object, x.document, r) /\ Supported(x.object, x.document, l \cup t.joined)

\* What it will write, and what it has judged.
Warranted(t, r, ids, l) ==
    /\ t.step = "assess" =>
          /\ t.target \in Facts /\ r[t.target] # None
          /\ t.outcome = "FINDING_CREATED" => r[t.target].digest \in Significant \ Limited
    /\ t.step \in {"insert", "plan", "update"} /\ t.target \in Findings =>
          Grounded(t.target, t.new, r) /\ Supported(t.target, t.new, l \cup t.joined)
    /\ t.step = "insert" /\ t.target \in Facts => <<t.target[1], t.target, "SUPPORTS">> \in t.joined
    /\ t.step = "register" =>
          (\A x \in t.writes : x.object = t.target) /\ (t.fresh \/ t.target[1] \in ids)
    /\ WritesWarranted(t, r, ids, l)

GroundInv ==
    /\ StoreGrounded(row, registered, links)
    /\ \A w \in Writers : Warranted(tx[w], row, registered, links)

\* The Facts of r are in q, with their digests.
Remain(r, q) == \A f \in Facts : r[f] # None => q[f] # None /\ q[f].digest = r[f].digest

\* What a document shows it shows of more Facts too.
LEMMA GroundedStays ==
    ASSUME NEW g, NEW d, NEW r, NEW q, Grounded(g, d, r), Remain(r, q) PROVE Grounded(g, d, q)
<1> DEFINE o == d.observations
<1>1. o \in Seq(Facts) /\ o # <<>> /\ \A f \in Range(o) : r[f] # None
    BY DEF Grounded
<1>2. \A f \in Range(o) : f \in Facts
    BY <1>1 DEF Range
<1>3. o[1] \in Range(o)
    BY <1>1 DEF Range
<1>4. \A f \in Range(o) : q[f] # None /\ q[f].digest = r[f].digest
    BY <1>1, <1>2 DEF Remain
<1> QED  BY <1>3, <1>4 DEF Grounded

\* More links support it as well.
LEMMA SupportedStays ==
    ASSUME NEW g, NEW d, NEW l, NEW m, Supported(g, d, l), l \subseteq m PROVE Supported(g, d, m)
BY DEF Supported

\* What a transaction has to show outlasts the commits of others.
LEMMA WarrantedStays ==
    ASSUME NEW t, NEW r, NEW q, NEW ids, NEW ids2, NEW l, NEW m,
           Warranted(t, r, ids, l), Remain(r, q), ids \subseteq ids2, l \subseteq m
    PROVE  Warranted(t, q, ids2, m)
<1>1. l \cup t.joined \subseteq m \cup t.joined /\ ids \cup t.born \subseteq ids2 \cup t.born
    OBVIOUS
<1>2. ASSUME NEW x \in t.writes
      PROVE  /\ x.object \in Facts /\ q[x.object] = None =>
                   /\ <<x.object[1], x.object, "SUPPORTS">> \in t.joined
                   /\ t.step # "register" => x.object[1] \in ids2 \cup t.born
             /\ x.object \in Findings =>
                   Grounded(x.object, x.document, q) /\ Supported(x.object, x.document, m \cup t.joined)
    <2>1. /\ x.object \in Facts /\ r[x.object] = None =>
                /\ <<x.object[1], x.object, "SUPPORTS">> \in t.joined
                /\ t.step # "register" => x.object[1] \in ids \cup t.born
          /\ x.object \in Findings =>
                Grounded(x.object, x.document, r) /\ Supported(x.object, x.document, l \cup t.joined)
        BY DEF Warranted, WritesWarranted
    <2>2. x.object \in Facts /\ q[x.object] = None => r[x.object] = None
        BY DEF Remain
    <2>3. x.object \in Findings => Grounded(x.object, x.document, q)
        BY <2>1, GroundedStays
    <2>4. x.object \in Findings => Supported(x.object, x.document, m \cup t.joined)
        BY <1>1, <2>1, SupportedStays
    <2> QED  BY <1>1, <2>1, <2>2, <2>3, <2>4
<1>3. WritesWarranted(t, q, ids2, m)
    BY <1>2 DEF WritesWarranted
<1>4. t.step \in {"insert", "plan", "update"} /\ t.target \in Findings =>
          Grounded(t.target, t.new, q) /\ Supported(t.target, t.new, m \cup t.joined)
    BY <1>1, GroundedStays, SupportedStays DEF Warranted
<1>5. t.step = "assess" =>
          /\ t.target \in Facts /\ q[t.target] # None
          /\ t.outcome = "FINDING_CREATED" => q[t.target].digest \in Significant \ Limited
    BY DEF Warranted, Remain
<1>6. /\ t.step = "insert" /\ t.target \in Facts => <<t.target[1], t.target, "SUPPORTS">> \in t.joined
      /\ t.step = "register" =>
            (\A x \in t.writes : x.object = t.target) /\ (t.fresh \/ t.target[1] \in ids2)
    BY DEF Warranted
<1> QED  BY <1>3, <1>4, <1>5, <1>6 DEF Warranted

\* A session that changes its own transaction only.
LEMMA GroundKeeps ==
    ASSUME Inv, GroundInv, NEW w \in Writers, NEW t,
           tx' = [tx EXCEPT ![w] = t], UNCHANGED store, Warranted(t, row, registered, links)
    PROVE  GroundInv'
<1>1. row' = row /\ registered' = registered /\ links' = links
    BY DEF store
<1>2. \A u \in Writers : tx'[u] = IF u = w THEN t ELSE tx[u]
    BY DEF Inv, TypeOK
<1>3. \A u \in Writers : Warranted(tx'[u], row, registered, links)
    BY <1>2 DEF GroundInv
<1> QED  BY <1>1, <1>3 DEF GroundInv

\* A call that ends has nothing to show.
LEMMA EndsGround ==
    ASSUME Inv, GroundInv, NEW w \in Writers, Ends(w) PROVE GroundInv'
<1>1. Warranted(Idle, row, registered, links)
    BY DEF Idle, Warranted, WritesWarranted
<1> QED  BY <1>1, GroundKeeps DEF Ends

\* A new Fact is linked to its Signal.
LEMMA CanonicaliseGround ==
    ASSUME Inv, GroundInv, NEW w \in Writers, NEW s \in Signals, NEW prior \in Facts \cup {None},
           Canonicalise(w, s, prior)
    PROVE  GroundInv'
<1> DEFINE f == <<s, mapping>>
           t == [Idle EXCEPT !.step = "insert", !.target = f, !.prior = prior,
                             !.new = [state |-> "OBSERVED", digest |-> source[s],
                                      supersedes |-> prior, revision |-> 1],
                             !.joined = {<<s, f, "SUPPORTS">>}]
<1>1. f \in Facts /\ f \notin Findings /\ f[1] = s
    BY Apart DEF Inv, TypeOK, Facts
<1>2. t.step = "insert" /\ t.target = f /\ t.writes = {} /\ t.joined = {<<s, f, "SUPPORTS">>}
    BY DEF Idle
<1>3. tx' = [tx EXCEPT ![w] = t] /\ UNCHANGED store
    BY DEF Canonicalise, Goes, store
<1> HIDE DEF t, f
<1>4. Warranted(t, row, registered, links)
    BY <1>1, <1>2 DEF Warranted, WritesWarranted
<1> QED  BY <1>3, <1>4, GroundKeeps

\* A Fact that is retired has been linked before.
LEMMA InvalidateGround ==
    ASSUME Inv, GroundInv, NEW w \in Writers, NEW f \in Facts, Invalidate(w, f) PROVE GroundInv'
<1> DEFINE t == [Idle EXCEPT !.step = "plan", !.target = f, !.old = row[f],
                             !.new = Retired(row[f], "INVALIDATED")]
<1>1. t.step = "plan" /\ t.target = f /\ t.writes = {} /\ f \notin Findings
    BY Apart DEF Idle
<1>2. tx' = [tx EXCEPT ![w] = t] /\ UNCHANGED store
    BY DEF Invalidate, Goes, store
<1> HIDE DEF t
<1>3. Warranted(t, row, registered, links)
    BY <1>1 DEF Warranted, WritesWarranted
<1> QED  BY <1>2, <1>3, GroundKeeps

\* Only a significant, unlimited, observed Fact is judged to start a Finding.
LEMMA AssessGround ==
    ASSUME Inv, GroundInv, NEW w \in Writers, NEW f \in Facts, NEW challenges \in SUBSET Contexts,
           Assess(w, f, challenges)
    PROVE  GroundInv'
<1> DEFINE outcome == Outcome(row[f], challenges)
           t == [Idle EXCEPT !.step = "assess", !.target = f, !.challenges = challenges,
                             !.outcome = outcome]
<1>1. outcome = "FINDING_CREATED" => row[f].digest \in Significant \ Limited
    <2>1. f \in Objects
        BY DEF Objects
    <2>2. row[f] \in FactRow
        BY DEF Assess, Inv, TypeOK
    <2>3. row[f].digest \in Snapshots
        BY <2>2 DEF FactRow
    <2> QED  BY <2>3 DEF Outcome
<1>2. t.step = "assess" /\ t.target = f /\ t.outcome = outcome /\ t.writes = {}
    BY DEF Idle
<1>3. tx' = [tx EXCEPT ![w] = t] /\ UNCHANGED store /\ row[f] # None
    BY DEF Assess, Goes, store
<1> HIDE DEF t, outcome
<1>4. Warranted(t, row, registered, links)
    BY <1>1, <1>2, <1>3 DEF Warranted, WritesWarranted
<1> QED  BY <1>3, <1>4, GroundKeeps

\* What is inserted is what the call prepared.
LEMMA InsertGround ==
    ASSUME Inv, GroundInv, NEW w \in Writers, Insert(w) PROVE GroundInv'
<1> DEFINE o == tx[w].target
           d == tx[w].new
           next == IF o \in Facts THEN "register" ELSE "commit"
           fresh == o \in Facts /\ o[1] \notin registered
           ws == {[object |-> o, document |-> d, revision |-> 1]}
           t == [tx[w] EXCEPT !.step = next, !.fresh = fresh, !.writes = ws]
<1>1. CASE row[o] # None
    BY <1>1, EndsGround DEF Insert
<1>2. CASE row[o] = None
    <2>1. /\ tx[w] \in Transaction /\ tx[w].step = "insert"
          /\ Warranted(tx[w], row, registered, links)
        BY DEF Inv, TypeOK, GroundInv, Insert
    <2>2. tx' = [tx EXCEPT ![w] = t] /\ UNCHANGED store
        BY <1>2 DEF Insert, Goes, store
    <2>3. fresh = (o \in Facts /\ o[1] \notin registered) /\ next = (IF o \in Facts THEN "register" ELSE "commit")
        OBVIOUS
    <2>4. \A x \in ws : x.object = o /\ x.document = d
        OBVIOUS
    <2> HIDE DEF ws, fresh, next
    <2>5. /\ t.step = next /\ t.fresh = fresh /\ t.writes = ws /\ t.target = o
          /\ t.joined = tx[w].joined /\ t.born = tx[w].born
        BY <2>1 DEF Transaction
    <2> HIDE DEF t
    <2>6. /\ o \in Facts => <<o[1], o, "SUPPORTS">> \in t.joined
          /\ o \in Findings => Grounded(o, d, row) /\ Supported(o, d, links \cup t.joined)
        BY <2>1, <2>5 DEF Warranted
    <2>7. o \in Facts => t.step = "register"
        BY <2>3, <2>5
    <2>8. t.step \in {"register", "commit"}
        BY <2>3, <2>5
    <2>9. WritesWarranted(t, row, registered, links)
        BY <2>4, <2>5, <2>6, <2>7 DEF WritesWarranted
    <2>10. t.step = "register" => (\A x \in t.writes : x.object = t.target) /\ (t.fresh \/ t.target[1] \in registered)
        BY <2>3, <2>4, <2>5
    <2>11. Warranted(t, row, registered, links)
        BY <2>8, <2>9, <2>10 DEF Warranted
    <2> QED  BY <2>2, <2>11, GroundKeeps
<1> QED  BY <1>1, <1>2

\* The identity of the Signal is there or will be.
LEMMA RegisterGround ==
    ASSUME Inv, GroundInv, NEW w \in Writers, Register(w) PROVE GroundInv'
<1> DEFINE s == tx[w].target[1]
           next == IF tx[w].prior = None THEN "commit" ELSE "correct"
<1>1. /\ tx[w] \in Transaction /\ tx[w].step = "register"
      /\ Warranted(tx[w], row, registered, links)
    BY DEF Inv, TypeOK, GroundInv, Register
<1>2. ASSUME NEW t, t.step \in {"commit", "correct"}, t.writes = tx[w].writes,
             t.joined = tx[w].joined, s \in registered \cup t.born
      PROVE  Warranted(t, row, registered, links)
    <2>1. \A x \in t.writes : x.object[1] \in registered \cup t.born
        BY <1>1, <1>2 DEF Warranted
    <2>2. WritesWarranted(t, row, registered, links)
        BY <1>1, <1>2, <2>1 DEF Warranted, WritesWarranted
    <2> QED  BY <1>2, <2>2 DEF Warranted
<1>3. CASE ~ tx[w].fresh /\ tx' = [tx EXCEPT ![w] = [tx[w] EXCEPT !.step = next]] /\ UNCHANGED store
    <2> DEFINE t == [tx[w] EXCEPT !.step = next]
    <2>1. t.step = next /\ t.writes = tx[w].writes /\ t.joined = tx[w].joined /\ t.born = tx[w].born
        BY <1>1 DEF Transaction
    <2>2. next \in {"commit", "correct"} /\ s \in registered
        BY <1>1, <1>3 DEF Warranted
    <2>3. tx' = [tx EXCEPT ![w] = t]
        BY <1>3
    <2> HIDE DEF t, next, s
    <2>4. Warranted(t, row, registered, links)
        BY <1>2, <2>1, <2>2
    <2> QED  BY <1>3, <2>3, <2>4, GroundKeeps
<1>4. CASE tx' = [tx EXCEPT ![w] = [tx[w] EXCEPT !.step = next, !.born = {s}]] /\ UNCHANGED store
    <2> DEFINE t == [tx[w] EXCEPT !.step = next, !.born = {s}]
    <2>1. t.step = next /\ t.writes = tx[w].writes /\ t.joined = tx[w].joined /\ t.born = {s}
        BY <1>1 DEF Transaction
    <2>2. next \in {"commit", "correct"}
        OBVIOUS
    <2>3. tx' = [tx EXCEPT ![w] = t]
        BY <1>4
    <2> HIDE DEF t, next, s
    <2>4. Warranted(t, row, registered, links)
        BY <1>2, <2>1, <2>2
    <2> QED  BY <1>4, <2>3, <2>4, GroundKeeps
<1> QED  BY <1>3, <1>4, EndsGround DEF Register, Goes

\* A correction goes on to its predecessor, a Fact.
LEMMA CorrectGround ==
    ASSUME Inv, GroundInv, NEW w \in Writers, Correct(w) PROVE GroundInv'
<1> DEFINE f == tx[w].prior
           t == [tx[w] EXCEPT !.step = "plan", !.target = f, !.old = row[f],
                              !.new = Retired(row[f], "SUPERSEDED")]
<1>1. CASE row[f].state # "OBSERVED"
    BY <1>1, EndsGround DEF Correct
<1>2. CASE row[f].state = "OBSERVED"
    <2>1. /\ tx[w] \in Transaction /\ tx[w].step = "correct" /\ f \in Facts
          /\ Warranted(tx[w], row, registered, links)
        BY DEF Inv, TypeOK, AllConsistent, Consistent, GroundInv, Correct, Transaction
    <2>2. tx' = [tx EXCEPT ![w] = t] /\ UNCHANGED store
        BY <1>2 DEF Correct, Goes, store
    <2>3. /\ t.step = "plan" /\ t.target = f /\ t.writes = tx[w].writes
          /\ t.joined = tx[w].joined /\ t.born = tx[w].born
        BY <2>1 DEF Transaction
    <2> HIDE DEF t
    <2>4. WritesWarranted(t, row, registered, links)
        BY <2>1, <2>3 DEF Warranted, WritesWarranted
    <2>5. Warranted(t, row, registered, links)
        BY <2>1, <2>3, <2>4, Apart DEF Warranted
    <2> QED  BY <2>2, <2>5, GroundKeeps
<1> QED  BY <1>1, <1>2

\* Reading the envelope changes nothing that is to be written.
LEMMA PlanGround ==
    ASSUME Inv, GroundInv, NEW w \in Writers, Plan(w) PROVE GroundInv'
<1> DEFINE t == [tx[w] EXCEPT !.step = "update", !.seen = envelope[tx[w].target]]
<1>1. CASE Ends(w)
    BY <1>1, EndsGround
<1>2. CASE Goes(w, t)
    <2>1. /\ tx[w] \in Transaction /\ tx[w].step = "plan"
          /\ Warranted(tx[w], row, registered, links)
        BY DEF Inv, TypeOK, GroundInv, Plan
    <2>2. tx' = [tx EXCEPT ![w] = t] /\ UNCHANGED store
        BY <1>2 DEF Goes
    <2>3. /\ t.step = "update" /\ t.target = tx[w].target /\ t.new = tx[w].new
          /\ t.writes = tx[w].writes /\ t.joined = tx[w].joined /\ t.born = tx[w].born
        BY <2>1 DEF Transaction
    <2> HIDE DEF t
    <2>4. WritesWarranted(t, row, registered, links)
        BY <2>1, <2>3 DEF Warranted, WritesWarranted
    <2>5. Warranted(t, row, registered, links)
        BY <2>1, <2>3, <2>4 DEF Warranted
    <2> QED  BY <2>2, <2>5, GroundKeeps
<1> QED  BY <1>1, <1>2 DEF Plan

\* What is updated is what the call prepared; a Fact that is updated is there.
LEMMA UpdateGround ==
    ASSUME Inv, GroundInv, NEW w \in Writers, Update(w) PROVE GroundInv'
<1> DEFINE o == tx[w].target
           d == tx[w].new
           x == [object |-> o, document |-> d, revision |-> tx[w].seen + 1]
           ws == tx[w].writes \cup {x}
           t == [tx[w] EXCEPT !.step = "commit", !.writes = ws]
<1>1. CASE Ends(w)
    BY <1>1, EndsGround
<1>2. CASE Goes(w, t)
    <2>1. /\ tx[w] \in Transaction /\ tx[w].step = "update" /\ row[o] # None
          /\ Warranted(tx[w], row, registered, links)
        BY DEF Inv, TypeOK, AllConsistent, Consistent, Updating, GroundInv, Update
    <2>2. tx' = [tx EXCEPT ![w] = t] /\ UNCHANGED store
        BY <1>2 DEF Goes
    <2>3. x.object = o /\ x.document = d
        OBVIOUS
    <2> HIDE DEF x
    <2>4. /\ t.step = "commit" /\ t.writes = tx[w].writes \cup {x}
          /\ t.joined = tx[w].joined /\ t.born = tx[w].born
        BY <2>1 DEF Transaction
    <2> HIDE DEF t, ws
    <2>5. /\ WritesWarranted(tx[w], row, registered, links)
          /\ o \in Findings => Grounded(o, d, row) /\ Supported(o, d, links \cup t.joined)
        BY <2>1, <2>4 DEF Warranted
    <2>6. WritesWarranted(t, row, registered, links)
        BY <2>1, <2>3, <2>4, <2>5 DEF WritesWarranted
    <2>7. Warranted(t, row, registered, links)
        BY <2>4, <2>6 DEF Warranted
    <2> QED  BY <2>2, <2>7, GroundKeeps
<1> QED  BY <1>1, <1>2 DEF Update

\* The first document of a Finding rests on the Fact that was judged.
LEMMA NewFindingGrounded ==
    ASSUME NEW f \in Facts, NEW g \in Findings, NEW outcome, NEW challenges, NEW r, NEW l,
           g[2] = f[2], r[f] # None, r[f].digest \in Significant \ Limited
    PROVE  /\ Grounded(g, NewFinding(f, outcome, challenges), r)
           /\ Supported(g, NewFinding(f, outcome, challenges), l \cup Evidence(f, g, challenges))
<1> DEFINE d == NewFinding(f, outcome, challenges)
<1>1. /\ d.observations = <<f>> /\ d.first = f[1] /\ d.latest = f[1]
      /\ d.temporal = "FIRST_OBSERVATION" /\ d.challenges = challenges
    BY DEF NewFinding
<1> HIDE DEF d
<1>2. <<f>> \in Seq(Facts) /\ <<f>> # <<>> /\ Len(<<f>>) = 1 /\ <<f>>[1] = f
    OBVIOUS
<1>3. Range(<<f>>) = {f} /\ IsInjective(<<f>>)
    BY DEF Range, IsInjective
<1>4. Grounded(g, d, r)
    BY <1>1, <1>2, <1>3 DEF Grounded
<1>5. Supported(g, d, l \cup Evidence(f, g, challenges))
    BY <1>1, <1>3 DEF Supported, Evidence
<1> QED  BY <1>4, <1>5 DEF d

\* The next one keeps what it has and adds at most the Fact that was judged.
LEMMA NextFindingGrounded ==
    ASSUME NEW g \in Findings, NEW old \in FindingRow, NEW f \in Facts, NEW outcome, NEW challenges,
           NEW r, NEW l, Grounded(g, old, r), Supported(g, old, l), g[2] = f[2], r[f] # None
    PROVE  /\ Grounded(g, NextFinding(old, f, outcome, challenges), r)
           /\ Supported(g, NextFinding(old, f, outcome, challenges), l \cup Evidence(f, g, challenges))
<1> DEFINE o == old.observations
           n == Len(o)
           d == NextFinding(old, f, outcome, challenges)
<1>1. /\ d.observations = IF Repeated(old, f) THEN o ELSE Append(o, f)
      /\ d.temporal = IF Repeated(old, f) THEN old.temporal ELSE Temporal(Last(o)[1], f[1])
      /\ d.latest = f[1] /\ d.first = old.first /\ d.challenges = challenges
    BY DEF NextFinding, FindingRow
<1> HIDE DEF d
<1>2. /\ o \in Seq(Facts) /\ o # <<>> /\ IsInjective(o) /\ old.first = o[1][1]
      /\ \A h \in Range(o) : h[2] = g[2] /\ r[h] # None /\ <<h, g, "SUPPORTS">> \in l
      /\ r[o[1]].digest \in Significant \ Limited
      /\ old.temporal = IF Len(o) = 1 THEN "FIRST_OBSERVATION" ELSE Temporal(o[n - 1][1], o[n][1])
    BY DEF Grounded, Supported
<1>3. CASE Repeated(old, f)
    <2>1. d.observations = o /\ d.temporal = old.temporal /\ f \in Range(o)
        BY <1>1, <1>3 DEF Repeated
    <2>2. Grounded(g, d, r)
        BY <1>1, <1>2, <2>1 DEF Grounded
    <2>3. Supported(g, d, l \cup Evidence(f, g, challenges))
        BY <1>1, <1>2, <2>1 DEF Supported, Evidence
    <2> QED  BY <2>2, <2>3 DEF d
<1>4. CASE ~ Repeated(old, f)
    <2> DEFINE e == Append(o, f)
    <2>1. d.observations = e /\ d.temporal = Temporal(Last(o)[1], f[1]) /\ f \notin Range(o)
        BY <1>1, <1>4 DEF Repeated
    <2>2. n \in Nat \ {0} /\ DOMAIN o = 1 .. n
        BY <1>2
    <2>3. /\ e \in Seq(Facts) /\ Len(e) = n + 1 /\ DOMAIN e = 1 .. n + 1 /\ e[n + 1] = f
          /\ \A i \in 1 .. n : e[i] = o[i]
        BY <1>2, <2>2
    <2> HIDE DEF e
    <2>4. \A h : h \in Range(e) <=> h \in Range(o) \/ h = f
        <3>1. \A h : h \in Range(o) <=> \E i \in 1 .. n : o[i] = h
            BY <2>2 DEF Range
        <3>2. \A h : h \in Range(e) <=> \E i \in 1 .. n + 1 : e[i] = h
            BY <2>3 DEF Range
        <3> QED  BY <2>2, <2>3, <3>1, <3>2
    <2>5. \A i \in 1 .. n : o[i] # f
        BY <2>1, <2>2 DEF Range
    <2>6. IsInjective(e)
        <3>1. \A i, j \in 1 .. n : o[i] = o[j] => i = j
            BY <1>2, <2>2 DEF IsInjective
        <3>2. \A i \in 1 .. n + 1 : i \in 1 .. n \/ i = n + 1
            BY <2>2
        <3>3. \A i, j \in 1 .. n + 1 : e[i] = e[j] => i = j
            BY <2>3, <2>5, <3>1, <3>2
        <3> QED  BY <2>3, <3>3 DEF IsInjective
    <2>7. e # <<>> /\ e[1] = o[1] /\ e[Len(e) - 1] = Last(o) /\ Len(e) # 1
        BY <2>2, <2>3 DEF Last
    <2>8. Grounded(g, d, r)
        BY <1>1, <1>2, <2>1, <2>2, <2>3, <2>4, <2>6, <2>7 DEF Grounded
    <2>9. Supported(g, d, l \cup Evidence(f, g, challenges))
        BY <1>1, <1>2, <2>1, <2>4 DEF Supported, Evidence
    <2> QED  BY <2>8, <2>9 DEF d
<1> QED  BY <1>3, <1>4

\* An assessment prepares a document that rests on the Fact it judged.
LEMMA ReadFindingGround ==
    ASSUME Inv, GroundInv, NEW w \in Writers, ReadFinding(w) PROVE GroundInv'
<1> DEFINE f == tx[w].target
           g == <<"FINDING", f[2]>>
           old == row[g]
           outcome == tx[w].outcome
           challenges == tx[w].challenges
           joined == Evidence(f, g, challenges)
<1>1. /\ tx[w] \in Transaction /\ f \in Facts /\ tx[w].writes = {} /\ row[f] # None
      /\ outcome = "FINDING_CREATED" => row[f].digest \in Significant \ Limited
    BY DEF Inv, TypeOK, AllConsistent, Consistent, ReadFinding, GroundInv, Warranted
<1>2. g \in Findings /\ g \in Objects /\ g \notin Facts /\ g[2] = f[2]
    BY <1>1, Apart DEF Facts, Findings, Objects
<1>3. CASE Ends(w)
    BY <1>3, EndsGround
<1>4. CASE outcome = "FINDING_CREATED" /\
           Goes(w, [tx[w] EXCEPT !.step = "insert", !.target = g, !.joined = joined,
                                 !.new = NewFinding(f, outcome, challenges)])
    <2> DEFINE d == NewFinding(f, outcome, challenges)
               t == [tx[w] EXCEPT !.step = "insert", !.target = g, !.joined = joined, !.new = d]
    <2>1. Grounded(g, d, row) /\ Supported(g, d, links \cup joined)
        BY <1>1, <1>2, <1>4, NewFindingGrounded
    <2>2. tx' = [tx EXCEPT ![w] = t] /\ UNCHANGED store
        BY <1>4 DEF Goes
    <2> HIDE DEF d, g, joined, old, f, outcome, challenges
    <2>3. t.step = "insert" /\ t.target = g /\ t.new = d /\ t.writes = {} /\ t.joined = joined
        BY <1>1 DEF Transaction
    <2> HIDE DEF t
    <2>4. Warranted(t, row, registered, links)
        BY <1>2, <2>1, <2>3 DEF Warranted, WritesWarranted
    <2> QED  BY <2>2, <2>4, GroundKeeps
<1>5. CASE old # None /\ Goes(w, [tx[w] EXCEPT !.step = "plan", !.target = g, !.old = old,
                                    !.joined = joined,
                                    !.new = NextFinding(old, f, outcome, challenges)])
    <2> DEFINE d == NextFinding(old, f, outcome, challenges)
               t == [tx[w] EXCEPT !.step = "plan", !.target = g, !.old = old,
                                  !.joined = joined, !.new = d]
    <2>1. old \in FindingRow /\ Grounded(g, old, row) /\ Supported(g, old, links)
        BY <1>2, <1>5 DEF Inv, TypeOK, GroundInv, StoreGrounded
    <2>2. Grounded(g, d, row) /\ Supported(g, d, links \cup joined)
        <3> HIDE DEF g, old, f, outcome, challenges
        <3> QED  BY <1>1, <1>2, <2>1, NextFindingGrounded
    <2>3. tx' = [tx EXCEPT ![w] = t] /\ UNCHANGED store
        BY <1>5 DEF Goes
    <2> HIDE DEF d, g, joined, old, f, outcome, challenges
    <2>4. t.step = "plan" /\ t.target = g /\ t.new = d /\ t.writes = {} /\ t.joined = joined
        BY <1>1 DEF Transaction
    <2> HIDE DEF t
    <2>5. Warranted(t, row, registered, links)
        BY <1>2, <2>2, <2>4 DEF Warranted, WritesWarranted
    <2> QED  BY <2>3, <2>5, GroundKeeps
<1> QED  BY <1>3, <1>4, <1>5 DEF ReadFinding

\* A commit makes documents, identity and links public together.
LEMMA CommitGround ==
    ASSUME Inv, GroundInv, NEW w \in Writers, Commit(w) PROVE GroundInv'
<1> DEFINE t == tx[w]
<1>1. /\ \A o \in Objects : Evolves(o)
      /\ \A x, y \in t.writes : x.object = y.object => x = y
    BY CommitStore
<1>2. /\ \A x \in t.writes : row'[x.object] = x.document
      /\ \A o \in Objects : (\A x \in t.writes : x.object # o) => row'[o] = row[o]
    BY <1>1, CommitEffect
<1>3. registered' = registered \cup t.born /\ links' = links \cup t.joined /\ t.step = "commit"
      /\ tx' = [tx EXCEPT ![w] = Idle]
    BY DEF Commit
<1>4. Remain(row, row')
    <2>1. ASSUME NEW f \in Facts, row[f] # None PROVE row'[f] # None /\ row'[f].digest = row[f].digest
        <3>1. f \in Objects
            BY DEF Objects
        <3> QED  BY <1>1, <2>1, <3>1 DEF Evolves, Follows
    <2> QED  BY <2>1 DEF Remain
<1>5. WritesWarranted(t, row, registered, links) /\ StoreGrounded(row, registered, links)
    BY DEF GroundInv, Warranted
<1>6. ASSUME NEW f \in Facts, row'[f] # None
      PROVE  f[1] \in registered' /\ <<f[1], f, "SUPPORTS">> \in links'
    <2>1. CASE row[f] # None
        BY <1>3, <1>5, <2>1 DEF StoreGrounded
    <2>2. CASE row[f] = None
        <3>1. f \in Objects
            BY DEF Objects
        <3>2. PICK x \in t.writes : x.object = f
            BY <1>2, <1>6, <2>2, <3>1
        <3> QED  BY <1>3, <1>5, <2>2, <3>2 DEF WritesWarranted
    <2> QED  BY <2>1, <2>2
<1>7. ASSUME NEW g \in Findings, row'[g] # None
      PROVE  Grounded(g, row'[g], row') /\ Supported(g, row'[g], links')
    <2>1. g \in Objects
        BY DEF Objects
    <2>2. Grounded(g, row'[g], row) /\ Supported(g, row'[g], links')
        <3>1. CASE \E x \in t.writes : x.object = g
            BY <1>2, <1>3, <1>5, <3>1 DEF WritesWarranted
        <3>2. CASE ~ \E x \in t.writes : x.object = g
            <4>1. row'[g] = row[g]
                BY <1>2, <2>1, <3>2
            <4>2. Grounded(g, row[g], row) /\ Supported(g, row[g], links)
                BY <1>5, <1>7, <4>1 DEF StoreGrounded
            <4>3. Supported(g, row[g], links')
                BY <1>3, <4>2, SupportedStays
            <4> QED  BY <4>1, <4>2, <4>3
        <3> QED  BY <3>1, <3>2
    <2> QED  BY <1>4, <2>2, GroundedStays
<1>8. StoreGrounded(row', registered', links')
    BY <1>6, <1>7 DEF StoreGrounded
<1>9. ASSUME NEW u \in Writers PROVE Warranted(tx'[u], row', registered', links')
    <2>1. CASE u = w
        <3>1. tx'[u] = Idle
            BY <1>3, <2>1 DEF Inv, TypeOK
        <3> QED  BY <3>1 DEF Idle, Warranted, WritesWarranted
    <2>2. CASE u # w
        <3>1. tx'[u] = tx[u] /\ Warranted(tx[u], row, registered, links)
            BY <1>3, <2>2 DEF Inv, TypeOK, GroundInv
        <3>2. registered \subseteq registered' /\ links \subseteq links'
            BY <1>3
        <3> QED  BY <1>4, <3>1, <3>2, WarrantedStays
    <2> QED  BY <2>1, <2>2
<1> QED  BY <1>8, <1>9 DEF GroundInv

\* Every step keeps what Findings rest on.
LEMMA GroundNext == Inv /\ GroundInv /\ [Next]_vars => GroundInv'
<1> SUFFICES ASSUME Inv, GroundInv, [Next]_vars PROVE GroundInv'
    OBVIOUS
<1>1. ASSUME NEW w \in Writers, Rollback(w) PROVE GroundInv'
    BY <1>1, EndsGround DEF Rollback
<1>2. ASSUME (\E s \in Signals, x \in Snapshots : SourceChanges(s, x)) \/ Upgrade \/ UNCHANGED vars
      PROVE  GroundInv'
    <2>1. tx' = tx /\ row' = row /\ registered' = registered /\ links' = links
        BY <1>2 DEF SourceChanges, Upgrade, vars, store
    <2> QED  BY <2>1 DEF GroundInv
<1> QED
    BY <1>1, <1>2, CanonicaliseGround, InvalidateGround, AssessGround, InsertGround, RegisterGround,
       CorrectGround, ReadFindingGround, PlanGround, UpdateGround, CommitGround DEF Next

\* The empty store shows nothing.
LEMMA GroundInit == Init => GroundInv
<1> SUFFICES ASSUME Init PROVE GroundInv
    OBVIOUS
<1>1. \A w \in Writers : tx[w] = Idle
    BY DEF Init
<1>2. StoreGrounded(row, registered, links)
    BY DEF Init, StoreGrounded, Objects
<1>3. Warranted(Idle, row, registered, links)
    BY DEF Idle, Warranted, WritesWarranted
<1> QED  BY <1>1, <1>2, <1>3 DEF GroundInv

\* The second inductive invariant, on the first.
LEMMA GroundInvariance == Spec => []GroundInv
BY GroundInit, GroundNext, Invariance, PTL DEF Spec

\* Judgements of one Finding that race neither lose an observation nor record a Fact
\* twice, and whatever a Finding observes, or is challenged by, is linked to it as such,
\* as every Fact is to its Signal (service.py 133-141, 199-255).
THEOREM FactsLinked == Spec => []FactsAreLinked
<1>1. ASSUME GroundInv PROVE FactsAreLinked
    <2>1. EachFactObservedOnce
        <3>1. ASSUME NEW g \in Findings, row[g] # None
              PROVE  /\ IsInjective(row[g].observations)
                     /\ row[g].first = row[g].observations[1][1]
                     /\ \A f \in Range(row[g].observations) :
                           f[2] = g[2] /\ row[f] # None
                           /\ row[g].latest \in {h[1] : h \in Range(row[g].observations)}
            <4>1. Grounded(g, row[g], row)
                BY <1>1, <3>1 DEF GroundInv, StoreGrounded
            <4> QED  BY <4>1 DEF Grounded
        <3> QED  BY <3>1 DEF EachFactObservedOnce
    <2>2. EvidenceIsLinked
        BY <1>1 DEF GroundInv, StoreGrounded, Supported, EvidenceIsLinked
    <2> QED  BY <2>1, <2>2 DEF FactsAreLinked
<1> QED  BY <1>1, GroundInvariance, PTL

\* A Finding begins with a Fact whose source digest is significant and unlimited, though
\* the Fact may be retired by now, and shows the temporal state of its last two
\* observations, whoever judged in between and whatever the diagnostics or a release
\* changed meanwhile (service.py 211-232).
THEOREM FindingsGrounded == Spec => []FindingsAreGrounded
<1>1. ASSUME GroundInv PROVE FindingsAreGrounded
    <2>1. \A g \in Findings : row[g] # None => Grounded(g, row[g], row)
        BY <1>1 DEF GroundInv, StoreGrounded
    <2> QED  BY <2>1 DEF Grounded, FindingsAreGrounded, FindingsBeginSignificant, TemporalIsEarned
<1> QED  BY <1>1, GroundInvariance, PTL

-------------------------------------------------------------------------------
(***************************************************************************)
(* Every call happens at once, when it commits.  The third invariant says  *)
(* which operation of CanonicalRegister a transaction is about to perform: *)
(* a Fact is made of what is not refused, with its own link and identity;  *)
(* a Finding's document follows the one that was read by a judgement of a  *)
(* Fact there is.  Facts stay, and once retired stay as they are, so that  *)
(* a verdict is always one the Fact has earned, now or before it retired.  *)
(***************************************************************************)

\* The verdicts on a Fact with document d, as it is and as it was observed.
Judged(d, challenges) ==
    {Outcome(d, challenges), Outcome([d EXCEPT !.state = "OBSERVED"], challenges)}

\* The document d of Finding g begins with, or follows old by, the judgement of t.
JudgedOn(g, d, old, t, r) ==
    \E f \in Facts :
        /\ f[2] = g[2] /\ r[f] # None
        /\ t.outcome \in Judged(r[f], t.challenges)
        /\ t.joined = Evidence(f, g, t.challenges)
        /\ old = None =>
              t.outcome = "FINDING_CREATED" /\ d = NewFinding(f, t.outcome, t.challenges)
        /\ old # None =>
              /\ d = NextFinding(old, f, t.outcome, t.challenges)
              /\ ~(Repeated(old, f) /\ old.outcome = t.outcome /\ old.challenges = t.challenges)

\* Writing d over old is all that t does: a new Fact, a retirement or a judgement.
Meant(o, d, old, t, r) ==
    /\ o \in Facts /\ d.state = "OBSERVED" =>
          /\ d.digest \notin Refused
          /\ t.joined = {<<o[1], o, "SUPPORTS">>} /\ t.born \subseteq {o[1]}
    /\ o \in Facts /\ d.state = "INVALIDATED" => t.joined = {} /\ t.born = {}
    /\ o \in Findings => t.born = {} /\ JudgedOn(o, d, old, t, r)

WritesMeant(t, r) == \A x \in t.writes : Meant(x.object, x.document, r[x.object], t, r)

Intends(t, r) ==
    /\ WritesMeant(t, r)
    /\ t.step = "insert" => Meant(t.target, t.new, None, t, r)
    /\ t.step \in {"plan", "update"} => Meant(t.target, t.new, t.old, t, r)
    /\ t.step = "assess" =>
          /\ t.target \in Facts /\ r[t.target] # None /\ t.born = {}
          /\ t.outcome \in Judged(r[t.target], t.challenges)

IntentInv == \A w \in Writers : Intends(tx[w], row)

\* What is meant depends on nothing else of the transaction.
LEMMA MeantSame ==
    ASSUME NEW t, NEW u, NEW r, NEW o, NEW d, NEW old, Meant(o, d, old, t, r),
           u.outcome = t.outcome, u.challenges = t.challenges, u.joined = t.joined, u.born = t.born
    PROVE  Meant(o, d, old, u, r)
BY DEF Meant, JudgedOn

\* Facts stay; one that is not observed any more does not change.
Matures(r, q) ==
    \A f \in Facts : r[f] # None =>
        /\ r[f] \in FactRow /\ q[f] \in FactRow /\ q[f] # None
        /\ \/ q[f] = r[f]
           \/ r[f].state = "OBSERVED" /\ q[f].digest = r[f].digest

\* A verdict stays earned.
LEMMA VerdictStays ==
    ASSUME NEW r, NEW q, Matures(r, q), NEW f \in Facts, r[f] # None, NEW c, NEW v \in Judged(r[f], c)
    PROVE  q[f] # None /\ v \in Judged(q[f], c)
<1>1. r[f] \in FactRow /\ q[f] \in FactRow /\ q[f] # None
    BY DEF Matures
<1>2. CASE q[f] = r[f]
    BY <1>1, <1>2
<1>3. CASE r[f].state = "OBSERVED" /\ q[f].digest = r[f].digest
    <2> DEFINE a == [r[f] EXCEPT !.state = "OBSERVED"]
               b == [q[f] EXCEPT !.state = "OBSERVED"]
    <2>1. a.state = "OBSERVED" /\ b.state = "OBSERVED" /\ a.digest = r[f].digest /\ b.digest = r[f].digest
        BY <1>1, <1>3 DEF FactRow
    <2>2. v \in {Outcome(r[f], c), Outcome(a, c)}
        BY DEF Judged
    <2> HIDE DEF a, b
    <2>3. v = Outcome(b, c)
        BY <1>3, <2>1, <2>2 DEF Outcome
    <2> QED  BY <1>1, <2>3 DEF Judged, b
<1> QED  BY <1>2, <1>3 DEF Matures

\* So does what a transaction is about to do, while others commit elsewhere.
LEMMA IntendsStays ==
    ASSUME NEW t, NEW r, NEW q, Intends(t, r), Matures(r, q),
           \A x \in t.writes : q[x.object] = r[x.object]
    PROVE  Intends(t, q)
<1>1. ASSUME NEW o, NEW d, NEW old, Meant(o, d, old, t, r) PROVE Meant(o, d, old, t, q)
    <2>1. JudgedOn(o, d, old, t, r) => JudgedOn(o, d, old, t, q)
        <3> SUFFICES ASSUME JudgedOn(o, d, old, t, r) PROVE JudgedOn(o, d, old, t, q)
            OBVIOUS
        <3>1. PICK f \in Facts :
                /\ f[2] = o[2] /\ r[f] # None
                /\ t.outcome \in Judged(r[f], t.challenges)
                /\ t.joined = Evidence(f, o, t.challenges)
                /\ old = None =>
                      t.outcome = "FINDING_CREATED" /\ d = NewFinding(f, t.outcome, t.challenges)
                /\ old # None =>
                      /\ d = NextFinding(old, f, t.outcome, t.challenges)
                      /\ ~(Repeated(old, f) /\ old.outcome = t.outcome /\ old.challenges = t.challenges)
            BY DEF JudgedOn
        <3>2. q[f] # None /\ t.outcome \in Judged(q[f], t.challenges)
            BY <3>1, VerdictStays
        <3> QED  BY <3>1, <3>2 DEF JudgedOn
    <2> QED  BY <1>1, <2>1 DEF Meant
<1>2. WritesMeant(t, q)
    BY <1>1 DEF Intends, WritesMeant
<1>3. t.step = "assess" => q[t.target] # None /\ t.outcome \in Judged(q[t.target], t.challenges)
    BY VerdictStays DEF Intends
<1> QED  BY <1>1, <1>2, <1>3 DEF Intends

\* A session that changes its own transaction only.
LEMMA IntentKeeps ==
    ASSUME Inv, IntentInv, NEW w \in Writers, NEW t,
           tx' = [tx EXCEPT ![w] = t], UNCHANGED store, Intends(t, row)
    PROVE  IntentInv'
<1>1. row' = row
    BY DEF store
<1>2. \A u \in Writers : tx'[u] = IF u = w THEN t ELSE tx[u]
    BY DEF Inv, TypeOK
<1>3. \A u \in Writers : Intends(tx'[u], row)
    BY <1>2 DEF IntentInv
<1> QED  BY <1>1, <1>3 DEF IntentInv

\* A call that ends is about to do nothing.
LEMMA EndsIntent ==
    ASSUME Inv, IntentInv, NEW w \in Writers, Ends(w) PROVE IntentInv'
<1>1. Intends(Idle, row)
    BY DEF Idle, Intends, WritesMeant
<1> QED  BY <1>1, IntentKeeps DEF Ends

\* A new Fact is made of what canonicalise accepts.
LEMMA CanonicaliseIntent ==
    ASSUME Inv, IntentInv, NEW w \in Writers, NEW s \in Signals, NEW prior \in Facts \cup {None},
           Canonicalise(w, s, prior)
    PROVE  IntentInv'
<1> DEFINE f == <<s, mapping>>
           d == [state |-> "OBSERVED", digest |-> source[s], supersedes |-> prior, revision |-> 1]
           t == [Idle EXCEPT !.step = "insert", !.target = f, !.prior = prior, !.new = d,
                             !.joined = {<<s, f, "SUPPORTS">>}]
<1>1. f \in Facts /\ f \notin Findings /\ f[1] = s
    BY Apart DEF Inv, TypeOK, Facts
<1>2. /\ t.step = "insert" /\ t.target = f /\ t.writes = {} /\ t.joined = {<<s, f, "SUPPORTS">>}
      /\ t.new = d /\ t.born = {}
    BY DEF Idle
<1>3. tx' = [tx EXCEPT ![w] = t] /\ UNCHANGED store /\ d.digest \notin Refused /\ d.state = "OBSERVED"
    BY DEF Canonicalise, Goes, store
<1> HIDE DEF t, f, d
<1>4. Intends(t, row)
    BY <1>1, <1>2, <1>3 DEF Intends, WritesMeant, Meant
<1> QED  BY <1>3, <1>4, IntentKeeps

\* A retirement links nothing.
LEMMA InvalidateIntent ==
    ASSUME Inv, IntentInv, NEW w \in Writers, NEW f \in Facts, Invalidate(w, f) PROVE IntentInv'
<1> DEFINE d == Retired(row[f], "INVALIDATED")
           t == [Idle EXCEPT !.step = "plan", !.target = f, !.old = row[f], !.new = d]
<1>1. d.state = "INVALIDATED"
    <2>1. f \in Objects /\ row[f] \in FactRow /\ row[f].state = "OBSERVED"
        BY DEF Inv, TypeOK, Invalidate, Objects
    <2> QED  BY <2>1, RetiredFollows
<1>2. /\ t.step = "plan" /\ t.target = f /\ t.new = d /\ t.writes = {} /\ t.joined = {}
      /\ t.born = {} /\ f \notin Findings
    BY Apart DEF Idle
<1>3. tx' = [tx EXCEPT ![w] = t] /\ UNCHANGED store
    BY DEF Invalidate, Goes, store
<1> HIDE DEF t, d
<1>4. Intends(t, row)
    BY <1>1, <1>2 DEF Intends, WritesMeant, Meant
<1> QED  BY <1>3, <1>4, IntentKeeps

\* A verdict is earned when it is made.
LEMMA AssessIntent ==
    ASSUME Inv, IntentInv, NEW w \in Writers, NEW f \in Facts, NEW challenges \in SUBSET Contexts,
           Assess(w, f, challenges)
    PROVE  IntentInv'
<1> DEFINE outcome == Outcome(row[f], challenges)
           t == [Idle EXCEPT !.step = "assess", !.target = f, !.challenges = challenges,
                             !.outcome = outcome]
<1>1. outcome \in Judged(row[f], challenges)
    BY DEF Judged
<1>2. /\ t.step = "assess" /\ t.target = f /\ t.outcome = outcome /\ t.challenges = challenges
      /\ t.writes = {} /\ t.born = {}
    BY DEF Idle
<1>3. tx' = [tx EXCEPT ![w] = t] /\ UNCHANGED store /\ row[f] # None
    BY DEF Assess, Goes, store
<1> HIDE DEF t, outcome
<1>4. Intends(t, row)
    BY <1>1, <1>2, <1>3 DEF Intends, WritesMeant
<1> QED  BY <1>3, <1>4, IntentKeeps

\* What is inserted is what was meant, over an object that is not there.
LEMMA InsertIntent ==
    ASSUME Inv, IntentInv, NEW w \in Writers, Insert(w) PROVE IntentInv'
<1> DEFINE o == tx[w].target
           d == tx[w].new
           next == IF o \in Facts THEN "register" ELSE "commit"
           ws == {[object |-> o, document |-> d, revision |-> 1]}
           t == [tx[w] EXCEPT !.step = next, !.fresh = (o \in Facts /\ o[1] \notin registered),
                              !.writes = ws]
<1>1. CASE row[o] # None
    BY <1>1, EndsIntent DEF Insert
<1>2. CASE row[o] = None
    <2>1. tx[w] \in Transaction /\ Meant(o, d, None, tx[w], row)
        BY DEF Inv, TypeOK, IntentInv, Intends, Insert
    <2>2. tx' = [tx EXCEPT ![w] = t] /\ UNCHANGED store
        BY <1>2 DEF Insert, Goes, store
    <2>3. \A x \in ws : x.object = o /\ x.document = d
        OBVIOUS
    <2>4. next \in {"register", "commit"}
        OBVIOUS
    <2> HIDE DEF ws, next
    <2>5. /\ t.step = next /\ t.writes = ws /\ t.outcome = tx[w].outcome
          /\ t.challenges = tx[w].challenges /\ t.joined = tx[w].joined /\ t.born = tx[w].born
        BY <2>1 DEF Transaction
    <2> HIDE DEF t, o, d
    <2>6. Meant(o, d, None, t, row)
        BY <2>1, <2>5, MeantSame
    <2>7. WritesMeant(t, row)
        BY <1>2, <2>3, <2>5, <2>6 DEF WritesMeant
    <2>8. Intends(t, row)
        BY <2>4, <2>5, <2>7 DEF Intends
    <2> QED  BY <2>2, <2>8, IntentKeeps
<1> QED  BY <1>1, <1>2

\* The identity that is created is that of the new Fact's Signal.
LEMMA RegisterIntent ==
    ASSUME Inv, GroundInv, IntentInv, NEW w \in Writers, Register(w) PROVE IntentInv'
<1> DEFINE s == tx[w].target[1]
           next == IF tx[w].prior = None THEN "commit" ELSE "correct"
<1>1. /\ tx[w] \in Transaction /\ tx[w].target \in Facts /\ Born(tx[w], row)
      /\ WritesMeant(tx[w], row) /\ \A x \in tx[w].writes : x.object = tx[w].target
    BY DEF Inv, TypeOK, AllConsistent, Consistent, GroundInv, Warranted, IntentInv, Intends, Register
<1>2. \A x \in tx[w].writes : x.document.state = "OBSERVED"
    BY <1>1 DEF Born, Birth, Write
<1>3. tx[w].target \notin Findings
    BY <1>1, Apart
<1>4. ASSUME NEW t, t.step \in {"commit", "correct"}, t.writes = tx[w].writes,
             t.joined = tx[w].joined, t.born \in {tx[w].born, {s}}
      PROVE  Intends(t, row)
    <2>1. ASSUME NEW x \in t.writes PROVE Meant(x.object, x.document, row[x.object], t, row)
        <3>1. Meant(x.object, x.document, row[x.object], tx[w], row) /\ x.object = tx[w].target
            BY <1>1, <1>4 DEF WritesMeant
        <3> QED  BY <1>1, <1>2, <1>3, <1>4, <3>1 DEF Meant
    <2> QED  BY <1>4, <2>1 DEF Intends, WritesMeant
<1>5. CASE tx' = [tx EXCEPT ![w] = [tx[w] EXCEPT !.step = next]] /\ UNCHANGED store
    <2> DEFINE t == [tx[w] EXCEPT !.step = next]
    <2>1. t.step = next /\ t.writes = tx[w].writes /\ t.joined = tx[w].joined /\ t.born = tx[w].born
        BY <1>1 DEF Transaction
    <2>2. tx' = [tx EXCEPT ![w] = t] /\ next \in {"commit", "correct"}
        BY <1>5
    <2> HIDE DEF t, next, s
    <2>3. Intends(t, row)
        BY <1>4, <2>1, <2>2
    <2> QED  BY <1>5, <2>2, <2>3, IntentKeeps
<1>6. CASE tx' = [tx EXCEPT ![w] = [tx[w] EXCEPT !.step = next, !.born = {s}]] /\ UNCHANGED store
    <2> DEFINE t == [tx[w] EXCEPT !.step = next, !.born = {s}]
    <2>1. t.step = next /\ t.writes = tx[w].writes /\ t.joined = tx[w].joined /\ t.born = {s}
        BY <1>1 DEF Transaction
    <2>2. tx' = [tx EXCEPT ![w] = t] /\ next \in {"commit", "correct"}
        BY <1>6
    <2> HIDE DEF t, next, s
    <2>3. Intends(t, row)
        BY <1>4, <2>1, <2>2
    <2> QED  BY <1>6, <2>2, <2>3, IntentKeeps
<1> QED  BY <1>5, <1>6, EndsIntent DEF Register, Goes

\* The retirement of the predecessor adds nothing to what the new Fact does.
LEMMA CorrectIntent ==
    ASSUME Inv, IntentInv, NEW w \in Writers, Correct(w) PROVE IntentInv'
<1> DEFINE f == tx[w].prior
           d == Retired(row[f], "SUPERSEDED")
           t == [tx[w] EXCEPT !.step = "plan", !.target = f, !.old = row[f], !.new = d]
<1>1. CASE row[f].state # "OBSERVED"
    BY <1>1, EndsIntent DEF Correct
<1>2. CASE row[f].state = "OBSERVED"
    <2>1. /\ tx[w] \in Transaction /\ f \in Facts /\ row[f] # None /\ WritesMeant(tx[w], row)
        BY DEF Inv, TypeOK, AllConsistent, Consistent, IntentInv, Intends, Correct, Transaction
    <2>2. d.state = "SUPERSEDED"
        <3>1. row[f] \in FactRow
            BY <2>1 DEF Inv, TypeOK
        <3> QED  BY <1>2, <2>1, <3>1, RetiredFollows
    <2>3. tx' = [tx EXCEPT ![w] = t] /\ UNCHANGED store
        BY <1>2 DEF Correct, Goes, store
    <2> HIDE DEF d
    <2>4. /\ t.step = "plan" /\ t.target = f /\ t.new = d /\ t.writes = tx[w].writes
          /\ t.outcome = tx[w].outcome /\ t.challenges = tx[w].challenges
          /\ t.joined = tx[w].joined /\ t.born = tx[w].born
        BY <2>1 DEF Transaction
    <2> HIDE DEF t, f
    <2>5. WritesMeant(t, row)
        BY <2>1, <2>4, MeantSame DEF WritesMeant
    <2>6. Meant(t.target, t.new, t.old, t, row)
        BY <2>1, <2>2, <2>4, Apart DEF Meant
    <2>7. Intends(t, row)
        BY <2>4, <2>5, <2>6 DEF Intends
    <2> QED  BY <2>3, <2>7, IntentKeeps
<1> QED  BY <1>1, <1>2

\* A judgement begins the Finding or follows the document that was read.
LEMMA ReadFindingIntent ==
    ASSUME Inv, IntentInv, NEW w \in Writers, ReadFinding(w) PROVE IntentInv'
<1> DEFINE f == tx[w].target
           g == <<"FINDING", f[2]>>
           old == row[g]
           outcome == tx[w].outcome
           challenges == tx[w].challenges
           joined == Evidence(f, g, challenges)
<1>1. /\ tx[w] \in Transaction /\ f \in Facts /\ tx[w].writes = {} /\ row[f] # None
      /\ tx[w].born = {} /\ outcome \in Judged(row[f], challenges)
    BY DEF Inv, TypeOK, AllConsistent, Consistent, ReadFinding, IntentInv, Intends
<1>2. g \in Findings /\ g \notin Facts /\ g[2] = f[2]
    BY <1>1, Apart DEF Facts, Findings
<1>3. CASE Ends(w)
    BY <1>3, EndsIntent
<1>4. CASE old = None /\ outcome = "FINDING_CREATED" /\
           Goes(w, [tx[w] EXCEPT !.step = "insert", !.target = g, !.joined = joined,
                                 !.new = NewFinding(f, outcome, challenges)])
    <2> DEFINE d == NewFinding(f, outcome, challenges)
               t == [tx[w] EXCEPT !.step = "insert", !.target = g, !.joined = joined, !.new = d]
    <2>1. tx' = [tx EXCEPT ![w] = t] /\ UNCHANGED store
        BY <1>4 DEF Goes
    <2>2. d = NewFinding(f, outcome, challenges) /\ joined = Evidence(f, g, challenges)
        OBVIOUS
    <2> HIDE DEF d, g, joined, old
    <2>3. /\ t.step = "insert" /\ t.target = g /\ t.new = d /\ t.writes = {} /\ t.joined = joined
          /\ t.born = {} /\ t.outcome = outcome /\ t.challenges = challenges
        BY <1>1 DEF Transaction
    <2> HIDE DEF t, f, outcome, challenges
    <2>4. JudgedOn(g, d, None, t, row)
        BY <1>1, <1>2, <1>4, <2>2, <2>3 DEF JudgedOn
    <2>5. Intends(t, row)
        BY <1>2, <2>3, <2>4 DEF Intends, WritesMeant, Meant
    <2> QED  BY <2>1, <2>5, IntentKeeps
<1>5. CASE /\ old # None
           /\ ~(Repeated(old, f) /\ old.outcome = outcome /\ old.challenges = challenges)
           /\ Goes(w, [tx[w] EXCEPT !.step = "plan", !.target = g, !.old = old,
                                    !.joined = joined,
                                    !.new = NextFinding(old, f, outcome, challenges)])
    <2> DEFINE d == NextFinding(old, f, outcome, challenges)
               t == [tx[w] EXCEPT !.step = "plan", !.target = g, !.old = old,
                                  !.joined = joined, !.new = d]
    <2>1. tx' = [tx EXCEPT ![w] = t] /\ UNCHANGED store
        BY <1>5 DEF Goes
    <2>2. d = NextFinding(old, f, outcome, challenges) /\ joined = Evidence(f, g, challenges)
        OBVIOUS
    <2> HIDE DEF d, g, joined, old
    <2>3. /\ t.step = "plan" /\ t.target = g /\ t.new = d /\ t.old = old /\ t.writes = {}
          /\ t.joined = joined /\ t.born = {} /\ t.outcome = outcome /\ t.challenges = challenges
        BY <1>1 DEF Transaction
    <2> HIDE DEF t, f, outcome, challenges
    <2>4. JudgedOn(g, d, old, t, row)
        BY <1>1, <1>2, <1>5, <2>2, <2>3 DEF JudgedOn
    <2>5. Intends(t, row)
        BY <1>2, <2>3, <2>4 DEF Intends, WritesMeant, Meant
    <2> QED  BY <2>1, <2>5, IntentKeeps
<1> QED  BY <1>3, <1>4, <1>5 DEF ReadFinding

\* Reading the envelope changes nothing that is to be written.
LEMMA PlanIntent ==
    ASSUME Inv, IntentInv, NEW w \in Writers, Plan(w) PROVE IntentInv'
<1> DEFINE t == [tx[w] EXCEPT !.step = "update", !.seen = envelope[tx[w].target]]
<1>1. CASE Ends(w)
    BY <1>1, EndsIntent
<1>2. CASE Goes(w, t)
    <2>1. /\ tx[w] \in Transaction /\ WritesMeant(tx[w], row)
          /\ Meant(tx[w].target, tx[w].new, tx[w].old, tx[w], row)
        BY DEF Inv, TypeOK, IntentInv, Intends, Plan
    <2>2. tx' = [tx EXCEPT ![w] = t] /\ UNCHANGED store
        BY <1>2 DEF Goes
    <2>3. /\ t.step = "update" /\ t.target = tx[w].target /\ t.new = tx[w].new /\ t.old = tx[w].old
          /\ t.writes = tx[w].writes /\ t.joined = tx[w].joined /\ t.born = tx[w].born
          /\ t.outcome = tx[w].outcome /\ t.challenges = tx[w].challenges
        BY <2>1 DEF Transaction
    <2> HIDE DEF t
    <2>4. WritesMeant(t, row) /\ Meant(t.target, t.new, t.old, t, row)
        BY <2>1, <2>3, MeantSame DEF WritesMeant
    <2>5. Intends(t, row)
        BY <2>3, <2>4 DEF Intends
    <2> QED  BY <2>2, <2>5, IntentKeeps
<1> QED  BY <1>1, <1>2 DEF Plan

\* The swap succeeds on the document that was read, so the judgement follows the current one.
LEMMA UpdateIntent ==
    ASSUME Inv, IntentInv, NEW w \in Writers, Update(w) PROVE IntentInv'
<1> DEFINE o == tx[w].target
           d == tx[w].new
           x == [object |-> o, document |-> d, revision |-> tx[w].seen + 1]
           ws == tx[w].writes \cup {x}
           t == [tx[w] EXCEPT !.step = "commit", !.writes = ws]
<1>1. CASE Ends(w)
    BY <1>1, EndsIntent
<1>2. CASE Unmoved(w) /\ Goes(w, t)
    <2>1. /\ tx[w] \in Transaction /\ Updating(tx[w], row) /\ WritesMeant(tx[w], row)
          /\ Meant(o, d, tx[w].old, tx[w], row)
        BY DEF Inv, TypeOK, AllConsistent, Consistent, IntentInv, Intends, Update
    <2>2. tx[w].old = row[o]
        BY <1>2, <2>1 DEF Updating, Unmoved
    <2>3. tx' = [tx EXCEPT ![w] = t] /\ UNCHANGED store
        BY <1>2 DEF Goes
    <2>4. x.object = o /\ x.document = d
        OBVIOUS
    <2> HIDE DEF x
    <2>5. /\ t.step = "commit" /\ t.writes = tx[w].writes \cup {x}
          /\ t.joined = tx[w].joined /\ t.born = tx[w].born
          /\ t.outcome = tx[w].outcome /\ t.challenges = tx[w].challenges
        BY <2>1 DEF Transaction
    <2> HIDE DEF t, ws, o, d
    <2>6. Meant(o, d, row[o], t, row)
        BY <2>1, <2>2, <2>5, MeantSame
    <2>7. \A y \in tx[w].writes : Meant(y.object, y.document, row[y.object], t, row)
        BY <2>1, <2>5, MeantSame DEF WritesMeant
    <2>8. WritesMeant(t, row)
        BY <2>4, <2>5, <2>6, <2>7 DEF WritesMeant
    <2>9. Intends(t, row)
        BY <2>5, <2>8 DEF Intends
    <2> QED  BY <2>3, <2>9, IntentKeeps
<1> QED  BY <1>1, <1>2 DEF Update

\* A commit of another makes Facts, or retires them, and touches no row that is held.
LEMMA CommitIntent ==
    ASSUME Inv, IntentInv, NEW w \in Writers, Commit(w) PROVE IntentInv'
<1>1. /\ StoreOK' /\ \A o \in Objects : Evolves(o)
      /\ \A x, y \in tx[w].writes : x.object = y.object => x = y
    BY CommitStore
<1>2. tx' = [tx EXCEPT ![w] = Idle]
    BY DEF Commit
<1>3. Matures(row, row')
    <2>1. ASSUME NEW f \in Facts, row[f] # None
          PROVE  /\ row[f] \in FactRow /\ row'[f] \in FactRow /\ row'[f] # None
                 /\ \/ row'[f] = row[f]
                    \/ row[f].state = "OBSERVED" /\ row'[f].digest = row[f].digest
        <3>1. f \in Objects /\ row[f] \in FactRow /\ row'[f] \in FactRow \cup {None} /\ Evolves(f)
            BY <1>1, <2>1 DEF Inv, TypeOK, Objects, StoreOK, RowOf
        <3> QED  BY <2>1, <3>1 DEF Evolves, Follows
    <2> QED  BY <2>1 DEF Matures
<1>4. ASSUME NEW u \in Writers PROVE Intends(tx'[u], row')
    <2>1. CASE u = w
        <3>1. tx'[u] = Idle
            BY <1>2, <2>1 DEF Inv, TypeOK
        <3> QED  BY <3>1 DEF Idle, Intends, WritesMeant
    <2>2. CASE u # w
        <3>1. tx'[u] = tx[u] /\ tx[u] \in Transaction /\ Intends(tx[u], row)
            BY <1>2, <2>2 DEF Inv, TypeOK, IntentInv
        <3>2. \A x \in tx[u].writes : x.object \in Objects
            BY <3>1 DEF Transaction
        <3>3. \A x \in tx[u].writes : row'[x.object] = row[x.object]
            BY <1>1, <2>2, <3>2, CommitEffect DEF Inv, LocksHeld
        <3> QED  BY <1>3, <3>1, <3>3, IntendsStays
    <2> QED  BY <2>1, <2>2
<1> QED  BY <1>4 DEF IntentInv

\* Every step keeps what transactions are about to do.
LEMMA IntentNext == Inv /\ GroundInv /\ IntentInv /\ [Next]_vars => IntentInv'
<1> SUFFICES ASSUME Inv, GroundInv, IntentInv, [Next]_vars PROVE IntentInv'
    OBVIOUS
<1>1. ASSUME NEW w \in Writers, Rollback(w) PROVE IntentInv'
    BY <1>1, EndsIntent DEF Rollback
<1>2. ASSUME (\E s \in Signals, x \in Snapshots : SourceChanges(s, x)) \/ Upgrade \/ UNCHANGED vars
      PROVE  IntentInv'
    <2>1. tx' = tx /\ row' = row
        BY <1>2 DEF SourceChanges, Upgrade, vars, store
    <2> QED  BY <2>1 DEF IntentInv
<1> QED
    BY <1>1, <1>2, CanonicaliseIntent, InvalidateIntent, AssessIntent, InsertIntent, RegisterIntent,
       CorrectIntent, ReadFindingIntent, PlanIntent, UpdateIntent, CommitIntent DEF Next

\* The third inductive invariant, on the other two.
LEMMA IntentInvariance == Spec => []IntentInv
<1>1. Init => IntentInv
    <2>1. Intends(Idle, row)
        BY DEF Idle, Intends, WritesMeant
    <2> QED  BY <2>1 DEF Init, IntentInv
<1> QED  BY <1>1, IntentNext, Invariance, GroundInvariance, PTL DEF Spec

\* The documents after a commit of one write.
LEMMA CommitOne ==
    ASSUME Inv, NEW w \in Writers, Commit(w), NEW o \in Objects, NEW d \in RowOf(o),
           tx[w].writes = {Write(o, d)}, row[o] = None \/ d.revision # row[o].revision
    PROVE  row' = [row EXCEPT ![o] = d] /\ row' # row
<1>1. Puts(o, d)
    BY CommitPuts
<1>2. DOMAIN row = Objects /\ d # None
    BY Documents DEF Inv, TypeOK
<1>3. row' = [u \in Objects |-> row'[u]]
    BY DEF Commit
<1>4. \A u \in Objects : row'[u] = IF u = o THEN d ELSE row[u]
    BY <1>1 DEF Puts
<1>5. row' = [row EXCEPT ![o] = d]
    BY <1>2, <1>3, <1>4
<1>6. row'[o] # row[o]
    BY <1>2, <1>4
<1> QED  BY <1>5, <1>6

\* The documents of a Fact are its four fields.
LEMMA FactIs ==
    ASSUME NEW d \in FactRow
    PROVE  d = [state |-> d.state, digest |-> d.digest, supersedes |-> d.supersedes,
                revision |-> d.revision]
BY DEF FactRow

LEMMA NewFactIs ==
    ASSUME NEW d \in FactRow, d.state = "OBSERVED", d.revision = 1
    PROVE  d = Canon!NewFact(d.digest, d.supersedes)
BY FactIs DEF Canon!NewFact

LEMMA RetiredIs ==
    ASSUME NEW f \in Facts, NEW d \in FactRow, NEW e \in FactRow, Follows(f, d, e)
    PROVE  e = Canon!Retired(d, e.state)
<1> DEFINE c == [d EXCEPT !.state = e.state, !.revision = d.revision + 1]
<1>1. e.revision = d.revision + 1 /\ e.digest = d.digest /\ e.supersedes = d.supersedes
    BY DEF Follows
<1>2. c \in FactRow
    BY <1>1 DEF FactRow
<1>3. /\ c.state = e.state /\ c.revision = e.revision
      /\ c.digest = e.digest /\ c.supersedes = e.supersedes
    BY <1>1 DEF FactRow
<1> HIDE DEF c
<1>4. c = e
    BY <1>2, <1>3, FactIs
<1> QED  BY <1>4 DEF c, Canon!Retired

\* A transaction that writes a new Fact publishes it with its identity and its link.
LEMMA CommitIntroduces ==
    ASSUME Inv, GroundInv, IntentInv, NEW w \in Writers, Commit(w), NEW h \in Facts, NEW d \in FactRow,
           Write(h, d) \in tx[w].writes, Birth(h, d, row)
    PROVE  Canon!Introduce(h) /\ d.digest \in Snapshots \ Refused
           /\ d = Canon!NewFact(d.digest, d.supersedes)
<1> DEFINE t == tx[w]
<1>1. Write(h, d).object = h /\ Write(h, d).document = d
    BY DEF Write
<1>2. row[h] = None /\ d.state = "OBSERVED" /\ d.revision = 1
    BY DEF Birth
<1>3. Meant(h, d, row[h], t, row)
    BY <1>1 DEF IntentInv, Intends, WritesMeant
<1>4. /\ d.digest \notin Refused /\ t.joined = {<<h[1], h, "SUPPORTS">>} /\ t.born \subseteq {h[1]}
    BY <1>2, <1>3 DEF Meant
<1>5. h[1] \in registered \cup t.born
    <2>1. t.step # "register" /\ WritesWarranted(t, row, registered, links)
        BY DEF Commit, GroundInv, Warranted
    <2> QED  BY <1>1, <1>2, <2>1 DEF WritesWarranted
<1>6. registered' = registered \cup t.born /\ links' = links \cup t.joined
    BY DEF Commit
<1>7. registered' = registered \cup {h[1]}
    BY <1>4, <1>5, <1>6
<1>8. Canon!Introduce(h)
    BY <1>2, <1>4, <1>6, <1>7 DEF Canon!Introduce, Canon!Recorded
<1>9. d.digest \in Snapshots
    BY DEF FactRow
<1> QED  BY <1>2, <1>4, <1>8, <1>9, NewFactIs

\* What the register says of a judgement is what the services compute.
LEMMA FirstIs ==
    ASSUME NEW f, NEW outcome, NEW challenges
    PROVE  Canon!FirstOf(f, outcome, challenges) = NewFinding(f, outcome, challenges)
BY DEF Canon!FirstOf, NewFinding

LEMMA HasObservedIs ==
    ASSUME NEW old, NEW f PROVE Canon!HasObserved(old, f) <=> Repeated(old, f)
BY DEF Canon!HasObserved, Repeated, Range

LEMMA NextIs ==
    ASSUME NEW old \in FindingRow, NEW f, NEW outcome, NEW challenges
    PROVE  Canon!NextOf(old, f, outcome, challenges) = NextFinding(old, f, outcome, challenges)
<1> DEFINE again == [old EXCEPT !.latest = f[1], !.outcome = outcome,
                                !.challenges = challenges, !.revision = old.revision + 1]
           more == [again EXCEPT !.observations = Append(old.observations, f),
                        !.temporal = Temporal(old.observations[Len(old.observations)][1], f[1])]
           kept == [old EXCEPT !.latest = f[1], !.outcome = outcome, !.challenges = challenges,
                        !.observations = old.observations, !.temporal = old.temporal,
                        !.revision = old.revision + 1]
           added == [old EXCEPT !.latest = f[1], !.outcome = outcome, !.challenges = challenges,
                        !.observations = Append(old.observations, f),
                        !.temporal = Temporal(Last(old.observations)[1], f[1]),
                        !.revision = old.revision + 1]
<1>1. CASE Repeated(old, f)
    <2>1. Canon!NextOf(old, f, outcome, challenges) = again
        BY <1>1, HasObservedIs DEF Canon!NextOf
    <2>2. NextFinding(old, f, outcome, challenges) = kept
        BY <1>1 DEF NextFinding
    <2>3. again = kept
        BY DEF FindingRow
    <2> QED  BY <2>1, <2>2, <2>3
<1>2. CASE ~Repeated(old, f)
    <2>1. Canon!NextOf(old, f, outcome, challenges) = more
        <3>1. again.observations = old.observations
            BY DEF FindingRow
        <3>2. ~Canon!HasObserved(old, f)
            BY <1>2, HasObservedIs
        <3> QED  BY <3>1, <3>2 DEF Canon!NextOf
    <2>2. NextFinding(old, f, outcome, challenges) = added
        BY <1>2 DEF NextFinding
    <2>3. more = added
        BY DEF FindingRow, Last
    <2> QED  BY <2>1, <2>2, <2>3
<1> QED  BY <1>1, <1>2

\* A commit is one operation of the register.
LEMMA CommitImplements ==
    ASSUME Inv, GroundInv, IntentInv, NEW w \in Writers, Commit(w) PROVE Canon!Next
<1> DEFINE t == tx[w]
<1>1. /\ WritesFact(t, row) \/ WritesFinding(t, row) \/ WritesNext(t, row) \/ WritesCorrection(t, row)
      /\ t \in Transaction
    BY DEF Inv, TypeOK, AllConsistent, Consistent, Commit
<1>2. registered' = registered \cup t.born /\ links' = links \cup t.joined
    BY DEF Commit
<1>3. Canon!Facts = Facts
    BY DEF Canon!Facts, Facts
<1>4. ASSUME NEW x \in t.writes PROVE Meant(x.object, x.document, row[x.object], t, row)
    BY DEF IntentInv, Intends, WritesMeant
<1>5. CASE WritesFact(t, row)
    <2>1. PICK h \in Facts, d \in FactRow :
              t.writes = {Write(h, d)} /\ d.supersedes = None /\ Birth(h, d, row)
        BY <1>5 DEF WritesFact
    <2>2. h \in Objects /\ d \in RowOf(h) /\ row[h] = None
        BY <2>1 DEF Objects, RowOf, Birth
    <2>3. row' = [row EXCEPT ![h] = d] /\ row' # row
        BY <2>1, <2>2, CommitOne
    <2>4. Canon!Introduce(h) /\ d.digest \in Snapshots \ Refused /\ d = Canon!NewFact(d.digest, None)
        BY <2>1, CommitIntroduces
    <2>5. Canon!Observe(h)
        BY <2>3, <2>4 DEF Canon!Observe
    <2> QED  BY <1>3, <2>3, <2>5 DEF Canon!Next
<1>6. CASE WritesCorrection(t, row)
    <2>1. PICK h, p \in Facts, d, e \in FactRow :
              /\ t.writes = {Write(h, d), Write(p, e)}
              /\ d.supersedes = p /\ Birth(h, d, row)
              /\ row[p] # None /\ Follows(p, row[p], e) /\ e.state = "SUPERSEDED"
        BY <1>6 DEF WritesCorrection
    <2>2. /\ h \in Objects /\ p \in Objects /\ d \in RowOf(h) /\ d # None /\ row[h] = None /\ h # p
          /\ p # None /\ row[p] \in FactRow /\ row[p].state = "OBSERVED"
        BY <2>1, Documents, NoneAssumption DEF Inv, TypeOK, Objects, RowOf, Birth, Follows
    <2>3. /\ Canon!Introduce(h) /\ d.digest \in Snapshots \ Refused /\ d = Canon!NewFact(d.digest, p)
        BY <2>1, CommitIntroduces
    <2>4. e = Canon!Retired(row[p], "SUPERSEDED")
        BY <2>1, <2>2, RetiredIs
    <2>5. row' = [row EXCEPT ![h] = d, ![p] = e]
        <3>1. \A x, y \in t.writes : x.object = y.object => x = y
            BY CommitStore
        <3>2. /\ row'[h] = d /\ row'[p] = e
              /\ \A u \in Objects : u # h /\ u # p => row'[u] = row[u]
            BY <2>1, <2>2, <3>1, CommitEffect DEF Write
        <3>3. row' = [u \in Objects |-> row'[u]] /\ DOMAIN row = Objects
            BY DEF Commit, Inv, TypeOK
        <3> QED  BY <2>2, <3>2, <3>3
    <2>6. row' # row
        <3>1. row'[h] = d
            BY <2>2, <2>5 DEF Inv, TypeOK
        <3> QED  BY <2>2, <3>1
    <2>7. p[1] = h[1] /\ Canon!Observed(p)
        BY <2>1, <2>2 DEF Birth, Heir, Canon!Observed, Canon!Recorded
    <2>8. row' = [row EXCEPT ![h] = Canon!NewFact(d.digest, p), ![p] = Canon!Retired(@, "SUPERSEDED")]
        BY <2>2, <2>3, <2>4, <2>5
    <2>9. Canon!Correct(h, p)
        BY <2>3, <2>7, <2>8 DEF Canon!Correct
    <2> QED  BY <1>3, <2>6, <2>9 DEF Canon!Next
<1>7. ASSUME NEW g \in Findings, NEW d \in FindingRow, t.writes = {Write(g, d)},
             row[g] = None \/ d.revision # row[g].revision
      PROVE  Canon!Next
    <2>1. g \in Objects /\ d \in RowOf(g) /\ row[g] \in FindingRow \cup {None}
        BY Apart DEF Objects, RowOf, Inv, TypeOK
    <2>2. row' = [row EXCEPT ![g] = d] /\ row' # row
        BY <1>7, <2>1, CommitOne
    <2>3. t.born = {} /\ JudgedOn(g, d, row[g], t, row)
        <3>1. Write(g, d) \in t.writes /\ Write(g, d).object = g /\ Write(g, d).document = d
            BY <1>7 DEF Write
        <3>2. Meant(g, d, row[g], t, row)
            BY <1>4, <3>1
        <3> QED  BY <3>2 DEF Meant
    <2>4. PICK f \in Facts :
            /\ f[2] = g[2] /\ row[f] # None
            /\ t.outcome \in Judged(row[f], t.challenges)
            /\ t.joined = Evidence(f, g, t.challenges)
            /\ row[g] = None =>
                  t.outcome = "FINDING_CREATED" /\ d = NewFinding(f, t.outcome, t.challenges)
            /\ row[g] # None =>
                  /\ d = NextFinding(row[g], f, t.outcome, t.challenges)
                  /\ ~(Repeated(row[g], f) /\ row[g].outcome = t.outcome
                       /\ row[g].challenges = t.challenges)
        BY <2>3 DEF JudgedOn
    <2>5. g = <<"FINDING", f[2]>>
        BY <2>4 DEF Findings
    <2>6. t.outcome \in Canon!Verdicts(f, t.challenges)
        BY <2>4 DEF Judged, Canon!Verdicts
    <2>7. /\ links' = links \cup {<<f, g, "SUPPORTS">>} \cup (t.challenges \X {g} \X {"CONTRADICTS"})
          /\ registered' = registered
        BY <1>2, <2>3, <2>4 DEF Evidence
    <2>8. \/ /\ ~Canon!Recorded(g) /\ t.outcome = "FINDING_CREATED"
             /\ row' = [row EXCEPT ![g] = Canon!FirstOf(f, t.outcome, t.challenges)]
          \/ /\ Canon!Recorded(g)
             /\ Canon!HasObserved(row[g], f) =>
                   row[g].outcome # t.outcome \/ row[g].challenges # t.challenges
             /\ row' = [row EXCEPT ![g] = Canon!NextOf(row[g], f, t.outcome, t.challenges)]
        <3>1. CASE row[g] = None
            BY <2>2, <2>4, <3>1, FirstIs DEF Canon!Recorded
        <3>2. CASE row[g] # None
            <4>1. Canon!NextOf(row[g], f, t.outcome, t.challenges) = d
                BY <2>1, <2>4, <3>2, NextIs
            <4>2. Canon!HasObserved(row[g], f) <=> Repeated(row[g], f)
                BY HasObservedIs
            <4> QED  BY <2>2, <2>4, <3>2, <4>1, <4>2 DEF Canon!Recorded
        <3> QED  BY <3>1, <3>2
    <2>9. Canon!Recorded(f)
        BY <2>4 DEF Canon!Recorded
    <2> HIDE DEF t
    <2>10. Canon!Judge(f, t.challenges)
        BY <2>5, <2>6, <2>7, <2>8, <2>9 DEF Canon!Judge
    <2>11. t.challenges \in SUBSET Contexts
        BY <1>1 DEF Transaction
    <2> QED  BY <1>3, <2>2, <2>10, <2>11 DEF Canon!Next
<1>8. CASE WritesFinding(t, row)
    BY <1>7, <1>8 DEF WritesFinding
<1>9. CASE WritesNext(t, row)
    <2>1. PICK o \in Objects : \E d \in RowOf(o) :
              /\ t.writes = {Write(o, d)}
              /\ row[o] # None /\ Follows(o, row[o], d)
              /\ o \in Facts => d.state # "SUPERSEDED"
        BY <1>9 DEF WritesNext
    <2>2. PICK d \in RowOf(o) :
              /\ t.writes = {Write(o, d)}
              /\ row[o] # None /\ Follows(o, row[o], d)
              /\ o \in Facts => d.state # "SUPERSEDED"
        BY <2>1
    <2>3. d.revision # row[o].revision
        <3>1. row[o].revision \in Nat
            BY <2>2, RowTyped, Documents DEF Inv
        <3> QED  BY <2>2, <3>1 DEF Follows
    <2>4. CASE o \in Findings
        <3>1. d \in FindingRow
            BY <2>4, Apart DEF RowOf
        <3> QED  BY <1>7, <2>2, <2>3, <2>4, <3>1
    <2>5. CASE o \in Facts
        <3>1. d \in FactRow /\ row[o] \in FactRow
            BY <2>2, <2>5 DEF RowOf, Inv, TypeOK
        <3>2. row[o].state = "OBSERVED" /\ d.state = "INVALIDATED"
            BY <2>2, <2>5, <3>1 DEF Follows, FactRow
        <3>3. row' = [row EXCEPT ![o] = d] /\ row' # row
            BY <2>2, <2>3, CommitOne
        <3>4. d = Canon!Retired(row[o], "INVALIDATED")
            BY <2>2, <2>5, <3>1, <3>2, RetiredIs
        <3>5. t.joined = {} /\ t.born = {}
            <4>1. Write(o, d) \in t.writes /\ Write(o, d).object = o /\ Write(o, d).document = d
                BY <2>2 DEF Write
            <4>2. Meant(o, d, row[o], t, row)
                BY <1>4, <4>1
            <4> QED  BY <2>5, <3>2, <4>2 DEF Meant
        <3>6. registered' = registered /\ links' = links
            BY <1>2, <3>5
        <3>7. row' = [row EXCEPT ![o] = Canon!Retired(@, "INVALIDATED")]
            BY <3>3, <3>4
        <3>8. Canon!Retire(o)
            BY <2>2, <3>2, <3>6, <3>7 DEF Canon!Retire, Canon!Observed, Canon!Recorded
        <3> QED  BY <1>3, <2>5, <3>3, <3>8 DEF Canon!Next
    <2> QED  BY <2>4, <2>5 DEF Objects
<1> QED  BY <1>1, <1>5, <1>6, <1>8, <1>9

\* The calls, cut into reads, checks, inserts and swaps that others come between, implement a
\* register in which each happens at once, when it commits: a correction retires a Fact that
\* stands, a judgement goes on from the newest document of its Finding, and nothing else is
\* ever seen (service.py 108-113, 147-166, 199-255).
THEOREM CallsImplementRegister == Spec => ImplementsRegister
<1>1. Init => Canon!Init
    BY DEF Init, Canon!Init, Objects, Facts, Findings, Canon!Facts, Canon!Findings
<1>2. Inv /\ GroundInv /\ IntentInv /\ [Next]_vars => [Canon!Next]_(Canon!vars)
    <2> SUFFICES ASSUME Inv, GroundInv, IntentInv, [Next]_vars PROVE Canon!Next \/ UNCHANGED Canon!vars
        OBVIOUS
    <2>1. CASE \E w \in Writers : Commit(w)
        BY <2>1, CommitImplements
    <2>2. CASE ~ \E w \in Writers : Commit(w)
        <3>1. UNCHANGED <<row, registered, links>>
            BY <2>2, ZenonT(30) DEF Next, vars, store, Canonicalise, Invalidate, Assess, Insert,
                Register, Correct, ReadFinding, Plan, Update, Rollback, Goes, Ends,
                SourceChanges, Upgrade
        <3> QED  BY <3>1 DEF Canon!vars
    <2> QED  BY <2>1, <2>2
<1> QED  BY <1>1, <1>2, Invariance, GroundInvariance, IntentInvariance, PTL
         DEF Spec, ImplementsRegister, Canon!Spec

===============================================================================
