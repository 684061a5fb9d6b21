----------------------- MODULE WorkspaceService_proofs -----------------------
(***************************************************************************)
(* Invariance proofs about WorkspaceService, for any number of handlers,   *)
(* keys, engagements and revisions.  The inductive invariant is built in   *)
(* five layers: what a handler holds at each step (HandlersHold), who owns *)
(* a unique key (LedgerInv), what a row and the document it replaced have  *)
(* to do with each other (JustifiedInv), what that makes of a whole        *)
(* history (HistoryInv), and which call a row serves (ServedInv), with     *)
(* which every step is shown to be one of WorkspaceLedger.                 *)
(***************************************************************************)
EXTENDS WorkspaceService, TLAPS

-----------------------------------------------------------------------------
(* Layer 1: types, and what a handler holds at each step *)

Prepares == {"put", "insert", "commit", "answer"}

\* A busy handler serves a call; once prepared it holds a row of the kind the
\* call writes, and only a receipt has bytes to put.
HandlersHold ==
    \A h \in Handlers :
        /\ pc[h] = "idle" <=> call[h] = None
        /\ pc[h] \in Prepares => row[h] \in Row /\ row[h].kind = call[h].op
        /\ pc[h] = "put" => row[h].kind = "receipt"

Inv1 == TypeOK /\ HandlersHold

\* The checks of every operation build a row of the schema.
LEMMA PreparedIsRow ==
    ASSUME NEW h \in Handlers, Inv1, Prepare(h)
    PROVE  \/ Refuse(h)
           \/ \E r \in Row, p \in rows \cup {None}, s \in {"put", "insert"} :
                 /\ r.kind = call[h].op /\ (s = "put" => r.kind = "receipt")
                 /\ Prepared(h, s, r, p)
<1> USE DEF Inv1, TypeOK, HandlersHold, Prepares
<1> DEFINE c == call[h]
<1>0. c \in Call
  BY CallsAssumption DEF Prepare, PrepareEngagement, PrepareReceipt, PrepareRegistration,
     PrepareRequest
<1>1. CASE PrepareEngagement(h)
  <2>1. c \in EngagementCall
    BY <1>0, <1>1 DEF PrepareEngagement, Call, EngagementCall, ReceiptCall, RegistrationCall, RequestCall
  <2> QED BY <1>1, <2>1 DEF PrepareEngagement, EngagementCall, Row, EngagementRow
<1>2. CASE PrepareReceipt(h)
  <2>1. c \in ReceiptCall
    BY <1>0, <1>2 DEF PrepareReceipt, Call, EngagementCall, ReceiptCall, RegistrationCall, RequestCall
  <2> QED BY <1>2, <2>1 DEF PrepareReceipt, ReceiptCall, Row, ReceiptRow, FreshIds
<1>3. CASE PrepareRegistration(h)
  <2>1. c \in RegistrationCall
    BY <1>0, <1>3 DEF PrepareRegistration, Call, EngagementCall, ReceiptCall, RegistrationCall, RequestCall
  <2> QED BY <1>3, <2>1 DEF PrepareRegistration, RegistrationCall, Row, RegistrationRow, FreshIds
<1>4. CASE PrepareRequest(h)
  <2>1. c \in RequestCall
    BY <1>0, <1>4 DEF PrepareRequest, Call, EngagementCall, ReceiptCall, RegistrationCall, RequestCall
  <2> QED BY <1>4, <2>1 DEF PrepareRequest, RequestCall, Row, RequestRow
<1> QED BY <1>1, <1>2, <1>3, <1>4 DEF Prepare

\* Every step keeps the types and what handlers hold.
LEMMA Inv1Inductive == Inv1 /\ [Next]_vars => Inv1'
<1> SUFFICES ASSUME Inv1, [Next]_vars PROVE Inv1'
  OBVIOUS
<1> USE NoneAssumption DEF Inv1, TypeOK, HandlersHold, Prepares, Steps
<1>0. ASSUME NEW h \in Handlers, Finish(h), rows' = rows, audit' = audit,
             stored' = stored, answers' \in SUBSET [digest: Call, result: Row]
      PROVE  Inv1'
  BY <1>0 DEF Finish, Goto
<1>1. ASSUME NEW h \in Handlers, Refuse(h) PROVE Inv1'
  BY <1>0, <1>1 DEF Refuse
<1>2. ASSUME NEW h \in Handlers, NEW c \in Calls, Start(h, c) PROVE Inv1'
  BY <1>2, CallsAssumption DEF Start, Goto
<1>3. ASSUME NEW h \in Handlers, Open(h) PROVE Inv1'
  BY <1>1, <1>3 DEF Open, Goto
<1>4. ASSUME NEW h \in Handlers, Replay(h) PROVE Inv1'
  <2>1. CASE Goto(h, "prepare") /\ UNCHANGED <<rows, audit, stored, call, row, previous, answers>>
    BY <1>4, <2>1 DEF Goto, Replay
  <2>2. ASSUME NEW a \in audit, Answered(h, a.result), Finish(h),
               UNCHANGED <<rows, audit, stored>>, a.digest = call[h]
        PROVE Inv1'
    <3>1. a.result \in Row /\ call[h] \in Call
      BY <2>2 DEF Audit
    <3> QED BY <1>0, <2>2, <3>1 DEF Answered
  <2> QED BY <1>1, <1>4, <2>1, <2>2 DEF Replay
<1>5. ASSUME NEW h \in Handlers, Prepare(h) PROVE Inv1'
  <2>1. ASSUME NEW r \in Row, NEW p \in rows \cup {None}, NEW s \in {"put", "insert"},
               r.kind = call[h].op, s = "put" => r.kind = "receipt", Prepared(h, s, r, p)
        PROVE  Inv1'
    <3>1. pc[h] # "idle"
      BY <1>5 DEF Prepare, PrepareEngagement, PrepareReceipt, PrepareRegistration, PrepareRequest
    <3> QED BY <2>1, <3>1 DEF Prepared, Goto
  <2> QED BY <1>1, <1>5, <2>1, PreparedIsRow
<1>6. ASSUME NEW h \in Handlers, Put(h) PROVE Inv1'
  <2>1. row[h].kind = "receipt" => row[h].data \in Blobs
    BY <1>6 DEF Put, Row, EngagementRow, ReceiptRow, RegistrationRow, RequestRow
  <2> QED BY <1>6, <2>1 DEF Put, Goto
<1>7. ASSUME NEW h \in Handlers, Insert(h) PROVE Inv1'
  BY <1>7 DEF Insert, Goto
<1>8. ASSUME NEW h \in Handlers, Commit(h) PROVE Inv1'
  <2>1. call[h] \in Call /\ row[h] \in Row
    BY <1>8, CallsAssumption DEF Commit
  <2>2. call[h].key \in Keys
    BY <2>1 DEF Call, EngagementCall, ReceiptCall, RegistrationCall, RequestCall
  <2>3. audit' \in SUBSET Audit /\ rows' \in SUBSET Row
    BY <1>8, <2>1, <2>2 DEF Commit, Audit
  <2> QED BY <1>8, <2>3 DEF Commit, Goto
<1>9. ASSUME NEW h \in Handlers, Answer(h) PROVE Inv1'
  <2>1. call[h] \in Call /\ row[h] \in Row
    BY <1>9, CallsAssumption DEF Answer
  <2> QED BY <1>0, <1>9, <2>1 DEF Answer, Answered
<1>10. CASE UNCHANGED vars
  BY <1>10 DEF vars
<1> QED
  BY <1>1, <1>2, <1>3, <1>4, <1>5, <1>6, <1>7, <1>8, <1>9, <1>10
     DEF Next, Work, Reject, Fail

\* The state is always well typed: a handler only ever holds rows and calls of
\* the shapes the schema and the contracts admit.
THEOREM TypeCorrect == Spec => []TypeOK
<1>1. Init => Inv1
  BY NoneAssumption DEF Init, Inv1, TypeOK, HandlersHold, Steps, Prepares
<1>2. Inv1 => TypeOK
  BY DEF Inv1
<1> QED BY <1>1, <1>2, Inv1Inductive, PTL DEF Spec

-----------------------------------------------------------------------------
(* Layer 2: keys are owned by one committed operation, or by one in flight *)

\* A transaction that inserted its rows owns their unique keys; one that
\* committed finds its own audit row.
Owners ==
    \A h \in Handlers :
        /\ pc[h] = "commit" =>
             /\ ~CommittedDuplicate(h)
             /\ \A g \in Handlers \ {h} : ~InFlightDuplicate(h, g)
        /\ pc[h] = "answer" =>
             \E a \in audit : a.key = call[h].key /\ a.digest = call[h] /\ a.result = row[h]

UniqueRows == \A r, s \in rows : SameUniqueKey(r, s) => r = s

AuditKeys == \A a \in audit : a.key = a.digest.key

LedgerInv == AuditIsLedger /\ AuditKeys /\ UniqueRows /\ Owners /\ AnswersAreAudited

\* A handler that neither commits nor takes locks cannot disturb the ledger.
LEMMA LedgerFrame ==
    ASSUME NEW h \in Handlers, Inv1, LedgerInv,
           rows' = rows, audit' = audit,
           pc' \in [Handlers -> Steps], pc'[h] \notin {"commit", "answer"},
           \A g \in Handlers \ {h} : /\ pc'[g] = pc[g] /\ call'[g] = call[g]
                                      /\ row'[g] = row[g],
           \A x \in answers' : x \in answers \/ \E a \in audit :
               a.key = x.digest.key /\ a.digest = x.digest /\ a.result = x.result
    PROVE  LedgerInv'
<1> USE DEF LedgerInv
<1>1. AuditIsLedger' /\ AuditKeys' /\ UniqueRows'
  BY DEF AuditIsLedger, AuditKeys, UniqueRows, SameUniqueKey
<1>2. AnswersAreAudited'
  BY DEF AnswersAreAudited
<1>3. Owners'
  <2> SUFFICES ASSUME NEW i \in Handlers
               PROVE  /\ pc'[i] = "commit" =>
                          /\ ~CommittedDuplicate(i)'
                          /\ \A g \in Handlers \ {i} : ~InFlightDuplicate(i, g)'
                      /\ pc'[i] = "answer" =>
                          \E a \in audit' : /\ a.key = call'[i].key /\ a.digest = call'[i]
                                            /\ a.result = row'[i]
    BY DEF Owners
  <2>1. CASE i = h
    BY <2>1
  <2>2. CASE i # h
    <3>1. pc'[i] = pc[i] /\ call'[i] = call[i] /\ row'[i] = row[i]
      BY <2>2
    <3> QED BY <3>1 DEF Owners, CommittedDuplicate, InFlightDuplicate, SameUniqueKey
  <2> QED BY <2>1, <2>2
<1> QED BY <1>1, <1>2, <1>3

\* The result of a commit: one new entry, whose key and row nobody else owns.
LEMMA LedgerCommit ==
    ASSUME NEW h \in Handlers, Inv1, LedgerInv, Commit(h)
    PROVE  LedgerInv'
<1> USE DEF LedgerInv
<1> DEFINE new == [key |-> call[h].key, digest |-> call[h], result |-> row[h],
                   previous |-> previous[h]]
<1>0. audit' = audit \cup {new} /\ rows' = rows \cup {row[h]} /\ pc[h] = "commit"
  BY DEF Commit
<1>1. (\A a \in audit : a.key # new.key) /\ (\A s \in rows : ~SameUniqueKey(row[h], s))
  BY <1>0 DEF Owners, CommittedDuplicate
<1>2. \A s \in rows : s # row[h]
  BY <1>1 DEF SameUniqueKey
<1>3. AuditIsLedger'
  <2>1. \A a \in audit : a.result \in rows
    BY DEF AuditIsLedger
  <2>2. rows' = {a.result : a \in audit'}
    <3>1. new.result = row[h]
      OBVIOUS
    <3>2. \A r : r \in rows' <=> \E a \in audit' : r = a.result
      BY <1>0, <3>1, Zenon DEF AuditIsLedger
    <3> QED BY <3>2, Zenon
  <2>3. ASSUME NEW a \in audit', NEW b \in audit', a.key = b.key \/ a.result = b.result
        PROVE  a = b
    BY <1>0, <1>1, <1>2, <2>1, <2>3 DEF AuditIsLedger
  <2> QED BY <2>2, <2>3 DEF AuditIsLedger
<1>4. AuditKeys'
  BY <1>0 DEF AuditKeys
<1>5. UniqueRows'
  BY <1>0, <1>1 DEF UniqueRows, SameUniqueKey
<1>6. AnswersAreAudited'
  <2>1. answers' = answers
    BY DEF Commit
  <2> QED BY <1>0, <2>1 DEF AnswersAreAudited
<1>7. Owners'
  <2> SUFFICES ASSUME NEW i \in Handlers
               PROVE  /\ pc'[i] = "commit" =>
                          /\ ~CommittedDuplicate(i)'
                          /\ \A g \in Handlers \ {i} : ~InFlightDuplicate(i, g)'
                      /\ pc'[i] = "answer" =>
                          \E a \in audit' : /\ a.key = call'[i].key /\ a.digest = call'[i]
                                            /\ a.result = row'[i]
    BY DEF Owners
  <2> USE DEF Commit, Goto, Inv1, TypeOK
  <2>1. CASE i = h
    <3>1. pc'[h] = "answer" /\ call'[h] = call[h] /\ row'[h] = row[h]
      OBVIOUS
    <3>2. /\ new \in audit' /\ new.key = call[h].key /\ new.digest = call[h]
          /\ new.result = row[h]
      BY <1>0
    <3> HIDE DEF new
    <3> QED BY <2>1, <3>1, <3>2
  <2>2. CASE i # h
    <3>1. pc'[i] = pc[i] /\ call'[i] = call[i] /\ row'[i] = row[i]
      BY <2>2
    <3>2. pc[i] = "commit" => ~InFlightDuplicate(i, h) /\ ~CommittedDuplicate(i)
      BY <2>2 DEF Owners
    <3>3. pc'[i] = "commit" => ~CommittedDuplicate(i)'
      BY <1>0, <3>1, <3>2 DEF CommittedDuplicate, InFlightDuplicate, SameUniqueKey
    <3>4. pc'[i] = "commit" => \A g \in Handlers \ {i} : ~InFlightDuplicate(i, g)'
      BY <1>0, <3>1 DEF Owners, InFlightDuplicate, SameUniqueKey
    <3> QED BY <1>0, <3>1, <3>3, <3>4 DEF Owners
  <2> QED BY <2>1, <2>2
<1> QED BY <1>3, <1>4, <1>5, <1>6, <1>7

\* The INSERTs of one transaction take keys nobody has committed or holds.
LEMMA LedgerInsert ==
    ASSUME NEW h \in Handlers, Inv1, LedgerInv, Insert(h)
    PROVE  LedgerInv'
<1> USE DEF LedgerInv
<1>0. UNCHANGED <<rows, audit, stored, call, row, previous, answers>>
  BY DEF Insert
<1>1. AuditIsLedger' /\ AuditKeys' /\ UniqueRows' /\ AnswersAreAudited'
  BY <1>0 DEF AuditIsLedger, AuditKeys, UniqueRows, SameUniqueKey, AnswersAreAudited
<1>2. ASSUME NEW i \in Handlers, pc'[i] = "commit"
      PROVE  ~CommittedDuplicate(i)
  BY <1>2 DEF Insert, Goto, Inv1, TypeOK, Owners
<1>3. ASSUME NEW i \in Handlers, NEW g \in Handlers \ {i}, pc'[i] = "commit", pc'[g] = "commit"
      PROVE  ~SameUniqueKey(row[i], row[g]) /\ call[i].key # call[g].key
  <2>1. CASE i = h
    BY <1>3, <2>1 DEF Insert, Goto, Inv1, TypeOK, InFlightDuplicate
  <2>2. CASE g = h
    <3>1. ~InFlightDuplicate(g, i) /\ pc[i] = "commit"
      BY <1>3, <2>2 DEF Insert, Goto, Inv1, TypeOK
    <3> QED BY <3>1 DEF InFlightDuplicate, SameUniqueKey
  <2>3. CASE i # h /\ g # h
    BY <1>3, <2>3 DEF Insert, Goto, Inv1, TypeOK, Owners, InFlightDuplicate
  <2> QED BY <2>1, <2>2, <2>3
<1>4. Owners'
  <2>1. \A i \in Handlers : pc'[i] = "answer" => pc[i] = "answer"
    BY DEF Insert, Goto, Inv1, TypeOK
  <2>2. \A i \in Handlers : pc'[i] = "answer" =>
            \E a \in audit : a.key = call[i].key /\ a.digest = call[i] /\ a.result = row[i]
    BY <2>1 DEF Owners
  <2> QED BY <1>0, <1>2, <1>3, <2>2
          DEF Owners, CommittedDuplicate, InFlightDuplicate, SameUniqueKey
<1> QED BY <1>1, <1>4

\* Every step keeps the ledger and the owners of its keys.
LEMMA LedgerInductive == Inv1 /\ LedgerInv /\ [Next]_vars => LedgerInv'
<1> SUFFICES ASSUME Inv1, LedgerInv, [Next]_vars PROVE LedgerInv'
  OBVIOUS
<1> USE DEF Inv1, TypeOK, Steps
<1>0. ASSUME NEW h \in Handlers, Finish(h), rows' = rows, audit' = audit,
             \A x \in answers' : x \in answers \/ \E a \in audit :
               a.key = x.digest.key /\ a.digest = x.digest /\ a.result = x.result
      PROVE  LedgerInv'
  <2>1. /\ pc' \in [Handlers -> Steps] /\ pc'[h] = "idle"
        /\ \A g \in Handlers \ {h} : /\ pc'[g] = pc[g] /\ call'[g] = call[g]
                                      /\ row'[g] = row[g]
    BY <1>0 DEF Finish, Goto
  <2> QED BY <1>0, <2>1, LedgerFrame
<1>1. ASSUME NEW h \in Handlers, Refuse(h) PROVE LedgerInv'
  BY <1>0, <1>1 DEF Refuse
<1>2. ASSUME NEW h \in Handlers, NEW s \in Steps \ {"commit", "answer"}, Goto(h, s),
             rows' = rows, audit' = audit, answers' = answers,
             \A g \in Handlers \ {h} : call'[g] = call[g] /\ row'[g] = row[g]
      PROVE  LedgerInv'
  <2>1. /\ pc' \in [Handlers -> Steps] /\ pc'[h] = s
        /\ \A g \in Handlers \ {h} : pc'[g] = pc[g]
    BY <1>2 DEF Goto
  <2> QED BY <1>2, <2>1, LedgerFrame
<1>3. ASSUME NEW h \in Handlers, NEW c \in Calls, Start(h, c) PROVE LedgerInv'
  <2>1. \A g \in Handlers \ {h} : call'[g] = call[g] /\ row'[g] = row[g]
    BY <1>3 DEF Start
  <2> QED BY <1>2, <1>3, <2>1 DEF Start
<1>4. ASSUME NEW h \in Handlers, Open(h) PROVE LedgerInv'
  BY <1>1, <1>2, <1>4 DEF Open
<1>5. ASSUME NEW h \in Handlers, Replay(h) PROVE LedgerInv'
  <2>1. CASE Goto(h, "prepare") /\ UNCHANGED <<rows, audit, stored, call, row, previous, answers>>
    BY <1>2, <2>1
  <2>2. ASSUME NEW a \in audit, a.key = call[h].key, Answered(h, a.result), Finish(h),
               UNCHANGED <<rows, audit, stored>>, a.digest = call[h]
        PROVE LedgerInv'
    BY <1>0, <2>2 DEF Answered
  <2> QED BY <1>1, <1>5, <2>1, <2>2 DEF Replay
<1>6. ASSUME NEW h \in Handlers, Prepare(h) PROVE LedgerInv'
  <2>1. ASSUME NEW r \in Row, NEW p \in rows \cup {None}, NEW s \in {"put", "insert"},
               Prepared(h, s, r, p)
        PROVE  LedgerInv'
    <3>1. \A g \in Handlers \ {h} : call'[g] = call[g] /\ row'[g] = row[g]
      BY <2>1 DEF Prepared
    <3> QED BY <1>2, <2>1, <3>1 DEF Prepared
  <2> QED BY <1>1, <1>6, <2>1, PreparedIsRow
<1>7. ASSUME NEW h \in Handlers, Put(h) PROVE LedgerInv'
  BY <1>2, <1>7 DEF Put
<1>8. ASSUME NEW h \in Handlers, Answer(h) PROVE LedgerInv'
  <2>1. \E a \in audit : a.key = call[h].key /\ a.digest = call[h] /\ a.result = row[h]
    BY <1>8 DEF Answer, LedgerInv, Owners
  <2> QED BY <1>0, <1>8, <2>1 DEF Answer, Answered
<1>9. CASE UNCHANGED vars
  BY <1>9 DEF vars, LedgerInv, AuditIsLedger, AuditKeys, UniqueRows, SameUniqueKey, Owners,
     CommittedDuplicate, InFlightDuplicate, AnswersAreAudited
<1> QED
  BY <1>1, <1>3, <1>4, <1>5, <1>6, <1>7, <1>8, <1>9, LedgerCommit, LedgerInsert
     DEF Next, Work, Reject, Fail

\* However often calls are retried, and whatever handlers they race with, one
\* idempotency key has one effect: the audit lists every workflow row once.
THEOREM ExactlyOnce == Spec => []AuditIsLedger
<1>1. Init => Inv1 /\ LedgerInv
  BY NoneAssumption DEF Init, Inv1, TypeOK, HandlersHold, Steps, Prepares, LedgerInv,
     AuditIsLedger, AuditKeys, UniqueRows, Owners, AnswersAreAudited
<1>2. LedgerInv => AuditIsLedger
  BY DEF LedgerInv
<1> QED BY <1>1, <1>2, Inv1Inductive, LedgerInductive, PTL DEF Spec

\* No client is ever told of an outcome other than the committed one.
THEOREM AnswersTrue == Spec => []AnswersAreAudited
<1>1. Init => Inv1 /\ LedgerInv
  BY NoneAssumption DEF Init, Inv1, TypeOK, HandlersHold, Steps, Prepares, LedgerInv,
     AuditIsLedger, AuditKeys, UniqueRows, Owners, AnswersAreAudited
<1>2. LedgerInv => AnswersAreAudited
  BY DEF LedgerInv
<1> QED BY <1>1, <1>2, Inv1Inductive, LedgerInductive, PTL DEF Spec

-----------------------------------------------------------------------------
(* Layer 3: why a row may be written, which stays true once it is *)

\* r revises p, the committed revision before it, or starts a history.
Follows(r, p) ==
    IF r.revision = 1 THEN p = None /\ (r.kind = "request" => r.status = "OPEN")
    ELSE /\ p \in rows /\ p.kind = r.kind /\ p.revision + 1 = r.revision
         /\ r.kind = "engagement" => p.eng = r.eng /\ p.scope = r.scope
         /\ r.kind = "request" =>
              p.request = r.request /\ p.eng = r.eng /\ r.status \in Allowed(p.status)

\* The receipts r refers to are committed receipts of its engagement.
Owned(r) ==
    /\ r.kind = "receipt" /\ r.predecessor # None => ReceiptIn(r.predecessor, r.eng)
    /\ r.kind = "registration" => ReceiptIn(r.receipt, r.eng)
    /\ r.kind = "request" => \A i \in r.receipts : ReceiptIn(i, r.eng)

Justified(r, p) ==
    /\ r.kind \in {"engagement", "request"} => Follows(r, p)
    /\ Owned(r)

HandlersJustified ==
    \A h \in Handlers :
        /\ pc[h] \in {"replay", "prepare"} /\ call[h].op = "registration" =>
             ReceiptIn(call[h].receipt, call[h].eng)
        /\ pc[h] \in Prepares => Justified(row[h], previous[h])
        /\ pc[h] \in Prepares \ {"put"} /\ row[h].kind = "receipt" => row[h].data \in stored

AuditJustified == \A a \in audit : Justified(a.result, a.previous)

JustifiedInv == HandlersJustified /\ AuditJustified /\ ReceiptsStored

\* Tables only grow, so a justification is never withdrawn.
LEMMA JustifiedStable ==
    ASSUME rows \subseteq rows'
    PROVE  /\ \A i, e : ReceiptIn(i, e) => ReceiptIn(i, e)'
           /\ \A r, p : Justified(r, p) => Justified(r, p)'
<1>1. \A i, e : ReceiptIn(i, e) => ReceiptIn(i, e)'
  BY DEF ReceiptIn
<1>2. \A r, p : Follows(r, p) => Follows(r, p)'
  BY DEF Follows
<1>3. \A r : Owned(r) => Owned(r)'
  BY <1>1 DEF Owned
<1> QED BY <1>1, <1>2, <1>3 DEF Justified

\* What each operation checks is what justifies its row.
LEMMA PreparedIsJustified ==
    ASSUME NEW h \in Handlers, Inv1, HandlersJustified, Prepare(h)
    PROVE  \/ Refuse(h)
           \/ \E r \in Row, p \in rows \cup {None}, s \in {"put", "insert"} :
                 /\ s = "insert" => r.kind # "receipt"
                 /\ Justified(r, p) /\ Prepared(h, s, r, p)
<1> USE DEF Inv1, TypeOK, HandlersHold, Prepares
<1> DEFINE c == call[h]
<1>0. c \in Call
  BY CallsAssumption DEF Prepare, PrepareEngagement, PrepareReceipt, PrepareRegistration,
     PrepareRequest
<1>1. CASE PrepareEngagement(h)
  <2>1. c \in EngagementCall
    BY <1>0, <1>1 DEF PrepareEngagement, Call, EngagementCall, ReceiptCall, RegistrationCall, RequestCall
  <2>2. SUFFICES ASSUME NEW p \in rows \cup {None}, NEW r, MayRevise(c, p),
                        r = [kind |-> "engagement", eng |-> c.eng, revision |-> c.revision,
                             scope |-> c.scope, status |-> c.status]
                 PROVE  r \in Row /\ r.kind = "engagement" /\ Justified(r, p)
    BY <1>1 DEF PrepareEngagement
  <2>3. r \in Row
    BY <2>1, <2>2 DEF EngagementCall, Row, EngagementRow
  <2>4. Follows(r, p)
    BY <2>1, <2>2 DEF Follows, MayRevise, LatestEngagement, EngagementCall
  <2> QED BY <2>2, <2>3, <2>4 DEF Justified, Owned
<1>2. CASE PrepareReceipt(h)
  <2>1. c \in ReceiptCall
    BY <1>0, <1>2 DEF PrepareReceipt, Call, EngagementCall, ReceiptCall, RegistrationCall, RequestCall
  <2> QED BY <1>2, <2>1 DEF PrepareReceipt, ReceiptCall, Row, ReceiptRow, FreshIds, MayReceive,
             Justified, Owned
<1>3. CASE PrepareRegistration(h)
  <2>1. c \in RegistrationCall
    BY <1>0, <1>3 DEF PrepareRegistration, Call, EngagementCall, ReceiptCall, RegistrationCall, RequestCall
  <2>2. ReceiptIn(c.receipt, c.eng)
    BY <1>3 DEF PrepareRegistration, HandlersJustified
  <2> QED BY <1>3, <2>1, <2>2 DEF PrepareRegistration, RegistrationCall, Row, RegistrationRow,
             FreshIds, Justified, Owned
<1>4. CASE PrepareRequest(h)
  <2>1. c \in RequestCall
    BY <1>0, <1>4 DEF PrepareRequest, Call, EngagementCall, ReceiptCall, RegistrationCall, RequestCall
  <2>2. SUFFICES ASSUME NEW p \in rows \cup {None}, NEW r, MayRequest(c, p),
                        r = [kind |-> "request", eng |-> c.eng, request |-> c.request,
                             revision |-> c.revision, status |-> c.status,
                             receipts |-> c.receipts]
                 PROVE  r \in Row /\ r.kind = "request" /\ Justified(r, p)
    BY <1>4 DEF PrepareRequest
  <2>3. r \in Row
    BY <2>1, <2>2 DEF RequestCall, Row, RequestRow
  <2>4. Follows(r, p)
    BY <2>1, <2>2 DEF Follows, MayRequest, LatestRequest, RequestCall
  <2>5. Owned(r)
    BY <2>2 DEF Owned, MayRequest
  <2> QED BY <2>2, <2>3, <2>4, <2>5 DEF Justified
<1> QED BY <1>1, <1>2, <1>3, <1>4 DEF Prepare

\* A step that publishes nothing and justifies what it moves.
LEMMA JustifiedFrame ==
    ASSUME NEW h \in Handlers, Inv1, JustifiedInv,
           rows' = rows, audit' = audit, stored \subseteq stored',
           \A g \in Handlers \ {h} :
               /\ pc'[g] = pc[g] /\ call'[g] = call[g]
               /\ row'[g] = row[g] /\ previous'[g] = previous[g],
           /\ pc'[h] \in {"replay", "prepare"} /\ call'[h].op = "registration" =>
                ReceiptIn(call'[h].receipt, call'[h].eng)
           /\ pc'[h] \in Prepares => Justified(row'[h], previous'[h])
           /\ pc'[h] \in Prepares \ {"put"} /\ row'[h].kind = "receipt" =>
                row'[h].data \in stored'
    PROVE  JustifiedInv'
<1> USE DEF JustifiedInv
<1>1. ReceiptsStored'
  BY DEF ReceiptsStored
<1>2. AuditJustified'
  BY JustifiedStable DEF AuditJustified
<1>3. HandlersJustified'
  <2> SUFFICES ASSUME NEW i \in Handlers
               PROVE  (/\ pc[i] \in {"replay", "prepare"} /\ call[i].op = "registration" =>
                           ReceiptIn(call[i].receipt, call[i].eng)
                       /\ pc[i] \in Prepares => Justified(row[i], previous[i])
                       /\ pc[i] \in Prepares \ {"put"} /\ row[i].kind = "receipt" =>
                           row[i].data \in stored)'
    BY DEF HandlersJustified, Prepares
  <2>1. CASE i = h
    BY <2>1 DEF Justified, Follows, Owned, ReceiptIn
  <2>2. CASE i # h
    BY <2>2 DEF HandlersJustified, Justified, Follows, Owned, ReceiptIn
  <2> QED BY <2>1, <2>2
<1> QED BY <1>1, <1>2, <1>3

\* Publishing a justified row keeps every other justification.
LEMMA JustifiedCommit ==
    ASSUME NEW h \in Handlers, Inv1, JustifiedInv, Commit(h)
    PROVE  JustifiedInv'
<1> USE DEF JustifiedInv, Prepares
<1> DEFINE new == [key |-> call[h].key, digest |-> call[h], result |-> row[h],
                   previous |-> previous[h]]
<1>0. /\ pc[h] = "commit" /\ rows' = rows \cup {row[h]} /\ audit' = audit \cup {new}
      /\ UNCHANGED <<stored, call, row, previous>>
  BY DEF Commit
<1>1. Justified(row[h], previous[h]) /\ (row[h].kind = "receipt" => row[h].data \in stored)
  BY <1>0 DEF HandlersJustified
<1>2. ReceiptsStored'
  BY <1>0, <1>1 DEF ReceiptsStored
<1>3. \A r, p : Justified(r, p) => Justified(r, p)'
  BY <1>0, JustifiedStable
<1>4. AuditJustified'
  <2>1. new.result = row[h] /\ new.previous = previous[h]
    OBVIOUS
  <2>2. \A a \in audit : Justified(a.result, a.previous)
    BY DEF AuditJustified
  <2> HIDE DEF new
  <2> SUFFICES ASSUME NEW a \in audit' PROVE Justified(a.result, a.previous)'
    BY DEF AuditJustified
  <2> QED BY <1>0, <1>1, <1>3, <2>1, <2>2
<1>5. HandlersJustified'
  <2> SUFFICES ASSUME NEW i \in Handlers
               PROVE  (/\ pc[i] \in {"replay", "prepare"} /\ call[i].op = "registration" =>
                           ReceiptIn(call[i].receipt, call[i].eng)
                       /\ pc[i] \in Prepares => Justified(row[i], previous[i])
                       /\ pc[i] \in Prepares \ {"put"} /\ row[i].kind = "receipt" =>
                           row[i].data \in stored)'
    BY DEF HandlersJustified
  <2>1. pc'[i] = IF i = h THEN "answer" ELSE pc[i]
    BY DEF Commit, Goto, Inv1, TypeOK
  <2>2. pc'[i] \in Prepares => Justified(row[i], previous[i])
    BY <1>1, <2>1 DEF HandlersJustified
  <2>3. Justified(row[i], previous[i]) => Justified(row[i], previous[i])'
    BY <1>0 DEF Justified, Follows, Owned, ReceiptIn
  <2>4. ReceiptIn(call[i].receipt, call[i].eng) => ReceiptIn(call[i].receipt, call[i].eng)'
    BY <1>0 DEF ReceiptIn
  <2> QED BY <1>0, <1>1, <2>1, <2>2, <2>3, <2>4 DEF HandlersJustified
<1> QED BY <1>2, <1>4, <1>5

\* Every step keeps rows justified by what they replaced.
LEMMA JustifiedInductive == Inv1 /\ JustifiedInv /\ [Next]_vars => JustifiedInv'
<1> SUFFICES ASSUME Inv1, JustifiedInv, [Next]_vars PROVE JustifiedInv'
  OBVIOUS
<1> USE DEF Inv1, TypeOK, Prepares
<1>0. ASSUME NEW h \in Handlers, Finish(h), rows' = rows, audit' = audit, stored' = stored
      PROVE  JustifiedInv'
  <2>1. /\ pc'[h] = "idle"
        /\ \A g \in Handlers \ {h} : /\ pc'[g] = pc[g] /\ call'[g] = call[g]
                                      /\ row'[g] = row[g] /\ previous'[g] = previous[g]
    BY <1>0 DEF Finish, Goto
  <2> QED BY <1>0, <2>1, JustifiedFrame
<1>1. ASSUME NEW h \in Handlers, Refuse(h) PROVE JustifiedInv'
  BY <1>0, <1>1 DEF Refuse
<1>2. ASSUME NEW h \in Handlers, NEW s \in Steps, Goto(h, s),
             UNCHANGED <<rows, audit, stored, call, row, previous>>,
             s \in {"replay", "prepare"} /\ call[h].op = "registration" =>
                 ReceiptIn(call[h].receipt, call[h].eng),
             s \in Prepares => pc[h] \in Prepares /\ (pc[h] = "put" => row[h].kind # "receipt")
      PROVE  JustifiedInv'
  <2>1. /\ pc'[h] = s
        /\ \A g \in Handlers \ {h} : pc'[g] = pc[g]
    BY <1>2 DEF Goto
  <2>2. s \in Prepares => /\ Justified(row[h], previous[h])
                          /\ row[h].kind = "receipt" => row[h].data \in stored
    BY <1>2 DEF JustifiedInv, HandlersJustified
  <2> QED BY <1>2, <2>1, <2>2, JustifiedFrame
<1>3. ASSUME NEW h \in Handlers, NEW c \in Calls, Start(h, c) PROVE JustifiedInv'
  <2>1. /\ \A g \in Handlers \ {h} : pc'[g] = pc[g] /\ call'[g] = call[g]
        /\ pc'[h] \in {"open", "replay"} /\ call'[h] = c /\ (pc'[h] = "replay" => c.op = "engagement")
        /\ UNCHANGED <<rows, audit, stored, row, previous>>
    BY <1>3 DEF Start, Goto
  <2> QED BY <2>1, JustifiedFrame
<1>4. ASSUME NEW h \in Handlers, Open(h) PROVE JustifiedInv'
  BY <1>1, <1>2, <1>4 DEF Open, OpenCheck, Steps
<1>5. ASSUME NEW h \in Handlers, Replay(h) PROVE JustifiedInv'
  <2>1. CASE Goto(h, "prepare") /\ UNCHANGED <<rows, audit, stored, call, row, previous, answers>>
    BY <1>2, <1>5, <2>1 DEF Replay, Steps, JustifiedInv, HandlersJustified
  <2>2. CASE Finish(h) /\ UNCHANGED <<rows, audit, stored>>
    BY <1>0, <2>2
  <2> QED BY <1>1, <1>5, <2>1, <2>2 DEF Replay
<1>6. ASSUME NEW h \in Handlers, Prepare(h) PROVE JustifiedInv'
  <2>1. ASSUME NEW r \in Row, NEW p \in rows \cup {None}, NEW s \in {"put", "insert"},
               s = "insert" => r.kind # "receipt", Justified(r, p), Prepared(h, s, r, p)
        PROVE  JustifiedInv'
    <3>1. /\ \A g \in Handlers \ {h} : /\ pc'[g] = pc[g] /\ call'[g] = call[g]
                                        /\ row'[g] = row[g] /\ previous'[g] = previous[g]
          /\ pc'[h] = s /\ row'[h] = r /\ previous'[h] = p
          /\ UNCHANGED <<rows, audit, stored>>
      BY <2>1 DEF Prepared, Goto
    <3> QED BY <2>1, <3>1, JustifiedFrame
  <2>2. HandlersJustified
    BY DEF JustifiedInv
  <2> QED BY <1>1, <1>6, <2>1, <2>2, PreparedIsJustified
<1>7. ASSUME NEW h \in Handlers, Put(h) PROVE JustifiedInv'
  <2>1. /\ \A g \in Handlers \ {h} : pc'[g] = pc[g]
        /\ pc'[h] = "insert" /\ row[h].data \in stored' /\ stored \subseteq stored'
        /\ UNCHANGED <<rows, audit, call, row, previous>>
        /\ Justified(row[h], previous[h])
    BY <1>7 DEF Put, Goto, JustifiedInv, HandlersJustified
  <2> QED BY <2>1, JustifiedFrame
<1>8. ASSUME NEW h \in Handlers, Insert(h) PROVE JustifiedInv'
  BY <1>2, <1>8 DEF Insert, Steps
<1>9. ASSUME NEW h \in Handlers, Answer(h) PROVE JustifiedInv'
  BY <1>0, <1>9 DEF Answer
<1>10. CASE UNCHANGED vars
  BY <1>10 DEF vars, JustifiedInv, HandlersJustified, AuditJustified, ReceiptsStored,
     Justified, Follows, Owned, ReceiptIn
<1> QED
  BY <1>1, <1>3, <1>4, <1>5, <1>6, <1>7, <1>8, <1>9, <1>10, JustifiedCommit
     DEF Next, Work, Reject, Fail

\* The empty database has the first three layers.
LEMMA InitJustified == Init => Inv1 /\ LedgerInv /\ JustifiedInv
<1>1. Init => Inv1
  BY NoneAssumption DEF Init, Inv1, TypeOK, HandlersHold, Steps, Prepares
<1>2. Init => LedgerInv
  BY DEF Init, LedgerInv, AuditIsLedger, AuditKeys, UniqueRows, Owners, AnswersAreAudited
<1>3. Init => JustifiedInv
  BY DEF Init, JustifiedInv, HandlersJustified, AuditJustified, ReceiptsStored, Prepares
<1> QED BY <1>1, <1>2, <1>3

\* Whatever fails between the file system and the database, a committed receipt
\* has its bytes: put comes before the transaction, and nothing removes bytes.
THEOREM BytesBeforeReceipts == Spec => []ReceiptsStored
<1>1. JustifiedInv => ReceiptsStored
  BY DEF JustifiedInv
<1> QED BY <1>1, InitJustified, Inv1Inductive, JustifiedInductive, PTL DEF Spec

\* No update is lost: every revision replaced the one its author had read, under
\* any interleaving of handlers.
THEOREM HistoriesChain == Spec => []RevisionsChain
<1>1. LedgerInv /\ JustifiedInv => RevisionsChain
  BY DEF LedgerInv, JustifiedInv, AuditJustified, Justified, Follows, RevisionsChain
<1> QED BY <1>1, InitJustified, Inv1Inductive, LedgerInductive, JustifiedInductive, PTL DEF Spec

\* Evidence references never cross engagements.
THEOREM EvidenceStaysOwned == Spec => []EvidenceOwned
<1>1. LedgerInv /\ JustifiedInv => EvidenceOwned
  <2> SUFFICES ASSUME LedgerInv, JustifiedInv, NEW r \in rows
               PROVE  Owned(r)
    BY DEF EvidenceOwned, Owned
  <2>1. PICK a \in audit : r = a.result
    BY DEF LedgerInv, AuditIsLedger
  <2> QED BY <2>1 DEF JustifiedInv, AuditJustified, Justified
<1> QED BY <1>1, InitJustified, Inv1Inductive, LedgerInductive, JustifiedInductive, PTL DEF Spec

-----------------------------------------------------------------------------
(* Layer 4: whole histories *)

SameObject(r, s) ==
    /\ r.kind = s.kind
    /\ r.kind = "engagement" => r.eng = s.eng
    /\ r.kind = "request" => r.request = s.request

\* Every history has a first revision, so nothing can start it again.
HistoriesStart ==
    \A r \in rows : r.kind \in {"engagement", "request"} =>
        \E s \in rows : SameObject(r, s) /\ s.revision = 1

HistoryInv == HistoriesStart /\ ScopeFixed /\ RequestHistoryLegal

\* A commit extends one history by its next revision.
LEMMA HistoryCommit ==
    ASSUME NEW h \in Handlers, Inv1, LedgerInv, JustifiedInv, HistoryInv, Commit(h)
    PROVE  HistoryInv'
<1> DEFINE r == row[h]
<1> DEFINE p == previous[h]
<1>0. rows' = rows \cup {r} /\ pc[h] = "commit"
  BY DEF Commit
<1>1. Justified(r, p) /\ r \in Row
  BY <1>0 DEF JustifiedInv, HandlersJustified, Prepares, Inv1, HandlersHold
<1>2. \A s \in rows : ~SameUniqueKey(r, s)
  BY <1>0 DEF LedgerInv, Owners, CommittedDuplicate
<1>3. rows \subseteq Row
  BY DEF Inv1, TypeOK
<1> HIDE DEF r, p
<1>4. \A s \in Row : s.kind \in {"engagement", "request"} => s.revision \in Nat \ {0}
  BY DEF Row, EngagementRow, ReceiptRow, RegistrationRow, RequestRow
<1>5. ASSUME r.kind \in {"engagement", "request"}, NEW s \in rows, SameObject(r, s)
      PROVE  /\ r.revision # 1 /\ p \in rows /\ SameObject(r, p) /\ p.revision + 1 = r.revision
             /\ r.kind = "engagement" => p.scope = r.scope
             /\ r.kind = "request" => p.eng = r.eng /\ r.status \in Allowed(p.status)
  <2>1. PICK f \in rows : SameObject(s, f) /\ f.revision = 1
    BY <1>5 DEF HistoryInv, HistoriesStart, SameObject
  <2>2. r.revision # 1
    BY <1>2, <1>5, <2>1 DEF SameObject, SameUniqueKey
  <2> QED BY <1>1, <1>5, <2>2 DEF Justified, Follows, SameObject
<1>6. HistoriesStart'
  <2> SUFFICES ASSUME NEW x \in rows', x.kind \in {"engagement", "request"}
               PROVE  \E s \in rows' : SameObject(x, s) /\ s.revision = 1
    BY DEF HistoriesStart, SameObject
  <2>1. CASE x \in rows
    BY <1>0, <2>1 DEF HistoryInv, HistoriesStart
  <2>2. CASE x = r /\ r.revision = 1
    BY <1>0, <2>2 DEF SameObject
  <2>3. CASE x = r /\ r.revision # 1
    <3>1. p \in rows /\ SameObject(r, p) /\ p.kind \in {"engagement", "request"}
      BY <1>1, <2>3 DEF Justified, Follows, SameObject
    <3>2. PICK s \in rows : SameObject(p, s) /\ s.revision = 1
      BY <3>1 DEF HistoryInv, HistoriesStart
    <3> QED BY <1>0, <2>3, <3>1, <3>2 DEF SameObject
  <2> QED BY <1>0, <2>1, <2>2, <2>3
<1>7. ScopeFixed'
  <2> SUFFICES ASSUME r.kind = "engagement", NEW s \in rows, SameObject(r, s)
               PROVE  r.scope = s.scope
    BY <1>0 DEF HistoryInv, ScopeFixed, SameObject
  <2>1. p \in rows /\ SameObject(r, p) /\ p.scope = r.scope
    BY <1>5
  <2> QED BY <2>1 DEF HistoryInv, ScopeFixed, SameObject
<1>8. ASSUME r.kind = "request", NEW s \in rows, SameObject(r, s)
      PROVE  /\ r.eng = s.eng /\ r.revision # 1 /\ r.revision + 1 # s.revision
             /\ r.revision = s.revision + 1 => r.status \in Allowed(s.status)
  <2>1. /\ r.revision # 1 /\ p \in rows /\ SameObject(r, p) /\ p.revision + 1 = r.revision
        /\ p.eng = r.eng /\ r.status \in Allowed(p.status)
    BY <1>5, <1>8
  <2>a. /\ p.kind = "request" /\ s.kind = "request" /\ p.request = s.request
        /\ p.revision \in Nat /\ s.revision \in Nat
    BY <1>3, <1>4, <1>8, <2>1 DEF SameObject
  <2>2. r.eng = s.eng
    <3>1. p.eng = s.eng
      BY <1>8, <2>1, <2>a DEF HistoryInv, RequestHistoryLegal
    <3> QED BY <2>1, <3>1
  <2>3. r.revision = s.revision + 1 => s = p
    <3>1. r.revision = s.revision + 1 => p.revision = s.revision
      BY <2>1, <2>a
    <3>2. p.revision = s.revision => SameUniqueKey(p, s)
      BY <2>a DEF SameUniqueKey
    <3> QED BY <1>8, <2>1, <3>1, <3>2 DEF LedgerInv, UniqueRows
  <2>4. r.revision + 1 # s.revision
    <3> SUFFICES ASSUME r.revision + 1 = s.revision PROVE FALSE
      OBVIOUS
    <3>1. PICK a \in audit : a.result = s
      BY DEF LedgerInv, AuditIsLedger
    <3>2. Follows(s, a.previous)
      BY <1>8, <3>1 DEF JustifiedInv, AuditJustified, Justified, SameObject
    <3>3. s.revision # 1 /\ r.revision \in Nat /\ s.revision \in Nat
      BY <1>1, <1>3, <1>4, <1>8 DEF SameObject
    <3>4. /\ a.previous \in rows /\ a.previous.kind = "request"
          /\ a.previous.request = r.request /\ a.previous.revision + 1 = s.revision
      BY <1>8, <3>2, <3>3 DEF Follows, SameObject
    <3>5. a.previous.revision = r.revision
      BY <1>3, <1>4, <3>3, <3>4
    <3> QED BY <1>2, <1>8, <3>4, <3>5 DEF SameUniqueKey
  <2> QED BY <2>1, <2>2, <2>3, <2>4
<1>9. RequestHistoryLegal'
  <2>1. r.kind = "request" /\ r.revision = 1 => r.status = "OPEN"
    BY <1>1 DEF Justified, Follows
  <2>2. r.kind = "request" => r.revision # r.revision + 1
    BY <1>1, <1>4
  <2> SUFFICES ASSUME NEW x \in rows', NEW y \in rows', x.kind = "request", y.kind = "request",
                      x.request = y.request
               PROVE  /\ x.eng = y.eng
                      /\ x.revision = 1 => x.status = "OPEN"
                      /\ y.revision = x.revision + 1 =>
                           /\ x.status = "WITHDRAWN" => y.status = "WITHDRAWN"
                           /\ y.status = "FULFILMENT_REVIEWED" =>
                                x.status \in {"EVIDENCE_RECEIVED", "FULFILMENT_REVIEWED"}
    BY DEF RequestHistoryLegal
  <2>3. CASE x \in rows /\ y \in rows
    BY <2>3 DEF HistoryInv, RequestHistoryLegal
  <2>4. CASE x \in rows /\ y = r
    <3>1. /\ x.eng = y.eng
          /\ y.revision = x.revision + 1 => y.status \in Allowed(x.status)
      BY <1>8, <2>4 DEF SameObject
    <3>2. x.revision = 1 => x.status = "OPEN"
      BY <2>4 DEF HistoryInv, RequestHistoryLegal
    <3>3. x.status \in RequestStatus
      BY <1>3, <2>4 DEF Row, EngagementRow, ReceiptRow, RegistrationRow, RequestRow
    <3> QED BY <3>1, <3>2, <3>3 DEF Allowed, RequestStatus
  <2>5. CASE x = r /\ y \in rows
    BY <1>8, <2>1, <2>5 DEF SameObject
  <2>6. CASE x = r /\ y = r
    BY <2>1, <2>2, <2>6
  <2> QED BY <1>0, <2>3, <2>4, <2>5, <2>6
<1> QED BY <1>6, <1>7, <1>9 DEF HistoryInv

\* Every step keeps whole histories in order.
LEMMA HistoryInductive ==
    Inv1 /\ LedgerInv /\ JustifiedInv /\ HistoryInv /\ [Next]_vars => HistoryInv'
<1> SUFFICES ASSUME Inv1, LedgerInv, JustifiedInv, HistoryInv, [Next]_vars PROVE HistoryInv'
  OBVIOUS
<1>1. CASE rows' = rows
  BY <1>1 DEF HistoryInv, HistoriesStart, SameObject, ScopeFixed, RequestHistoryLegal
<1>2. CASE rows' # rows
  <2>1. PICK h \in Handlers : Commit(h)
    BY <1>2 DEF Next, Work, Fail, Refuse, Start, Open, Replay, Prepare, PrepareEngagement,
       PrepareReceipt, PrepareRegistration, PrepareRequest, Prepared, Put, Insert, Reject,
       Answer, vars
  <2> QED BY <2>1, HistoryCommit
<1> QED BY <1>1, <1>2

\* The empty database has no history.
LEMMA InitHistory == Init => HistoryInv
BY DEF Init, HistoryInv, HistoriesStart, ScopeFixed, RequestHistoryLegal

\* The declared scope of an engagement survives every race of creations and
\* revisions.
THEOREM ScopeNeverChanges == Spec => []ScopeFixed
<1>1. HistoryInv => ScopeFixed
  BY DEF HistoryInv
<1> QED BY <1>1, InitJustified, InitHistory, Inv1Inductive, LedgerInductive, JustifiedInductive,
           HistoryInductive, PTL DEF Spec

\* Information requests only ever walk the administrative lifecycle.
THEOREM RequestsStayLegal == Spec => []RequestHistoryLegal
<1>1. HistoryInv => RequestHistoryLegal
  BY DEF HistoryInv
<1> QED BY <1>1, InitJustified, InitHistory, Inv1Inductive, LedgerInductive, JustifiedInductive,
           HistoryInductive, PTL DEF Spec
-----------------------------------------------------------------------------
(* Layer 5: the handlers implement the ledger *)

\* The contents of receipt i are those of dataset version v.
Matches(i, v) ==
    \E d \in rows : d.kind = "receipt" /\ d.id = i /\ <<d.data, v>> \in Registered

\* Row r, in place of p, is what call c asks for.
Serves(c, r, p) ==
    /\ c.op = "engagement" =>
         /\ c.revision = c.expected + 1
         /\ r = [kind |-> "engagement", eng |-> c.eng, revision |-> c.revision,
                 scope |-> c.scope, status |-> c.status]
    /\ c.op = "receipt" =>
         /\ p = None
         /\ \E i \in Ids : r = [kind |-> "receipt", eng |-> c.eng, id |-> i, data |-> c.data,
                                predecessor |-> c.predecessor]
    /\ c.op = "registration" =>
         /\ p = None
         /\ \E i \in Ids : r = [kind |-> "registration", eng |-> c.eng, id |-> i,
                                receipt |-> c.receipt, version |-> c.version]
    /\ c.op = "request" =>
         /\ c.revision = c.expected + 1
         /\ c.status \in {"EVIDENCE_RECEIVED", "FULFILMENT_REVIEWED"} => c.receipts # {}
         /\ r = [kind |-> "request", eng |-> c.eng, request |-> c.request,
                 revision |-> c.revision, status |-> c.status, receipts |-> c.receipts]

\* What a transaction will commit is what its client asked for, on matching bytes.
ServedInv ==
    \A h \in Handlers : pc[h] \in Prepares =>
        /\ Serves(call[h], row[h], previous[h])
        /\ row[h].kind = "registration" => Matches(row[h].receipt, row[h].version)

\* What each operation checks makes its row the answer to its call.
LEMMA PreparedServes ==
    ASSUME NEW h \in Handlers, Inv1, Prepare(h)
    PROVE  \/ Refuse(h)
           \/ \E r, p, s :
                 /\ Serves(call[h], r, p) /\ Prepared(h, s, r, p)
                 /\ r.kind = "registration" => Matches(r.receipt, r.version)
<1> DEFINE c == call[h]
<1>1. CASE PrepareEngagement(h)
  <2>1. c.op = "engagement"
    BY <1>1 DEF PrepareEngagement
  <2>2. SUFFICES ASSUME NEW p \in rows \cup {None}, NEW r, MayRevise(c, p),
                        r = [kind |-> "engagement", eng |-> c.eng, revision |-> c.revision,
                             scope |-> c.scope, status |-> c.status]
                 PROVE  Serves(c, r, p) /\ r.kind = "engagement"
    BY <1>1 DEF PrepareEngagement
  <2> QED BY <2>1, <2>2 DEF Serves, MayRevise
<1>2. CASE PrepareReceipt(h)
  <2>1. c.op = "receipt"
    BY <1>2 DEF PrepareReceipt
  <2>2. SUFFICES ASSUME NEW i \in FreshIds, NEW r,
                        r = [kind |-> "receipt", eng |-> c.eng, id |-> i, data |-> c.data,
                             predecessor |-> c.predecessor]
                 PROVE  Serves(c, r, None) /\ r.kind = "receipt"
    BY <1>2 DEF PrepareReceipt
  <2> QED BY <2>1, <2>2 DEF Serves, FreshIds
<1>3. CASE PrepareRegistration(h)
  <2>1. c.op = "registration"
    BY <1>3 DEF PrepareRegistration
  <2>2. SUFFICES ASSUME NEW i \in FreshIds, NEW r, MayRegister(c),
                        r = [kind |-> "registration", eng |-> c.eng, id |-> i,
                             receipt |-> c.receipt, version |-> c.version]
                 PROVE  Serves(c, r, None) /\ Matches(r.receipt, r.version)
    BY <1>3 DEF PrepareRegistration
  <2>3. Serves(c, r, None)
    BY <2>1, <2>2 DEF Serves, FreshIds
  <2> QED BY <2>2, <2>3 DEF Matches, MayRegister
<1>4. CASE PrepareRequest(h)
  <2>1. c.op = "request"
    BY <1>4 DEF PrepareRequest
  <2>2. SUFFICES ASSUME NEW p \in rows \cup {None}, NEW r, MayRequest(c, p),
                        r = [kind |-> "request", eng |-> c.eng, request |-> c.request,
                             revision |-> c.revision, status |-> c.status,
                             receipts |-> c.receipts]
                 PROVE  Serves(c, r, p) /\ r.kind = "request"
    BY <1>4 DEF PrepareRequest
  <2> QED BY <2>1, <2>2 DEF Serves, MayRequest
<1> QED BY <1>1, <1>2, <1>3, <1>4 DEF Prepare

\* A step that keeps the tables, or adds to them, and prepares only what serves.
LEMMA ServedFrame ==
    ASSUME NEW h \in Handlers, ServedInv, rows \subseteq rows',
           \A g \in Handlers \ {h} :
               /\ pc'[g] = pc[g] /\ call'[g] = call[g]
               /\ row'[g] = row[g] /\ previous'[g] = previous[g],
           pc'[h] \in Prepares =>
               /\ Serves(call'[h], row'[h], previous'[h])
               /\ row'[h].kind = "registration" => Matches(row'[h].receipt, row'[h].version)
    PROVE  ServedInv'
<1>1. \A i, v : Matches(i, v) => Matches(i, v)'
  BY DEF Matches
<1> SUFFICES ASSUME NEW g \in Handlers, pc'[g] \in Prepares
             PROVE  /\ Serves(call'[g], row'[g], previous'[g])
                    /\ row'[g].kind = "registration" => Matches(row[g].receipt, row[g].version)'
  BY DEF ServedInv, Serves, Prepares
<1>2. Matches(row'[g].receipt, row'[g].version) => Matches(row[g].receipt, row[g].version)'
  BY DEF Matches
<1>3. CASE g = h
  BY <1>2, <1>3
<1>4. CASE g # h
  <2>1. /\ pc'[g] = pc[g] /\ call'[g] = call[g] /\ row'[g] = row[g]
        /\ previous'[g] = previous[g]
    BY <1>4
  <2>2. /\ Serves(call[g], row[g], previous[g])
        /\ row[g].kind = "registration" => Matches(row[g].receipt, row[g].version)
    BY <2>1 DEF ServedInv
  <2> QED BY <1>2, <2>1, <2>2
<1> QED BY <1>3, <1>4

\* Every step keeps what transactions hold the answers to their calls.
LEMMA ServedInductive == Inv1 /\ ServedInv /\ [Next]_vars => ServedInv'
<1> SUFFICES ASSUME Inv1, ServedInv, [Next]_vars PROVE ServedInv'
  OBVIOUS
<1> USE DEF Inv1, TypeOK
<1>0. ASSUME NEW h \in Handlers, Finish(h), rows' = rows PROVE ServedInv'
  <2>1. /\ pc'[h] \notin Prepares
        /\ \A g \in Handlers \ {h} : /\ pc'[g] = pc[g] /\ call'[g] = call[g]
                                      /\ row'[g] = row[g] /\ previous'[g] = previous[g]
    BY <1>0 DEF Finish, Goto, Prepares
  <2> QED BY <1>0, <2>1, ServedFrame
<1>1. ASSUME NEW h \in Handlers, Refuse(h) PROVE ServedInv'
  BY <1>0, <1>1 DEF Refuse
<1>2. ASSUME NEW h \in Handlers, NEW s \in Steps, Goto(h, s), rows \subseteq rows',
             UNCHANGED <<row, previous>>,
             \A g \in Handlers \ {h} : call'[g] = call[g],
             s \in Prepares => pc[h] \in Prepares /\ call'[h] = call[h]
      PROVE  ServedInv'
  <2>1. /\ pc'[h] = s
        /\ \A g \in Handlers \ {h} : pc'[g] = pc[g]
    BY <1>2 DEF Goto
  <2>2. s \in Prepares =>
            /\ Serves(call[h], row[h], previous[h])
            /\ row[h].kind = "registration" => Matches(row[h].receipt, row[h].version)
    BY <1>2 DEF ServedInv
  <2> QED BY <1>2, <2>1, <2>2, ServedFrame
<1>3. ASSUME NEW h \in Handlers, NEW c \in Calls, Start(h, c) PROVE ServedInv'
  BY <1>2, <1>3 DEF Start, Steps, Prepares
<1>4. ASSUME NEW h \in Handlers, Open(h) PROVE ServedInv'
  BY <1>1, <1>2, <1>4 DEF Open, Steps, Prepares
<1>5. ASSUME NEW h \in Handlers, Replay(h) PROVE ServedInv'
  <2>1. CASE Goto(h, "prepare") /\ UNCHANGED <<rows, audit, stored, call, row, previous, answers>>
    BY <1>2, <2>1 DEF Steps, Prepares
  <2>2. CASE Finish(h) /\ UNCHANGED <<rows, audit, stored>>
    BY <1>0, <2>2
  <2> QED BY <1>1, <1>5, <2>1, <2>2 DEF Replay
<1>6. ASSUME NEW h \in Handlers, Prepare(h) PROVE ServedInv'
  <2>1. ASSUME NEW r, NEW p, NEW s, Serves(call[h], r, p), Prepared(h, s, r, p),
               r.kind = "registration" => Matches(r.receipt, r.version)
        PROVE  ServedInv'
    <3>1. /\ \A g \in Handlers \ {h} : /\ pc'[g] = pc[g] /\ call'[g] = call[g]
                                        /\ row'[g] = row[g] /\ previous'[g] = previous[g]
          /\ call'[h] = call[h] /\ row'[h] = r /\ previous'[h] = p /\ rows' = rows
      BY <2>1 DEF Prepared, Goto
    <3> QED BY <2>1, <3>1, ServedFrame
  <2> QED BY <1>1, <1>6, <2>1, PreparedServes
<1>7. ASSUME NEW h \in Handlers, Put(h) PROVE ServedInv'
  BY <1>2, <1>7 DEF Put, Steps, Prepares
<1>8. ASSUME NEW h \in Handlers, Insert(h) PROVE ServedInv'
  BY <1>2, <1>8 DEF Insert, Steps, Prepares
<1>9. ASSUME NEW h \in Handlers, Commit(h) PROVE ServedInv'
  BY <1>2, <1>9 DEF Commit, Steps, Prepares
<1>10. ASSUME NEW h \in Handlers, Answer(h) PROVE ServedInv'
  BY <1>0, <1>10 DEF Answer
<1>11. CASE UNCHANGED vars
  BY <1>11 DEF vars, ServedInv, Serves, Matches
<1> QED
  BY <1>1, <1>3, <1>4, <1>5, <1>6, <1>7, <1>8, <1>9, <1>10, <1>11
     DEF Next, Work, Reject, Fail

\* Every history has all its revisions, from the first to the newest.
Gapless ==
    \A s \in rows : s.kind \in {"engagement", "request"} =>
        \A n \in 1 .. s.revision : \E x \in rows : SameObject(s, x) /\ x.revision = n

\* The rows that have revisions number them from one.
LEMMA RevisionsAreNumbers ==
    ASSUME NEW r \in Row, r.kind \in {"engagement", "request"}
    PROVE  r.revision \in Nat \ {0}
BY DEF Row, EngagementRow, ReceiptRow, RegistrationRow, RequestRow

\* A commit adds the revision after one that is there.
LEMMA GaplessCommit ==
    ASSUME NEW h \in Handlers, Inv1, JustifiedInv, Gapless, Commit(h)
    PROVE  Gapless'
<1> DEFINE r == row[h]
<1> DEFINE p == previous[h]
<1>0. rows' = rows \cup {r} /\ pc[h] = "commit"
  BY DEF Commit
<1>1. Justified(r, p) /\ r \in Row /\ rows \subseteq Row
  BY <1>0 DEF JustifiedInv, HandlersJustified, Prepares, Inv1, HandlersHold, TypeOK
<1> HIDE DEF r, p
<1> SUFFICES ASSUME NEW s \in rows', s.kind \in {"engagement", "request"},
                    NEW n \in 1 .. s.revision
             PROVE  \E x \in rows' : SameObject(s, x) /\ x.revision = n
  BY DEF Gapless, SameObject
<1>2. CASE s \in rows
  BY <1>0, <1>2 DEF Gapless
<1>3. CASE s = r /\ n = r.revision
  BY <1>0, <1>3 DEF SameObject
<1>4. CASE s = r /\ n # r.revision
  <2>1. r.revision \in Nat \ {0} /\ n \in Nat \ {0} /\ n < r.revision
    BY <1>1, <1>4, RevisionsAreNumbers
  <2>2. p \in rows /\ SameObject(r, p) /\ p.revision + 1 = r.revision
    BY <1>1, <1>4, <2>1 DEF Justified, Follows, SameObject
  <2>3. p.kind \in {"engagement", "request"} /\ p.revision \in Nat
    BY <1>1, <1>4, <2>2, RevisionsAreNumbers DEF SameObject
  <2>4. n \in 1 .. p.revision
    BY <2>1, <2>2, <2>3
  <2>5. PICK x \in rows : SameObject(p, x) /\ x.revision = n
    BY <2>2, <2>3, <2>4 DEF Gapless
  <2> QED BY <1>0, <1>4, <2>2, <2>5 DEF SameObject
<1> QED BY <1>0, <1>2, <1>3, <1>4

\* Only a commit publishes rows.
LEMMA OnlyCommitsPublish ==
    ASSUME [Next]_vars, rows' # rows \/ audit' # audit
    PROVE  \E h \in Handlers : Commit(h)
BY DEF Next, Work, Fail, Refuse, Start, Open, Replay, Prepare, PrepareEngagement,
   PrepareReceipt, PrepareRegistration, PrepareRequest, Prepared, Put, Insert, Reject,
   Answer, vars

\* Every step keeps histories without a gap.
LEMMA GaplessInductive == Inv1 /\ JustifiedInv /\ Gapless /\ [Next]_vars => Gapless'
<1> SUFFICES ASSUME Inv1, JustifiedInv, Gapless, [Next]_vars PROVE Gapless'
  OBVIOUS
<1>1. CASE rows' = rows
  BY <1>1 DEF Gapless, SameObject
<1>2. CASE rows' # rows
  BY <1>2, OnlyCommitsPublish, GaplessCommit
<1> QED BY <1>1, <1>2

\* The revision a committed edit replaced is the newest there is: had a rival
\* replaced it first, the revision it wrote would own the unique key.
LEMMA CommitContinues ==
    ASSUME NEW h \in Handlers, Inv1, LedgerInv, JustifiedInv, HistoryInv, Gapless, Commit(h),
           row[h].kind \in {"engagement", "request"}
    PROVE  /\ row[h].revision = 1 =>
                previous[h] = None /\ \A s \in rows : ~SameObject(row[h], s)
           /\ row[h].revision # 1 =>
                /\ previous[h] \in rows /\ SameObject(row[h], previous[h])
                /\ previous[h].revision + 1 = row[h].revision
                /\ previous[h].revision \in Nat
                /\ \A s \in rows : SameObject(row[h], s) => s.revision <= previous[h].revision
<1> DEFINE r == row[h]
<1> DEFINE p == previous[h]
<1>0. rows' = rows \cup {r} /\ pc[h] = "commit" /\ r.kind \in {"engagement", "request"}
  BY DEF Commit
<1>1. Justified(r, p) /\ r \in Row /\ rows \subseteq Row
  BY <1>0 DEF JustifiedInv, HandlersJustified, Prepares, Inv1, HandlersHold, TypeOK
<1>2. \A s \in rows : ~SameUniqueKey(r, s)
  BY <1>0 DEF LedgerInv, Owners, CommittedDuplicate
<1> HIDE DEF r, p
<1>3. ASSUME NEW s \in rows, SameObject(r, s) PROVE s.revision \in Nat /\ s.revision < r.revision
  <2>1. s.kind \in {"engagement", "request"} /\ s.revision \in Nat /\ r.revision \in Nat \ {0}
    BY <1>0, <1>1, <1>3, RevisionsAreNumbers DEF SameObject
  <2>2. ASSUME r.revision <= s.revision PROVE FALSE
    <3>1. r.revision \in 1 .. s.revision
      BY <2>1, <2>2
    <3>2. PICK x \in rows : SameObject(s, x) /\ x.revision = r.revision
      BY <2>1, <3>1 DEF Gapless
    <3> QED BY <1>0, <1>2, <1>3, <3>2 DEF SameObject, SameUniqueKey
  <2> QED BY <2>1, <2>2
<1>4. CASE r.revision = 1
  <2>1. p = None
    BY <1>0, <1>1, <1>4 DEF Justified, Follows
  <2>2. ASSUME NEW s \in rows, SameObject(r, s) PROVE FALSE
    <3>1. s.kind \in {"engagement", "request"} /\ s.revision \in Nat \ {0}
      BY <1>0, <1>1, <2>2, RevisionsAreNumbers DEF SameObject
    <3> QED BY <1>3, <1>4, <2>2, <3>1
  <2> QED BY <1>4, <2>1, <2>2 DEF r, p
<1>5. CASE r.revision # 1
  <2>1. p \in rows /\ SameObject(r, p) /\ p.revision + 1 = r.revision
    BY <1>0, <1>1, <1>5 DEF Justified, Follows, SameObject
  <2>2. r.revision \in Nat /\ p.revision \in Nat
    BY <1>0, <1>1, <1>3, <2>1, RevisionsAreNumbers
  <2>3. \A s \in rows : SameObject(r, s) => s.revision <= p.revision
    BY <1>3, <2>1, <2>2
  <2> QED BY <1>5, <2>1, <2>2, <2>3 DEF r, p
<1> QED BY <1>4, <1>5

\* A commit is the whole operation, at that moment.
LEMMA CommitHappens ==
    ASSUME NEW h \in Handlers, Inv1, LedgerInv, JustifiedInv, HistoryInv, ServedInv, Gapless,
           Commit(h)
    PROVE  Ledger!Next
<1> DEFINE r == row[h]
<1> DEFINE p == previous[h]
<1> DEFINE c == call[h]
<1>0. /\ pc[h] = "commit" /\ rows' = rows \cup {r} /\ UNCHANGED <<stored, answers>>
      /\ audit' = audit \cup {[key |-> c.key, digest |-> c, result |-> r, previous |-> p]}
  BY DEF Commit
<1>1. /\ Justified(r, p) /\ r \in Row /\ rows \subseteq Row /\ r.kind = c.op
      /\ r.kind = "receipt" => r.data \in stored
  BY <1>0 DEF JustifiedInv, HandlersJustified, Prepares, Inv1, HandlersHold, TypeOK
<1>2. c \in Calls /\ c \in Call
  BY <1>0, CallsAssumption DEF Inv1, HandlersHold, TypeOK
<1>3. Serves(c, r, p) /\ (r.kind = "registration" => Matches(r.receipt, r.version))
  BY <1>0 DEF ServedInv, Prepares
<1>4. (\A a \in audit : a.key # c.key) /\ (\A s \in rows : ~SameUniqueKey(r, s))
  BY <1>0 DEF LedgerInv, Owners, CommittedDuplicate
<1>5. Ledger!Happens(c, r, p)
  BY <1>0, <1>4 DEF Ledger!Happens
<1>6. None \notin rows
  BY <1>1, NoneAssumption
<1>7. \A i, e : ReceiptIn(i, e) => Ledger!Received(i, e)
  BY DEF ReceiptIn, Ledger!Received
<1>8. r.kind \in {"engagement", "request"} =>
         /\ r.revision = 1 => p = None /\ \A s \in rows : ~SameObject(r, s)
         /\ r.revision # 1 =>
              /\ p \in rows /\ SameObject(r, p) /\ p.revision + 1 = r.revision
              /\ p.revision \in Nat
              /\ \A s \in rows : SameObject(r, s) => s.revision <= p.revision
  BY CommitContinues
<1> HIDE DEF r, p, c
<1>9. CASE c.op = "engagement"
  <2> DEFINE history == {d \in rows : d.kind = "engagement" /\ d.eng = c.eng}
  <2>1. /\ c.revision = c.expected + 1 /\ c.expected \in Nat
        /\ r = [kind |-> "engagement", eng |-> c.eng, revision |-> c.revision,
                scope |-> c.scope, status |-> c.status]
    BY <1>2, <1>3, <1>9
       DEF Serves, Call, EngagementCall, ReceiptCall, RegistrationCall, RequestCall
  <2>2. /\ r.kind = "engagement" /\ r.eng = c.eng /\ r.revision = c.revision
        /\ r.scope = c.scope
    BY <2>1
  <2>3. \A s \in rows : s \in history <=> SameObject(r, s)
    BY <2>2 DEF SameObject
  <2>4. c.expected = 0 => p = None /\ history = {}
    BY <1>8, <2>1, <2>2, <2>3
  <2>5. c.expected # 0 => /\ p \in history /\ p.revision = c.expected
                          /\ \A d \in history : d.revision <= p.revision
    BY <1>8, <2>1, <2>2, <2>3
  <2>6. \A d \in history : d.scope = c.scope
    <3> SUFFICES ASSUME NEW d \in history PROVE d.scope = c.scope
      OBVIOUS
    <3>1. p \in history /\ r.revision # 1
      BY <2>1, <2>2, <2>4, <2>5
    <3>2. p.scope = r.scope
      BY <1>1, <2>2, <3>1 DEF Justified, Follows
    <3> QED BY <2>2, <3>1, <3>2 DEF HistoryInv, ScopeFixed
  <2>7. p \in history \cup {None} /\ Ledger!Continues(c, p, history)
    BY <2>1, <2>4, <2>5 DEF Ledger!Continues, Ledger!Newest
  <2>8. Ledger!Revise(c)
    BY <1>5, <1>9, <2>1, <2>6, <2>7 DEF Ledger!Revise
  <2> QED BY <1>2, <2>8 DEF Ledger!Next
<1>10. CASE c.op = "receipt"
  <2>1. PICK i \in Ids : r = [kind |-> "receipt", eng |-> c.eng, id |-> i, data |-> c.data,
                              predecessor |-> c.predecessor]
    BY <1>3, <1>10 DEF Serves
  <2>2. /\ r.kind = "receipt" /\ r.id = i /\ r.data = c.data /\ r.eng = c.eng
        /\ r.predecessor = c.predecessor
    BY <2>1
  <2>3. Ledger!Unused(i, "receipt")
    BY <1>4, <2>2 DEF Ledger!Unused, SameUniqueKey
  <2>4. c.predecessor # None => Ledger!Received(c.predecessor, c.eng)
    BY <1>1, <1>7, <2>2 DEF Justified, Owned
  <2>5. p = None
    BY <1>3, <1>10 DEF Serves
  <2>6. Ledger!Receive(c)
    BY <1>1, <1>5, <1>10, <2>1, <2>2, <2>3, <2>4, <2>5 DEF Ledger!Receive
  <2> QED BY <1>2, <2>6 DEF Ledger!Next
<1>11. CASE c.op = "registration"
  <2>1. PICK i \in Ids : r = [kind |-> "registration", eng |-> c.eng, id |-> i,
                              receipt |-> c.receipt, version |-> c.version]
    BY <1>3, <1>11 DEF Serves
  <2>2. /\ r.kind = "registration" /\ r.id = i /\ r.receipt = c.receipt /\ r.eng = c.eng
        /\ r.version = c.version
    BY <2>1
  <2>3. Ledger!Unused(i, "registration")
    BY <1>4, <2>2 DEF Ledger!Unused, SameUniqueKey
  <2>4. \E d \in rows : /\ d.kind = "receipt" /\ d.id = c.receipt /\ d.eng = c.eng
                        /\ d.data \in stored /\ <<d.data, c.version>> \in Registered
    <3>1. PICK d \in rows : d.kind = "receipt" /\ d.id = c.receipt
                            /\ <<d.data, c.version>> \in Registered
      BY <1>3, <2>2 DEF Matches
    <3>2. PICK o \in rows : o.kind = "receipt" /\ o.id = c.receipt /\ o.eng = c.eng
      BY <1>1, <2>2 DEF Justified, Owned, ReceiptIn
    <3>3. d = o
      BY <3>1, <3>2 DEF LedgerInv, UniqueRows, SameUniqueKey
    <3> QED BY <3>1, <3>2, <3>3 DEF JustifiedInv, ReceiptsStored
  <2>5. p = None
    BY <1>3, <1>11 DEF Serves
  <2>6. Ledger!Associate(c)
    BY <1>5, <1>11, <2>1, <2>3, <2>4, <2>5 DEF Ledger!Associate
  <2> QED BY <1>2, <2>6 DEF Ledger!Next
<1>12. CASE c.op = "request"
  <2> DEFINE history == {d \in rows : d.kind = "request" /\ d.request = c.request}
  <2>1. /\ c.revision = c.expected + 1 /\ c.expected \in Nat
        /\ c.status \in {"EVIDENCE_RECEIVED", "FULFILMENT_REVIEWED"} => c.receipts # {}
        /\ r = [kind |-> "request", eng |-> c.eng, request |-> c.request,
                revision |-> c.revision, status |-> c.status, receipts |-> c.receipts]
    BY <1>2, <1>3, <1>12
       DEF Serves, Call, EngagementCall, ReceiptCall, RegistrationCall, RequestCall
  <2>2. /\ r.kind = "request" /\ r.request = c.request /\ r.revision = c.revision
        /\ r.eng = c.eng /\ r.status = c.status /\ r.receipts = c.receipts
    BY <2>1
  <2>3. \A s \in rows : s \in history <=> SameObject(r, s)
    BY <2>2 DEF SameObject
  <2>4. c.expected = 0 => p = None /\ history = {} /\ c.status = "OPEN"
    <3>1. c.expected = 0 => p = None /\ history = {}
      BY <1>8, <2>1, <2>2, <2>3
    <3>2. c.expected = 0 => r.revision = 1
      BY <2>1, <2>2
    <3> QED BY <1>1, <2>2, <3>1, <3>2 DEF Justified, Follows
  <2>5. c.expected # 0 => /\ p \in history /\ p.revision = c.expected /\ p \in rows
                          /\ \A d \in history : d.revision <= p.revision
    BY <1>8, <2>1, <2>2, <2>3
  <2>6. c.expected # 0 => p.eng = c.eng /\ Ledger!MayBecome(p, c.status)
    <3> SUFFICES ASSUME c.expected # 0 PROVE p.eng = c.eng /\ Ledger!MayBecome(p, c.status)
      OBVIOUS
    <3>1. p.eng = c.eng /\ c.status \in Allowed(p.status)
      <4>1. r.revision # 1
        BY <2>1, <2>2
      <4> QED BY <1>1, <2>2, <4>1 DEF Justified, Follows
    <3>2. p.status \in RequestStatus
      BY <1>1, <2>5 DEF Row, EngagementRow, ReceiptRow, RegistrationRow, RequestRow
    <3> QED BY <3>1, <3>2 DEF Allowed, RequestStatus, Ledger!MayBecome
  <2>7. \A d \in history : d.eng = c.eng
    <3> SUFFICES ASSUME NEW d \in history PROVE d.eng = c.eng
      OBVIOUS
    <3>1. p \in history /\ p.eng = c.eng
      BY <2>4, <2>5, <2>6
    <3> QED BY <3>1 DEF HistoryInv, RequestHistoryLegal
  <2>8. \A i \in c.receipts : Ledger!Received(i, c.eng)
    BY <1>1, <1>7, <2>2 DEF Justified, Owned
  <2>9. p \in history \cup {None} /\ Ledger!Continues(c, p, history)
    BY <2>1, <2>4, <2>5 DEF Ledger!Continues, Ledger!Newest
  <2>10. IF p = None THEN c.status = "OPEN" ELSE Ledger!MayBecome(p, c.status)
    BY <1>6, <2>4, <2>5, <2>6
  <2>11. Ledger!Ask(c)
    BY <1>5, <1>12, <2>1, <2>7, <2>8, <2>9, <2>10 DEF Ledger!Ask
  <2> QED BY <1>2, <2>11 DEF Ledger!Next
<1>13. c.op \in {"engagement", "receipt", "registration", "request"}
  BY <1>2 DEF Call, EngagementCall, ReceiptCall, RegistrationCall, RequestCall
<1> QED BY <1>9, <1>10, <1>11, <1>12, <1>13

\* A response, first or replayed, quotes an entry.
LEMMA AnswerReplies ==
    ASSUME NEW h \in Handlers, Inv1, LedgerInv, Replay(h) \/ Answer(h)
    PROVE  Ledger!Next \/ UNCHANGED Ledger!vars
<1>1. ASSUME NEW a \in audit, a.digest = call[h], Answered(h, a.result),
             UNCHANGED <<rows, audit, stored>>
      PROVE  Ledger!Next
  <2>1. Ledger!Reply(a)
    BY <1>1 DEF Answered, Ledger!Reply
  <2> QED BY <2>1 DEF Ledger!Next
<1>2. CASE Replay(h)
  <2>1. CASE UNCHANGED <<rows, audit, stored, answers>>
    BY <2>1 DEF Ledger!vars
  <2> QED BY <1>1, <1>2, <2>1 DEF Replay, Refuse
<1>3. CASE Answer(h)
  <2>1. PICK a \in audit : a.digest = call[h] /\ a.result = row[h]
    BY <1>3 DEF Answer, LedgerInv, Owners
  <2> QED BY <1>1, <1>3, <2>1 DEF Answer
<1> QED BY <1>2, <1>3

\* Every step of a handler is one of the ledger, or is not seen by it.
LEMMA StepImplements ==
    Inv1 /\ LedgerInv /\ JustifiedInv /\ HistoryInv /\ ServedInv /\ Gapless /\ [Next]_vars
        => [Ledger!Next]_(Ledger!vars)
<1> SUFFICES ASSUME Inv1, LedgerInv, JustifiedInv, HistoryInv, ServedInv, Gapless, [Next]_vars
             PROVE  Ledger!Next \/ UNCHANGED Ledger!vars
  OBVIOUS
<1>1. ASSUME NEW h \in Handlers, Put(h) PROVE Ledger!Next
  <2>1. row[h].data \in Blobs
    BY <1>1 DEF Put, Inv1, HandlersHold, TypeOK, Prepares,
       Row, EngagementRow, ReceiptRow, RegistrationRow, RequestRow
  <2>2. Ledger!Keep(row[h].data)
    BY <1>1 DEF Put, Ledger!Keep
  <2> QED BY <2>1, <2>2 DEF Ledger!Next
<1>2. ASSUME NEW h \in Handlers, Refuse(h) PROVE UNCHANGED Ledger!vars
  BY <1>2 DEF Refuse, Ledger!vars
<1>3. ASSUME NEW h \in Handlers, NEW c \in Calls, Start(h, c) PROVE UNCHANGED Ledger!vars
  BY <1>3 DEF Start, Ledger!vars
<1>4. ASSUME NEW h \in Handlers, Open(h) PROVE UNCHANGED Ledger!vars
  BY <1>2, <1>4 DEF Open, Ledger!vars
<1>5. ASSUME NEW h \in Handlers, Prepare(h) PROVE UNCHANGED Ledger!vars
  BY <1>2, <1>5, PreparedServes DEF Prepared, Ledger!vars
<1>6. ASSUME NEW h \in Handlers, Insert(h) PROVE UNCHANGED Ledger!vars
  BY <1>6 DEF Insert, Ledger!vars
<1>7. CASE UNCHANGED vars
  BY <1>7 DEF vars, Ledger!vars
<1> QED
  BY <1>1, <1>2, <1>3, <1>4, <1>5, <1>6, <1>7, CommitHappens, AnswerReplies
     DEF Next, Work, Reject, Fail

\* Any number of handlers, whose reads, checks, inserts, commits and responses come
\* between one another's and may stop anywhere, implement a ledger in which each
\* operation happens at once: what was checked before the commit holds at it.
THEOREM HandlersImplementLedger == Spec => ImplementsLedger
<1>1. Init => Ledger!Init /\ ServedInv /\ Gapless
  BY DEF Init, Ledger!Init, ServedInv, Gapless, Prepares
<1> QED BY <1>1, InitJustified, InitHistory, Inv1Inductive, LedgerInductive, JustifiedInductive,
           HistoryInductive, ServedInductive, GaplessInductive, StepImplements, PTL
           DEF Spec, ImplementsLedger, Ledger!Spec
=============================================================================
