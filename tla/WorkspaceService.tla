--------------------------- MODULE WorkspaceService ---------------------------
(***************************************************************************)
(* The workspace's write path: profit_doctor/workspace/service.py, run by  *)
(* the handlers of app.py.  Several HTTP handlers execute at once, each in *)
(* a database transaction of its own (persistence/database.py); the four   *)
(* write operations are save_engagement, receive, associate_registration   *)
(* and save_information.                                                   *)
(*                                                                         *)
(* A handler reads before its transaction writes: every SELECT sees what   *)
(* is committed at that moment, the INSERTs of one operation take their    *)
(* unique keys together (they are issued in one fixed table order, so no   *)
(* two handlers can hold keys the other needs), and COMMIT publishes all   *)
(* of them.  Between any two of these steps another handler may run, and   *)
(* the handler itself may die.                                             *)
(***************************************************************************)
EXTENDS Naturals, FiniteSets

CONSTANTS
    Handlers,       \* request handlers that can be in progress at once
    Keys,           \* Idempotency-Key header values
    Engagements,    \* engagement identifiers
    Requests,       \* information request identifiers
    Ids,            \* identifiers the server draws with uuid4
    Blobs,          \* contents of uploaded files, one per sha256
    Versions,       \* dataset versions known to the registration owner
    Scopes,         \* (entity, ledger, period) declarations
    Registered,     \* <<blob, version>> pairs the reader confirms
    Calls,          \* the calls clients send, a subset of Call
    None            \* absent value

EngagementStatus == {"OPEN", "CLOSED"}
RequestStatus == {"OPEN", "EVIDENCE_RECEIVED", "FULFILMENT_REVIEWED", "WITHDRAWN"}

\* What a client sends, one shape per write operation.  A call is also its own
\* digest: _replay hashes exactly these fields (the key apart).
EngagementCall ==
    [op: {"engagement"}, key: Keys, eng: Engagements, expected: Nat,
     revision: Nat \ {0}, scope: Scopes, status: EngagementStatus]
ReceiptCall ==
    [op: {"receipt"}, key: Keys, eng: Engagements, data: Blobs,
     predecessor: Ids \cup {None}]
RegistrationCall ==
    [op: {"registration"}, key: Keys, eng: Engagements, receipt: Ids,
     version: Versions]
RequestCall ==
    [op: {"request"}, key: Keys, eng: Engagements, request: Requests,
     expected: Nat, revision: Nat \ {0}, status: RequestStatus,
     receipts: SUBSET Ids]
Call == EngagementCall \cup ReceiptCall \cup RegistrationCall \cup RequestCall

\* Rows of workspace_engagement_revision, workspace_receipt,
\* workspace_registration_reference and workspace_information_request_revision.
\* A parent row (workspace_engagement, workspace_information_request) exists
\* exactly when revision 1 of its object does.
EngagementRow ==
    [kind: {"engagement"}, eng: Engagements, revision: Nat \ {0},
     scope: Scopes, status: EngagementStatus]
ReceiptRow ==
    [kind: {"receipt"}, eng: Engagements, id: Ids, data: Blobs,
     predecessor: Ids \cup {None}]
RegistrationRow ==
    [kind: {"registration"}, eng: Engagements, id: Ids, receipt: Ids,
     version: Versions]
RequestRow ==
    [kind: {"request"}, eng: Engagements, request: Requests,
     revision: Nat \ {0}, status: RequestStatus, receipts: SUBSET Ids]
Row == EngagementRow \cup ReceiptRow \cup RegistrationRow \cup RequestRow

\* A workspace_audit row: the operation's digest and result under its key, and
\* the document the operation replaced.
Audit == [key: Keys, digest: Call, result: Row, previous: Row \cup {None}]

ASSUME CallsAssumption == Calls \subseteq Call
ASSUME NoneAssumption == None \notin Ids \cup Row \cup Call

VARIABLES
    rows,       \* committed workflow rows
    audit,      \* committed audit rows
    stored,     \* contents the evidence store can read back
    pc,         \* pc[h]: the step handler h executes next
    call,       \* call[h]: the request it serves
    row,        \* row[h]: the row its transaction inserts
    previous,   \* previous[h]: the document it read as the one it replaces
    answers     \* successful responses clients have received

vars == <<rows, audit, stored, pc, call, row, previous, answers>>

Steps == {"idle", "open", "replay", "prepare", "put", "insert", "commit", "answer"}

-----------------------------------------------------------------------------
(* Tables *)

LatestEngagement(r, e) ==
    /\ r.kind = "engagement" /\ r.eng = e
    /\ \A s \in rows : s.kind = "engagement" /\ s.eng = e => s.revision <= r.revision

LatestRequest(r, q) ==
    /\ r.kind = "request" /\ r.request = q
    /\ \A s \in rows : s.kind = "request" /\ s.request = q => s.revision <= r.revision

IsOpen(e) == \E r \in rows : LatestEngagement(r, e) /\ r.status = "OPEN"

ReceiptIn(id, e) == \E r \in rows : r.kind = "receipt" /\ r.id = id /\ r.eng = e

\* UNIQUE(engagement_id, revision), UNIQUE(request_id, revision) and the
\* primary keys of receipts and registration references.
SameUniqueKey(r, s) ==
    /\ r.kind = s.kind
    /\ r.kind = "engagement" => r.eng = s.eng /\ r.revision = s.revision
    /\ r.kind = "request" => r.request = s.request /\ r.revision = s.revision
    /\ r.kind \in {"receipt", "registration"} => r.id = s.id

\* Mutant: the audit key is not unique.
CommittedRowDuplicate(h) == \E s \in rows : SameUniqueKey(row[h], s)

\* The inserts of h fail on a committed duplicate, and wait for one in flight.
CommittedDuplicate(h) ==
    \/ \E s \in rows : SameUniqueKey(row[h], s)
    \/ \E a \in audit : a.key = call[h].key

InFlightDuplicate(h, g) ==
    pc[g] = "commit" /\ (SameUniqueKey(row[h], row[g]) \/ call[h].key = call[g].key)

\* uuid4: no identifier in use is drawn again.
FreshIds ==
    {i \in Ids :
        /\ \A r \in rows : r.kind \in {"receipt", "registration"} => r.id # i
        /\ \A h \in Handlers :
              row[h] # None /\ row[h].kind \in {"receipt", "registration"} => row[h].id # i}

-----------------------------------------------------------------------------
(* Handlers *)

Init ==
    /\ rows = {} /\ audit = {} /\ stored = {} /\ answers = {}
    /\ pc = [h \in Handlers |-> "idle"]
    /\ call = [h \in Handlers |-> None]
    /\ row = [h \in Handlers |-> None]
    /\ previous = [h \in Handlers |-> None]

Goto(h, step) == pc' = [pc EXCEPT ![h] = step]

\* The response (or the exception) ends the request and its session.
Finish(h) ==
    /\ Goto(h, "idle")
    /\ call' = [call EXCEPT ![h] = None]
    /\ row' = [row EXCEPT ![h] = None]
    /\ previous' = [previous EXCEPT ![h] = None]

Refuse(h) == Finish(h) /\ UNCHANGED <<rows, audit, stored, answers>>

\* A request arrives.  receive is a coroutine without an await after its body
\* is read, so two receipts never overlap; the other handlers run on threads.
Start(h, c) ==
    /\ pc[h] = "idle"
    /\ c.op = "receipt" =>
         \A g \in Handlers : pc[g] # "idle" => call[g].op # "receipt"
    /\ Goto(h, IF c.op = "engagement" THEN "replay" ELSE "open")
    /\ call' = [call EXCEPT ![h] = c]
    /\ UNCHANGED <<rows, audit, stored, row, previous, answers>>

\* _open: a SELECT of the latest revision, before any transaction writes.
OpenCheck(c) ==
    IsOpen(c.eng) /\ (c.op = "registration" => ReceiptIn(c.receipt, c.eng))

Open(h) ==
    /\ pc[h] = "open"
    /\ IF OpenCheck(call[h])
       THEN Goto(h, "replay") /\ UNCHANGED <<rows, audit, stored, call, row, previous, answers>>
       ELSE Refuse(h)

Answered(h, result) ==
    answers' = answers \cup {[digest |-> call[h], result |-> result]}

\* Mutant: a known key answers whatever payload comes with it.
ReplayAnyPayload(h) ==
    /\ pc[h] = "replay"
    /\ \/ /\ \A a \in audit : a.key # call[h].key
          /\ Goto(h, "prepare")
          /\ UNCHANGED <<rows, audit, stored, call, row, previous, answers>>
       \/ \E a \in audit : /\ a.key = call[h].key
                          /\ Answered(h, a.result) /\ Finish(h)
                          /\ UNCHANGED <<rows, audit, stored>>

\* _replay: the key decides whether this operation was already done.
Replay(h) ==
    /\ pc[h] = "replay"
    /\ \/ /\ \A a \in audit : a.key # call[h].key
          /\ Goto(h, "prepare")
          /\ UNCHANGED <<rows, audit, stored, call, row, previous, answers>>
       \/ \E a \in audit :
            /\ a.key = call[h].key
            /\ IF a.digest = call[h] /\ (call[h].op = "receipt" => a.result.data \in stored)
               THEN Answered(h, a.result) /\ Finish(h) /\ UNCHANGED <<rows, audit, stored>>
               ELSE Refuse(h)

Prepared(h, step, r, p) ==
    /\ Goto(h, step)
    /\ row' = [row EXCEPT ![h] = r]
    /\ previous' = [previous EXCEPT ![h] = p]
    /\ UNCHANGED <<rows, audit, stored, call, answers>>

\* Mutant: the new revision number is taken as sent.
MayReviseUnnumbered(c, p) ==
    IF c.expected = 0 THEN p = None
    ELSE /\ p \in rows /\ LatestEngagement(p, c.eng)
         /\ p.revision = c.expected /\ p.scope = c.scope

\* Mutant: an edit may declare another scope.
MayReviseScope(c, p) ==
    /\ c.revision = c.expected + 1
    /\ IF c.expected = 0 THEN p = None
       ELSE p \in rows /\ LatestEngagement(p, c.eng) /\ p.revision = c.expected

\* save_engagement: p is the revision the caller edited, None for a new one.
MayRevise(c, p) ==
    /\ c.revision = c.expected + 1
    /\ IF c.expected = 0 THEN p = None
       ELSE /\ p \in rows /\ LatestEngagement(p, c.eng)
            /\ p.revision = c.expected /\ p.scope = c.scope

PrepareEngagement(h) ==
    LET c == call[h] IN
    /\ pc[h] = "prepare" /\ c.op = "engagement"
    /\ \/ \E p \in rows \cup {None} :
            /\ MayRevise(c, p)
            /\ Prepared(h, "insert",
                 [kind |-> "engagement", eng |-> c.eng, revision |-> c.revision,
                  scope |-> c.scope, status |-> c.status], p)
       \/ (\A p \in rows \cup {None} : ~MayRevise(c, p)) /\ Refuse(h)

\* receive: a predecessor must be a receipt of the same engagement.
MayReceive(c) == c.predecessor # None => ReceiptIn(c.predecessor, c.eng)

PrepareReceipt(h) ==
    LET c == call[h] IN
    /\ pc[h] = "prepare" /\ c.op = "receipt"
    /\ \/ MayReceive(c) /\ \E i \in FreshIds :
            Prepared(h, "put",
              [kind |-> "receipt", eng |-> c.eng, id |-> i, data |-> c.data,
               predecessor |-> c.predecessor], None)
       \/ ~MayReceive(c) /\ Refuse(h)

\* associate_registration: the retained bytes and the registered bytes agree.
MayRegister(c) ==
    \E r \in rows : /\ r.kind = "receipt" /\ r.id = c.receipt
                    /\ r.data \in stored /\ <<r.data, c.version>> \in Registered

PrepareRegistration(h) ==
    LET c == call[h] IN
    /\ pc[h] = "prepare" /\ c.op = "registration"
    /\ \/ MayRegister(c) /\ \E i \in FreshIds :
            Prepared(h, "insert",
              [kind |-> "registration", eng |-> c.eng, id |-> i,
               receipt |-> c.receipt, version |-> c.version], None)
       \/ ~MayRegister(c) /\ Refuse(h)

\* Mutant: a withdrawn request can be reopened.
AllowedAfterWithdrawal(status) ==
    IF status = "WITHDRAWN" THEN {"OPEN", "WITHDRAWN"} ELSE RequestStatus

\* The administrative transitions save_information allows.
Allowed(status) ==
    CASE status = "OPEN" -> {"OPEN", "EVIDENCE_RECEIVED", "WITHDRAWN"}
      [] status = "EVIDENCE_RECEIVED" ->
            {"OPEN", "EVIDENCE_RECEIVED", "FULFILMENT_REVIEWED", "WITHDRAWN"}
      [] status = "FULFILMENT_REVIEWED" -> {"OPEN", "FULFILMENT_REVIEWED", "WITHDRAWN"}
      [] OTHER -> {"WITHDRAWN"}

\* Mutant: the receipts a request names are not looked up.
MayRequestUnowned(c, p) ==
    /\ c.status \in {"EVIDENCE_RECEIVED", "FULFILMENT_REVIEWED"} => c.receipts # {}
    /\ c.revision = c.expected + 1
    /\ IF c.expected = 0 THEN p = None /\ c.status = "OPEN"
       ELSE /\ p \in rows /\ LatestRequest(p, c.request)
            /\ p.revision = c.expected /\ p.eng = c.eng
            /\ c.status \in Allowed(p.status)

\* The contract InformationRevision.governed and the checks of save_information.
MayRequest(c, p) ==
    /\ c.status \in {"EVIDENCE_RECEIVED", "FULFILMENT_REVIEWED"} => c.receipts # {}
    /\ c.revision = c.expected + 1
    /\ IF c.expected = 0 THEN p = None /\ c.status = "OPEN"
       ELSE /\ p \in rows /\ LatestRequest(p, c.request)
            /\ p.revision = c.expected /\ p.eng = c.eng
            /\ c.status \in Allowed(p.status)
    /\ \A i \in c.receipts : ReceiptIn(i, c.eng)

PrepareRequest(h) ==
    LET c == call[h] IN
    /\ pc[h] = "prepare" /\ c.op = "request"
    /\ \/ \E p \in rows \cup {None} :
            /\ MayRequest(c, p)
            /\ Prepared(h, "insert",
                 [kind |-> "request", eng |-> c.eng, request |-> c.request,
                  revision |-> c.revision, status |-> c.status,
                  receipts |-> c.receipts], p)
       \/ (\A p \in rows \cup {None} : ~MayRequest(c, p)) /\ Refuse(h)

\* Mutant: the transaction does not wait for the bytes.
PutLater(h) ==
    /\ pc[h] = "put"
    /\ Goto(h, "insert")
    /\ UNCHANGED <<rows, audit, stored, call, row, previous, answers>>

\* store.put: the bytes are durable before the transaction begins.
Put(h) ==
    /\ pc[h] = "put"
    /\ stored' = stored \cup {row[h].data}
    /\ Goto(h, "insert")
    /\ UNCHANGED <<rows, audit, call, row, previous, answers>>

\* The INSERTs of atomic(), the audit row among them.
Insert(h) ==
    /\ pc[h] = "insert"
    /\ ~CommittedDuplicate(h)
    /\ \A g \in Handlers \ {h} : ~InFlightDuplicate(h, g)
    /\ Goto(h, "commit")
    /\ UNCHANGED <<rows, audit, stored, call, row, previous, answers>>

\* Mutant: a handler waits for ever on a key its rival has committed.
RejectRowDuplicate(h) == pc[h] = "insert" /\ CommittedRowDuplicate(h) /\ Refuse(h)

\* IntegrityError: the whole transaction rolls back and the response is 409.
Reject(h) == pc[h] = "insert" /\ CommittedDuplicate(h) /\ Refuse(h)

Commit(h) ==
    /\ pc[h] = "commit"
    /\ rows' = rows \cup {row[h]}
    /\ audit' = audit \cup {[key |-> call[h].key, digest |-> call[h],
                             result |-> row[h], previous |-> previous[h]]}
    /\ Goto(h, "answer")
    /\ UNCHANGED <<stored, call, row, previous, answers>>

\* Mutant: the response carries the document that was replaced.
AnswerReplaced(h) ==
    /\ pc[h] = "answer"
    /\ Answered(h, previous[h])
    /\ Finish(h)
    /\ UNCHANGED <<rows, audit, stored>>

Answer(h) ==
    /\ pc[h] = "answer"
    /\ Answered(h, row[h])
    /\ Finish(h)
    /\ UNCHANGED <<rows, audit, stored>>

\* The process dies, the connection drops, a lock times out, a selected owner
\* raises, or the response is lost: session_scope rolls back what did not commit.
Fail(h) == pc[h] # "idle" /\ Refuse(h)

Prepare(h) ==
    \/ PrepareEngagement(h) \/ PrepareReceipt(h)
    \/ PrepareRegistration(h) \/ PrepareRequest(h)

Work(h) ==
    \/ Open(h) \/ Replay(h) \/ Prepare(h) \/ Put(h)
    \/ Insert(h) \/ Reject(h) \/ Commit(h) \/ Answer(h)

Next == \E h \in Handlers : (\E c \in Calls : Start(h, c)) \/ Work(h) \/ Fail(h)

Spec == Init /\ [][Next]_vars

\* The server schedules every handler, and the database grants a lock to its
\* waiters in turn, however often other holders come and go.
FairSpec == Spec /\ \A h \in Handlers : WF_vars(Work(h)) /\ SF_vars(Insert(h))

-----------------------------------------------------------------------------
(* Properties *)

TypeOK ==
    /\ rows \in SUBSET Row
    /\ audit \in SUBSET Audit
    /\ stored \in SUBSET Blobs
    /\ pc \in [Handlers -> Steps]
    /\ call \in [Handlers -> Calls \cup {None}]
    /\ row \in [Handlers -> Row \cup {None}]
    /\ previous \in [Handlers -> Row \cup {None}]
    /\ answers \in SUBSET [digest: Call, result: Row]

\* Exactly-once effect: the audit is a complete ledger of the workflow rows,
\* with one entry per idempotency key and one entry per row, however often a
\* call was retried and whatever handlers it raced with.
AuditIsLedger ==
    /\ rows = {a.result : a \in audit}
    /\ \A a, b \in audit : a.key = b.key \/ a.result = b.result => a = b

\* Every successful response, first or replayed, is the audited outcome of the
\* very request it answers: two answers to one key can never differ.
AnswersAreAudited ==
    \A x \in answers : \E a \in audit :
        a.key = x.digest.key /\ a.digest = x.digest /\ a.result = x.result

\* No lost update: a committed revision replaced the committed revision just
\* before it, which its audit row quotes; so histories have no gap and no fork.
RevisionsChain ==
    \A a \in audit : a.result.kind \in {"engagement", "request"} =>
        IF a.result.revision = 1 THEN a.previous = None
        ELSE /\ a.previous \in rows
             /\ a.previous.kind = a.result.kind
             /\ a.previous.revision + 1 = a.result.revision
             /\ IF a.result.kind = "engagement" THEN a.previous.eng = a.result.eng
                ELSE a.previous.request = a.result.request

\* The declared scope of an engagement never changes over its history.
ScopeFixed ==
    \A r, s \in rows :
        r.kind = "engagement" /\ s.kind = "engagement" /\ r.eng = s.eng => r.scope = s.scope

\* A request's committed history stays in one engagement, starts OPEN, is marked
\* reviewed only after evidence was received, and never leaves WITHDRAWN.
RequestHistoryLegal ==
    \A r, s \in rows :
        r.kind = "request" /\ s.kind = "request" /\ r.request = s.request =>
            /\ r.eng = s.eng
            /\ r.revision = 1 => r.status = "OPEN"
            /\ s.revision = r.revision + 1 =>
                 /\ r.status = "WITHDRAWN" => s.status = "WITHDRAWN"
                 /\ s.status = "FULFILMENT_REVIEWED" =>
                      r.status \in {"EVIDENCE_RECEIVED", "FULFILMENT_REVIEWED"}

\* Evidence never crosses engagements: predecessors, request evidence and
\* registrations refer to committed receipts of their own engagement.
EvidenceOwned ==
    \A r \in rows :
        /\ r.kind = "receipt" /\ r.predecessor # None => ReceiptIn(r.predecessor, r.eng)
        /\ r.kind = "registration" => ReceiptIn(r.receipt, r.eng)
        /\ r.kind = "request" => \A i \in r.receipts : ReceiptIn(i, r.eng)

\* A committed receipt, whatever failed on the way, has its bytes.
ReceiptsStored == \A r \in rows : r.kind = "receipt" => r.data \in stored

\* The handlers, whatever they interleave, retry or leave half done, implement a
\* ledger written one whole operation at a time: what a handler checked steps ago
\* still holds when it commits (service.py 119-255, 29-36).
Ledger ==
    INSTANCE WorkspaceLedger
    WITH documents <- rows, ledger <- audit, kept <- stored, replies <- answers

ImplementsLedger == Ledger!Spec

\* Every request ends: no handler waits for ever on another's transaction.
HandlersFinish == \A h \in Handlers : pc[h] # "idle" ~> pc[h] = "idle"

\* "Closed reviews remain viewable and require explicit reopening before
\* writes": nothing is committed into an engagement whose latest committed
\* revision is CLOSED, except a revision of the engagement itself.
ClosedRefusesWrites ==
    [][\A r \in rows' \ rows : r.kind # "engagement" => IsOpen(r.eng)]_vars

=============================================================================
