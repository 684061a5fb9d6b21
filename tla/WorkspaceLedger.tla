---------------------------- MODULE WorkspaceLedger ----------------------------
(***************************************************************************)
(* What the workspace promises its clients: one ledger, written one entry  *)
(* at a time.  An operation happens at once and at most once per key: it   *)
(* replaces the latest revision there is at that moment, and the evidence  *)
(* it names is already there, of its own engagement and with its bytes.    *)
(* A reply, however often it is asked for, quotes an entry.                *)
(* WorkspaceService implements this, with handlers that read, check, store *)
(* bytes and commit in steps of their own.                                 *)
(*                                                                         *)
(* Nothing is promised about an engagement being open: that is looked at   *)
(* before the operation happens (ClosedRefusesWrites).                     *)
(***************************************************************************)
EXTENDS Naturals

CONSTANTS
    Calls,          \* the calls clients send, each with its key and operation
    Ids,            \* identifiers of receipts and registrations
    Blobs,          \* contents of uploaded files
    Registered,     \* <<blob, version>>: the contents of each dataset version
    None            \* absent value

VARIABLES
    documents,      \* revisions, receipts and registrations, as readers find them
    ledger,         \* one entry per operation that happened
    kept,           \* contents that can be read back
    replies         \* what clients have been told

vars == <<documents, ledger, kept, replies>>

Init == documents = {} /\ ledger = {} /\ kept = {} /\ replies = {}

\* Operation c happens: it writes document d in place of old.
Happens(c, d, old) ==
    /\ \A e \in ledger : e.key # c.key
    /\ documents' = documents \cup {d}
    /\ ledger' = ledger \cup {[key |-> c.key, digest |-> c, result |-> d, previous |-> old]}
    /\ UNCHANGED <<kept, replies>>

Received(i, e) ==
    \E d \in documents : d.kind = "receipt" /\ d.id = i /\ d.eng = e

Unused(i, kind) == \A d \in documents : d.kind = kind => d.id # i

\* old is the one revision there is now that no other one has replaced.
Newest(old, history) == old \in history /\ \A d \in history : d.revision <= old.revision

\* A history begins when it has no revision yet, or goes on from its newest one.
Continues(c, old, history) ==
    /\ c.revision = c.expected + 1
    /\ IF c.expected = 0 THEN history = {} /\ old = None
       ELSE Newest(old, history) /\ old.revision = c.expected

-----------------------------------------------------------------------------

\* A business review is created, or edited, closed or reopened in its scope.
Revise(c) ==
    LET history == {d \in documents : d.kind = "engagement" /\ d.eng = c.eng} IN
    /\ c.op = "engagement"
    /\ \E old \in history \cup {None} :
         /\ Continues(c, old, history)
         /\ \A d \in history : d.scope = c.scope
         /\ Happens(c, [kind |-> "engagement", eng |-> c.eng, revision |-> c.revision,
                        scope |-> c.scope, status |-> c.status], old)

\* An original is received.
Receive(c) ==
    /\ c.op = "receipt" /\ c.data \in kept
    /\ c.predecessor # None => Received(c.predecessor, c.eng)
    /\ \E i \in Ids :
         /\ Unused(i, "receipt")
         /\ Happens(c, [kind |-> "receipt", eng |-> c.eng, id |-> i, data |-> c.data,
                        predecessor |-> c.predecessor], None)

\* A received original is recognised as the contents of a dataset version.
Associate(c) ==
    /\ c.op = "registration"
    /\ \E d \in documents : /\ d.kind = "receipt" /\ d.id = c.receipt /\ d.eng = c.eng
                            /\ d.data \in kept /\ <<d.data, c.version>> \in Registered
    /\ \E i \in Ids :
         /\ Unused(i, "registration")
         /\ Happens(c, [kind |-> "registration", eng |-> c.eng, id |-> i,
                        receipt |-> c.receipt, version |-> c.version], None)

\* A request may be withdrawn for good, and is reviewed on evidence only.
MayBecome(old, status) ==
    /\ old.status = "WITHDRAWN" => status = "WITHDRAWN"
    /\ status = "FULFILMENT_REVIEWED" =>
         old.status \in {"EVIDENCE_RECEIVED", "FULFILMENT_REVIEWED"}

\* Information is asked for, answered by evidence, reviewed or withdrawn.
Ask(c) ==
    LET history == {d \in documents : d.kind = "request" /\ d.request = c.request} IN
    /\ c.op = "request"
    /\ c.status \in {"EVIDENCE_RECEIVED", "FULFILMENT_REVIEWED"} => c.receipts # {}
    /\ \A i \in c.receipts : Received(i, c.eng)
    /\ \E old \in history \cup {None} :
         /\ Continues(c, old, history)
         /\ IF old = None THEN c.status = "OPEN" ELSE MayBecome(old, c.status)
         /\ \A d \in history : d.eng = c.eng
         /\ Happens(c, [kind |-> "request", eng |-> c.eng, request |-> c.request,
                        revision |-> c.revision, status |-> c.status,
                        receipts |-> c.receipts], old)

\* Bytes arrive before the receipt that names them, and perhaps without one.
Keep(b) == kept' = kept \cup {b} /\ UNCHANGED <<documents, ledger, replies>>

Reply(e) ==
    /\ replies' = replies \cup {[digest |-> e.digest, result |-> e.result]}
    /\ UNCHANGED <<documents, ledger, kept>>

Next ==
    \/ \E b \in Blobs : Keep(b)
    \/ \E e \in ledger : Reply(e)
    \/ \E c \in Calls : Revise(c) \/ Receive(c) \/ Associate(c) \/ Ask(c)

Spec == Init /\ [][Next]_vars
=============================================================================
