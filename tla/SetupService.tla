----------------------------- MODULE SetupService -----------------------------
(***************************************************************************)
(* Guided setup: profit_doctor/workspace/setup.py over the tables of       *)
(* persistence/setup_schema.py.  A save reads its key, then the latest     *)
(* revision, and appends the next one; CREATE_REVIEW also creates the      *)
(* engagement (by WorkspaceService.save_engagement, inside the same        *)
(* transaction) and links it.  Handlers interleave between these steps and *)
(* may die, as in WorkspaceService.                                        *)
(***************************************************************************)
EXTENDS Naturals

CONSTANTS
    Handlers,   \* request handlers that can be in progress at once
    Keys,       \* Idempotency-Key header values
    Drafts,     \* setup draft identifiers, drawn by the browser
    Fields,     \* values of SetupFields
    Scoped,     \* those SetupFields.scope accepts: title, owners and period given
    Reviews,    \* engagement identifiers the server draws with uuid4
    Calls,      \* the calls clients send, a subset of Call
    None        \* absent value

Lifecycle == {"DRAFT", "REVIEW_CREATED", "COMPLETE", "CANCELLED"}
Actions == {"SAVE", "CREATE_REVIEW", "COMPLETE", "CANCEL"}

\* SetupInput under its Idempotency-Key.  A call is also its own digest.
Call == [key: Keys, draft: Drafts, fields: Fields, expected: Nat,
         action: Actions, step: 1 .. 3]

\* A row of workspace_setup_revision, with the document it stores.
Revision == [draft: Drafts, revision: Nat \ {0}, fields: Fields, step: 1 .. 3,
             lifecycle: Lifecycle, review: Reviews \cup {None}, digest: Calls]

ASSUME CallsAssumption == Calls \subseteq Call
ASSUME ScopedAssumption == Scoped \subseteq Fields
ASSUME NoneAssumption ==
    None \notin Reviews \cup Fields \cup Revision \cup Call \cup [digest: Calls, result: Revision]

VARIABLES
    revisions,  \* committed setup revisions
    links,      \* committed <<draft, review>> rows of workspace_setup_review_link
    reviews,    \* committed engagements: <<review, the fields its scope is from>>
    pc,         \* pc[h]: the step handler h executes next
    call,       \* call[h]: the request it serves
    row,        \* row[h]: the revision its transaction inserts
    answer      \* the latest successful response, or None

vars == <<revisions, links, reviews, pc, call, row, answer>>

Steps == {"idle", "replay", "prepare", "insert", "commit", "answer"}

-----------------------------------------------------------------------------
(* Tables *)

Latest(r, d) ==
    r.draft = d /\ \A s \in revisions : s.draft = d => s.revision <= r.revision

\* SetupService.get: the document agrees with its link, and its fields with the
\* scope of the engagement it names.
Readable(r) ==
    r.review # None => <<r.draft, r.review>> \in links /\ <<r.review, r.fields>> \in reviews

\* Mutant: the link is not written.
NoLinks(r) == {}

\* The engagement, the draft's link and the next revision are one transaction.
NewLinks(r) == IF r.digest.action = "CREATE_REVIEW" THEN {<<r.draft, r.review>>} ELSE {}
NewReviews(r) == IF r.digest.action = "CREATE_REVIEW" THEN {<<r.review, r.fields>>} ELSE {}

\* Mutant: keys are checked before the transaction only.
SameRevisionKey(r, s) == r.draft = s.draft /\ r.revision = s.revision

\* uq_setup_revision_scope, uq_setup_revision_replay and the link's primary key.
SameUniqueKey(r, s) ==
    \/ r.draft = s.draft /\ r.revision = s.revision
    \/ r.digest.key = s.digest.key
    \/ /\ r.draft = s.draft
       /\ r.digest.action = "CREATE_REVIEW" /\ s.digest.action = "CREATE_REVIEW"

CommittedDuplicate(h) == \E s \in revisions : SameUniqueKey(row[h], s)

InFlightDuplicate(h, g) == pc[g] = "commit" /\ SameUniqueKey(row[h], row[g])

FreshReviews ==
    {e \in Reviews :
        /\ \A r \in revisions : r.review # e
        /\ \A h \in Handlers : row[h] # None => row[h].review # e}

-----------------------------------------------------------------------------
(* Handlers *)

Init ==
    /\ revisions = {} /\ links = {} /\ reviews = {} /\ answer = None
    /\ pc = [h \in Handlers |-> "idle"]
    /\ call = [h \in Handlers |-> None]
    /\ row = [h \in Handlers |-> None]

Goto(h, step) == pc' = [pc EXCEPT ![h] = step]

Finish(h) ==
    /\ Goto(h, "idle")
    /\ call' = [call EXCEPT ![h] = None]
    /\ row' = [row EXCEPT ![h] = None]

Refuse(h) == Finish(h) /\ UNCHANGED <<revisions, links, reviews, answer>>

Answered(h, r) == answer' = [digest |-> call[h], result |-> r]

Start(h, c) ==
    /\ pc[h] = "idle"
    /\ Goto(h, "replay")
    /\ call' = [call EXCEPT ![h] = c]
    /\ UNCHANGED <<revisions, links, reviews, row, answer>>

\* A known key answer with the revision it wrote, read back, or refuses.
Replay(h) ==
    /\ pc[h] = "replay"
    /\ \/ /\ \A r \in revisions : r.digest.key # call[h].key
          /\ Goto(h, "prepare")
          /\ UNCHANGED <<revisions, links, reviews, call, row, answer>>
       \/ \E r \in revisions :
            /\ r.digest.key = call[h].key
            /\ IF r.digest = call[h] /\ Readable(r)
               THEN Answered(h, r) /\ Finish(h) /\ UNCHANGED <<revisions, links, reviews>>
               ELSE Refuse(h)

\* A first save begins a draft, at its first step.
MayBegin(c) == c.expected = 0 /\ c.action = "SAVE" /\ c.step = 1

\* Mutant: the fields stay editable after the review is created.
MayReplaceFields(c, old) ==
    /\ c.expected # 0
    /\ Latest(old, c.draft) /\ Readable(old) /\ old.revision = c.expected
    /\ old.lifecycle \notin {"COMPLETE", "CANCELLED"}
    /\ c.action = "SAVE" /\ old.lifecycle = "DRAFT" => c.step = 1
    /\ c.action = "CREATE_REVIEW" => old.review = None /\ c.fields \in Scoped
    /\ c.action = "COMPLETE" => old.review # None /\ c.step = 3

\* Mutant: a complete draft can be cancelled.
MayReplaceFinal(c, old) ==
    /\ c.expected # 0
    /\ Latest(old, c.draft) /\ Readable(old) /\ old.revision = c.expected
    /\ old.lifecycle # "CANCELLED"
    /\ old.review # None => c.fields = old.fields
    /\ c.action = "SAVE" /\ old.lifecycle = "DRAFT" => c.step = 1
    /\ c.action = "CREATE_REVIEW" => old.review = None /\ c.fields \in Scoped
    /\ c.action = "COMPLETE" => old.review # None /\ c.step = 3

\* A later save replaces old, the latest revision, unless it is final; a review
\* fixes the fields, and a draft without one stays at step 1.
MayReplace(c, old) ==
    /\ c.expected # 0
    /\ Latest(old, c.draft) /\ Readable(old) /\ old.revision = c.expected
    /\ old.lifecycle \notin {"COMPLETE", "CANCELLED"}
    /\ old.review # None => c.fields = old.fields
    /\ c.action = "SAVE" /\ old.lifecycle = "DRAFT" => c.step = 1
    /\ c.action = "CREATE_REVIEW" => old.review = None /\ c.fields \in Scoped
    /\ c.action = "COMPLETE" => old.review # None /\ c.step = 3

NextLifecycle(c, old) ==
    CASE c.action = "SAVE" -> old.lifecycle
      [] c.action = "CREATE_REVIEW" -> "REVIEW_CREATED"
      [] c.action = "COMPLETE" -> "COMPLETE"
      [] c.action = "CANCEL" -> "CANCELLED"

Document(c, lifecycle, review) ==
    [draft |-> c.draft, revision |-> c.expected + 1, fields |-> c.fields,
     step |-> IF c.action = "CREATE_REVIEW" THEN 2 ELSE c.step,
     lifecycle |-> lifecycle, review |-> review, digest |-> c]

Prepared(h, r) ==
    /\ Goto(h, "insert")
    /\ row' = [row EXCEPT ![h] = r]
    /\ UNCHANGED <<revisions, links, reviews, call, answer>>

\* save, up to its transaction.
Prepare(h) ==
    LET c == call[h] IN
    /\ pc[h] = "prepare"
    /\ \/ MayBegin(c) /\ Prepared(h, Document(c, "DRAFT", None))
       \/ \E old \in revisions :
            /\ MayReplace(c, old)
            /\ IF c.action = "CREATE_REVIEW"
               THEN \E e \in FreshReviews :
                      Prepared(h, Document(c, NextLifecycle(c, old), e))
               ELSE Prepared(h, Document(c, NextLifecycle(c, old), old.review))
       \/ ~MayBegin(c) /\ (\A old \in revisions : ~MayReplace(c, old)) /\ Refuse(h)

Insert(h) ==
    /\ pc[h] = "insert"
    /\ ~CommittedDuplicate(h)
    /\ \A g \in Handlers \ {h} : ~InFlightDuplicate(h, g)
    /\ Goto(h, "commit")
    /\ UNCHANGED <<revisions, links, reviews, call, row, answer>>

Reject(h) == pc[h] = "insert" /\ CommittedDuplicate(h) /\ Refuse(h)

Commit(h) ==
    /\ pc[h] = "commit"
    /\ revisions' = revisions \cup {row[h]}
    /\ links' = links \cup NewLinks(row[h])
    /\ reviews' = reviews \cup NewReviews(row[h])
    /\ Goto(h, "answer")
    /\ UNCHANGED <<call, row, answer>>

Answer(h) ==
    /\ pc[h] = "answer"
    /\ Answered(h, row[h])
    /\ Finish(h)
    /\ UNCHANGED <<revisions, links, reviews>>

\* The process dies, a lock times out, or the response is lost.
Fail(h) == pc[h] # "idle" /\ Refuse(h)

Next ==
    \E h \in Handlers :
        \/ \E c \in Calls : Start(h, c)
        \/ Replay(h) \/ Prepare(h) \/ Insert(h) \/ Reject(h) \/ Commit(h)
        \/ Answer(h) \/ Fail(h)

Spec == Init /\ [][Next]_vars

-----------------------------------------------------------------------------
(* Properties *)

TypeOK ==
    /\ revisions \in SUBSET Revision
    /\ links \in SUBSET (Drafts \X Reviews)
    /\ reviews \in SUBSET (Reviews \X Fields)
    /\ pc \in [Handlers -> Steps]
    /\ call \in [Handlers -> Calls \cup {None}]
    /\ row \in [Handlers -> Revision \cup {None}]
    /\ answer \in [digest: Calls, result: Revision] \cup {None}

\* What is committed can be read back: no order of saves, retries and failures
\* leaves a revision whose link or review scope get refuses, which would lock
\* the adviser out of the draft.
EveryRevisionReadable == \A r \in revisions : Readable(r)

\* No orphan and no shared review: each engagement setup created is linked to
\* one draft, each linked draft has one review, and its latest revision says so.
ReviewsBelongToDrafts ==
    /\ \A x \in reviews : \E l \in links : l[2] = x[1]
    /\ \A l, m \in links : l[1] = m[1] \/ l[2] = m[2] => l = m
    /\ \A l \in links, r \in revisions : Latest(r, l[1]) => r.review = l[2]

\* A retried save is answered with its own first outcome, and histories have
\* neither forks nor gaps, whatever raced.
SavesApplyOnce ==
    /\ \A r, s \in revisions :
         r.digest.key = s.digest.key \/ (r.draft = s.draft /\ r.revision = s.revision) => r = s
    /\ \A r \in revisions : r.revision > 1 =>
         \E s \in revisions : s.draft = r.draft /\ s.revision + 1 = r.revision
    /\ answer # None => answer.result \in revisions /\ answer.result.digest = answer.digest

\* The state of a draft is its latest committed revision.
StateOf(d) ==
    IF \A r \in revisions : r.draft # d
    THEN [lifecycle |-> "ABSENT", fields |-> None, review |-> None]
    ELSE LET r == CHOOSE r \in revisions : Latest(r, d)
         IN  [lifecycle |-> r.lifecycle, fields |-> r.fields, review |-> r.review]

Lifecycles == INSTANCE SetupLifecycle WITH setup <- [d \in Drafts |-> StateOf(d)]

\* Concurrent, retried and failing saves implement the draft's life cycle: one
\* review at most, fixed fields once it exists, and final states that are final.
ImplementsLifecycle == Lifecycles!Spec
=============================================================================
