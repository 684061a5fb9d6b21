-------------------------- MODULE SetupService_proofs --------------------------
(***************************************************************************)
(* Theorems about SetupService, for any number of handlers, drafts and     *)
(* reviews: its invariants, and that it implements SetupLifecycle.  The    *)
(* inductive invariant says what a handler holds (Held), which unique keys *)
(* it owns (Owned), that a revision about to be inserted either follows    *)
(* the latest one of its draft or was overtaken (Orderly), and how         *)
(* revisions, links and reviews belong together (Linked).                  *)
(***************************************************************************)
EXTENDS SetupService, TLAPS

\* The steps at which a handler has a revision to commit.
InFlight == {"insert", "commit"}

-----------------------------------------------------------------------------
(* Layer 1: what a handler holds *)

\* What lifecycle, action and review of one revision have to do with each other.
Shaped(r) ==
    /\ r.lifecycle = "DRAFT" => r.review = None
    /\ r.lifecycle \in {"REVIEW_CREATED", "COMPLETE"} => r.review # None
    /\ r.digest.action = "CREATE_REVIEW" => r.lifecycle = "REVIEW_CREATED"

\* A busy handler serves a call; once prepared it holds the revision of that call,
\* and the last answer is a committed revision.
Held ==
    /\ \A h \in Handlers :
         /\ pc[h] # "idle" => call[h] \in Calls
         /\ pc[h] \in InFlight \cup {"answer"} =>
              row[h] \in Revision /\ row[h].digest = call[h] /\ Shaped(row[h])
         /\ pc[h] \in {"idle", "replay", "prepare"} => row[h] = None
         /\ pc[h] = "answer" => row[h] \in revisions
    /\ \A r \in revisions : Shaped(r)
    /\ answer # None => answer.result \in revisions /\ answer.result.digest = answer.digest

Inv1 == TypeOK /\ Held

\* The document a call stores is a revision of the schema.
LEMMA DocumentIsRevision ==
    ASSUME NEW c \in Calls, NEW l \in Lifecycle, NEW e \in Reviews \cup {None}
    PROVE  /\ Document(c, l, e) \in Revision
           /\ Document(c, l, e).draft = c.draft /\ Document(c, l, e).digest = c
           /\ Document(c, l, e).revision = c.expected + 1
           /\ Document(c, l, e).fields = c.fields
           /\ Document(c, l, e).lifecycle = l /\ Document(c, l, e).review = e
BY CallsAssumption DEF Document, Revision, Call

\* What a save lets through to its transaction, as one revision.
Begins(r) ==
    /\ r.revision = 1 /\ r.digest.action = "SAVE"
    /\ r.lifecycle = "DRAFT" /\ r.review = None

\* r is what save makes of old, the latest revision of the draft.
Replaces(r, old) ==
    /\ old.revision + 1 = r.revision
    /\ old.lifecycle \notin {"COMPLETE", "CANCELLED"}
    /\ old.review # None => r.fields = old.fields
    /\ r.lifecycle = NextLifecycle(r.digest, old)
    /\ IF r.digest.action = "CREATE_REVIEW"
       THEN old.review = None /\ r.fields \in Scoped
       ELSE r.review = old.review
    /\ r.digest.action = "COMPLETE" => old.review # None

\* The checks of save leave a revision that begins its draft or replaces the
\* latest revision of it.
LEMMA PreparedRevision ==
    ASSUME Inv1, NEW h \in Handlers, Prepare(h)
    PROVE  \/ Refuse(h)
           \/ \E r \in Revision :
                /\ Prepared(h, r) /\ r.digest = call[h] /\ Shaped(r)
                /\ \/ Begins(r)
                   \/ /\ \E old \in revisions : Latest(old, r.draft) /\ Replaces(r, old)
                      /\ r.digest.action = "CREATE_REVIEW" => r.review \in FreshReviews
<1> DEFINE c == call[h]
<1>1. c \in Calls /\ c \in Call /\ c.expected \in Nat /\ c.action \in Actions
    BY CallsAssumption DEF Inv1, Held, Prepare, Call
<1>2. CASE MayBegin(c) /\ Prepared(h, Document(c, "DRAFT", None))
    <2> DEFINE r == Document(c, "DRAFT", None)
    <2>1. r \in Revision /\ r.digest = c /\ r.revision = 1 /\ r.lifecycle = "DRAFT"
          /\ r.review = None
        BY <1>1, <1>2, DocumentIsRevision DEF MayBegin, Lifecycle
    <2>2. Begins(r) /\ Shaped(r)
        BY <1>2, <2>1 DEF Begins, MayBegin, Shaped
    <2> QED  BY <1>2, <2>1, <2>2
<1>3. ASSUME NEW old \in revisions, MayReplace(c, old),
             NEW e \in Reviews \cup {None},
             Prepared(h, Document(c, NextLifecycle(c, old), e)),
             IF c.action = "CREATE_REVIEW" THEN e \in FreshReviews ELSE e = old.review
      PROVE  \E r \in Revision :
                /\ Prepared(h, r) /\ r.digest = call[h] /\ Shaped(r)
                /\ \E o \in revisions : Latest(o, r.draft) /\ Replaces(r, o)
                /\ r.digest.action = "CREATE_REVIEW" => r.review \in FreshReviews
    <2> DEFINE r == Document(c, NextLifecycle(c, old), e)
    <2>1. old \in Revision /\ old.lifecycle \in Lifecycle
        BY DEF Inv1, TypeOK, Revision
    <2>2. NextLifecycle(c, old) \in Lifecycle
        BY <1>1, <2>1 DEF NextLifecycle, Actions, Lifecycle
    <2>3. /\ r \in Revision /\ r.digest = c /\ r.draft = c.draft
          /\ r.revision = c.expected + 1 /\ r.fields = c.fields
          /\ r.lifecycle = NextLifecycle(c, old) /\ r.review = e
        BY <1>1, <2>2, DocumentIsRevision
    <2> HIDE DEF r
    <2>4. Latest(old, r.draft) /\ Replaces(r, old)
        BY <1>3, <2>3 DEF MayReplace, Replaces
    <2>5. Shaped(old) /\ (c.action = "CREATE_REVIEW" => e # None)
        BY <1>3, NoneAssumption DEF Inv1, Held, FreshReviews
    <2>6. Shaped(r)
        BY <1>1, <2>1, <2>3, <2>4, <2>5
           DEF Shaped, Replaces, NextLifecycle, Actions, Lifecycle
    <2> QED  BY <1>3, <2>3, <2>4, <2>6 DEF r
<1>4. ASSUME NEW old \in revisions PROVE old.review \in Reviews \cup {None}
    BY DEF Inv1, TypeOK, Revision
<1>5. FreshReviews \subseteq Reviews
    BY DEF FreshReviews
<1> QED  BY <1>2, <1>3, <1>4, <1>5 DEF Prepare

\* Every step keeps the types and what handlers hold.
LEMMA Inv1Inductive == Inv1 /\ [Next]_vars => Inv1'
<1> SUFFICES ASSUME Inv1, [Next]_vars PROVE Inv1'
    OBVIOUS
<1> USE NoneAssumption DEF Inv1, TypeOK, Held, Steps, InFlight
<1>1. ASSUME NEW h \in Handlers, Refuse(h) PROVE Inv1'
    BY <1>1 DEF Refuse, Finish, Goto
<1>2. ASSUME NEW h \in Handlers, NEW c \in Calls, Start(h, c) PROVE Inv1'
    BY <1>2 DEF Start, Goto
<1>3. ASSUME NEW h \in Handlers, Replay(h) PROVE Inv1'
    <2>1. CASE Goto(h, "prepare") /\ UNCHANGED <<revisions, links, reviews, call, row, answer>>
        BY <1>3, <2>1 DEF Replay, Goto
    <2>2. ASSUME NEW r \in revisions, r.digest = call[h], Answered(h, r), Finish(h),
                 UNCHANGED <<revisions, links, reviews>>
          PROVE  Inv1'
        <3>1. r \in Revision /\ call[h] \in Calls
            BY <1>3 DEF Replay
        <3>2. answer' = [digest |-> call[h], result |-> r]
            BY <2>2 DEF Answered
        <3>3. answer' \in [digest: Calls, result: Revision]
            BY <3>1, <3>2
        <3> QED  BY <2>2, <3>2, <3>3 DEF Finish, Goto
    <2> QED  BY <1>1, <1>3, <2>1, <2>2 DEF Replay
<1>4. ASSUME NEW h \in Handlers, NEW r \in Revision, Prepared(h, r), r.digest = call[h], Shaped(r),
             pc[h] = "prepare"
      PROVE  Inv1'
    BY <1>4 DEF Prepared, Goto
<1>5. ASSUME NEW h \in Handlers, Prepare(h) PROVE Inv1'
    BY <1>1, <1>4, <1>5, PreparedRevision DEF Prepare
<1>6. ASSUME NEW h \in Handlers, Insert(h) PROVE Inv1'
    BY <1>6 DEF Insert, Goto
<1>7. ASSUME NEW h \in Handlers, Commit(h) PROVE Inv1'
    <2>1. row[h] \in Revision /\ Shaped(row[h])
        BY <1>7 DEF Commit
    <2>2. row[h].digest.action = "CREATE_REVIEW" => row[h].review \in Reviews
        BY <2>1 DEF Shaped, Revision
    <2>3. NewLinks(row[h]) \subseteq Drafts \X Reviews
        BY <2>1, <2>2 DEF NewLinks, Revision
    <2>4. NewReviews(row[h]) \subseteq Reviews \X Fields
        BY <2>1, <2>2 DEF NewReviews, Revision
    <2> QED  BY <1>7, <2>1, <2>3, <2>4 DEF Commit, Goto
<1>8. ASSUME NEW h \in Handlers, Answer(h) PROVE Inv1'
    <2>1. row[h] \in Revision /\ call[h] \in Calls /\ row[h] \in revisions
          /\ row[h].digest = call[h]
        BY <1>8 DEF Answer
    <2>2. answer' = [digest |-> call[h], result |-> row[h]]
        BY <1>8 DEF Answer, Answered
    <2>3. answer' \in [digest: Calls, result: Revision]
        BY <2>1, <2>2
    <2> QED  BY <1>8, <2>1, <2>2, <2>3 DEF Answer, Finish, Goto
<1>9. CASE UNCHANGED vars
    BY <1>9 DEF vars
<1> QED
    BY <1>1, <1>2, <1>3, <1>5, <1>6, <1>7, <1>8, <1>9 DEF Next, Reject, Fail

\* The variables of setup keep their types.
THEOREM TypeCorrect == Spec => []TypeOK
<1>1. Init => Inv1
    BY NoneAssumption DEF Init, Inv1, TypeOK, Held, Steps, InFlight
<1>2. Inv1 => TypeOK
    BY DEF Inv1
<1> QED  BY <1>1, <1>2, Inv1Inductive, PTL DEF Spec

-----------------------------------------------------------------------------
(* Layer 2: unique keys have one owner, and a drawn review one draft *)

\* Unique keys belong to one committed revision, or to one open transaction.
Owned ==
    /\ \A r, s \in revisions : SameUniqueKey(r, s) => r = s
    /\ \A h \in Handlers : pc[h] = "commit" =>
         /\ ~CommittedDuplicate(h)
         /\ \A g \in Handlers \ {h} : ~InFlightDuplicate(h, g)

\* The review an open transaction creates is named by nothing else yet.
Drawn ==
    \A h \in Handlers :
        pc[h] \in InFlight /\ row[h].digest.action = "CREATE_REVIEW" =>
            /\ \A r \in revisions : r.review # row[h].review
            /\ \A g \in Handlers \ {h} : pc[g] \in InFlight => row[g].review # row[h].review

\* How the steps that do not commit a revision change what handlers hold.
Quiet(h) ==
    /\ UNCHANGED <<revisions, links, reviews>>
    /\ \A g \in Handlers \ {h} : pc'[g] = pc[g] /\ row'[g] = row[g]
    /\ \/ pc'[h] \notin InFlight
       \/ pc'[h] = "insert" /\ pc[h] = "prepare" /\ Prepare(h)
       \/ pc'[h] = "commit" /\ pc[h] = "insert" /\ row'[h] = row[h] /\ Insert(h)

\* Every step publishes a revision, or changes at most one handler.
LEMMA StepIsQuietOrCommit ==
    ASSUME Inv1, [Next]_vars
    PROVE  \/ \E h \in Handlers : Quiet(h) \/ Commit(h)
           \/ UNCHANGED <<revisions, links, reviews, pc, row>>
<1> USE DEF Inv1, TypeOK, InFlight
<1>1. ASSUME NEW h \in Handlers, Finish(h), UNCHANGED <<revisions, links, reviews>>
      PROVE  Quiet(h)
    BY <1>1 DEF Quiet, Finish, Goto
<1>2. ASSUME NEW h \in Handlers, Refuse(h) PROVE Quiet(h)
    BY <1>1, <1>2 DEF Refuse
<1>3. ASSUME NEW h \in Handlers, NEW c \in Calls, Start(h, c) PROVE Quiet(h)
    BY <1>3 DEF Start, Goto, Quiet
<1>4. ASSUME NEW h \in Handlers, Replay(h) PROVE Quiet(h)
    <2>1. CASE Goto(h, "prepare") /\ UNCHANGED <<revisions, links, reviews, call, row, answer>>
        BY <2>1 DEF Goto, Quiet
    <2> QED  BY <1>1, <1>2, <1>4, <2>1 DEF Replay
<1>5. ASSUME NEW h \in Handlers, Prepare(h) PROVE Quiet(h)
    <2>1. ASSUME NEW r \in Revision, Prepared(h, r) PROVE Quiet(h)
        BY <1>5, <2>1 DEF Prepared, Goto, Quiet, Prepare
    <2> QED  BY <1>2, <1>5, <2>1, PreparedRevision
<1>6. ASSUME NEW h \in Handlers, Insert(h) PROVE Quiet(h)
    BY <1>6 DEF Insert, Goto, Quiet
<1>7. ASSUME NEW h \in Handlers, Answer(h) PROVE Quiet(h)
    BY <1>1, <1>7 DEF Answer
<1> QED
    BY <1>2, <1>3, <1>4, <1>5, <1>6, <1>7 DEF Next, Reject, Fail, vars

\* Sharing a unique key is symmetric.
LEMMA SameUniqueKeySymmetric ==
    ASSUME NEW r, NEW s PROVE SameUniqueKey(r, s) <=> SameUniqueKey(s, r)
BY DEF SameUniqueKey

\* An insert takes keys nobody has or holds.
LEMMA QuietOwned ==
    ASSUME Inv1, Owned, NEW h \in Handlers, Quiet(h) PROVE Owned'
<1> USE DEF Owned, Inv1, TypeOK, InFlight
<1>1. \A r, s \in revisions' : SameUniqueKey(r, s) => r = s
    BY DEF Quiet
<1>2. ASSUME NEW g \in Handlers, pc'[g] = "commit"
      PROVE  /\ row'[g] = row[g]
             /\ \A s \in revisions' : ~SameUniqueKey(row[g], s)
             /\ \A k \in Handlers \ {g} : pc'[k] = "commit" =>
                  row'[k] = row[k] /\ ~SameUniqueKey(row[g], row[k])
    <2>1. CASE pc'[h] = "commit"
        <3>1. Insert(h) /\ row'[h] = row[h]
            BY <2>1 DEF Quiet
        <3>2. \A k \in Handlers \ {h} : pc[k] = "commit" => ~SameUniqueKey(row[h], row[k])
            BY <3>1 DEF Insert, InFlightDuplicate
        <3>3. \A s \in revisions : ~SameUniqueKey(row[h], s)
            BY <3>1 DEF Insert, CommittedDuplicate
        <3>4. CASE g = h
            BY <3>1, <3>2, <3>3, <3>4 DEF Quiet
        <3>5. CASE g # h
            BY <1>2, <3>1, <3>2, <3>5, SameUniqueKeySymmetric
               DEF Quiet, CommittedDuplicate, InFlightDuplicate
        <3> QED  BY <3>4, <3>5
    <2>2. CASE pc'[h] # "commit"
        BY <1>2, <2>2 DEF Quiet, CommittedDuplicate, InFlightDuplicate
    <2> QED  BY <2>1, <2>2
<1> QED  BY <1>1, <1>2 DEF CommittedDuplicate, InFlightDuplicate

\* A commit turns keys held into keys taken.
LEMMA CommitOwned ==
    ASSUME Inv1, Owned, NEW h \in Handlers, Commit(h) PROVE Owned'
<1> USE DEF Owned, Inv1, TypeOK
<1>1. \A s \in revisions : ~SameUniqueKey(row[h], s) /\ ~SameUniqueKey(s, row[h])
    BY SameUniqueKeySymmetric DEF Commit, CommittedDuplicate
<1>2. \A r, s \in revisions' : SameUniqueKey(r, s) => r = s
    BY <1>1 DEF Commit
<1>3. ASSUME NEW g \in Handlers, pc'[g] = "commit"
      PROVE  /\ row'[g] = row[g]
             /\ \A s \in revisions' : ~SameUniqueKey(row[g], s)
             /\ \A k \in Handlers \ {g} : pc'[k] = "commit" =>
                  row'[k] = row[k] /\ ~SameUniqueKey(row[g], row[k])
    <2>1. g # h /\ pc[g] = "commit" /\ row' = row
        BY <1>3 DEF Commit, Goto
    <2>2. ~SameUniqueKey(row[g], row[h])
        BY <2>1 DEF InFlightDuplicate, Commit
    <2>3. \A s \in revisions : ~SameUniqueKey(row[g], s)
        BY <2>1 DEF CommittedDuplicate
    <2> QED  BY <2>1, <2>2, <2>3 DEF Commit, Goto, InFlightDuplicate
<1> QED  BY <1>2, <1>3 DEF CommittedDuplicate, InFlightDuplicate

\* A review is drawn fresh, and a copied one was already in a revision.
LEMMA QuietDrawn ==
    ASSUME Inv1, Inv1', Drawn, NEW h \in Handlers, Quiet(h) PROVE Drawn'
<1> USE NoneAssumption DEF Drawn, Inv1, TypeOK, Held, InFlight
<1>1. CASE pc'[h] \notin InFlight
    BY <1>1 DEF Quiet
<1>2. CASE pc'[h] = "commit" /\ pc[h] = "insert" /\ row'[h] = row[h]
    BY <1>2 DEF Quiet
<1>3. CASE pc'[h] = "insert" /\ Prepare(h)
    <2>1. PICK r \in Revision :
            /\ Prepared(h, r) /\ Shaped(r)
            /\ \/ Begins(r)
               \/ /\ \E old \in revisions : Latest(old, r.draft) /\ Replaces(r, old)
                  /\ r.digest.action = "CREATE_REVIEW" => r.review \in FreshReviews
        <3>1. ~Refuse(h)
            BY <1>3 DEF Refuse, Finish, Goto
        <3> QED  BY <1>3, <3>1, PreparedRevision
    <2>2. row' = [row EXCEPT ![h] = r] /\ pc' = [pc EXCEPT ![h] = "insert"]
          /\ revisions' = revisions
        BY <2>1 DEF Prepared, Goto
    <2>3. CASE r.digest.action = "CREATE_REVIEW"
        <3>1. r.review \in FreshReviews
            BY <2>1, <2>3 DEF Begins
        <3>2. \A s \in revisions : s.review # r.review
            BY <3>1 DEF FreshReviews
        <3>3. \A g \in Handlers \ {h} : pc[g] \in InFlight => row[g].review # r.review
            BY <3>1 DEF FreshReviews
        <3> QED  BY <2>2, <3>2, <3>3
    <2>4. CASE r.digest.action # "CREATE_REVIEW"
        <3>1. r.review = None \/ \E old \in revisions : r.review = old.review
            BY <2>1, <2>4 DEF Begins, Replaces
        <3>2. ASSUME NEW g \in Handlers \ {h}, pc[g] \in InFlight,
                     row[g].digest.action = "CREATE_REVIEW"
              PROVE  row[g].review # r.review
            BY <3>1, <3>2 DEF Shaped
        <3> QED  BY <2>2, <2>4, <3>2
    <2> QED  BY <2>3, <2>4
<1> QED  BY <1>1, <1>2, <1>3 DEF Quiet

\* A committed review is no rival's.
LEMMA CommitDrawn ==
    ASSUME Inv1, Drawn, NEW h \in Handlers, Commit(h) PROVE Drawn'
BY DEF Drawn, Inv1, TypeOK, InFlight, Commit, Goto

-----------------------------------------------------------------------------
(* Layer 3: a revision follows the latest one of its draft, or is refused *)

\* r extends the history of its draft as it is committed now.
Follows(r) ==
    \/ Begins(r) /\ \A s \in revisions : s.draft # r.draft
    \/ \E old \in revisions : Latest(old, r.draft) /\ Replaces(r, old)

\* Another revision took its number: the unique key will refuse r.
Overtaken(r) == \E s \in revisions : s.draft = r.draft /\ s.revision = r.revision

Orderly == \A h \in Handlers : pc[h] \in InFlight => Follows(row[h]) \/ Overtaken(row[h])

\* Histories start at revision 1, have no gap, and have a latest revision.
Chained ==
    \A r \in revisions :
        /\ \E s \in revisions : s.draft = r.draft /\ s.revision = 1
        /\ r.revision > 1 => \E s \in revisions : s.draft = r.draft /\ s.revision + 1 = r.revision
        /\ \E s \in revisions : Latest(s, r.draft)

\* A prepared revision follows the latest one, or its number is taken.
LEMMA QuietOrderly ==
    ASSUME Inv1, Orderly, Chained, NEW h \in Handlers, Quiet(h) PROVE (Orderly /\ Chained)'
<1> USE DEF Inv1, TypeOK, InFlight
<1>1. revisions' = revisions
    BY DEF Quiet
<1>2. Chained'
    BY <1>1 DEF Chained, Latest
<1>3. ASSUME NEW g \in Handlers, pc'[g] \in InFlight
      PROVE  Follows(row'[g]) \/ Overtaken(row'[g])
    <2>1. CASE pc[g] \in InFlight /\ row'[g] = row[g]
        BY <2>1 DEF Orderly
    <2>2. CASE g = h /\ Prepare(h) /\ pc'[h] = "insert"
        <3>1. ~Refuse(h)
            BY <2>2 DEF Refuse, Finish, Goto
        <3>2. PICK r \in Revision :
                /\ Prepared(h, r)
                /\ Begins(r) \/ \E old \in revisions : Latest(old, r.draft) /\ Replaces(r, old)
            BY <2>2, <3>1, PreparedRevision
        <3>3. row'[g] = r
            BY <2>2, <3>2 DEF Prepared
        <3>4. CASE Begins(r)
            BY <3>3, <3>4 DEF Chained, Follows, Overtaken, Begins
        <3>5. CASE \E old \in revisions : Latest(old, r.draft) /\ Replaces(r, old)
            BY <3>3, <3>5 DEF Follows
        <3> QED  BY <3>2, <3>4, <3>5
    <2> QED  BY <1>3, <2>1, <2>2 DEF Quiet
<1>4. Orderly'
    BY <1>1, <1>3 DEF Orderly, Follows, Overtaken, Latest
<1> QED  BY <1>2, <1>4

\* Owning its key, the revision that commits was not overtaken.
LEMMA CommitFollows ==
    ASSUME Inv1, Owned, Orderly, NEW h \in Handlers, Commit(h)
    PROVE  /\ row[h] \in Revision /\ Shaped(row[h]) /\ Follows(row[h])
           /\ revisions' = revisions \cup {row[h]}
           /\ row' = row
<1>1. row[h] \in Revision /\ Shaped(row[h])
    BY DEF Inv1, Held, InFlight, Commit
<1>2. ~Overtaken(row[h])
    BY DEF Owned, Commit, CommittedDuplicate, SameUniqueKey, Overtaken
<1> QED  BY <1>1, <1>2 DEF Orderly, InFlight, Commit

\* It becomes the latest of its draft, and no other draft's.
LEMMA CommitLatest ==
    ASSUME Inv1, Owned, Orderly, NEW h \in Handlers, Commit(h), NEW d \in Drafts, NEW r
    PROVE  r \in revisions' /\ Latest(r, d)' <=>
             IF d = row[h].draft THEN r = row[h] ELSE r \in revisions /\ Latest(r, d)
<1> DEFINE new == row[h]
<1>1. /\ new \in Revision /\ Follows(new) /\ revisions' = revisions \cup {new}
      /\ new.revision \in Nat /\ \A s \in revisions : s.revision \in Nat
    BY CommitFollows DEF Inv1, TypeOK, Revision
<1>2. \A s \in revisions : s.draft = new.draft => s.revision < new.revision
    BY <1>1 DEF Follows, Replaces, Latest
<1> HIDE DEF new
<1>3. r \in revisions' /\ Latest(r, d)' <=>
        r \in revisions' /\ r.draft = d /\ \A s \in revisions' : s.draft = d => s.revision <= r.revision
    BY DEF Latest
<1>4. CASE d = new.draft
    <2>1. \A s \in revisions' : s.draft = d => s.revision <= new.revision
        BY <1>1, <1>2, <1>4
    <2>2. ASSUME r \in revisions, r.draft = d PROVE ~(new.revision <= r.revision)
        BY <1>1, <1>2, <1>4, <2>2
    <2> QED  BY <1>1, <1>3, <1>4, <2>1, <2>2 DEF new
<1>5. CASE d # new.draft
    BY <1>1, <1>3, <1>5 DEF Latest, new
<1> QED  BY <1>4, <1>5

\* A commit extends one history by one; rivals that followed the same revision
\* are overtaken.
LEMMA CommitOrderly ==
    ASSUME Inv1, Owned, Orderly, Chained, NEW h \in Handlers, Commit(h)
    PROVE  (Orderly /\ Chained)'
<1> DEFINE new == row[h]
<1>1. /\ new \in Revision /\ Follows(new) /\ revisions' = revisions \cup {new} /\ row' = row
      /\ new.draft \in Drafts /\ new.revision \in Nat
      /\ \A s \in revisions : s.revision \in Nat /\ s.draft \in Drafts
    BY CommitFollows DEF Inv1, TypeOK, Revision
<1>2. \A g \in Handlers : pc'[g] \in InFlight => g # h /\ pc[g] \in InFlight
    BY DEF Commit, Goto, InFlight, Inv1, TypeOK
<1>3. \A d \in Drafts : \A r :
        /\ r \in revisions' /\ r.draft = d
        /\ \A s \in revisions' : s.draft = d => s.revision <= r.revision
        <=> IF d = new.draft THEN r = new ELSE r \in revisions /\ Latest(r, d)
    BY CommitLatest DEF Latest
<1>4. \/ Begins(new) /\ \A s \in revisions : s.draft # new.draft
      \/ \E old \in revisions : Latest(old, new.draft) /\ old.revision + 1 = new.revision
    BY <1>1 DEF Follows, Replaces
<1> HIDE DEF new
<1>5. Chained'
    <2>1. \E s \in revisions' : s.draft = new.draft /\ s.revision = 1
        BY <1>1, <1>4 DEF Chained, Latest, Begins
    <2>2. new.revision > 1 =>
            \E s \in revisions' : s.draft = new.draft /\ s.revision + 1 = new.revision
        BY <1>1, <1>4 DEF Latest, Begins
    <2>3. ASSUME NEW r \in revisions'
          PROVE  \E s \in revisions' : s.draft = r.draft /\
                   \A t \in revisions' : t.draft = r.draft => t.revision <= s.revision
        <3>1. CASE r.draft = new.draft
            <4>1. \A t \in revisions' : t.draft = new.draft => t.revision <= new.revision
                BY <1>1, <1>3
            <4> QED  BY <1>1, <3>1, <4>1
        <3>2. CASE r.draft # new.draft
            <4>1. r \in revisions /\ r.draft \in Drafts
                BY <1>1, <3>2
            <4>2. PICK s \in revisions : Latest(s, r.draft)
                BY <4>1 DEF Chained
            <4>3. /\ s \in revisions' /\ s.draft = r.draft
                  /\ \A t \in revisions' : t.draft = r.draft => t.revision <= s.revision
                BY <1>3, <3>2, <4>1, <4>2
            <4> QED  BY <4>3
        <3> QED  BY <3>1, <3>2
    <2>4. ASSUME NEW r \in revisions'
          PROVE  /\ \E s \in revisions' : s.draft = r.draft /\ s.revision = 1
                 /\ r.revision > 1 =>
                      \E s \in revisions' : s.draft = r.draft /\ s.revision + 1 = r.revision
        <3>1. CASE r = new
            BY <2>1, <2>2, <3>1
        <3>2. CASE r \in revisions
            BY <1>1, <3>2 DEF Chained
        <3> QED  BY <1>1, <3>1, <3>2
    <2> QED  BY <2>3, <2>4 DEF Chained, Latest
<1>6. ASSUME NEW g \in Handlers, pc'[g] \in InFlight
      PROVE  (Follows(row[g]) \/ Overtaken(row[g]))'
    <2>1. Follows(row[g]) \/ Overtaken(row[g])
        BY <1>2, <1>6 DEF Orderly
    <2>2. row[g] \in Revision /\ row[g].draft \in Drafts
        BY <1>2, <1>6 DEF Inv1, Held, Revision
    <2>3. CASE Overtaken(row[g])
        BY <1>1, <2>3 DEF Overtaken
    <2>4. CASE Follows(row[g]) /\ row[g].draft # new.draft
        <3>1. CASE Begins(row[g]) /\ \A s \in revisions : s.draft # row[g].draft
            BY <1>1, <2>4, <3>1 DEF Follows
        <3>2. ASSUME NEW old \in revisions, Latest(old, row[g].draft), Replaces(row[g], old)
              PROVE  Follows(row[g])'
            <4>1. /\ old \in revisions' /\ old.draft = row[g].draft
                  /\ \A s \in revisions' : s.draft = row[g].draft => s.revision <= old.revision
                BY <1>3, <2>2, <2>4, <3>2
            <4> QED  BY <1>1, <3>2, <4>1 DEF Follows, Latest
        <3> QED  BY <2>4, <3>1, <3>2 DEF Follows
    <2>5. CASE Follows(row[g]) /\ row[g].draft = new.draft
        <3>1. row[g].revision = new.revision
            BY <1>1, <1>4, <2>5 DEF Follows, Begins, Replaces, Latest
        <3> QED  BY <1>1, <2>5, <3>1 DEF Overtaken
    <2> QED  BY <2>1, <2>3, <2>4, <2>5
<1>7. Orderly'
    BY <1>6 DEF Orderly, InFlight
<1> QED  BY <1>5, <1>7

-----------------------------------------------------------------------------
(* Layer 4: revisions, links and reviews belong together *)

\* A link was written with the revision that created its review.
LinksCreated ==
    \A l \in links : \E r \in revisions :
        r.draft = l[1] /\ r.review = l[2] /\ r.digest.action = "CREATE_REVIEW"

Linked == EveryRevisionReadable /\ ReviewsBelongToDrafts /\ LinksCreated

\* What is committed stays linked while nothing commits.
LEMMA QuietLinked ==
    ASSUME Linked, UNCHANGED <<revisions, links, reviews>> PROVE Linked'
BY DEF Linked, EveryRevisionReadable, ReviewsBelongToDrafts, LinksCreated, Readable, Latest

\* A commit writes a review, its link and the revision that names it, or none.
LEMMA CommitLinked ==
    ASSUME Inv1, Owned, Drawn, Orderly, Linked, NEW h \in Handlers, Commit(h)
    PROVE  Linked'
<1> DEFINE new == row[h]
           create == new.digest.action = "CREATE_REVIEW"
<1>1. /\ new \in Revision /\ Shaped(new) /\ Follows(new)
      /\ revisions' = revisions \cup {new} /\ new.draft \in Drafts
      /\ links \subseteq Drafts \X Reviews /\ \A s \in revisions : s.draft \in Drafts
    BY CommitFollows DEF Inv1, TypeOK, Revision
<1>2. /\ links' = links \cup (IF create THEN {<<new.draft, new.review>>} ELSE {})
      /\ reviews' = reviews \cup (IF create THEN {<<new.review, new.fields>>} ELSE {})
    BY DEF Commit, NewLinks, NewReviews
<1>3. create => \A r \in revisions : r.review # new.review
    BY DEF Drawn, InFlight, Commit
<1>4. create => \A r \in revisions : r.digest.action = "CREATE_REVIEW" => r.draft # new.draft
    BY DEF Owned, Commit, CommittedDuplicate, SameUniqueKey
<1>5. \A l \in links : create => l[1] # new.draft /\ l[2] # new.review
    BY <1>3, <1>4 DEF Linked, LinksCreated
<1>6. ~create /\ new.review # None =>
        \E old \in revisions : /\ Latest(old, new.draft) /\ old.review = new.review
                              /\ old.fields = new.fields
    BY <1>1 DEF Follows, Begins, Replaces
<1> HIDE DEF new, create
<1>7. new.review # None =>
        <<new.draft, new.review>> \in links' /\ <<new.review, new.fields>> \in reviews'
    <2>1. CASE create
        BY <1>2, <2>1
    <2>2. ASSUME ~create, new.review # None
          PROVE  <<new.draft, new.review>> \in links /\ <<new.review, new.fields>> \in reviews
        <3>1. PICK old \in revisions : /\ Latest(old, new.draft) /\ old.review = new.review
                                      /\ old.fields = new.fields
            BY <1>6, <2>2
        <3> QED  BY <2>2, <3>1 DEF Readable, Linked, EveryRevisionReadable, Latest
    <2> QED  BY <1>2, <2>1, <2>2
<1>8. EveryRevisionReadable'
    BY <1>1, <1>2, <1>7 DEF Linked, EveryRevisionReadable, Readable
<1>9. LinksCreated'
    <2>1. create => \E r \in revisions' :
            r.draft = new.draft /\ r.review = new.review /\ r.digest.action = "CREATE_REVIEW"
        BY <1>1 DEF create
    <2>2. ASSUME NEW l \in links'
          PROVE  \E r \in revisions' :
                    r.draft = l[1] /\ r.review = l[2] /\ r.digest.action = "CREATE_REVIEW"
        <3>1. CASE l \in links
            BY <1>1, <3>1 DEF Linked, LinksCreated
        <3>2. CASE create /\ l = <<new.draft, new.review>>
            BY <2>1, <3>2
        <3> QED  BY <1>2, <3>1, <3>2
    <2> QED  BY <2>2 DEF LinksCreated
<1>10. ASSUME NEW x \in reviews' PROVE \E l \in links' : l[2] = x[1]
    <2>1. CASE x \in reviews
        BY <1>2, <2>1 DEF Linked, ReviewsBelongToDrafts
    <2>2. CASE create /\ x = <<new.review, new.fields>>
        <3>1. <<new.draft, new.review>> \in links'
            BY <1>2, <2>2
        <3> QED  BY <2>2, <3>1
    <2> QED  BY <1>2, <2>1, <2>2
<1>11. \A l, m \in links' : l[1] = m[1] \/ l[2] = m[2] => l = m
    <2>1. \A l, m \in links : l[1] = m[1] \/ l[2] = m[2] => l = m
        BY DEF Linked, ReviewsBelongToDrafts
    <2> QED  BY <1>2, <1>5, <2>1
<1>12. ASSUME NEW l \in links', NEW r \in revisions',
              r.draft = l[1], \A s \in revisions' : s.draft = l[1] => s.revision <= r.revision
       PROVE  r.review = l[2]
    <2>1. l[1] \in Drafts
        BY <1>1, <1>2
    <2>2. IF l[1] = new.draft THEN r = new ELSE r \in revisions /\ Latest(r, l[1])
        BY <1>12, <2>1, CommitLatest DEF Latest, new
    <2>3. CASE l[1] # new.draft
        BY <1>2, <2>2, <2>3 DEF Linked, ReviewsBelongToDrafts
    <2>4. CASE l \in links /\ l[1] = new.draft
        <3>1. PICK c \in revisions : c.draft = l[1] /\ c.review = l[2]
            BY <2>4 DEF Linked, LinksCreated
        <3>2. ~create
            BY <1>5, <2>4
        <3>3. PICK old \in revisions : Latest(old, new.draft) /\ new.review = old.review
            BY <1>1, <2>4, <3>1, <3>2 DEF Follows, Replaces, create
        <3> QED  BY <2>2, <2>4, <3>3 DEF Linked, ReviewsBelongToDrafts
    <2>5. CASE l \notin links
        BY <1>2, <2>2, <2>5
    <2> QED  BY <2>3, <2>4, <2>5
<1> QED
    BY <1>8, <1>9, <1>10, <1>11, <1>12 DEF Linked, ReviewsBelongToDrafts, Latest

-----------------------------------------------------------------------------
(* The invariant, and the safety theorems *)

Inv == Inv1 /\ Owned /\ Drawn /\ Orderly /\ Chained /\ Linked

\* Every step keeps the whole invariant.
LEMMA InvInductive == Inv /\ [Next]_vars => Inv'
<1> SUFFICES ASSUME Inv, [Next]_vars PROVE Inv'
    OBVIOUS
<1>1. Inv1'
    BY Inv1Inductive DEF Inv
<1>2. ASSUME NEW h \in Handlers, Quiet(h) PROVE Inv'
    <2>1. UNCHANGED <<revisions, links, reviews>>
        BY <1>2 DEF Quiet
    <2> QED
        BY <1>1, <1>2, <2>1, QuietOwned, QuietDrawn, QuietOrderly, QuietLinked DEF Inv
<1>3. ASSUME NEW h \in Handlers, Commit(h) PROVE Inv'
    BY <1>1, <1>3, CommitOwned, CommitDrawn, CommitOrderly, CommitLinked DEF Inv
<1>4. CASE UNCHANGED <<revisions, links, reviews, pc, row>>
    <2>1. Owned' /\ Drawn'
        BY <1>4 DEF Inv, Owned, Drawn, CommittedDuplicate, InFlightDuplicate
    <2>2. Orderly' /\ Chained'
        BY <1>4 DEF Inv, Orderly, Chained, Follows, Overtaken, Latest
    <2> QED  BY <1>1, <1>4, <2>1, <2>2, QuietLinked DEF Inv
<1> QED
    BY <1>2, <1>3, <1>4, StepIsQuietOrCommit DEF Inv

\* The invariant holds throughout.
LEMMA Invariance == Spec => []Inv
<1>1. Init => Inv
    <2>1. Init => Inv1
        BY NoneAssumption DEF Init, Inv1, TypeOK, Held, Steps, InFlight
    <2>2. Init => Owned /\ Drawn /\ Orderly /\ Chained
        BY DEF Init, Owned, Drawn, Orderly, Chained, InFlight
    <2>3. Init => Linked
        BY DEF Init, Linked, EveryRevisionReadable, ReviewsBelongToDrafts, LinksCreated
    <2> QED  BY <2>1, <2>2, <2>3 DEF Inv
<1> QED  BY <1>1, InvInductive, PTL DEF Spec

\* Every committed revision can be read back: no order of saves, retries and
\* failures locks the adviser out of a draft.
THEOREM AlwaysReadable == Spec => []EveryRevisionReadable
<1>1. Inv => EveryRevisionReadable
    BY DEF Inv, Linked
<1> QED  BY Invariance, <1>1, PTL

\* Setup leaves neither an orphan review nor one shared by two drafts.
THEOREM NoOrphanReviews == Spec => []ReviewsBelongToDrafts
<1>1. Inv => ReviewsBelongToDrafts
    BY DEF Inv, Linked
<1> QED  BY Invariance, <1>1, PTL

\* However often a save is retried and whatever it races with, it writes one
\* revision, and its answer is that revision.
THEOREM SavedOnce == Spec => []SavesApplyOnce
<1>1. Inv => SavesApplyOnce
    BY DEF Inv, Inv1, Held, Owned, Chained, SavesApplyOnce, SameUniqueKey
<1> QED  BY Invariance, <1>1, PTL

-----------------------------------------------------------------------------
(* Refinement *)

\* The abstract state as a function of the set R of committed revisions.
LatestIn(R, r, d) ==
    r \in R /\ r.draft = d /\ \A s \in R : s.draft = d => s.revision <= r.revision

StateIn(R, d) ==
    IF \A r \in R : r.draft # d THEN Lifecycles!As("ABSENT", None, None)
    ELSE LET r == CHOOSE r \in R : LatestIn(R, r, d)
         IN  Lifecycles!As(r.lifecycle, r.fields, r.review)

\* The refinement mapping, now and after a step.
LEMMA StateOfIsStateIn ==
    ASSUME NEW d PROVE StateOf(d) = StateIn(revisions, d) /\ StateOf(d)' = StateIn(revisions', d)
BY DEF StateOf, StateIn, Latest, LatestIn, Lifecycles!As

\* A draft nobody saved is absent.
LEMMA AbsentState ==
    ASSUME NEW R, NEW d, \A r \in R : r.draft # d
    PROVE  StateIn(R, d) = Lifecycles!As("ABSENT", None, None)
BY DEF StateIn

\* The only latest revision decides the state of its draft.
LEMMA UniqueLatestState ==
    ASSUME NEW R, NEW d, NEW r, LatestIn(R, r, d), \A s : LatestIn(R, s, d) => s = r
    PROVE  StateIn(R, d) = Lifecycles!As(r.lifecycle, r.fields, r.review)
<1> DEFINE c == CHOOSE s \in R : LatestIn(R, s, d)
<1>1. c = r
    BY DEF LatestIn
<1>2. ~(\A s \in R : s.draft # d)
    BY DEF LatestIn
<1> HIDE DEF c
<1>3. StateIn(R, d) = Lifecycles!As(c.lifecycle, c.fields, c.review)
    BY <1>2 DEF StateIn, c
<1> QED  BY <1>1, <1>3

\* Owning its number, the latest revision of a draft is the only one.
LEMMA LatestUnique ==
    ASSUME Inv, NEW d, NEW r, NEW s, LatestIn(revisions, r, d), LatestIn(revisions, s, d)
    PROVE  s = r
<1>1. r.revision \in Nat /\ s.revision \in Nat
    BY DEF Inv, Inv1, TypeOK, Revision, LatestIn
<1>2. r.revision = s.revision
    BY <1>1 DEF LatestIn
<1> QED  BY <1>2 DEF Inv, Owned, SameUniqueKey, LatestIn

\* A commit changes the state of its draft, and of no other, to what the
\* revision says.
LEMMA CommitState ==
    ASSUME Inv, NEW h \in Handlers, Commit(h), NEW d \in Drafts
    PROVE  StateIn(revisions', d) =
             IF d = row[h].draft
             THEN Lifecycles!As(row[h].lifecycle, row[h].fields, row[h].review)
             ELSE StateIn(revisions, d)
<1> DEFINE new == row[h]
<1>1. \A r : LatestIn(revisions', r, d) <=>
        IF d = new.draft THEN r = new ELSE LatestIn(revisions, r, d)
    BY CommitLatest DEF Inv, Latest, LatestIn
<1>2. revisions' = revisions \cup {new}
    BY CommitFollows DEF Inv
<1> HIDE DEF new
<1>3. CASE d = new.draft
    BY <1>1, <1>3, UniqueLatestState DEF new
<1>4. ASSUME d # new.draft, NEW s \in revisions, s.draft = d
      PROVE  StateIn(revisions', d) = StateIn(revisions, d)
    <2>1. PICK r \in revisions : Latest(r, d)
        BY <1>4 DEF Inv, Chained
    <2>2. LatestIn(revisions, r, d)
        BY <2>1 DEF Latest, LatestIn
    <2>3. \A t : LatestIn(revisions, t, d) => t = r
        BY <2>2, LatestUnique
    <2>4. LatestIn(revisions', r, d) /\ \A t : LatestIn(revisions', t, d) => t = r
        BY <1>1, <1>4, <2>2, <2>3
    <2> QED  BY <2>2, <2>3, <2>4, UniqueLatestState
<1>5. ASSUME d # new.draft, \A s \in revisions : s.draft # d
      PROVE  StateIn(revisions', d) = StateIn(revisions, d)
    BY <1>2, <1>5, AbsentState
<1> QED  BY <1>3, <1>4, <1>5 DEF new

\* Every commit is a step of the life cycle, or repeats the state of its draft.
LEMMA CommitImplements ==
    ASSUME Inv, NEW h \in Handlers, Commit(h)
    PROVE  [Lifecycles!Next]_[d \in Drafts |-> StateOf(d)]
<1> DEFINE new == row[h]
           d == new.draft
           now == [e \in Drafts |-> StateIn(revisions, e)]
           next == [e \in Drafts |-> StateIn(revisions', e)]
           post == Lifecycles!As(new.lifecycle, new.fields, new.review)
<1>1. /\ [e \in Drafts |-> StateOf(e)] = now
      /\ [e \in Drafts |-> StateOf(e)]' = next
    BY StateOfIsStateIn
<1>2. /\ new \in Revision /\ Shaped(new) /\ Follows(new)
      /\ d \in Drafts /\ new.fields \in Fields /\ new.digest \in Calls
    BY CommitFollows DEF Inv, Inv1, TypeOK, Revision
<1>3. next = [now EXCEPT ![d] = post]
    BY <1>2, CommitState
<1>4. new.digest.action = "CREATE_REVIEW" => new.review \in Reviews
    BY <1>2 DEF Shaped, Revision
<1>5. new.digest.action \in Actions
    BY <1>2, CallsAssumption DEF Call
<1> HIDE DEF next
<1>6. CASE Begins(new) /\ \A s \in revisions : s.draft # d
    <2>1. now[d] = Lifecycles!As("ABSENT", None, None)
        BY <1>2, <1>6, AbsentState
    <2> HIDE DEF now
    <2>2. Lifecycles!Begin(d, new.fields)
        BY <1>1, <1>3, <1>6, <2>1 DEF Lifecycles!Begin, Lifecycles!Becomes, Lifecycles!As, Begins
    <2> QED  BY <1>2, <2>2 DEF Lifecycles!Next
<1>7. ASSUME NEW old \in revisions, Latest(old, d), Replaces(new, old)
      PROVE  Lifecycles!Next \/ next = now
    <2>1. /\ now[d] = Lifecycles!As(old.lifecycle, old.fields, old.review)
          /\ Shaped(old) /\ old.lifecycle \in Lifecycle
        <3>1. LatestIn(revisions, old, d)
            BY <1>7 DEF Latest, LatestIn
        <3>2. \A t : LatestIn(revisions, t, d) => t = old
            BY <3>1, LatestUnique
        <3> QED  BY <1>2, <3>1, <3>2, UniqueLatestState
                 DEF Inv, Inv1, TypeOK, Held, Revision
    <2>2. \A e \in Drafts : now[e].review = None \/ \E r \in revisions : now[e].review = r.review
        <3>1. ASSUME NEW e \in Drafts, NEW s \in revisions, s.draft = e
              PROVE  \E r \in revisions : now[e].review = r.review
            <4>1. PICK r \in revisions : Latest(r, e)
                BY <3>1 DEF Inv, Chained
            <4>2. LatestIn(revisions, r, e)
                BY <4>1 DEF Latest, LatestIn
            <4>3. now[e] = Lifecycles!As(r.lifecycle, r.fields, r.review)
                BY <4>2, LatestUnique, UniqueLatestState
            <4> QED  BY <4>3 DEF Lifecycles!As
        <3>2. ASSUME NEW e \in Drafts, \A s \in revisions : s.draft # e
              PROVE  now[e].review = None
            BY <3>2 DEF StateIn, Lifecycles!As
        <3> QED  BY <3>1, <3>2
    <2>3. now = [now EXCEPT ![d] = now[d]]
        OBVIOUS
    <2> HIDE DEF now
    <2>4. CASE new.digest.action = "SAVE" /\ old.lifecycle = "DRAFT"
        <3>1. Lifecycles!Edit(d, new.fields)
            BY <1>1, <1>3, <1>7, <2>1, <2>4
               DEF Lifecycles!Edit, Lifecycles!Becomes, Lifecycles!As, Replaces, Shaped, NextLifecycle
        <3> QED  BY <1>2, <3>1 DEF Lifecycles!Next
    <2>5. CASE new.digest.action = "SAVE" /\ old.lifecycle = "REVIEW_CREATED"
        <3>1. post = now[d]
            BY <1>7, <2>1, <2>5 DEF Replaces, Shaped, NextLifecycle
        <3> QED  BY <1>3, <2>3, <3>1
    <2>6. CASE new.digest.action = "CREATE_REVIEW"
        <3>1. \A r \in revisions : r.review # new.review
            BY <2>6 DEF Inv, Drawn, Commit, InFlight
        <3>2. \A e \in Drafts : now[e].review # new.review
            BY <1>4, <2>2, <2>6, <3>1, NoneAssumption
        <3>3. old.lifecycle = "DRAFT" /\ new.fields \in Scoped /\ new.lifecycle = "REVIEW_CREATED"
            BY <1>7, <2>1, <2>6 DEF Replaces, Shaped, Lifecycle, NextLifecycle
        <3>4. Lifecycles!CreateReview(d, new.fields, new.review)
            BY <1>1, <1>3, <2>1, <3>2, <3>3
               DEF Lifecycles!CreateReview, Lifecycles!Becomes, Lifecycles!As
        <3> QED  BY <1>2, <1>4, <2>6, <3>4 DEF Lifecycles!Next
    <2>7. CASE new.digest.action = "COMPLETE"
        <3>1. old.lifecycle = "REVIEW_CREATED" /\ new.lifecycle = "COMPLETE"
              /\ new.fields = old.fields /\ new.review = old.review
            BY <1>7, <2>1, <2>7 DEF Replaces, Shaped, Lifecycle, NextLifecycle
        <3>2. Lifecycles!Complete(d)
            BY <1>1, <1>3, <2>1, <3>1
               DEF Lifecycles!Complete, Lifecycles!Becomes, Lifecycles!As
        <3> QED  BY <1>2, <3>2 DEF Lifecycles!Next
    <2>8. CASE new.digest.action = "CANCEL"
        <3>1. /\ new.lifecycle = "CANCELLED" /\ new.review = old.review
              /\ \/ old.lifecycle = "DRAFT"
                 \/ old.lifecycle = "REVIEW_CREATED" /\ new.fields = old.fields
            BY <1>7, <2>1, <2>8 DEF Replaces, Shaped, Lifecycle, NextLifecycle
        <3>2. Lifecycles!Cancel(d, new.fields)
            BY <1>1, <1>3, <2>1, <3>1
               DEF Lifecycles!Cancel, Lifecycles!Becomes, Lifecycles!As
        <3> QED  BY <1>2, <3>2 DEF Lifecycles!Next
    <2>9. old.lifecycle \in {"DRAFT", "REVIEW_CREATED"}
        BY <1>7, <2>1 DEF Replaces, Lifecycle
    <2> QED  BY <1>5, <2>4, <2>5, <2>6, <2>7, <2>8, <2>9 DEF Actions
<1> QED  BY <1>1, <1>2, <1>6, <1>7 DEF Follows

\* Every step of setup is a step of the life cycle or leaves it alone.
LEMMA StepImplements ==
    Inv /\ [Next]_vars => [Lifecycles!Next]_[d \in Drafts |-> StateOf(d)]
<1> SUFFICES ASSUME Inv, [Next]_vars
             PROVE  [Lifecycles!Next]_[d \in Drafts |-> StateOf(d)]
    OBVIOUS
<1>1. CASE revisions' = revisions
    <2>1. \A d : StateOf(d)' = StateOf(d)
        BY <1>1, StateOfIsStateIn
    <2> QED  BY <2>1
<1>2. ASSUME NEW h \in Handlers, Quiet(h) PROVE revisions' = revisions
    BY <1>2 DEF Quiet
<1> QED  BY <1>1, <1>2, CommitImplements, StepIsQuietOrCommit DEF Inv

\* Initially every draft is absent.
LEMMA InitImplements == Init => Lifecycles!Init
<1> SUFFICES ASSUME Init PROVE Lifecycles!Init
    OBVIOUS
<1>1. \A d : StateOf(d) = Lifecycles!As("ABSENT", None, None)
    BY StateOfIsStateIn DEF Init, StateIn
<1> QED  BY <1>1 DEF Lifecycles!Init

\* Concurrent, retried and failing saves implement the life cycle of a draft.
THEOREM Implements == Spec => ImplementsLifecycle
BY Invariance, InitImplements, StepImplements, PTL
   DEF Spec, ImplementsLifecycle, Lifecycles!Spec
=============================================================================
