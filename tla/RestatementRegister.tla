-------------------------- MODULE RestatementRegister --------------------------
(***************************************************************************)
(* Revisions of one client's sources and the baselines that restatements   *)
(* move (management/restatement.py).                                       *)
(*                                                                         *)
(* Calls run one after another and commit at their end.  A revision is     *)
(* known by its source and number, number 0 stands for the name of none;   *)
(* contents are equal exactly when their digests are.                      *)
(***************************************************************************)
EXTENDS Integers, Sequences, FiniteSets

CONSTANTS
    Sources,
    Contents,
    Baselines,        \* locked baselines: an opportunity and a baseline key
    BaselineAmounts,
    MaxRevisions,     \* bound: revisions of one source
    MaxClassified,    \* bound: changes classified
    MaxRestatements   \* bound: restatements of one baseline

ASSUME RestatementAssumption == BaselineAmounts \subseteq Int

VARIABLES
    revisions,     \* source_revision: the contents, by revision number
    events,        \* restatement_event: what it says of which revision
    locks,         \* baseline_revision_lock
    moves          \* baseline_revision_event, in order

sourceVars == <<revisions, events>>
baselineVars == <<locks, moves>>
restatementVars == <<revisions, events, locks, moves>>

Classes == {"SOURCE_REVISION", "DATA_RESTATEMENT", "BUSINESS_CHANGE"}
Revision == Sources \X Nat
Event == [source : Sources, revision : Revision, prior : Nat, class : Classes]
Lock == [held : BOOLEAN, original : BaselineAmounts \cup {0}, current : BaselineAmounts \cup {0}]
Move == [prior : BaselineAmounts, restated : BaselineAmounts, delta : Int]

(* The register's tables keep their shape.                                 *)
RestatementTypeOK ==
    /\ revisions \in [Sources -> Seq(Contents)]
    /\ events \subseteq Event
    /\ locks \in [Baselines -> Lock]
    /\ moves \in [Baselines -> Seq(Move)]

RestatementInit ==
    /\ revisions = [s \in Sources |-> <<>>]
    /\ events = {}
    /\ locks = [b \in Baselines |-> [held |-> FALSE, original |-> 0, current |-> 0]]
    /\ moves = [b \in Baselines |-> <<>>]

-----------------------------------------------------------------------------
(* Only the latest content answers UNCHANGED: an earlier one that returns  *)
(* is a new revision.                                                      *)
RegisterRevision(s, content) ==
    /\ Len(revisions[s]) < MaxRevisions
    /\ revisions[s] # <<>> => revisions[s][Len(revisions[s])] # content
    /\ revisions' = [revisions EXCEPT ![s] = Append(@, content)]
    /\ events' = IF revisions[s] = <<>> THEN events
                 ELSE events \cup {[source |-> s, revision |-> <<s, Len(revisions[s]) + 1>>,
                                    prior |-> Len(revisions[s]), class |-> "SOURCE_REVISION"]}
    /\ UNCHANGED baselineVars

(* The caller names a revision, of whichever source or of none at all.     *)
Nameable == {<<s, n>> : s \in Sources, n \in 0 .. MaxRevisions}
Names(r) == r[2] # 0 => r[2] \in DOMAIN revisions[r[1]]
Others(s, r) == {n \in DOMAIN revisions[s] : <<s, n>> # r}

(* A change is a restatement when its source has any revision but the one  *)
(* that is named, a later one included.                                    *)
ClassifyChange(s, r) ==
    /\ Names(r)
    /\ Cardinality({e \in events : e.class # "SOURCE_REVISION"}) < MaxClassified
    /\ events' = events \cup {[source |-> s, revision |-> r, prior |-> 0,
                               class |-> IF Others(s, r) = {} THEN "BUSINESS_CHANGE" ELSE "DATA_RESTATEMENT"]}
    /\ UNCHANGED <<revisions, baselineVars>>

SourceNext ==
    \E s \in Sources :
        \/ \E content \in Contents : RegisterRevision(s, content)
        \/ \E r \in Nameable : ClassifyChange(s, r)

(* A locked baseline is answered as it is.                                 *)
LockBaseline(b, amount) ==
    /\ ~locks[b].held
    /\ locks' = [locks EXCEPT ![b] = [held |-> TRUE, original |-> amount, current |-> amount]]
    /\ UNCHANGED <<sourceVars, moves>>

RestateBaseline(b, amount) ==
    /\ locks[b].held
    /\ Len(moves[b]) < MaxRestatements
    /\ moves' = [moves EXCEPT ![b] = Append(@, [prior |-> locks[b].current, restated |-> amount,
                                                delta |-> amount - locks[b].current])]
    /\ locks' = [locks EXCEPT ![b].current = amount]
    /\ UNCHANGED sourceVars

BaselineNext ==
    \E b \in Baselines, amount \in BaselineAmounts : LockBaseline(b, amount) \/ RestateBaseline(b, amount)

RestatementNext == SourceNext \/ BaselineNext
RestatementSpec == RestatementInit /\ [][RestatementNext]_restatementVars

-----------------------------------------------------------------------------
(* The revisions of a source form one chain: each differs from the one     *)
(* before it and, but for the first, has the event that names its prior.   *)
(* Where a restatement is recorded, the source has a revision besides the  *)
(* one named; what was ever called a business change names no revision     *)
(* that followed another of its source                                     *)
(* (management/restatement.py:53-62, 69-71).                               *)
RevisionsReadBack ==
    \A s \in Sources :
        /\ \A n \in DOMAIN revisions[s] : n > 1 =>
              /\ revisions[s][n] # revisions[s][n - 1]
              /\ [source |-> s, revision |-> <<s, n>>, prior |-> n - 1, class |-> "SOURCE_REVISION"] \in events
        /\ \A e \in events : e.source = s =>
              /\ e.class = "SOURCE_REVISION" =>
                    \E n \in DOMAIN revisions[s] : n > 1 /\ e.revision = <<s, n>> /\ e.prior = n - 1
              /\ e.class = "DATA_RESTATEMENT" => Others(s, e.revision) # {}
              /\ e.class = "BUSINESS_CHANGE" => \A n \in DOMAIN revisions[s] : n > 1 => e.revision # <<s, n>>

(* A baseline's original amount plus what each restatement moved it by is  *)
(* what it is now: each event starts where the one before it ended         *)
(* (management/restatement.py:97, 102-104).                                *)
BaselinesReadBack ==
    \A b \in Baselines :
        LET path == moves[b]
            start(n) == IF n = 1 THEN locks[b].original ELSE path[n - 1].restated
        IN /\ path # <<>> => locks[b].held
           /\ \A n \in DOMAIN path : /\ path[n].prior = start(n)
                                     /\ path[n].restated = path[n].prior + path[n].delta
           /\ locks[b].current = start(Len(path) + 1)

(* Revisions and baselines alike are the sum of their recorded steps       *)
(* (management/restatement.py:51-72, 94-105).                              *)
RestatementsReadBack == RevisionsReadBack /\ BaselinesReadBack
=============================================================================
