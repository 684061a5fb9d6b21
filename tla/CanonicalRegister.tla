--------------------------- MODULE CanonicalRegister ---------------------------
(***************************************************************************)
(* What the canonical services promise of the Facts and Findings of one    *)
(* semantic key: a register in which every operation happens at once.  A   *)
(* Fact is observed, with its Signal and its link; it is corrected by one  *)
(* other Fact, which appears as it retires; or it is retired for good.  A  *)
(* Finding begins with a judgement, or goes on from the document it has at *)
(* that moment.                                                            *)
(* CanonicalFindings implements this, with calls that read, check, insert  *)
(* and swap in steps of their own.                                         *)
(*                                                                         *)
(* A judgement is about a Fact there is, but not always about its present  *)
(* state: it may have been retired since it was judged.                    *)
(***************************************************************************)
EXTENDS Naturals, Sequences

CONSTANTS
    Signals,        \* source Signals of the key
    Versions,       \* mapping versions
    Contexts,       \* what may challenge a Fact
    Accepted,       \* what a Fact may be made of
    Verdict(_, _),  \* the outcome the policy gives a document under challenges
    Relates(_, _),  \* how two Signals are related in time
    None            \* absent value

VARIABLES
    documents,      \* the document of each Fact and Finding, as readers find it
    identities,     \* Signals that have an identity of their own
    links           \* evidence links <<source, target, relationship>>

vars == <<documents, identities, links>>

Facts == Signals \X Versions
Findings == {"FINDING"} \X Versions

Init ==
    /\ documents = [o \in Facts \cup Findings |-> None]
    /\ identities = {}
    /\ links = {}

Recorded(o) == documents[o] # None
Observed(f) == Recorded(f) /\ documents[f].state = "OBSERVED"

NewFact(digest, prior) ==
    [state |-> "OBSERVED", digest |-> digest, supersedes |-> prior, revision |-> 1]
Retired(document, state) == [document EXCEPT !.state = state, !.revision = @ + 1]

\* A Fact appears together with its Signal's identity and its link.
Introduce(f) ==
    /\ ~Recorded(f)
    /\ identities' = identities \cup {f[1]}
    /\ links' = links \cup {<<f[1], f, "SUPPORTS">>}

-------------------------------------------------------------------------------

Observe(f) ==
    /\ Introduce(f)
    /\ \E digest \in Accepted : documents' = [documents EXCEPT ![f] = NewFact(digest, None)]

\* Another mapping of the Signal takes the place of one that still stands.
Correct(f, prior) ==
    /\ Introduce(f)
    /\ Observed(prior) /\ prior[1] = f[1]
    /\ \E digest \in Accepted :
          documents' = [documents EXCEPT ![f] = NewFact(digest, prior),
                                         ![prior] = Retired(@, "SUPERSEDED")]

Retire(f) ==
    /\ Observed(f)
    /\ documents' = [documents EXCEPT ![f] = Retired(@, "INVALIDATED")]
    /\ UNCHANGED <<identities, links>>

\* What the Fact is judged to be, or was before it was retired.
Verdicts(f, challenges) ==
    {Verdict(documents[f], challenges),
     Verdict([documents[f] EXCEPT !.state = "OBSERVED"], challenges)}

FirstOf(f, outcome, challenges) ==
    [first |-> f[1], latest |-> f[1], observations |-> <<f>>, outcome |-> outcome,
     challenges |-> challenges, temporal |-> "FIRST_OBSERVATION", revision |-> 1]

HasObserved(document, f) ==
    \E i \in DOMAIN document.observations : document.observations[i] = f

\* A Fact joins the observations once, and is compared with the one before it.
NextOf(document, f, outcome, challenges) ==
    LET observations == document.observations
        again == [document EXCEPT !.latest = f[1], !.outcome = outcome,
                                  !.challenges = challenges, !.revision = @ + 1]
    IN  IF HasObserved(document, f) THEN again
        ELSE [again EXCEPT !.observations = Append(@, f),
                           !.temporal = Relates(observations[Len(observations)][1], f[1])]

\* Only a Fact found significant begins a Finding, and only news is recorded.
Judge(f, challenges) ==
    LET g == <<"FINDING", f[2]>>  document == documents[g] IN
    /\ Recorded(f)
    /\ \E outcome \in Verdicts(f, challenges) :
          \/ /\ ~Recorded(g) /\ outcome = "FINDING_CREATED"
             /\ documents' = [documents EXCEPT ![g] = FirstOf(f, outcome, challenges)]
          \/ /\ Recorded(g)
             /\ HasObserved(document, f) =>
                   document.outcome # outcome \/ document.challenges # challenges
             /\ documents' = [documents EXCEPT ![g] = NextOf(document, f, outcome, challenges)]
    /\ links' = links \cup {<<f, g, "SUPPORTS">>} \cup (challenges \X {g} \X {"CONTRADICTS"})
    /\ UNCHANGED identities

\* Whatever happens is seen in a document.
Next ==
    /\ documents' # documents
    /\ \E f \in Facts :
        \/ Observe(f)
        \/ \E prior \in Facts : Correct(f, prior)
        \/ Retire(f)
        \/ \E challenges \in SUBSET Contexts : Judge(f, challenges)

Spec == Init /\ [][Next]_vars
================================================================================
