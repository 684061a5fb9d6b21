------------------------- MODULE LongitudinalRegister -------------------------
(***************************************************************************)
(* What one client's repeated runs add up to: issue threads, opportunities *)
(* kept under a stable key, and the benefits claimed against them          *)
(* (management/longitudinal.py).                                           *)
(*                                                                         *)
(* Calls run one after another on one connection and commit at their end.  *)
(* An observation's row is unique for its thread and run, but is inserted  *)
(* after the thread's row is updated.  A second observation in a run raises*)
(* with that update uncommitted: the next call's schema script commits it, *)
(* unless the caller rolls back.  Both outcomes are allowed here; `torn`   *)
(* remembers which threads a failed observation changed.                   *)
(***************************************************************************)
EXTENDS Integers, Sequences, FiniteSetsExt, Functions

CONSTANTS
    AnalysisRuns,
    Issues,
    OpportunityKeys,
    Tracked,         \* opportunities of the client
    Estimate,        \* [Tracked -> Nat]: expected_amount
    BenefitLegs,     \* benefit legs of the client that may be claimed
    Claimable,       \* [BenefitLegs -> Nat]: net_amount
    ReadAsReal,      \* what a sum of net_amount reads as, by the order of its rows
    Drift,           \* bound: how far that is from the sum of the decimals
    MaxReopened      \* bound: a thread reopened this often fails no more calls

ObservedStates == {"OPEN", "IMPROVING", "RESOLVED", "RECURRED", "DATA_CONSTRAINED"}

(* Legs in the order their claims were inserted; each is claimed once.     *)
Orders ==
    {legs \in UNION {[1 .. n -> BenefitLegs] : n \in 0 .. Cardinality(BenefitLegs)} : IsInjective(legs)}

Near(amount, exact) == amount - exact \in (-Drift) .. Drift

(* SUM(CAST(net_amount AS REAL)) adds binary floats in the order of the    *)
(* rows, and D(str(...)) makes a decimal of the result: 0.70 and 0.10 sum  *)
(* to 0.7999999999999999.  The total is off by what the rounding leaves,   *)
(* but a further claim, which is never negative, never lowers it.          *)
ASSUME LongitudinalAssumption ==
    /\ Estimate \in [Tracked -> Nat]
    /\ IsFiniteSet(BenefitLegs)
    /\ Claimable \in [BenefitLegs -> Nat]
    /\ Drift \in Nat
    /\ ReadAsReal \in [Orders -> Nat]
    /\ ReadAsReal[<<>>] = 0
    /\ \A legs \in Orders : Near(ReadAsReal[legs], SumFunctionOnSet(Claimable, Range(legs)))
    /\ \A legs \in Orders, b \in BenefitLegs :
          Append(legs, b) \in Orders => ReadAsReal[legs] <= ReadAsReal[Append(legs, b)]

VARIABLES
    threads,       \* advisory_issue_thread
    sightings,     \* advisory_issue_observation, in order
    torn,          \* issues a failed observation has changed
    keyed,         \* longitudinal_opportunity
    seenIn,        \* longitudinal_opportunity_observation: <<key, run>>
    claims         \* benefit_claim_registry: the legs claimed under a key, in order

issueVars == <<threads, sightings, torn>>
trackVars == <<keyed, seenIn, claims>>
longitudinalVars == <<threads, sightings, torn, keyed, seenIn, claims>>

Thread == [lifecycle : {"NONE", "OPEN", "RESOLVED"}, reopened : Nat, closed : BOOLEAN]
Sighting == [run : AnalysisRuns, state : ObservedStates]
KeyedRow == [state : {"NONE", "ACTIVE", "STALE", "EXHAUSTED"}, expected : Nat, remaining : Nat]

(* The register's tables keep their shape.                                 *)
LongitudinalTypeOK ==
    /\ threads \in [Issues -> Thread]
    /\ sightings \in [Issues -> Seq(Sighting)]
    /\ torn \subseteq Issues
    /\ keyed \in [OpportunityKeys -> KeyedRow]
    /\ seenIn \subseteq OpportunityKeys \X AnalysisRuns
    /\ claims \in [OpportunityKeys -> Orders]

LongitudinalInit ==
    /\ threads = [i \in Issues |-> [lifecycle |-> "NONE", reopened |-> 0, closed |-> FALSE]]
    /\ sightings = [i \in Issues |-> <<>>]
    /\ torn = {}
    /\ keyed = [k \in OpportunityKeys |-> [state |-> "NONE", expected |-> 0, remaining |-> 0]]
    /\ seenIn = {}
    /\ claims = [k \in OpportunityKeys |-> <<>>]

-----------------------------------------------------------------------------
(* observe_issue                                                           *)

Opened(state) ==
    [lifecycle |-> IF state = "RESOLVED" THEN "RESOLVED" ELSE "OPEN",
     reopened |-> 0, closed |-> state = "RESOLVED"]

(* A mutant: an improving thread of a resolved issue stays resolved.       *)
MovedOnlyByOpen(thread, state) ==
    IF state \in {"OPEN", "RECURRED"} /\ thread.lifecycle = "RESOLVED"
    THEN [lifecycle |-> "OPEN", reopened |-> thread.reopened + 1, closed |-> FALSE]
    ELSE IF state = "RESOLVED" THEN [thread EXCEPT !.lifecycle = "RESOLVED", !.closed = TRUE]
    ELSE thread

(* An improving or constrained observation opens a resolved thread too, but*)
(* counts no reopening and leaves closed_at.                               *)
Moved(thread, state) ==
    IF state \in {"OPEN", "RECURRED"} /\ thread.lifecycle = "RESOLVED"
    THEN [lifecycle |-> "OPEN", reopened |-> thread.reopened + 1, closed |-> FALSE]
    ELSE IF state = "RESOLVED" THEN [thread EXCEPT !.lifecycle = "RESOLVED", !.closed = TRUE]
    ELSE IF state = "RECURRED" THEN thread
    ELSE [thread EXCEPT !.lifecycle = "OPEN"]

SightedIn(i, run) == \E n \in DOMAIN sightings[i] : sightings[i][n].run = run
After(i, state) ==
    IF threads[i].lifecycle = "NONE" THEN Opened(state) ELSE Moved(threads[i], state)

ObserveIssue(i, run, state) ==
    /\ ~SightedIn(i, run)
    /\ threads' = [threads EXCEPT ![i] = After(i, state)]
    /\ sightings' = [sightings EXCEPT ![i] = Append(@, [run |-> run, state |-> state])]
    /\ UNCHANGED <<torn, keyed, seenIn, claims>>

(* The call raises; its update is committed by the next call.              *)
ObserveAgain(i, run, state) ==
    /\ SightedIn(i, run)
    /\ threads[i].reopened < MaxReopened
    /\ threads' = [threads EXCEPT ![i] = After(i, state)]
    /\ torn' = torn \cup {i}
    /\ UNCHANGED <<sightings, keyed, seenIn, claims>>

IssueNext ==
    \E i \in Issues, run \in AnalysisRuns, state \in ObservedStates :
        ObserveIssue(i, run, state) \/ ObserveAgain(i, run, state)

-----------------------------------------------------------------------------
(* track_opportunity, register_benefit_claim                               *)

(* What the queries over the registry answer for the claims of a key.      *)
CountedOf(legs) == ReadAsReal[legs]
LeftOf(expected, claimed) == IF expected > claimed THEN expected - claimed ELSE 0

Reestimated(k, o, stale) ==
    LET left == LeftOf(Estimate[o], CountedOf(claims[k])) IN
    [state |-> IF stale THEN "STALE"
               ELSE IF left = 0 /\ keyed[k].state # "NONE" THEN "EXHAUSTED" ELSE "ACTIVE",
     expected |-> Estimate[o],
     remaining |-> IF stale THEN 0 ELSE left]

TrackOpportunity(k, run, o, stale) ==
    /\ <<k, run>> \notin seenIn
    /\ keyed' = [keyed EXCEPT ![k] = Reestimated(k, o, stale)]
    /\ seenIn' = seenIn \cup {<<k, run>>}
    /\ UNCHANGED <<threads, sightings, torn, claims>>

(* The call raises; its update is committed by the next call.              *)
TrackAgain(k, run, o, stale) ==
    /\ <<k, run>> \in seenIn
    /\ keyed' = [keyed EXCEPT ![k] = Reestimated(k, o, stale)]
    /\ UNCHANGED <<threads, sightings, torn, seenIn, claims>>

(* Any leg of the client may be claimed under any key, once.  A stale row  *)
(* is given its remaining value back and stays stale.                      *)
RegisterClaim(k, b) ==
    /\ keyed[k].state # "NONE"
    /\ \A j \in OpportunityKeys : b \notin Range(claims[j])
    /\ claims' = [claims EXCEPT ![k] = Append(@, b)]
    /\ LET left == LeftOf(keyed[k].expected, CountedOf(claims'[k])) IN
       keyed' = [keyed EXCEPT ![k].remaining = left,
                              ![k].state = IF left = 0 THEN "EXHAUSTED" ELSE @]
    /\ UNCHANGED <<threads, sightings, torn, seenIn>>

TrackNext ==
    \/ \E k \in OpportunityKeys, run \in AnalysisRuns, o \in Tracked, stale \in BOOLEAN :
          TrackOpportunity(k, run, o, stale) \/ TrackAgain(k, run, o, stale)
    \/ \E k \in OpportunityKeys, b \in BenefitLegs : RegisterClaim(k, b)

LongitudinalNext == IssueNext \/ TrackNext
LongitudinalSpec == LongitudinalInit /\ [][LongitudinalNext]_longitudinalVars

-----------------------------------------------------------------------------
(* Unless a failed observation tore it, a thread can be read off its       *)
(* observations: it is resolved exactly when the last one says so, it      *)
(* was reopened as often as an open or recurring observation followed a    *)
(* resolved one directly, and only a thread that was once resolved has a   *)
(* closing date (management/longitudinal.py:54-61).                        *)
ThreadsReadBack ==
    \A i \in Issues \ torn :
        LET seen == sightings[i]
            says(n, states) == seen[n].state \in states
        IN /\ (threads[i].lifecycle = "NONE") <=> (seen = <<>>)
           /\ seen # <<>> =>
                 ((threads[i].lifecycle = "RESOLVED") <=> says(Len(seen), {"RESOLVED"}))
           /\ threads[i].reopened =
                 Cardinality({n \in 2 .. Len(seen) : /\ says(n, {"OPEN", "RECURRED"})
                                                     /\ says(n - 1, {"RESOLVED"})})
           /\ threads[i].closed => \E n \in DOMAIN seen : says(n, {"RESOLVED"})

(* What was claimed under a key, to the penny.                             *)
ClaimedOf(k) == SumFunctionOnSet(Claimable, Range(claims[k]))

(* What remains of a live opportunity is its latest estimate less every    *)
(* benefit ever claimed under its key, to the last digits that the binary  *)
(* sum leaves: an opportunity claimed in full may keep them and stay live. *)
(* An exhausted one has nothing left, and those digits at most are         *)
(* unclaimed.  A stale one has nothing left unless benefits were claimed   *)
(* under it, each of which gives it back what is unclaimed; no leg is      *)
(* claimed twice, under whichever keys and after whatever failed calls     *)
(* (management/longitudinal.py:76-95).                                     *)
RemainingIsUnclaimed ==
    /\ \A k \in OpportunityKeys :
          LET unclaimed == LeftOf(keyed[k].expected, ClaimedOf(k)) IN
          /\ keyed[k].state = "ACTIVE" => Near(keyed[k].remaining, unclaimed)
          /\ keyed[k].state = "EXHAUSTED" => keyed[k].remaining = 0 /\ unclaimed <= Drift
          /\ keyed[k].state = "STALE" /\ keyed[k].remaining # 0 =>
                claims[k] # <<>> /\ Near(keyed[k].remaining, unclaimed)
    /\ \A j, k \in OpportunityKeys : j # k => Range(claims[j]) \cap Range(claims[k]) = {}

(* Threads and tracked opportunities show what their histories add up to   *)
(* (management/longitudinal.py:54-95).                                     *)
LongitudinalReadsBack == ThreadsReadBack /\ RemainingIsUnclaimed
=============================================================================
