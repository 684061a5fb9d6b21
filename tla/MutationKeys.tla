----------------------------- MODULE MutationKeys -----------------------------
(***************************************************************************)
(* One browser tab uploading originals: api() and sessionEnded() of        *)
(* profit_doctor/workspace/ui.js against the receive route of app.py.      *)
(*                                                                         *)
(* The tab keeps in mutationKeys one Idempotency-Key per payload, so that  *)
(* an upload whose outcome it does not know can be repeated as the same    *)
(* operation.  The network may drop a request or its response, the server  *)
(* session may end under the tab, and another tab may sign in or close     *)
(* the review.  The server handles one receipt at a time (receive is a     *)
(* coroutine without an await once the body is read), so Serve is a step.  *)
(***************************************************************************)
EXTENDS Naturals

CONSTANTS
    Payloads,       \* signatures: method, url, body and headers of an upload
    MaxSends,       \* bound on the requests the tab sends
    MaxSessions,    \* bound on the server sessions that are created
    Nothing

ASSUME TabAssumption == MaxSends \in Nat /\ MaxSessions \in Nat /\ Nothing \notin Nat

\* What crypto.randomUUID draws and what a login creates is new each time: keys
\* and sessions are named by the order they appear in.
Keys == 1 .. MaxSends
Sessions == 1 .. MaxSessions

VARIABLES
    mutationKeys,   \* mutationKeys[p]: the key kept for payload p, or Nothing
    drawn,          \* number of keys drawn so far
    signedIn,       \* the session whose csrf the tab holds, or Nothing
    waiting,        \* the request the tab awaits (busy), 0 if none
    sent,           \* number of requests sent
    confirmed,      \* payloads the tab has announced as received
    requests,       \* requests under way to the server
    response,       \* the response under way to the tab, or Nothing
    live,           \* the server's session, or Nothing
    opened,         \* number of sessions created so far
    reviewOpen,     \* the engagement's status is OPEN
    receipts,       \* committed receipts, under their audit key
    disturbed       \* history: a session ended or a review was closed by now

tabVars == <<mutationKeys, drawn, signedIn, waiting, sent, confirmed, requests,
          response, live, opened, reviewOpen, receipts, disturbed>>

tab == <<mutationKeys, drawn, signedIn, waiting, sent, confirmed>>
server == <<live, opened, reviewOpen, receipts, disturbed>>

TabInit ==
    /\ mutationKeys = [p \in Payloads |-> Nothing] /\ drawn = 0
    /\ signedIn = Nothing /\ waiting = 0 /\ sent = 0 /\ confirmed = {}
    /\ requests = {} /\ response = Nothing
    /\ live = Nothing /\ opened = 0 /\ reviewOpen = TRUE /\ receipts = {}
    /\ disturbed = FALSE

\* Sign-in makes a new session the only one.
SignIn(s) ==
    /\ signedIn = Nothing /\ waiting = 0 /\ s = opened + 1
    /\ signedIn' = s /\ live' = s /\ opened' = s
    /\ UNCHANGED <<mutationKeys, drawn, waiting, sent, confirmed, requests,
                   response, reviewOpen, receipts, disturbed>>

\* Mutant: every request draws a key of its own.
KeyPerRequest(p, k) == k = drawn + 1

KeyFor(p, k) ==
    IF mutationKeys[p] # Nothing THEN k = mutationKeys[p] ELSE k = drawn + 1

\* The adviser uploads p, or uploads it again as long as it is unconfirmed.
Send(p, k) ==
    /\ signedIn # Nothing /\ waiting = 0 /\ sent < MaxSends /\ p \notin confirmed
    /\ KeyFor(p, k)
    /\ mutationKeys' = [mutationKeys EXCEPT ![p] = k]
    /\ drawn' = IF k = mutationKeys[p] THEN drawn ELSE k
    /\ sent' = sent + 1 /\ waiting' = sent + 1
    /\ requests' = requests \cup
         {[id |-> sent + 1, key |-> k, payload |-> p, session |-> signedIn]}
    /\ UNCHANGED <<signedIn, confirmed, response, server>>

\* The middleware, then receive.  Tabs share the cookie, so a tab left behind by
\* another's sign-in fails on its csrf (403) and not on the cookie (401).
Outcome(m) ==
    CASE live = Nothing -> 401
      [] live # Nothing /\ (live # m.session \/ ~reviewOpen) -> 403
      [] OTHER -> 200

Serve(m) ==
    /\ m \in requests
    /\ requests' = requests \ {m}
    /\ response' = IF waiting = m.id
                   THEN [id |-> m.id, status |-> Outcome(m), payload |-> m.payload]
                   ELSE response
    /\ receipts' = IF Outcome(m) = 200 /\ \A r \in receipts : r.key # m.key
                   THEN receipts \cup {[key |-> m.key, payload |-> m.payload]}
                   ELSE receipts
    /\ UNCHANGED <<tab, live, opened, reviewOpen, disturbed>>

\* sessionEnded forgets every key.
SessionEnded ==
    /\ signedIn' = Nothing
    /\ mutationKeys' = [p \in Payloads |-> Nothing]

\* The response arrives.
Receive ==
    /\ response # Nothing
    /\ response' = Nothing
    /\ waiting' = 0
    /\ CASE response.status = 401 ->
              SessionEnded /\ UNCHANGED confirmed
         [] response.status = 403 ->
              /\ mutationKeys' = [mutationKeys EXCEPT ![response.payload] = Nothing]
              /\ UNCHANGED <<signedIn, confirmed>>
         [] OTHER ->
              /\ mutationKeys' = [mutationKeys EXCEPT ![response.payload] = Nothing]
              /\ confirmed' = confirmed \cup {response.payload}
              /\ UNCHANGED signedIn
    /\ UNCHANGED <<drawn, sent, requests, server>>

\* fetch fails, or the body is no JSON: "Save could not be confirmed".
Unconfirmed ==
    /\ waiting # 0
    /\ waiting' = 0
    /\ response' = Nothing
    /\ UNCHANGED <<mutationKeys, drawn, signedIn, sent, confirmed, requests, server>>

\* A request never reaches receive, or its transaction does not commit.
Lose(m) ==
    /\ m \in requests
    /\ requests' = requests \ {m}
    /\ UNCHANGED <<tab, response, server>>

\* The session expires or the server restarts.
LoseSession ==
    /\ live # Nothing
    /\ live' = Nothing /\ disturbed' = TRUE
    /\ UNCHANGED <<tab, requests, response, opened, reviewOpen, receipts>>

\* The tab's own countdown reaches zero.
Countdown ==
    /\ signedIn # Nothing
    /\ SessionEnded
    /\ disturbed' = TRUE
    /\ UNCHANGED <<drawn, waiting, sent, confirmed, requests, response, live,
                   opened, reviewOpen, receipts>>

\* Another tab of the browser signs in.
OtherSignIn(s) ==
    /\ s = opened + 1
    /\ live' = s /\ opened' = s /\ disturbed' = TRUE
    /\ UNCHANGED <<tab, requests, response, reviewOpen, receipts>>

\* Another tab closes or reopens the review.
ToggleReview ==
    /\ reviewOpen' = ~reviewOpen /\ disturbed' = TRUE
    /\ UNCHANGED <<tab, requests, response, live, opened, receipts>>

TabNext ==
    \/ \E s \in Sessions : SignIn(s) \/ OtherSignIn(s)
    \/ \E p \in Payloads, k \in Keys : Send(p, k)
    \/ \E m \in requests : Serve(m) \/ Lose(m)
    \/ Receive \/ Unconfirmed \/ LoseSession \/ Countdown \/ ToggleReview

TabSpec == TabInit /\ [][TabNext]_tabVars

-----------------------------------------------------------------------------
(* Properties *)

TabTypeOK ==
    /\ mutationKeys \in [Payloads -> Keys \cup {Nothing}] /\ drawn \in 0 .. MaxSends
    /\ signedIn \in Sessions \cup {Nothing} /\ confirmed \in SUBSET Payloads
    /\ sent \in 0 .. MaxSends /\ waiting \in {0, sent}
    /\ requests \in SUBSET
         [id: 1 .. MaxSends, key: Keys, payload: Payloads, session: Sessions]
    /\ response \in
         [id: 1 .. MaxSends, status: {200, 401, 403}, payload: Payloads] \cup {Nothing}
    /\ live \in Sessions \cup {Nothing} /\ opened \in 0 .. MaxSessions
    /\ reviewOpen \in BOOLEAN /\ disturbed \in BOOLEAN
    /\ receipts \in SUBSET [key: Keys, payload: Payloads]

\* "Do not silently issue a new identity after an uncertain response ... no blind
\* retry or duplicate receipt": an upload repeated until it is confirmed leaves
\* one receipt.
OneReceiptPerUpload ==
    \A r, s \in receipts : r.payload = s.payload => r = s

\* As long as the session lasts and the review stays open, retained keys do give
\* that: neither a lost response nor an answer still on its way duplicates.
UndisturbedUploadsOnce == ~disturbed => OneReceiptPerUpload

\* "Only confirmed committed server responses may produce Saved": what the tab
\* announces as received is committed, whatever was lost, late or refused.
SavedIsCommitted == \A p \in confirmed : \E r \in receipts : r.payload = p

\* A key never comes to stand for two payloads, in the map, on the wire or in the
\* audit: the server would answer 409 for an upload it never saw.
KeyNamesOnePayload ==
    LET uses == receipts \cup {[key |-> m.key, payload |-> m.payload] : m \in requests}
                  \cup {[key |-> mutationKeys[p], payload |-> p] :
                           p \in {q \in Payloads : mutationKeys[q] # Nothing}}
    IN  \A x, y \in uses : x.key = y.key => x.payload = y.payload

\* Whatever was lost, late or refused, the tab says of an upload only what the
\* server holds, under a key that means that upload (ui.js 17-27).
UploadsAreHonest == SavedIsCommitted /\ KeyNamesOnePayload

\* A tab that is left in peace stores each upload once, and one that is not still
\* says the truth.
UploadsAreSound == UndisturbedUploadsOnce /\ UploadsAreHonest
=============================================================================
