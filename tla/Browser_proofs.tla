----------------------------- MODULE Browser_proofs -----------------------------
(***************************************************************************)
(* Theorems about what a browser relies on: the operator's session, and    *)
(* the keys under which a tab repeats its requests.                        *)
(***************************************************************************)
EXTENDS OperatorSession, MutationKeys, TLAPS

-----------------------------------------------------------------------------
(***************************************************************************)
(* Theorems about OperatorSession, for any number of requests, any supply  *)
(* of bindings and any two limits.  The service keeps one start and one    *)
(* last activity, not one per session; the inductive invariant says that   *)
(* they are always those of the active session, and everything the limits  *)
(* promise follows from that.                                              *)
(***************************************************************************)

\* The two time stamps of the service belong to the session that is active.
OwnTimes ==
    active # None => started = loginAt[active] /\ lastActivity = activeAt[active]

Inv == TypeOK /\ OwnTimes /\ CsrfNeverCrosses

-----------------------------------------------------------------------------
(* Lemmas *)

\* Initially no session is active.
LEMMA InitInv == Init => Inv
BY LimitsAssumption, NoneAssumption DEF Init, Inv, TypeOK, OwnTimes, CsrfNeverCrosses

\* A login draws a binding nobody held, and stamps it.
LEMMA LoginInv ==
    ASSUME Inv, NEW b \in Bindings, Login(b) PROVE Inv'
<1>1. TypeOK'
    BY NoneAssumption DEF Inv, TypeOK, Login
<1>2. OwnTimes'
    BY NoneAssumption DEF Inv, TypeOK, OwnTimes, Login
<1>3. CsrfNeverCrosses'
    BY DEF Inv, CsrfNeverCrosses, Login
<1> QED  BY <1>1, <1>2, <1>3 DEF Inv

\* A request let through is bound to the active session and touches no other.
LEMMA AuthenticateInv ==
    ASSUME Inv, NEW h \in Handlers, NEW token \in issued, NEW csrf \in issued,
           NEW r \in Routes, Authenticate(h, token, csrf, r)
    PROVE  Inv'
<1>0. active \in issued /\ active # None /\ active \in Bindings
    BY DEF Inv, TypeOK, Authenticate, Required
<1>1. TypeOK'
    BY <1>0, NoneAssumption DEF Inv, TypeOK, Authenticate, Touched
<1>2. OwnTimes'
    BY <1>0 DEF Inv, TypeOK, OwnTimes, Authenticate, Touched
<1>3. CsrfNeverCrosses'
    BY DEF Inv, CsrfNeverCrosses, Authenticate
<1> QED  BY <1>1, <1>2, <1>3 DEF Inv

\* Metadata looks at the session again: it answers the holder of the active one.
LEMMA MetadataInv ==
    ASSUME Inv, NEW h \in Handlers, Metadata(h) PROVE Inv'
<1>0. bound[h] = active /\ active \in issued /\ active # None /\ active \in Bindings
    BY DEF Inv, TypeOK, Metadata, Required
<1>1. TypeOK'
    BY <1>0, NoneAssumption DEF Inv, TypeOK, Metadata, Leave
<1>2. OwnTimes'
    BY <1>0 DEF Inv, TypeOK, OwnTimes, Metadata
<1>3. CsrfNeverCrosses'
    BY DEF Inv, CsrfNeverCrosses, Metadata
<1> QED  BY <1>1, <1>2, <1>3 DEF Inv

\* Requests that end without touching a session.
LEMMA LeavingInv ==
    ASSUME Inv, NEW h \in Handlers, Refused(h) \/ End(h) \/ Business(h) PROVE Inv'
<1>1. TypeOK'
    BY NoneAssumption DEF Inv, TypeOK, Refused, End, Business, Leave
<1>2. OwnTimes'
    BY DEF Inv, OwnTimes, Refused, End, Business
<1>3. CsrfNeverCrosses'
    BY DEF Inv, CsrfNeverCrosses, Refused, End, Business
<1> QED  BY <1>1, <1>2, <1>3 DEF Inv

\* The process restarts, or time passes.
LEMMA AmbientInv ==
    ASSUME Inv, Restart \/ Tick PROVE Inv'
<1>1. TypeOK'
    BY LimitsAssumption DEF Inv, TypeOK, Restart, Tick
<1>2. OwnTimes'
    BY DEF Inv, OwnTimes, Restart, Tick
<1>3. CsrfNeverCrosses'
    BY DEF Inv, CsrfNeverCrosses, Restart, Tick
<1> QED  BY <1>1, <1>2, <1>3 DEF Inv

\* The invariant is inductive.
LEMMA NextInv == Inv /\ [Next]_vars => Inv'
<1> SUFFICES ASSUME Inv, [Next]_vars PROVE Inv'
    OBVIOUS
<1>1. ASSUME NEW b \in Bindings, Login(b) PROVE Inv'
    BY <1>1, LoginInv
<1>2. ASSUME NEW h \in Handlers, NEW token \in issued, NEW csrf \in issued,
             NEW r \in Routes, Authenticate(h, token, csrf, r)
      PROVE  Inv'
    BY <1>2, AuthenticateInv
<1>3. ASSUME NEW h \in Handlers, Metadata(h) PROVE Inv'
    BY <1>3, MetadataInv
<1>4. ASSUME NEW h \in Handlers, Refused(h) \/ End(h) \/ Business(h) PROVE Inv'
    BY <1>4, LeavingInv
<1>5. CASE Restart \/ Tick
    BY <1>5, AmbientInv
<1>6. CASE UNCHANGED vars
    BY <1>6 DEF Inv, TypeOK, OwnTimes, CsrfNeverCrosses, vars
<1> QED
    BY <1>1, <1>2, <1>3, <1>4, <1>5, <1>6 DEF Next

\* The invariant holds throughout.
LEMMA Invariance == Spec => []Inv
BY InitInv, NextInv, PTL DEF Spec

\* The service's own test of a session is the test of the session's own times.
LEMMA RequiredIsUsable ==
    ASSUME Inv, NEW b \in issued PROVE Required(b) <=> Usable(b)
BY DEF Inv, OwnTimes, Required, Usable

\* What a session's own times say only gets worse, except by use of the session.
LEMMA StaysUnusable ==
    ASSUME Inv, [Next]_vars, NEW b \in issued, ~Usable(b) PROVE ~Usable(b)'
<1> USE DEF Inv
<1>0. /\ b \in Bindings /\ b # None
      /\ clock \in Nat /\ loginAt[b] \in Nat /\ activeAt[b] \in Nat
      /\ IDLE \in Nat /\ ABSOLUTE \in Nat
    BY LimitsAssumption, NoneAssumption DEF TypeOK
<1>1. ~Required(b)
    BY RequiredIsUsable
<1>2. ASSUME NEW c \in Bindings, Login(c) PROVE ~Usable(b)'
    BY <1>0, <1>2 DEF Login, Usable
<1>3. ASSUME NEW h \in Handlers, NEW token \in issued, NEW csrf \in issued,
             NEW r \in Routes, Authenticate(h, token, csrf, r)
      PROVE  ~Usable(b)'
    <2>1. Required(active) /\ active # b
        BY <1>1, <1>3 DEF Authenticate
    <2> QED  BY <1>3, <2>1 DEF Authenticate, Usable
<1>4. ASSUME NEW h \in Handlers, Metadata(h) PROVE ~Usable(b)'
    <2>1. active # b
        BY <1>1, <1>4 DEF Metadata, Required
    <2> QED  BY <1>4, <2>1 DEF Metadata, Usable
<1>5. ASSUME NEW h \in Handlers, Refused(h) \/ End(h) \/ Business(h) PROVE ~Usable(b)'
    BY <1>0, <1>5 DEF Refused, End, Business, Usable
<1>6. CASE Restart
    BY <1>0, <1>6 DEF Restart, Usable
<1>7. CASE Tick
    <2>1. clock' = clock + 1 /\ UNCHANGED <<active, loginAt, activeAt>>
        BY <1>7 DEF Tick
    <2> QED  BY <1>0, <2>1 DEF Usable
<1>8. CASE UNCHANGED vars
    BY <1>8 DEF vars, Usable
<1> QED
    BY <1>2, <1>3, <1>4, <1>5, <1>6, <1>7, <1>8 DEF Next

\* A step that takes the active session away is one of three.
LEMMA ActiveGoesAway ==
    ASSUME Inv, [Next]_vars, active # None, active' # active
    PROVE  \/ active' \in Bindings \ issued
           \/ Restart
           \/ \E h \in Handlers : route[h] = "end" /\ bound[h] = active
<1>1. ASSUME NEW h \in Handlers, End(h)
      PROVE  route[h] = "end" /\ bound[h] = active
    BY <1>1 DEF End, Required
<1>2. ASSUME NEW b \in Bindings, Login(b) PROVE active' \in Bindings \ issued
    BY <1>2 DEF Login
<1> QED
    BY <1>1, <1>2 DEF Next, vars, Authenticate, Metadata, Refused, Business, Tick

-----------------------------------------------------------------------------
(* Theorems *)

\* The variables of session.py keep their types.
THEOREM TypeCorrect == Spec => []TypeOK
<1>1. Inv => TypeOK
    BY DEF Inv
<1> QED  BY Invariance, <1>1, PTL

\* The limits a session meets are its own, whoever else logs in, renews or works.
THEOREM LimitsOwned == Spec => []LimitsAreOwn
<1>1. Inv => LimitsAreOwn
    BY RequiredIsUsable DEF LimitsAreOwn
<1> QED  BY Invariance, <1>1, PTL

\* No response tells one session's holder the request token of another.
THEOREM CsrfStaysHome == Spec => []CsrfNeverCrosses
<1>1. Inv => CsrfNeverCrosses
    BY DEF Inv
<1> QED  BY Invariance, <1>1, PTL

\* A session that stopped working never works again.
THEOREM NeverRevived == Spec => NoRevival
<1>1. Inv /\ [Next]_vars => [\A b \in issued : ~Usable(b) => ~Usable(b)']_vars
    BY StaysUnusable
<1> QED  BY Invariance, <1>1, PTL DEF Spec, NoRevival

\* A stale request never signs out the session that replaced its own.
THEOREM SignOutIsOwn == Spec => OnlyOwnSignOut
<1>1. Inv /\ [Next]_vars =>
        [active # None /\ active' # active =>
           \/ active' \in Bindings \ issued
           \/ Restart
           \/ \E h \in Handlers : route[h] = "end" /\ bound[h] = active]_vars
    BY ActiveGoesAway
<1> QED  BY Invariance, <1>1, PTL DEF Spec, OnlyOwnSignOut

-----------------------------------------------------------------------------
(***************************************************************************)
(* Theorems about MutationKeys, for any payloads and any number of         *)
(* requests and sessions.  The tab, the wire and the audit use keys; the   *)
(* inductive invariant says that a key that was drawn means one payload    *)
(* wherever it is used, and that as long as nobody disturbs the tab every  *)
(* use of a payload, on the wire or committed, is of the key the tab still *)
(* holds for it, unless the tab has been told that it was received.        *)
(***************************************************************************)

\* Where a key stands for a payload: in the audit, on the wire, in the tab.
Held == {p \in Payloads : mutationKeys[p] # Nothing}
Sent == {[key |-> m.key, payload |-> m.payload] : m \in requests}
Uses == receipts \cup Sent \cup {[key |-> mutationKeys[p], payload |-> p] : p \in Held}

\* A key in use was drawn, and means one payload.
KeysAreDrawn ==
    /\ \A x \in Uses : x.key <= drawn
    /\ KeyNamesOnePayload

\* A response that says "received" is about a committed receipt.
AnswersAreCommitted ==
    /\ SavedIsCommitted
    /\ response # Nothing /\ response.status = 200 =>
          \E r \in receipts : r.payload = response.payload

\* Left in peace, every request is of the server's session and will be let in,
\* and every use of a payload is of one key, which the tab holds until it has
\* been told of the receipt.
InPeace ==
    /\ reviewOpen /\ live = signedIn
    /\ \A m \in requests : m.session = signedIn
    /\ response # Nothing => response.status = 200
    /\ \A x, y \in receipts \cup Sent : x.payload = y.payload => x.key = y.key
    /\ \A x \in receipts \cup Sent :
          x.payload \notin confirmed => x.key = mutationKeys[x.payload]

TabInv == TabTypeOK /\ KeysAreDrawn /\ AnswersAreCommitted /\ (~disturbed => InPeace)

-----------------------------------------------------------------------------
(* Lemmas about the uses of keys *)

\* A use is a key that can be drawn, for a payload.
LEMMA UsesTyped ==
    ASSUME TabTypeOK PROVE Uses \subseteq [key: Keys, payload: Payloads]
<1>1. receipts \subseteq [key: Keys, payload: Payloads]
    BY DEF TabTypeOK
<1>2. ASSUME NEW m \in requests
      PROVE  [key |-> m.key, payload |-> m.payload] \in [key: Keys, payload: Payloads]
    BY DEF TabTypeOK
<1>3. ASSUME NEW p \in Held
      PROVE  [key |-> mutationKeys[p], payload |-> p] \in [key: Keys, payload: Payloads]
    BY DEF TabTypeOK, Held
<1> QED  BY <1>1, <1>2, <1>3 DEF Uses, Sent

\* That a key names one payload, said of the uses.
LEMMA OnePayload ==
    KeyNamesOnePayload <=> \A x, y \in Uses : x.key = y.key => x.payload = y.payload
BY DEF KeyNamesOnePayload, Uses, Sent, Held

\* A step that draws no key and brings no use of one keeps what is said of keys.
LEMMA FewerUses ==
    ASSUME KeysAreDrawn, Uses' \subseteq Uses, drawn' = drawn PROVE KeysAreDrawn'
<1>1. (\A x, y \in Uses : x.key = y.key => x.payload = y.payload)'
    BY OnePayload DEF KeysAreDrawn
<1>2. KeyNamesOnePayload'
    BY <1>1, OnePayload, PTL
<1> QED  BY <1>2 DEF KeysAreDrawn

\* A request on its way and a committed receipt are uses.
LEMMA CommittedUses == receipts \cup Sent \subseteq Uses
BY DEF Uses

-----------------------------------------------------------------------------
(* Lemmas about the steps *)

\* A tab starts with no key, and the server with no receipt.
LEMMA TabInitInv == TabInit => TabInv
<1> SUFFICES ASSUME TabInit PROVE TabInv
    OBVIOUS
<1>1. TabTypeOK
    <2>1. mutationKeys \in [Payloads -> Keys \cup {Nothing}]
        BY DEF TabInit
    <2>2. drawn \in 0 .. MaxSends /\ sent \in 0 .. MaxSends /\ opened \in 0 .. MaxSessions
        BY TabAssumption DEF TabInit
    <2> QED  BY <2>1, <2>2 DEF TabInit, TabTypeOK
<1>2. Held = {} /\ Sent = {} /\ Uses = {}
    BY DEF TabInit, Held, Sent, Uses
<1>3. KeysAreDrawn
    BY <1>2, OnePayload DEF KeysAreDrawn
<1>4. AnswersAreCommitted
    BY DEF TabInit, AnswersAreCommitted, SavedIsCommitted
<1>5. InPeace
    BY <1>2 DEF TabInit, InPeace
<1> QED  BY <1>1, <1>3, <1>4, <1>5 DEF TabInv

\* Every step keeps the variables of the tab and of the server in their types.
LEMMA TabTypeStep == TabTypeOK /\ [TabNext]_tabVars => TabTypeOK'
<1> SUFFICES ASSUME TabTypeOK, [TabNext]_tabVars PROVE TabTypeOK'
    OBVIOUS
<1> USE DEF TabTypeOK
<1>1. ASSUME NEW s \in Sessions, SignIn(s) \/ OtherSignIn(s) PROVE TabTypeOK'
    <2>1. s \in 0 .. MaxSessions
        BY TabAssumption DEF Sessions
    <2>2. signedIn' \in Sessions \cup {Nothing} /\ live' \in Sessions /\ opened' \in 0 .. MaxSessions
        BY <1>1, <2>1 DEF SignIn, OtherSignIn, tab
    <2>3. disturbed' \in BOOLEAN
        BY <1>1 DEF SignIn, OtherSignIn
    <2>4. UNCHANGED <<mutationKeys, drawn, waiting, sent, confirmed, requests, response,
                      reviewOpen, receipts>>
        BY <1>1 DEF SignIn, OtherSignIn, tab
    <2> QED  BY <2>2, <2>3, <2>4
<1>2. ASSUME NEW p \in Payloads, NEW k \in Keys, Send(p, k) PROVE TabTypeOK'
    <2>1. k \in 0 .. MaxSends /\ sent + 1 \in 0 .. MaxSends /\ sent + 1 \in 1 .. MaxSends
        BY <1>2, TabAssumption DEF Send, Keys
    <2>2. signedIn \in Sessions
        BY <1>2 DEF Send
    <2>3. mutationKeys' \in [Payloads -> Keys \cup {Nothing}]
        BY <1>2 DEF Send
    <2>4. [id |-> sent + 1, key |-> k, payload |-> p, session |-> signedIn]
             \in [id: 1 .. MaxSends, key: Keys, payload: Payloads, session: Sessions]
        BY <2>1, <2>2
    <2>5. requests' \subseteq [id: 1 .. MaxSends, key: Keys, payload: Payloads, session: Sessions]
        BY <1>2, <2>4 DEF Send
    <2>6. drawn' \in 0 .. MaxSends /\ sent' \in 0 .. MaxSends /\ waiting' \in {0, sent'}
        BY <1>2, <2>1 DEF Send
    <2> QED  BY <1>2, <2>3, <2>5, <2>6 DEF Send, server
<1>3. ASSUME NEW m \in requests, Serve(m) PROVE TabTypeOK'
    <2>1. /\ m.id \in 1 .. MaxSends /\ m.key \in Keys /\ m.payload \in Payloads
          /\ Outcome(m) \in {200, 401, 403}
        BY DEF Outcome
    <2>2. response' \in [id: 1 .. MaxSends, status: {200, 401, 403}, payload: Payloads] \cup {Nothing}
        BY <1>3, <2>1 DEF Serve
    <2>3. receipts' \subseteq [key: Keys, payload: Payloads]
        BY <1>3, <2>1 DEF Serve
    <2> QED  BY <1>3, <2>2, <2>3 DEF Serve, tab
<1>4. CASE Receive
    <2>1. response \in [id: 1 .. MaxSends, status: {200, 401, 403}, payload: Payloads]
        BY <1>4 DEF Receive
    <2>2. /\ mutationKeys' \in [Payloads -> Keys \cup {Nothing}]
          /\ signedIn' \in Sessions \cup {Nothing} /\ confirmed' \subseteq Payloads
        BY <1>4, <2>1 DEF Receive, SessionEnded
    <2> QED  BY <1>4, <2>2 DEF Receive, server
<1>5. ASSUME NEW m \in requests, Lose(m) PROVE TabTypeOK'
    BY <1>5 DEF Lose, tab, server
<1>6. CASE Unconfirmed
    BY <1>6 DEF Unconfirmed, server
<1>7. CASE LoseSession \/ ToggleReview
    <2>1. live' \in Sessions \cup {Nothing} /\ reviewOpen' \in BOOLEAN /\ disturbed' \in BOOLEAN
        BY <1>7 DEF LoseSession, ToggleReview
    <2>2. UNCHANGED <<tab, requests, response, opened, receipts>>
        BY <1>7 DEF LoseSession, ToggleReview
    <2> QED  BY <2>1, <2>2 DEF tab
<1>8. CASE Countdown
    BY <1>8 DEF Countdown, SessionEnded
<1>9. CASE UNCHANGED tabVars
    BY <1>9 DEF tabVars
<1> QED
    BY <1>1, <1>2, <1>3, <1>4, <1>5, <1>6, <1>7, <1>8, <1>9 DEF TabNext

\* A sign-in follows a time without a session, in which nothing was under way
\* unless the tab had been disturbed.
LEMMA SignInInv ==
    ASSUME TabInv, NEW s \in Sessions, SignIn(s) PROVE TabInv'
<1>1. UNCHANGED <<mutationKeys, drawn, confirmed, requests, response, reviewOpen, receipts, disturbed>>
    BY DEF SignIn
<1>2. TabTypeOK'
    BY TabTypeStep DEF TabInv, TabNext
<1>3. Uses' = Uses /\ Sent' = Sent
    BY <1>1 DEF Uses, Sent, Held
<1>4. KeysAreDrawn'
    BY <1>1, <1>3, FewerUses DEF TabInv
<1>5. AnswersAreCommitted'
    BY <1>1 DEF TabInv, AnswersAreCommitted, SavedIsCommitted
<1>6. ASSUME ~disturbed PROVE InPeace'
    <2>1. requests = {}
        BY <1>6, TabAssumption DEF TabInv, TabTypeOK, InPeace, SignIn, Sessions
    <2> QED  BY <1>1, <1>3, <1>6, <2>1 DEF TabInv, InPeace, SignIn
<1> QED  BY <1>1, <1>2, <1>4, <1>5, <1>6 DEF TabInv

\* An upload uses the key the tab holds for it, or one that nobody has used.
LEMMA SendInv ==
    ASSUME TabInv, NEW p \in Payloads, NEW k \in Keys, Send(p, k) PROVE TabInv'
<1> DEFINE use == [key |-> k, payload |-> p]
<1>1. /\ UNCHANGED <<confirmed, response, signedIn, live, reviewOpen, receipts, disturbed>>
      /\ p \notin confirmed /\ signedIn \in Sessions
    BY DEF TabInv, TabTypeOK, Send, server
<1>2. TabTypeOK'
    BY TabTypeStep DEF TabInv, TabNext
<1>3. /\ mutationKeys \in [Payloads -> Keys \cup {Nothing}]
      /\ mutationKeys' = [mutationKeys EXCEPT ![p] = k]
    BY DEF TabInv, TabTypeOK, Send
<1>4. Sent' = Sent \cup {use}
    <2> DEFINE request == [id |-> sent + 1, key |-> k, payload |-> p, session |-> signedIn]
    <2>1. requests' = requests \cup {request}
        BY DEF Send
    <2>2. request.key = k /\ request.payload = p
        OBVIOUS
    <2> HIDE DEF request
    <2> QED  BY <2>1, <2>2 DEF Sent
<1>5. Uses' \subseteq Uses \cup {use}
    <2>1. ASSUME NEW q \in Held' PROVE [key |-> mutationKeys'[q], payload |-> q] \in Uses \cup {use}
        BY <1>3, <2>1 DEF Held, Uses
    <2> QED  BY <1>1, <1>4, <2>1 DEF Uses
<1>6. /\ drawn' \in Nat /\ drawn \in Nat /\ drawn <= drawn' /\ k <= drawn'
      /\ \A x \in Uses : x.key = k => x.payload = p
    <2>1. Nothing \notin Keys /\ k \in Nat /\ drawn \in Nat /\ drawn' \in Nat
        BY <1>2, TabAssumption DEF TabInv, TabTypeOK, Keys
    <2>2. CASE mutationKeys[p] # Nothing
        <3>1. k = mutationKeys[p] /\ drawn' = drawn /\ use \in Uses
            BY <2>2 DEF Send, KeyFor, Uses, Held
        <3> QED  BY <2>1, <3>1, OnePayload DEF TabInv, KeysAreDrawn
    <2>3. CASE mutationKeys[p] = Nothing
        <3>1. k = drawn + 1 /\ drawn' = k
            BY <2>1, <2>3 DEF Send, KeyFor
        <3>2. \A x \in Uses : x.key \in Nat /\ x.key <= drawn
            BY UsesTyped DEF TabInv, KeysAreDrawn, Keys
        <3> QED  BY <2>1, <3>1, <3>2
    <2> QED  BY <2>2, <2>3
<1>7. KeysAreDrawn'
    <2>1. \A x \in Uses : x.key \in Nat /\ x.key <= drawn
        BY UsesTyped DEF TabInv, KeysAreDrawn, Keys
    <2>2. \A x \in Uses' : x.key <= drawn'
        BY <1>5, <1>6, <2>1 DEF Keys
    <2>3. (\A x, y \in Uses : x.key = y.key => x.payload = y.payload)'
        BY <1>5, <1>6, OnePayload DEF TabInv, KeysAreDrawn
    <2>4. KeyNamesOnePayload'
        BY <2>3, OnePayload, PTL
    <2> QED  BY <2>2, <2>4 DEF KeysAreDrawn
<1>8. AnswersAreCommitted'
    BY <1>1 DEF TabInv, AnswersAreCommitted, SavedIsCommitted
<1>9. ASSUME ~disturbed PROVE InPeace'
    <2>1. InPeace /\ (receipts \cup Sent)' = receipts \cup Sent \cup {use}
        BY <1>1, <1>4, <1>9 DEF TabInv
    <2>2. \A x \in receipts \cup Sent : x.payload \in Payloads /\ (x.payload = p => x.key = k)
        <3>1. \A x \in receipts \cup Sent : x.payload \in Payloads /\ x.key \in Keys /\ x.key # Nothing
            BY UsesTyped, CommittedUses, TabAssumption DEF TabInv, Keys
        <3> QED  BY <1>1, <2>1, <3>1 DEF InPeace, Send, KeyFor
    <2>3. \A m \in requests' : m.session = signedIn'
        BY <1>1, <2>1 DEF InPeace, Send
    <2>4. \A x, y \in (receipts \cup Sent)' : x.payload = y.payload => x.key = y.key
        BY <2>1, <2>2 DEF InPeace
    <2>5. \A x \in (receipts \cup Sent)' :
             x.payload \notin confirmed' => x.key = mutationKeys'[x.payload]
        BY <1>1, <1>3, <2>1, <2>2 DEF InPeace
    <2> QED  BY <1>1, <2>1, <2>3, <2>4, <2>5 DEF InPeace
<1> QED  BY <1>1, <1>2, <1>7, <1>8, <1>9 DEF TabInv

\* What is served was a use before it was committed, and a response that says
\* "received" is given only with the receipt.
LEMMA ServeInv ==
    ASSUME TabInv, NEW m \in requests, Serve(m) PROVE TabInv'
<1> DEFINE use == [key |-> m.key, payload |-> m.payload]
<1>1. UNCHANGED <<mutationKeys, drawn, signedIn, confirmed, live, reviewOpen, disturbed>>
    BY DEF Serve, tab
<1>2. TabTypeOK'
    BY TabTypeStep DEF TabInv, TabNext
<1>3. use \in Sent /\ use \in Uses /\ receipts \subseteq receipts' /\ receipts' \subseteq receipts \cup {use}
    BY DEF Serve, Sent, Uses
<1>4. Sent' \subseteq Sent /\ Held' = Held
    BY <1>1 DEF Serve, Sent, Held
<1>5. Uses' \subseteq Uses /\ (receipts \cup Sent)' \subseteq receipts \cup Sent
    BY <1>1, <1>3, <1>4 DEF Uses
<1>6. KeysAreDrawn'
    BY <1>1, <1>5, FewerUses DEF TabInv
<1>7. AnswersAreCommitted'
    <2>1. Outcome(m) = 200 => \E r \in receipts' : r.payload = m.payload
        <3>1. ASSUME NEW r \in receipts, r.key = m.key PROVE r.payload = m.payload
            BY <1>3, <3>1, OnePayload, CommittedUses DEF TabInv, KeysAreDrawn
        <3> QED  BY <1>3, <3>1 DEF Serve
    <2>2. SavedIsCommitted'
        BY <1>1, <1>3 DEF TabInv, AnswersAreCommitted, SavedIsCommitted
    <2>3. response' # Nothing /\ response'.status = 200 =>
             \E r \in receipts' : r.payload = response'.payload
        BY <1>3, <2>1 DEF TabInv, AnswersAreCommitted, Serve
    <2> QED  BY <2>2, <2>3 DEF AnswersAreCommitted
<1>8. ASSUME ~disturbed PROVE InPeace'
    <2>1. InPeace
        BY <1>8 DEF TabInv
    <2>2. live = m.session /\ live # Nothing
        BY <2>1, TabAssumption DEF TabInv, TabTypeOK, InPeace, Sessions
    <2>3. Outcome(m) = 200
        BY <2>1, <2>2 DEF InPeace, Outcome
    <2>4. response' # Nothing => response'.status = 200
        BY <2>1, <2>3 DEF InPeace, Serve
    <2>5. requests' \subseteq requests
        BY DEF Serve
    <2> QED  BY <1>1, <1>5, <2>1, <2>4, <2>5 DEF InPeace
<1> QED  BY <1>1, <1>2, <1>6, <1>7, <1>8 DEF TabInv

\* A response ends the use of its key by the tab.  Only one that says "received"
\* is announced; in peace there is no other.
LEMMA ReceiveInv ==
    ASSUME TabInv, Receive PROVE TabInv'
<1>1. UNCHANGED <<drawn, requests, live, reviewOpen, receipts, disturbed>> /\ response' = Nothing
    BY DEF Receive, server
<1>2. TabTypeOK'
    BY TabTypeStep DEF TabInv, TabNext
<1>3. /\ response # Nothing /\ response.status \in {200, 401, 403} /\ response.payload \in Payloads
      /\ mutationKeys \in [Payloads -> Keys \cup {Nothing}]
    BY DEF TabInv, TabTypeOK, Receive
<1>4. \A q \in Payloads : mutationKeys'[q] \in {mutationKeys[q], Nothing}
    BY <1>3 DEF Receive, SessionEnded
<1>5. Sent' = Sent /\ Uses' \subseteq Uses
    BY <1>1, <1>4 DEF Uses, Sent, Held
<1>6. KeysAreDrawn'
    BY <1>1, <1>5, FewerUses DEF TabInv
<1>7. AnswersAreCommitted'
    <2>1. confirmed' = IF response.status = 200 THEN confirmed \cup {response.payload} ELSE confirmed
        BY <1>3 DEF Receive
    <2> QED  BY <1>1, <1>3, <2>1 DEF TabInv, AnswersAreCommitted, SavedIsCommitted
<1>8. ASSUME ~disturbed PROVE InPeace'
    <2>1. InPeace /\ response.status = 200
        BY <1>3, <1>8 DEF TabInv, InPeace
    <2>2. /\ signedIn' = signedIn /\ confirmed' = confirmed \cup {response.payload}
          /\ mutationKeys' = [mutationKeys EXCEPT ![response.payload] = Nothing]
        BY <2>1 DEF Receive
    <2>3. \A x \in receipts \cup Sent : x.payload \in Payloads
        BY UsesTyped, CommittedUses DEF TabInv
    <2>4. \A x \in (receipts \cup Sent)' :
             x.payload \notin confirmed' => x.key = mutationKeys'[x.payload]
        BY <1>1, <1>3, <1>5, <2>1, <2>2, <2>3 DEF InPeace
    <2> QED  BY <1>1, <1>5, <2>1, <2>2, <2>4 DEF InPeace
<1> QED  BY <1>1, <1>2, <1>6, <1>7, <1>8 DEF TabInv

\* A request or a response is lost.
LEMMA LossInv ==
    ASSUME TabInv, Unconfirmed \/ \E m \in requests : Lose(m) PROVE TabInv'
<1>1. /\ UNCHANGED <<mutationKeys, drawn, signedIn, confirmed, server>>
      /\ requests' \subseteq requests /\ response' \in {response, Nothing}
    BY DEF Unconfirmed, Lose, tab, server
<1>2. TabTypeOK'
    BY TabTypeStep DEF TabInv, TabNext
<1>3. Uses' \subseteq Uses /\ (receipts \cup Sent)' \subseteq receipts \cup Sent
    BY <1>1 DEF Uses, Sent, Held, server
<1>4. KeysAreDrawn'
    BY <1>1, <1>3, FewerUses DEF TabInv
<1>5. AnswersAreCommitted'
    BY <1>1 DEF TabInv, AnswersAreCommitted, SavedIsCommitted, server
<1>6. ~disturbed => InPeace'
    BY <1>1, <1>3 DEF TabInv, InPeace, server
<1> QED  BY <1>1, <1>2, <1>4, <1>5, <1>6 DEF TabInv, server

\* The session goes, the review is closed or reopened, or another tab signs in.
LEMMA DisturbingInv ==
    ASSUME TabInv,
           LoseSession \/ ToggleReview \/ Countdown \/ \E s \in Sessions : OtherSignIn(s)
    PROVE  TabInv'
<1>1. UNCHANGED <<drawn, confirmed, requests, response, receipts>> /\ disturbed' = TRUE
    BY DEF LoseSession, ToggleReview, Countdown, OtherSignIn, tab
<1>2. TabTypeOK'
    BY TabTypeStep DEF TabInv, TabNext
<1>3. \A q \in Payloads : mutationKeys'[q] \in {mutationKeys[q], Nothing}
    BY DEF LoseSession, ToggleReview, Countdown, OtherSignIn, tab, SessionEnded
<1>4. Uses' \subseteq Uses
    BY <1>1, <1>3 DEF Uses, Sent, Held
<1>5. KeysAreDrawn'
    BY <1>1, <1>4, FewerUses DEF TabInv
<1>6. AnswersAreCommitted'
    BY <1>1 DEF TabInv, AnswersAreCommitted, SavedIsCommitted
<1> QED  BY <1>1, <1>2, <1>5, <1>6 DEF TabInv

\* The invariant is inductive.
LEMMA TabNextInv == TabInv /\ [TabNext]_tabVars => TabInv'
<1> SUFFICES ASSUME TabInv, [TabNext]_tabVars PROVE TabInv'
    OBVIOUS
<1>1. ASSUME NEW s \in Sessions, SignIn(s) PROVE TabInv'
    BY <1>1, SignInInv
<1>2. ASSUME NEW p \in Payloads, NEW k \in Keys, Send(p, k) PROVE TabInv'
    BY <1>2, SendInv
<1>3. ASSUME NEW m \in requests, Serve(m) PROVE TabInv'
    BY <1>3, ServeInv
<1>4. CASE Receive
    BY <1>4, ReceiveInv
<1>5. CASE Unconfirmed \/ \E m \in requests : Lose(m)
    BY <1>5, LossInv
<1>6. CASE LoseSession \/ ToggleReview \/ Countdown \/ \E s \in Sessions : OtherSignIn(s)
    BY <1>6, DisturbingInv
<1>7. CASE UNCHANGED tabVars
    BY <1>7 DEF TabInv, TabTypeOK, KeysAreDrawn, KeyNamesOnePayload, Uses, Sent, Held,
                AnswersAreCommitted, SavedIsCommitted, InPeace, tabVars
<1> QED
    BY <1>1, <1>2, <1>3, <1>4, <1>5, <1>6, <1>7 DEF TabNext

\* The invariant holds throughout.
LEMMA TabInvariance == TabSpec => []TabInv
BY TabInitInv, TabNextInv, PTL DEF TabSpec

-----------------------------------------------------------------------------
(* Theorems *)

\* The variables of the tab and of the server keep their types.
THEOREM TabTypeCorrect == TabSpec => []TabTypeOK
<1>1. TabInv => TabTypeOK
    BY DEF TabInv
<1> QED  BY TabInvariance, <1>1, PTL

\* A tab that is left in peace stores each upload once, however often it repeats
\* it and whatever the network loses or delays; and disturbed or not it announces
\* only what was committed, under keys that never come to mean two uploads.
THEOREM UploadsSound == TabSpec => []UploadsAreSound
<1>1. TabInv => UploadsAreSound
    <2> SUFFICES ASSUME TabInv PROVE UploadsAreSound
        OBVIOUS
    <2>1. SavedIsCommitted /\ KeyNamesOnePayload
        BY DEF TabInv, AnswersAreCommitted, KeysAreDrawn
    <2>2. ASSUME ~disturbed, NEW r \in receipts, NEW s \in receipts, r.payload = s.payload
          PROVE  r = s
        <3>1. r.key = s.key
            BY <2>2 DEF TabInv, InPeace
        <3>2. r \in [key: Keys, payload: Payloads] /\ s \in [key: Keys, payload: Payloads]
            BY DEF TabInv, TabTypeOK
        <3> QED  BY <2>2, <3>1, <3>2
    <2> QED
        BY <2>1, <2>2 DEF UploadsAreSound, UploadsAreHonest, UndisturbedUploadsOnce, OneReceiptPerUpload
<1> QED  BY TabInvariance, <1>1, PTL
=================================================================================
