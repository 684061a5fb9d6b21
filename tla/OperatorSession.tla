---------------------------- MODULE OperatorSession ----------------------------
(***************************************************************************)
(* The local operator session, profit_doctor/workspace/session.py, and the *)
(* middleware and session routes of app.py that use it.                    *)
(*                                                                         *)
(* The middleware authenticates a request on the event loop and binds it   *)
(* to the session it found; its route runs later, on another thread, and   *)
(* the session may by then be ended, expired, or replaced by a new login.  *)
(* Each method of OperatorSession holds the lock, so each is one step.     *)
(***************************************************************************)
EXTENDS Naturals

CONSTANTS
    Handlers,   \* requests that can be in progress at once
    Bindings,   \* secrets a login can draw; each is drawn at most once
    IDLE,       \* seconds without activity after which a session is refused
    ABSOLUTE,   \* seconds after login at which a session is refused
    MaxClock,   \* bound on the clock
    None

ASSUME LimitsAssumption == IDLE \in Nat /\ ABSOLUTE \in Nat /\ MaxClock \in Nat
ASSUME NoneAssumption == None \notin Bindings

\* The session routes, and every other route, which alone counts as activity.
Routes == {"metadata", "renew", "end", "business"}

VARIABLES
    clock,          \* time.monotonic
    active,         \* _active: the one live binding, or None
    started,        \* when active logged in
    lastActivity,   \* when active was last used or renewed
    issued,         \* bindings some login drew
    route,          \* route[h]: the route request h is bound for, or None
    bound,          \* bound[h]: request.state.operator_session
    learned,        \* <<b, c>>: the holder of b was sent the csrf of c
    loginAt,        \* history: when each binding logged in
    activeAt        \* history: when each binding was last used or renewed

vars == <<clock, active, started, lastActivity, issued, route, bound, learned,
          loginAt, activeAt>>

Init ==
    /\ clock \in 0 .. MaxClock
    /\ active = None /\ started = 0 /\ lastActivity = 0
    /\ issued = {} /\ learned = {}
    /\ route = [h \in Handlers |-> None]
    /\ bound = [h \in Handlers |-> None]
    /\ loginAt = [b \in Bindings |-> 0]
    /\ activeAt = [b \in Bindings |-> 0]

\* _require: identity of the binding object, and neither limit reached.
Required(b) ==
    /\ b # None /\ b = active
    /\ clock - started < ABSOLUTE
    /\ clock - lastActivity < IDLE

\* Mutant: login keeps the last activity of the session it replaces.
LoginInheriting(b) ==
    /\ b \notin issued
    /\ issued' = issued \cup {b}
    /\ active' = b /\ started' = clock
    /\ loginAt' = [loginAt EXCEPT ![b] = clock]
    /\ activeAt' = [activeAt EXCEPT ![b] = clock]
    /\ learned' = learned \cup {<<b, b>>}
    /\ UNCHANGED <<clock, lastActivity, route, bound>>

\* login, and the metadata its response carries: the event loop runs both
\* before any other request can know the new secret.
Login(b) ==
    /\ b \notin issued
    /\ issued' = issued \cup {b}
    /\ active' = b /\ started' = clock /\ lastActivity' = clock
    /\ loginAt' = [loginAt EXCEPT ![b] = clock]
    /\ activeAt' = [activeAt EXCEPT ![b] = clock]
    /\ learned' = learned \cup {<<b, b>>}
    /\ UNCHANGED <<clock, route, bound>>

\* A request has been let through: business routes alone touch the session.
Touched(b, r) ==
    IF r = "business"
    THEN lastActivity' = clock /\ activeAt' = [activeAt EXCEPT ![b] = clock]
    ELSE UNCHANGED <<lastActivity, activeAt>>

\* Mutant: the limits are left to the routes.
AuthenticateExpired(h, token, csrf, r) ==
    /\ route[h] = None
    /\ token \in issued /\ token = active
    /\ r \in {"renew", "end"} => csrf = active
    /\ Touched(active, r)
    /\ route' = [route EXCEPT ![h] = r]
    /\ bound' = [bound EXCEPT ![h] = active]
    /\ UNCHANGED <<clock, active, started, issued, learned, loginAt>>

\* authenticate: the cookie names the active binding, and a mutation also
\* carries its csrf.  The tabs of one browser share the cookie, not the csrf.
Authenticate(h, token, csrf, r) ==
    /\ route[h] = None
    /\ token \in issued /\ token = active /\ Required(active)
    /\ r \in {"renew", "end"} => csrf = active
    /\ Touched(active, r)
    /\ route' = [route EXCEPT ![h] = r]
    /\ bound' = [bound EXCEPT ![h] = active]
    /\ UNCHANGED <<clock, active, started, issued, learned, loginAt>>

Leave(h) ==
    /\ route' = [route EXCEPT ![h] = None]
    /\ bound' = [bound EXCEPT ![h] = None]

\* SessionRefused (401), or the connection is gone.
Refused(h) ==
    /\ route[h] # None
    /\ Leave(h)
    /\ UNCHANGED <<clock, active, started, lastActivity, issued, learned, loginAt, activeAt>>

\* Mutant: metadata describes the session that is live now.
MetadataOfActive(h) ==
    /\ route[h] \in {"metadata", "renew"}
    /\ Required(active)
    /\ IF route[h] = "renew"
       THEN lastActivity' = clock /\ activeAt' = [activeAt EXCEPT ![active] = clock]
       ELSE UNCHANGED <<lastActivity, activeAt>>
    /\ learned' = learned \cup {<<bound[h], active>>}
    /\ Leave(h)
    /\ UNCHANGED <<clock, active, started, issued, loginAt>>

\* GET /workspace/session and POST /workspace/session/renew.
Metadata(h) ==
    /\ route[h] \in {"metadata", "renew"}
    /\ Required(bound[h])
    /\ IF route[h] = "renew"
       THEN lastActivity' = clock /\ activeAt' = [activeAt EXCEPT ![bound[h]] = clock]
       ELSE UNCHANGED <<lastActivity, activeAt>>
    /\ learned' = learned \cup {<<bound[h], bound[h]>>}
    /\ Leave(h)
    /\ UNCHANGED <<clock, active, started, issued, loginAt>>

\* Mutant: sign-out ends whichever session is live.
EndAny(h) ==
    /\ route[h] = "end"
    /\ active' = None
    /\ Leave(h)
    /\ UNCHANGED <<clock, started, lastActivity, issued, learned, loginAt, activeAt>>

\* POST /workspace/session/end.
End(h) ==
    /\ route[h] = "end"
    /\ Required(bound[h])
    /\ active' = None
    /\ Leave(h)
    /\ UNCHANGED <<clock, started, lastActivity, issued, learned, loginAt, activeAt>>

\* Other routes do not look at the session again.
Business(h) ==
    /\ route[h] = "business"
    /\ Leave(h)
    /\ UNCHANGED <<clock, active, started, lastActivity, issued, learned, loginAt, activeAt>>

\* A restarted process knows no session; the cookies stay in the browsers.
Restart ==
    /\ active' = None
    /\ route' = [h \in Handlers |-> None]
    /\ bound' = [h \in Handlers |-> None]
    /\ UNCHANGED <<clock, started, lastActivity, issued, learned, loginAt, activeAt>>

Tick ==
    /\ clock < MaxClock
    /\ clock' = clock + 1
    /\ UNCHANGED <<active, started, lastActivity, issued, route, bound, learned,
                   loginAt, activeAt>>

Next ==
    \/ \E b \in Bindings : Login(b)
    \/ \E h \in Handlers :
         \/ \E token, csrf \in issued, r \in Routes : Authenticate(h, token, csrf, r)
         \/ Refused(h) \/ Metadata(h) \/ End(h) \/ Business(h)
    \/ Restart
    \/ Tick

Spec == Init /\ [][Next]_vars

-----------------------------------------------------------------------------
(* Properties *)

TypeOK ==
    /\ clock \in 0 .. MaxClock /\ started \in 0 .. MaxClock
    /\ lastActivity \in 0 .. MaxClock
    /\ active \in issued \cup {None}
    /\ issued \in SUBSET Bindings
    /\ route \in [Handlers -> Routes \cup {None}]
    /\ bound \in [Handlers -> issued \cup {None}]
    /\ learned \in SUBSET (issued \X issued)
    /\ loginAt \in [Bindings -> 0 .. MaxClock]
    /\ activeAt \in [Bindings -> 0 .. MaxClock]

\* A session is usable while it is the active one and within its own limits,
\* counted from its own login and its own last use.
Usable(b) ==
    /\ b # None /\ b = active
    /\ clock - loginAt[b] < ABSOLUTE
    /\ clock - activeAt[b] < IDLE

\* What the server accepts is exactly what the two limits promise: neither the
\* activity nor the renewal of another session, late or not, stretches or
\* shortens this one.
LimitsAreOwn == \A b \in issued : Required(b) <=> Usable(b)

\* Once ended, expired, replaced or forgotten, a session never works again.
NoRevival == [][\A b \in issued : ~Usable(b) => ~Usable(b)']_vars

\* A stale request cannot sign out its successor: the active session goes away
\* only by its own sign-out, by a new login, or with the process.
OnlyOwnSignOut ==
    [][active # None /\ active' # active =>
         \/ active' \in Bindings \ issued
         \/ Restart
         \/ \E h \in Handlers : route[h] = "end" /\ bound[h] = active]_vars

\* No response hands the request token of one session to the holder of another.
CsrfNeverCrosses == \A x \in learned : x[1] = x[2]
=============================================================================
