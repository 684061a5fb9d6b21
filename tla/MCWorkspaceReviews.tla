------------------------- MODULE MCWorkspaceReviews -------------------------
(* Two sets of calls that race, are retried and reuse keys for other       *)
(* payloads.  In the first one engagement is created twice under different *)
(* scopes, edited and closed by competing operators, while evidence is     *)
(* received and registered.  In the second the information requests of two *)
(* engagements are raced towards review, withdrawal and reopening, with    *)
(* evidence that belongs here, that belongs elsewhere, and that never      *)
(* arrived.                                                                *)
EXTENDS WorkspaceService, TLC

MCRegistered == {<<"b1", "v1">>}

Revise(key, eng, expected, scope, status) ==
    [op |-> "engagement", key |-> key, eng |-> eng, expected |-> expected,
     revision |-> expected + 1, scope |-> scope, status |-> status]
Receive(key, data, predecessor) ==
    [op |-> "receipt", key |-> key, eng |-> "e1", data |-> data,
     predecessor |-> predecessor]
Ask(key, eng, expected, status, receipts) ==
    [op |-> "request", key |-> key, eng |-> eng, request |-> "q1",
     expected |-> expected, revision |-> expected + 1, status |-> status,
     receipts |-> receipts]

Editing == {
    Revise("k1", "e1", 0, "s1", "OPEN"), Revise("k2", "e1", 0, "s2", "OPEN"),
    Revise("k3", "e1", 1, "s1", "CLOSED"), Revise("k4", "e1", 1, "s1", "OPEN"),
    Revise("k4", "e1", 2, "s1", "OPEN"), Revise("k6", "e1", 1, "s2", "OPEN"),
    [Revise("k6", "e1", 1, "s1", "OPEN") EXCEPT !.revision = 3],
    Receive("k2", "b1", None), Receive("k5", "b2", "i1"),
    [op |-> "registration", key |-> "k5", eng |-> "e1", receipt |-> "i1",
     version |-> "v1"]}

Requesting == {
    Revise("k1", "e1", 0, "s1", "OPEN"), Revise("k8", "e2", 0, "s1", "OPEN"),
    Receive("k2", "b1", None),
    Ask("k3", "e1", 0, "OPEN", {}),
    Ask("k4", "e1", 1, "EVIDENCE_RECEIVED", {"i1"}),
    Ask("k5", "e1", 1, "WITHDRAWN", {}),
    Ask("k6", "e1", 2, "FULFILMENT_REVIEWED", {"i1"}),
    Ask("k7", "e1", 2, "OPEN", {}),
    Ask("k7", "e2", 1, "EVIDENCE_RECEIVED", {"i1"})}

MCCalls == Editing \cup Requesting

Made == {call[h] : h \in Handlers} \cup {a.digest : a \in audit}
OneSet == Made \subseteq Editing \cup {None} \/ Made \subseteq Requesting \cup {None}

Symmetric == Permutations(Handlers)
=============================================================================
