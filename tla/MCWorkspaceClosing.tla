------------------------ MODULE MCWorkspaceClosing ------------------------
(* One engagement is created and closed while a receipt and an information *)
(* request arrive: few enough calls for liveness to be checked, and enough *)
(* for a write to pass its opening check before the engagement closes.     *)
EXTENDS WorkspaceService

MCRegistered == {}

Revise(key, expected, status) ==
    [op |-> "engagement", key |-> key, eng |-> "e1", expected |-> expected,
     revision |-> expected + 1, scope |-> "s1", status |-> status]

MCCalls == {
    Revise("k1", 0, "OPEN"), Revise("k2", 1, "CLOSED"),
    [op |-> "receipt", key |-> "k2", eng |-> "e1", data |-> "b1", predecessor |-> None],
    [op |-> "request", key |-> "k3", eng |-> "e1", request |-> "q1", expected |-> 0,
     revision |-> 1, status |-> "OPEN", receipts |-> {}]}
=============================================================================
