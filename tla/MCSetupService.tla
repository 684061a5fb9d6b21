---------------------------- MODULE MCSetupService ----------------------------
(* Two drafts: the first is saved, edited, turned into a review by two      *)
(* competing calls, completed and cancelled; the second also wants a        *)
(* review, under a key that one of them used.                               *)
EXTENDS SetupService, TLC

Save(key, draft, expected, fields, action, step) ==
    [key |-> key, draft |-> draft, expected |-> expected, fields |-> fields,
     action |-> action, step |-> step]

MCCalls == {
    Save("k1", "d1", 0, "partial", "SAVE", 1),
    Save("k2", "d1", 1, "full", "CREATE_REVIEW", 1),
    Save("k3", "d1", 1, "other", "CREATE_REVIEW", 1),
    Save("k3", "d1", 2, "full", "CREATE_REVIEW", 1),
    Save("k4", "d1", 2, "other", "SAVE", 1),
    Save("k4", "d1", 2, "full", "SAVE", 3),
    Save("k5", "d1", 2, "full", "COMPLETE", 3),
    Save("k6", "d1", 3, "full", "CANCEL", 1),
    Save("k6", "d1", 1, "partial", "CANCEL", 1),
    Save("k7", "d2", 0, "full", "SAVE", 1),
    Save("k2", "d2", 1, "full", "CREATE_REVIEW", 1)}

Symmetric == Permutations(Handlers)
=============================================================================
