-------------------------------- MODULE MCTabs --------------------------------
(* The server's session with two requests and three logins over seven       *)
(* ticks, an idle limit of two and an absolute limit of four: long enough   *)
(* for a session to expire either way, and for a request to outlive the     *)
(* session that admitted it.  Or one tab that uploads two files with up to  *)
(* four requests among three sign-ins, while the server's session, of which *)
(* it sees only its end, is left where it starts.                           *)
EXTENDS OperatorSession, MutationKeys, TLC

VARIABLE part   \* the one that is explored

tabsVars == <<part, vars, tabVars>>

TabsInit == part \in {"SESSION", "UPLOADS"} /\ Init /\ (part = "UPLOADS" => clock = 0) /\ TabInit

TabsNext ==
    /\ UNCHANGED part
    /\ \/ part = "SESSION" /\ Next /\ UNCHANGED tabVars
       \/ part = "UPLOADS" /\ TabNext /\ UNCHANGED vars

TabsSpec == TabsInit /\ [][TabsNext]_tabsVars

Symmetric == Permutations(Handlers) \cup Permutations(Bindings) \cup Permutations(Payloads)
================================================================================
