--------------------------- MODULE MCCanonicalFindings --------------------------
(* Two sessions, in two explorations that begin alike: they correct and retire   *)
(* one Signal's Facts across three mapping versions, or they judge, retire and   *)
(* judge again the Facts of two monthly Signals under one mapping.               *)
EXTENDS CanonicalFindings, TLC

CONSTANTS w1, w2, s1, s2, adviser, big, partial, small

MCWriters == {w1, w2}
MCSignals == {s1, s2}
MCContexts == {adviser}
MCSnapshots == {big, partial, small}
MCRefused == {}
MCLimited == {partial}
MCSignificant == {big, partial}
MCStarted == (s1 :> 1 @@ s2 :> 2)
MCPeriod == (s1 :> 1 @@ s2 :> 2)

Active == {tx[w] : w \in {x \in Writers : tx[x] # Idle}}

Corrections ==
    /\ source[s1] # partial /\ source[s2] = big
    /\ \A v \in Versions : row[<<s2, v>>] = None /\ row[<<"FINDING", v>>] = None
    /\ \A t \in Active : t.target \notin {s2} \X Versions /\ t.outcome = None
Judgements ==
    /\ mapping = 1
    /\ {source[s1], source[s2]} \subseteq {big, partial}

Explored == Corrections \/ Judgements

WriterSymmetry == Permutations(MCWriters)
================================================================================
