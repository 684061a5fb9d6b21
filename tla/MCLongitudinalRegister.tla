------------------------- MODULE MCLongitudinalRegister -------------------------
(* Legs of 0.70, 0.10 and 0.20 against estimates of 0.80 and 1.00.  An     *)
(* amount is in pence, and one less or more stands for the last digits by  *)
(* which SQLite's sum misses it:                                           *)
(*    0.70 + 0.10 = 0.7999999999999999                                     *)
(*    0.70 + 0.20 = 0.8999999999999999                                     *)
(*    0.10 + 0.20 = 0.30000000000000004                                    *)
(*    0.70 + 0.20 + 0.10 = 0.9999999999999999                              *)
(* and all three are 1.0 unless 0.10 is the last.                          *)
EXTENDS LongitudinalRegister, TLC

CONSTANTS p1, p2, b1, b2, b3

MCEstimate == p1 :> 80 @@ p2 :> 100
MCClaimable == b1 :> 70 @@ b2 :> 10 @@ b3 :> 20

MCReadAsReal ==
    [legs \in Orders |->
        LET exact == SumFunctionOnSet(MCClaimable, Range(legs))
        IN  CASE Range(legs) \in {{b1, b2}, {b1, b3}} -> exact - 1
              [] Range(legs) = {b2, b3} -> exact + 1
              [] Len(legs) = 3 /\ legs[3] = b2 -> exact - 1
              [] OTHER -> exact]
=================================================================================
