------------------------- MODULE MC_ObserverTemplate -------------------------
(* Releases 4.6, 4.7 and 4.9 give every minorMismatch case: 0, 1, 2, 3.    *)
EXTENDS ObserverTemplate, TLC

MCMinorOf == ("4.6" :> 6) @@ ("4.7" :> 7) @@ ("4.9" :> 9)
=============================================================================
