--------------------------- MODULE MC_DhController ---------------------------
(* Two controller instances, two goroutines calling ReconcileObs and one   *)
(* SdiObserver, with every method callable at any time.                    *)
EXTENDS DhRbac

CONSTANTS h1, h2, c1, c2, o1

MCHandles == {h1, h2}
MCCallers == {c1, c2}
MCObservers == {o1}
=============================================================================
