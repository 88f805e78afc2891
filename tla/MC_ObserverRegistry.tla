------------------------- MODULE MC_ObserverRegistry -------------------------
(* Two SdiObservers targeting one DataHub namespace, so that they share    *)
(* its controller, and two handles, so that the namespace's controller can *)
(* be stopped and created again.                                           *)
EXTENDS RegistryRefinement, TLC

CONSTANTS h1, h2, o1, o2, o3, n1, n2

MCHandles == {h1, h2}
MCObservers == {o1, o2}

(* For the liveness run: one controller per process lifetime keeps the     *)
(* fair behaviour graph small; create, notify, stop and drain all occur.   *)
MCOneHandle == {h1}
MCNamespaces == {n1}
MCTarget == [o \in MCObservers |-> n1]

(* For the refinement run: two namespaces, one of them shared by two      *)
(* observers, so that one controller is created, stopped and replaced      *)
(* while another namespace's controller lives.                             *)
MCThreeObservers == {o1, o2, o3}
MCTwoNamespaces == {n1, n2}
MCSplitTarget == [o \in MCThreeObservers |-> IF o = o3 THEN n2 ELSE n1]

(* Handles are interchangeable (a free one is picked by \E) and so are the *)
(* observers when they target the same namespace.                          *)
MCSymmetry == Permutations(MCHandles) \cup Permutations(MCObservers)
=============================================================================
