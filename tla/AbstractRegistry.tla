-------------------------- MODULE AbstractRegistry --------------------------
(***************************************************************************)
(* What the controller registry promises (spec.md section 4.1), with each  *)
(* operation one atomic step: a sub-controller is created for a namespace  *)
(* that has none and registered for it; a namespace's controller is       *)
(* stopped and unregistered.  A controller is never reused once stopped,  *)
(* and no controller runs without being the one registered for its        *)
(* namespace.  ObserverRegistry, where ensure and stop take several steps  *)
(* of the parent's reconcile workers and of the dhController, implements   *)
(* this specification (RegistryRefinement).                                *)
(***************************************************************************)
EXTENDS TLAPS

CONSTANTS
    Handles,     \* the sub-controllers the process may create
    Namespaces,  \* DataHub namespaces
    None         \* no controller

VARIABLES
    slot,  \* the controller registered for each namespace, or None
    life   \* "unused", "running" or "stopped", per controller

avars == <<slot, life>>

Lives == {"unused", "running", "stopped"}

Init ==
    /\ slot = [n \in Namespaces |-> None]
    /\ life = [h \in Handles |-> "unused"]

(* ensure for a namespace with no controller: a fresh one runs for it.     *)
Create(n, h) ==
    /\ slot[n] = None
    /\ life[h] = "unused"
    /\ slot' = [slot EXCEPT ![n] = h]
    /\ life' = [life EXCEPT ![h] = "running"]

(* stop: the namespace's controller is stopped and forgotten.              *)
Remove(n) ==
    /\ slot[n] # None
    /\ life' = [life EXCEPT ![slot[n]] = "stopped"]
    /\ slot' = [slot EXCEPT ![n] = None]

Next ==
    \E n \in Namespaces : Remove(n) \/ \E h \in Handles : Create(n, h)

Spec == Init /\ [][Next]_avars

-----------------------------------------------------------------------------
TypeOK ==
    /\ slot \in [Namespaces -> Handles \cup {None}]
    /\ life \in [Handles -> Lives]

(* One running controller per namespace that has one: the running          *)
(* controllers are exactly the registered ones, each registered for one    *)
(* namespace only.                                                         *)
OnePerNamespace ==
    /\ \A h \in Handles :
         life[h] = "running" <=> \E n \in Namespaces : slot[n] = h
    /\ \A n, m \in Namespaces : slot[n] = slot[m] /\ slot[n] # None => n = m

AInv == TypeOK /\ OnePerNamespace

LEMMA CreateAInv ==
    ASSUME None \notin Handles, AInv,
           NEW n \in Namespaces, NEW h \in Handles, Create(n, h)
    PROVE  AInv'
<1>1. TypeOK'
  BY DEF AInv, TypeOK, Create, Lives
<1>2. \A g \in Handles : life'[g] = "running" <=> \E m \in Namespaces : slot'[m] = g
  BY DEF AInv, TypeOK, OnePerNamespace, Create
<1>3. \A m, k \in Namespaces : slot'[m] = slot'[k] /\ slot'[m] # None => m = k
  BY DEF AInv, TypeOK, OnePerNamespace, Create
<1>. QED  BY <1>1, <1>2, <1>3 DEF AInv, OnePerNamespace

LEMMA RemoveAInv ==
    ASSUME None \notin Handles, AInv, NEW n \in Namespaces, Remove(n)
    PROVE  AInv'
<1>1. TypeOK'
  BY DEF AInv, TypeOK, Remove, Lives
<1>2. \A g \in Handles : life'[g] = "running" <=> \E m \in Namespaces : slot'[m] = g
  BY DEF AInv, TypeOK, OnePerNamespace, Remove
<1>3. \A m, k \in Namespaces : slot'[m] = slot'[k] /\ slot'[m] # None => m = k
  BY DEF AInv, TypeOK, OnePerNamespace, Remove
<1>. QED  BY <1>1, <1>2, <1>3 DEF AInv, OnePerNamespace

(* The atomic registry keeps one running controller per namespace that has *)
(* one, and none that is not registered, whatever the namespaces and      *)
(* handles: the promise of spec.md section 4.1 that the implementation    *)
(* inherits through RegistryRefinement.                                    *)
THEOREM AbstractOnePerNamespace ==
    ASSUME None \notin Handles
    PROVE  Spec => []OnePerNamespace
<1>1. Init => AInv
  BY DEF Init, AInv, TypeOK, OnePerNamespace, Lives
<1>2. AInv /\ [Next]_avars => AInv'
  <2>. SUFFICES ASSUME AInv, [Next]_avars PROVE AInv'
    OBVIOUS
  <2>1. CASE UNCHANGED avars
    BY <2>1 DEF avars, AInv, TypeOK, OnePerNamespace
  <2>2. CASE Next
    BY <2>2, CreateAInv, RemoveAInv DEF Next
  <2>. QED  BY <2>1, <2>2
<1>3. AInv => OnePerNamespace
  BY DEF AInv
<1>. QED  BY <1>1, <1>2, <1>3, PTL DEF Spec
=============================================================================
