--------------------- MODULE RegistryRefinementProofs ---------------------
(***************************************************************************)
(* Proof that ObserverRegistry implements AbstractRegistry under the       *)
(* refinement mapping of RegistryRefinement, for every set of handles,     *)
(* observers and namespaces: RefInv is an inductive invariant, initial     *)
(* states map to the abstract initial state, and every step maps to an     *)
(* abstract Create, an abstract Remove or a stutter.                       *)
(***************************************************************************)
EXTENDS RegistryRefinement, TLAPS

USE ConstantsAssumption, RegistryAssumption

(* The abstract state in terms of the concrete one.                        *)
slotBar == [n \in Namespaces |-> SlotOf(n)]
lifeBar == [h \in Handles |-> LifeOf(h)]

(* The variables the refinement mapping and RefInv read.                   *)
mapped == <<hs, chanOpen, exists, owner, registry, lock, pc, cur>>

-----------------------------------------------------------------------------
(* Function-level facts about the mapping, stated once pointwise.          *)

LEMMA MappedStutter ==
    ASSUME \A n \in Namespaces : SlotOf(n)' = SlotOf(n),
           \A h \in Handles : LifeOf(h)' = LifeOf(h)
    PROVE  UNCHANGED AR!avars
BY DEF AR!avars

LEMMA MappedCreate ==
    ASSUME NEW n \in Namespaces, NEW h \in Handles,
           SlotOf(n) = None, LifeOf(h) = "unused",
           \A m \in Namespaces : SlotOf(m)' = IF m = n THEN h ELSE SlotOf(m),
           \A g \in Handles : LifeOf(g)' = IF g = h THEN "running" ELSE LifeOf(g)
    PROVE  AR!Create(n, h)
BY DEF AR!Create

LEMMA MappedRemove ==
    ASSUME NEW n \in Namespaces, SlotOf(n) \in Handles,
           \A m \in Namespaces : SlotOf(m)' = IF m = n THEN None ELSE SlotOf(m),
           \A g \in Handles :
              LifeOf(g)' = IF g = SlotOf(n) THEN "stopped" ELSE LifeOf(g)
    PROVE  AR!Remove(n)
BY DEF AR!Remove

(* A step that leaves the mapped variables alone keeps RefInv and maps to  *)
(* a stutter.                                                               *)
LEMMA FrameStep ==
    ASSUME RefInv, UNCHANGED mapped
    PROVE  RefInv' /\ UNCHANGED AR!avars
<1>1. RefInv'
  BY DEF RefInv, RegistryAccurate, mapped
<1>2. UNCHANGED AR!avars
  BY MappedStutter DEF mapped, SlotOf, LifeOf
<1>. QED  BY <1>1, <1>2
-----------------------------------------------------------------------------
(* The parent's steps, one lemma each.                                     *)

(* With the mutex free, every reconcile is idle.                           *)
LEMMA AllIdle ==
    ASSUME RefInv, lock = None
    PROVE  \A p \in Observers : pc[p] = "idle"
BY DEF RefInv

LEMMA FetchStep ==
    ASSUME RefInv, NEW o \in Observers, Fetch(o)
    PROVE  RefInv' /\ UNCHANGED AR!avars
<1>1. /\ lock = None /\ lock' = o /\ pc[o] = "idle"
      /\ UNCHANGED <<hs, chanOpen, exists, owner, registry>>
  BY DEF Fetch, vars, ctlVars
<1>2. \A p \in Observers : pc[p] = "idle"
  BY <1>1, AllIdle
<1>3. /\ pc' = [pc EXCEPT ![o] = pc'[o]]
      /\ pc'[o] \in {"stop", "notify", "new"}
      /\ cur' \in [Observers -> Handles \cup {None}]
      /\ pc'[o] = "new" => registry[Target[o]] = None
      /\ pc'[o] = "stop" => cur'[o] = registry[Target[o]]
  BY DEF Fetch, RefInv
<1>4. RefInv'
  BY <1>1, <1>2, <1>3 DEF RefInv, RegistryAccurate, ParentPcs
<1>5. \A n \in Namespaces : SlotOf(n)' = SlotOf(n)
  BY <1>1, <1>3 DEF SlotOf
<1>6. \A h \in Handles : LifeOf(h)' = LifeOf(h)
  BY <1>1 DEF LifeOf
<1>. QED  BY <1>4, <1>5, <1>6, MappedStutter
(* A reconcile that ends releases the mutex having registered nothing.     *)
LEMMA ReleaseStep ==
    ASSUME RefInv, NEW o \in Observers, lock = o, pc[o] # "start",
           Release(o), UNCHANGED <<hs, chanOpen, exists, owner, registry>>
    PROVE  RefInv' /\ UNCHANGED AR!avars
<1>1. \A p \in Observers : pc'[p] = "idle"
  BY DEF RefInv, Release
<1>2. RefInv'
  BY <1>1 DEF RefInv, RegistryAccurate, Release, ParentPcs
<1>3. \A n \in Namespaces : SlotOf(n)' = SlotOf(n)
  BY DEF SlotOf, Release
<1>4. \A h \in Handles : LifeOf(h)' = LifeOf(h)
  BY DEF LifeOf
<1>. QED  BY <1>2, <1>3, <1>4, MappedStutter

(* Construction is the abstract Create of a fresh controller for the        *)
(* reconcile's target namespace.                                           *)
LEMMA EnsureNewStep ==
    ASSUME RefInv, NEW o \in Observers, EnsureNew(o)
    PROVE  RefInv' /\ AR!Next
<1>1. /\ lock = o /\ pc[o] = "new" /\ registry[Target[o]] = None
      /\ UNCHANGED <<registry, lock>>
      /\ pc \in [Observers -> ParentPcs]
      /\ cur \in [Observers -> Handles \cup {None}]
  BY DEF EnsureNew, RefInv
<1>2. PICK h \in Handles :
         /\ hs[h] = "unused"
         /\ hs' = [hs EXCEPT ![h] = "built"]
         /\ chanOpen' = [chanOpen EXCEPT ![h] = TRUE]
         /\ owner' = [owner EXCEPT ![h] = o]
         /\ UNCHANGED exists
         /\ pc' = [pc EXCEPT ![o] = "start"]
         /\ cur' = [cur EXCEPT ![o] = h]
  BY DEF EnsureNew, FreeHandles, Quiet, New
<1>3. \A m \in Namespaces : registry[m] # h
  BY <1>2 DEF RefInv
<1>4. RefInv'
  BY <1>1, <1>2, <1>3 DEF RefInv, RegistryAccurate, ParentPcs
<1>5. /\ SlotOf(Target[o]) = None
      /\ \A m \in Namespaces :
            SlotOf(m)' = IF m = Target[o] THEN h ELSE SlotOf(m)
  <2>1. SlotOf(Target[o]) = None
    BY <1>1 DEF SlotOf
  <2>2. ASSUME NEW m \in Namespaces, m = Target[o]
        PROVE  SlotOf(m)' = h
    BY <1>1, <1>2, <2>2 DEF SlotOf
  <2>3. ASSUME NEW m \in Namespaces, m # Target[o]
        PROVE  SlotOf(m)' = SlotOf(m)
    BY <1>1, <1>2, <2>3 DEF SlotOf
  <2>. QED  BY <2>1, <2>2, <2>3
<1>6. /\ LifeOf(h) = "unused"
      /\ \A g \in Handles :
            LifeOf(g)' = IF g = h THEN "running" ELSE LifeOf(g)
  BY <1>2 DEF LifeOf, RefInv
<1>7. AR!Create(Target[o], h)
  BY <1>5, <1>6, MappedCreate
<1>. QED  BY <1>4, <1>7 DEF AR!Next

(* A construction that fails changes nothing the mapping reads, or ends    *)
(* the reconcile before anything was built.                                *)
LEMMA EnsureFailedStep ==
    ASSUME RefInv, NEW o \in Observers, EnsureFailed(o)
    PROVE  RefInv' /\ UNCHANGED AR!avars
<1>1. lock = o /\ pc[o] = "new"
  BY DEF EnsureFailed, RefInv
<1>2. CASE NewClients(restCfg) = "panic"
  <2>1. UNCHANGED mapped
    BY <1>2 DEF EnsureFailed, mapped, ctlVars
  <2>. QED  BY <2>1, FrameStep
<1>3. CASE NewClients(restCfg) # "panic"
  <2>1. Release(o) /\ UNCHANGED <<hs, chanOpen, exists, owner, registry>>
    BY <1>3 DEF EnsureFailed, vars, ctlVars
  <2>. QED  BY <1>1, <2>1, ReleaseStep
<1>. QED  BY <1>2, <1>3

(* Registration hands the built controller from the reconcile to the       *)
(* registry: the abstract slot does not change.                             *)
LEMMA EnsureStartStep ==
    ASSUME RefInv, NEW o \in Observers, EnsureStart(o)
    PROVE  RefInv' /\ UNCHANGED AR!avars
<1>1. /\ lock = o /\ pc[o] = "start"
      /\ registry[Target[o]] = None /\ cur[o] \in Handles
      /\ hs[cur[o]] = "built" /\ chanOpen[cur[o]]
      /\ \A m \in Namespaces : registry[m] # cur[o]
      /\ registry \in [Namespaces -> Handles \cup {None}]
      /\ pc \in [Observers -> ParentPcs]
  BY DEF EnsureStart, RefInv
<1>2. /\ UNCHANGED <<hs, chanOpen, exists, owner, lock, cur>>
      /\ registry' = [registry EXCEPT ![Target[o]] = cur[o]]
      /\ pc' = [pc EXCEPT ![o] = "notify"]
  BY DEF EnsureStart, Quiet, Start
<1>3. \A p \in Observers \ {o} : pc[p] = "idle"
  BY <1>1 DEF RefInv
<1>4. RefInv'
  BY <1>1, <1>2, <1>3 DEF RefInv, RegistryAccurate, ParentPcs
<1>5. \A n \in Namespaces : SlotOf(n)' = SlotOf(n)
  BY <1>1, <1>2 DEF SlotOf
<1>6. \A h \in Handles : LifeOf(h)' = LifeOf(h)
  BY <1>2 DEF LifeOf
<1>. QED  BY <1>4, <1>5, <1>6, MappedStutter
(* A notification changes none of the registry state.                      *)
LEMMA NotifyStep ==
    ASSUME RefInv, NEW o \in Observers, Notify(o)
    PROVE  RefInv' /\ UNCHANGED AR!avars
<1>1. /\ lock = o /\ pc[o] = "notify" /\ pc \in [Observers -> ParentPcs]
      /\ UNCHANGED <<hs, chanOpen, exists, owner, registry, lock, cur>>
      /\ pc' = [pc EXCEPT ![o] = "sent"]
  BY DEF Notify, SendBegin, RefInv, ctlVars
<1>2. RefInv'
  BY <1>1 DEF RefInv, RegistryAccurate, ParentPcs
<1>3. \A n \in Namespaces : SlotOf(n)' = SlotOf(n)
  BY <1>1 DEF SlotOf
<1>4. \A h \in Handles : LifeOf(h)' = LifeOf(h)
  BY <1>1 DEF LifeOf
<1>. QED  BY <1>2, <1>3, <1>4, MappedStutter

LEMMA NotifyDoneStep ==
    ASSUME RefInv, NEW o \in Observers, NotifyDone(o)
    PROVE  RefInv' /\ UNCHANGED AR!avars
<1>1. lock = o /\ pc[o] = "sent"
  BY DEF NotifyDone, RefInv
<1>2. Release(o) /\ UNCHANGED <<hs, chanOpen, exists, owner, registry>>
  BY DEF NotifyDone, vars, ctlVars
<1>. QED  BY <1>1, <1>2, ReleaseStep

(* Stopping the registered controller is the abstract Remove; with no      *)
(* controller registered the reconcile only ends.                          *)
LEMMA RegistryStopStep ==
    ASSUME RefInv, NEW o \in Observers, RegistryStop(o)
    PROVE  RefInv' /\ [AR!Next]_AR!avars
<1>1. /\ lock = o /\ pc[o] = "stop" /\ cur[o] = registry[Target[o]]
      /\ Release(o)
  BY DEF RegistryStop, RefInv
<1>2. CASE cur[o] = None
  <2>1. UNCHANGED <<hs, chanOpen, exists, owner, registry>>
    BY <1>2 DEF RegistryStop, vars, ctlVars
  <2>. QED  BY <1>1, <2>1, ReleaseStep
<1>3. CASE cur[o] # None
  <2>. DEFINE n == Target[o]
              h == cur[o]
  <2>1. /\ h \in Handles /\ hs[h] = "built" /\ chanOpen[h]
        /\ \A m \in Namespaces : registry[m] = h => m = n
        /\ registry \in [Namespaces -> Handles \cup {None}]
        /\ \A p \in Observers \ {o} : pc[p] = "idle"
    BY <1>1, <1>3 DEF RefInv
  <2>2. /\ UNCHANGED <<hs, exists, owner>>
        /\ chanOpen' = [chanOpen EXCEPT ![h] = FALSE]
        /\ registry' = [registry EXCEPT ![n] = None]
    BY <1>3, <2>1 DEF RegistryStop, Stop
  <2>3. /\ lock' = None /\ pc' = [pc EXCEPT ![o] = "idle"]
        /\ cur' = [cur EXCEPT ![o] = None]
    BY <1>1 DEF Release
  <2>4. \A p \in Observers : pc'[p] = "idle"
    BY <2>1, <2>3 DEF RefInv
  <2>5. RefInv'
    BY <2>1, <2>2, <2>3, <2>4 DEF RefInv, RegistryAccurate, ParentPcs
  <2>6. /\ SlotOf(n) = h
        /\ \A m \in Namespaces :
              SlotOf(m)' = IF m = n THEN None ELSE SlotOf(m)
    BY <1>1, <2>1, <2>2, <2>3 DEF SlotOf
  <2>7. \A g \in Handles :
           LifeOf(g)' = IF g = h THEN "stopped" ELSE LifeOf(g)
    BY <2>1, <2>2 DEF LifeOf, RefInv
  <2>8. AR!Remove(n)
    BY <2>1, <2>6, <2>7, MappedRemove
  <2>. QED  BY <2>5, <2>8 DEF AR!Next
<1>. QED  BY <1>2, <1>3
-----------------------------------------------------------------------------
(* The steps of the controllers' goroutines and of the cluster.            *)

LEMMA ObserverChangeStep ==
    ASSUME RefInv, NEW o \in Observers, ObserverChange(o),
           UNCHANGED regVars
    PROVE  RefInv' /\ UNCHANGED AR!avars
<1>1. /\ UNCHANGED <<hs, chanOpen, owner, registry, lock, pc, cur>>
      /\ exists' = [exists EXCEPT ![o] = ~exists[o]]
  BY DEF ObserverChange, ctlVars, regVars
<1>2. RefInv'
  BY <1>1 DEF RefInv, RegistryAccurate
<1>3. \A n \in Namespaces : SlotOf(n)' = SlotOf(n)
  BY <1>1 DEF SlotOf
<1>4. \A h \in Handles : LifeOf(h)' = LifeOf(h)
  BY <1>1 DEF LifeOf
<1>. QED  BY <1>2, <1>3, <1>4, MappedStutter

LEMMA ControllerFrame ==
    ASSUME Quiet(ControllerStep), UNCHANGED regVars
    PROVE  UNCHANGED mapped
<1>1. UNCHANGED <<hs, chanOpen, owner>>
  BY DEF Quiet, ControllerStep, CtlRun, CtlExit, WorkerGet, InformerEvent
<1>. QED  BY <1>1 DEF Quiet, regVars, mapped

LEMMA EnvFrame ==
    ASSUME \/ \E p \in Callers : SendDone(p) /\ effect' = None
                                  /\ UNCHANGED regVars
           \/ \E h \in Handles : WorkerApply(h) /\ UNCHANGED regVars
    PROVE  UNCHANGED mapped
BY DEF SendDone, WorkerApply, regVars, mapped

-----------------------------------------------------------------------------
LEMMA InitRefInv == RInit => RefInv /\ AR!Init
<1>. SUFFICES ASSUME RInit PROVE RefInv /\ AR!Init
  OBVIOUS
<1>1. RefInv
  BY DEF RInit, Init, RefInv, RegistryAccurate, ParentPcs
<1>2. /\ \A n \in Namespaces : SlotOf(n) = None
      /\ \A h \in Handles : LifeOf(h) = "unused"
  BY DEF RInit, Init, SlotOf, LifeOf
<1>3. AR!Init
  BY <1>2 DEF AR!Init
<1>. QED  BY <1>1, <1>3

LEMMA NextRefInv ==
    RefInv /\ [RNext]_allVars => RefInv' /\ [AR!Next]_AR!avars
<1>. SUFFICES ASSUME RefInv, [RNext]_allVars
              PROVE  RefInv' /\ [AR!Next]_AR!avars
  OBVIOUS
<1>1. CASE UNCHANGED allVars
  <2>1. UNCHANGED mapped
    BY <1>1 DEF allVars, vars, ctlVars, regVars, mapped
  <2>. QED  BY <2>1, FrameStep
<1>2. ASSUME NEW o \in Observers, ParentStep(o)
      PROVE  RefInv' /\ [AR!Next]_AR!avars
  BY <1>2, FetchStep, EnsureNewStep, EnsureFailedStep, EnsureStartStep,
     NotifyStep, NotifyDoneStep, RegistryStopStep DEF ParentStep
<1>3. CASE \E p \in Callers : SendDone(p) /\ effect' = None
                             /\ UNCHANGED regVars
  BY <1>3, EnvFrame, FrameStep
<1>4. CASE Quiet(ControllerStep) /\ UNCHANGED regVars
  BY <1>4, ControllerFrame, FrameStep
<1>5. CASE \E h \in Handles : WorkerApply(h) /\ UNCHANGED regVars
  BY <1>5, EnvFrame, FrameStep
<1>6. CASE \E o \in Observers :
             ObserverChange(o) /\ effect' = None /\ UNCHANGED regVars
  BY <1>6, ObserverChangeStep
<1>. QED  BY <1>1, <1>2, <1>3, <1>4, <1>5, <1>6 DEF RNext

(* RefInv is an invariant of the registry for all constants: in particular *)
(* only the mutex holder's reconcile is ever past its fetch, and every     *)
(* registered controller is open and registered for one namespace only.   *)
THEOREM RefInvariant == RSpec => []RefInv
BY InitRefInv, NextRefInv, PTL DEF RSpec

(* The registry is exactly the set of live controllers (RegistryAccurate), *)
(* for all constants: no interleaving of the parent's reconcile workers    *)
(* leaks a running controller or leaves a stopped one registered.          *)
THEOREM RegistryAccurateHolds == RSpec => []RegistryAccurate
<1>1. RefInv => RegistryAccurate
  BY DEF RefInv
<1>. QED  BY <1>1, RefInvariant, PTL

(* The registry, with its mutex, its multi-step ensure and stop and the    *)
(* dhControllers' goroutines, implements the atomic registry of spec.md    *)
(* section 4.1 (RegistryRefines), for every set of handles, observers and *)
(* namespaces.                                                             *)
THEOREM RegistryImplementsAbstract == RSpec => RegistryRefines
<1>1. RInit => RefInv /\ AR!Init
  BY InitRefInv
<1>2. RefInv /\ [RNext]_allVars => RefInv' /\ [AR!Next]_AR!avars
  BY NextRefInv
<1>. QED  BY <1>1, <1>2, PTL DEF RSpec, RegistryRefines, AR!Spec
(* Through the refinement, the implementation keeps the abstract promise   *)
(* of one running controller per namespace (AbstractOnePerNamespace): a    *)
(* controller runs iff it is registered, or built and about to be, and     *)
(* never for two namespaces.                                               *)
THEOREM OnePerNamespaceHolds == RSpec => []AR!OnePerNamespace
<1>1. None \notin Handles
  BY ConstantsAssumption
<1>2. AR!Spec => []AR!OnePerNamespace
  BY <1>1, AR!AbstractOnePerNamespace
<1>. QED  BY <1>2, RegistryImplementsAbstract, PTL DEF RegistryRefines
=============================================================================
