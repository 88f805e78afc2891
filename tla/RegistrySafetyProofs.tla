------------------------ MODULE RegistrySafetyProofs ------------------------
(***************************************************************************)
(* Proofs of the registry run's invariants for every value of the          *)
(* constants: the type invariant RTypeOK, NoPanic (no channel panic and no *)
(* panic in client construction) and StoppedIsQuiescent (a stopped         *)
(* controller has no informer running and no reconcile reaching the route *)
(* API).  They reuse the per-action lemmas of DhControllerProofs, since    *)
(* the registry's steps are the dhController's, and the registry lemmas    *)
(* of RegistryRefinementProofs.                                             *)
(***************************************************************************)
EXTENDS DhControllerProofs, RegistryRefinementProofs

(* Every notification is sent to an open controller, and a goroutine      *)
(* blocked in ReconcileObs is the parent reconcile that sent it, on the    *)
(* controller it works with.                                               *)
SendersSafe ==
    /\ \A o \in Observers :
         pc[o] = "notify" =>
            cur[o] \in Handles /\ hs[cur[o]] = "built" /\ chanOpen[cur[o]]
    /\ \A p \in Callers :
         blockedOn[p] # None => pc[p] = "sent" /\ blockedOn[p] = cur[p]

PInv ==
    /\ RefInv /\ TypeOK /\ WorkerHoldsKey
    /\ restCfg \in RestConfigs
    /\ NoPanic
    /\ SendersSafe

(* What Stop leaves behind: every recorded cancel has been called; the     *)
(* worker only runs inside a started Controller.Start, and a started       *)
(* controller has recorded ctx_'s cancel; an unbuilt handle has not been   *)
(* started.                                                                *)
Quiesce ==
    /\ \A h \in Handles : Stopped(h) => cancels[h] \subseteq cancelled[h]
    /\ \A h \in Handles : wk[h] # "idle" => ctl[h] = "running"
    /\ \A h \in Handles : ctl[h] # "idle" => "run" \in cancels[h]
    /\ \A h \in Handles : hs[h] = "unused" => ctl[h] = "idle"

QInv == PInv /\ Pristine /\ NoLeakedInformer /\ Quiesce /\ StoppedIsQuiescent

-----------------------------------------------------------------------------
USE ConstantsAssumption, RegistryAssumption

(* Client construction never panics: every config an OrDie constructor    *)
(* rejects, kubernetes.NewForConfig has rejected first.                    *)
LEMMA NewClientsSafe == \A cfg \in RestConfigs : NewClients(cfg) # "panic"
BY DEF NewClients, RestConfigs, RejectedBy

(* Only the mutex holder's reconcile is past its fetch.                    *)
LEMMA Mutex ==
    ASSUME RefInv, NEW o \in Observers, pc[o] # "idle"
    PROVE  lock = o /\ \A p \in Observers \ {o} : pc[p] = "idle"
BY DEF RefInv

(* An idle reconcile has no send pending.                                  *)
LEMMA IdleNotBlocked ==
    ASSUME SendersSafe, NEW p \in Observers, pc[p] # "sent"
    PROVE  blockedOn[p] = None
BY DEF SendersSafe

(* A step that leaves the dhController state alone keeps its invariants.   *)
LEMMA VarsFrame ==
    ASSUME TypeOK, WorkerHoldsKey, NoPanic, UNCHANGED vars
    PROVE  TypeOK' /\ WorkerHoldsKey' /\ NoPanic'
BY DEF TypeOK, WorkerHoldsKey, NoPanic, vars, ctlVars

-----------------------------------------------------------------------------
(* The parent's steps.                                                     *)

LEMMA FetchP ==
    ASSUME PInv, NEW o \in Observers, Fetch(o), UNCHANGED restCfg
    PROVE  PInv'
<1>1. RefInv'
  BY FetchStep DEF PInv
<1>2. UNCHANGED vars
  BY DEF Fetch
<1>3. TypeOK' /\ WorkerHoldsKey' /\ NoPanic'
  BY <1>2, VarsFrame DEF PInv
<1>4. SendersSafe'
  <2>1. lock = None /\ pc[o] = "idle"
    BY DEF Fetch
  <2>2. \A p \in Observers : pc[p] = "idle" /\ blockedOn[p] = None
    BY <2>1, AllIdle, IdleNotBlocked DEF PInv
  <2>3. \A p \in Observers \ {o} : pc'[p] = pc[p] /\ cur'[p] = cur[p]
    BY DEF Fetch, PInv, RefInv
  <2>4. pc'[o] = "notify" =>
           /\ cur'[o] = registry[Target[o]]
           /\ registry[Target[o]] # None
    BY DEF Fetch, PInv, RefInv
  <2>5. \A n \in Namespaces :
           registry[n] # None =>
              registry[n] \in Handles /\ hs[registry[n]] = "built"
              /\ chanOpen[registry[n]]
    BY DEF PInv, RefInv
  <2>6. UNCHANGED <<hs, chanOpen, blockedOn>>
    BY <1>2 DEF vars, ctlVars
  <2>. QED  BY <2>2, <2>3, <2>4, <2>5, <2>6 DEF SendersSafe
<1>. QED  BY <1>1, <1>3, <1>4 DEF PInv
(* When a step leaves no reconcile notifying or waiting on a send,        *)
(* SendersSafe holds after it.                                             *)
LEMMA NoSendersSafe ==
    ASSUME \A p \in Observers : pc'[p] \notin {"notify", "sent"}
                                /\ blockedOn'[p] = None
    PROVE  SendersSafe'
BY DEF SendersSafe

LEMMA EnsureNewP ==
    ASSUME PInv, NEW o \in Observers, EnsureNew(o), UNCHANGED restCfg
    PROVE  PInv'
<1>1. RefInv'
  BY EnsureNewStep DEF PInv
<1>2. PICK h \in Handles : /\ Quiet(New(h, o))
                           /\ pc' = [pc EXCEPT ![o] = "start"]
  BY DEF EnsureNew, FreeHandles
<1>3. TypeOK' /\ WorkerHoldsKey'
  BY <1>2, NewTInv DEF PInv
<1>4. NoPanic' /\ UNCHANGED blockedOn
  BY <1>2 DEF Quiet, NoPanic, PInv
<1>5. SendersSafe'
  <2>1. pc[o] = "new" /\ \A p \in Observers \ {o} : pc[p] = "idle"
    BY Mutex DEF EnsureNew, PInv
  <2>2. \A p \in Observers : blockedOn[p] = None
    BY <2>1, IdleNotBlocked DEF PInv
  <2>3. \A p \in Observers : pc'[p] \notin {"notify", "sent"}
    BY <1>2, <2>1 DEF PInv, RefInv
  <2>4. \A p \in Observers : blockedOn'[p] = None
    BY <1>4, <2>2
  <2>. QED  BY <2>3, <2>4, NoSendersSafe
<1>. QED  BY <1>1, <1>3, <1>4, <1>5 DEF PInv

(* The panic branch of a failed construction is never taken.              *)
LEMMA EnsureFailedP ==
    ASSUME PInv, NEW o \in Observers, EnsureFailed(o), UNCHANGED restCfg
    PROVE  PInv'
<1>1. RefInv'
  BY EnsureFailedStep DEF PInv
<1>2. NewClients(restCfg) # "panic"
  BY NewClientsSafe DEF PInv
<1>3. Release(o) /\ UNCHANGED vars
  BY <1>2 DEF EnsureFailed
<1>4. TypeOK' /\ WorkerHoldsKey' /\ NoPanic'
  BY <1>3, VarsFrame DEF PInv
<1>5. SendersSafe'
  <2>1. pc[o] = "new" /\ \A p \in Observers \ {o} : pc[p] = "idle"
    BY Mutex DEF EnsureFailed, PInv
  <2>2. \A p \in Observers : blockedOn[p] = None
    BY <2>1, IdleNotBlocked DEF PInv
  <2>3. \A p \in Observers : pc'[p] = "idle"
    BY <1>3, <2>1 DEF Release, PInv, RefInv
  <2>4. \A p \in Observers : blockedOn'[p] = None
    BY <1>3, <2>2 DEF vars
  <2>. QED  BY <2>3, <2>4, NoSendersSafe
<1>. QED  BY <1>1, <1>4, <1>5 DEF PInv

LEMMA EnsureStartP ==
    ASSUME PInv, NEW o \in Observers, EnsureStart(o), UNCHANGED restCfg
    PROVE  PInv'
<1>1. RefInv'
  BY EnsureStartStep DEF PInv
<1>2. TypeOK' /\ WorkerHoldsKey'
  BY NewTInv, StartTInv DEF EnsureStart, PInv, RefInv
<1>3. NoPanic' /\ UNCHANGED <<blockedOn, hs, chanOpen, cur>>
  BY DEF EnsureStart, Quiet, Start, NoPanic, PInv
<1>4. SendersSafe'
  <2>1. pc[o] = "start" /\ \A p \in Observers \ {o} : pc[p] = "idle"
    BY Mutex DEF EnsureStart, PInv
  <2>2. \A p \in Observers : blockedOn[p] = None
    BY <2>1, IdleNotBlocked DEF PInv
  <2>3. /\ cur[o] \in Handles /\ hs[cur[o]] = "built" /\ chanOpen[cur[o]]
        /\ pc' = [pc EXCEPT ![o] = "notify"]
    BY <2>1 DEF EnsureStart, PInv, RefInv
  <2>4. \A p \in Observers \ {o} : pc'[p] = "idle"
    BY <2>1, <2>3 DEF PInv, RefInv
  <2>. QED  BY <1>3, <2>2, <2>3, <2>4 DEF SendersSafe
<1>. QED  BY <1>1, <1>2, <1>3, <1>4 DEF PInv
(* The notification goes to an open controller: the send blocks instead  *)
(* of panicking.                                                           *)
LEMMA NotifyP ==
    ASSUME PInv, NEW o \in Observers, Notify(o), UNCHANGED restCfg
    PROVE  PInv'
<1>1. RefInv'
  BY NotifyStep DEF PInv
<1>2. /\ pc[o] = "notify" /\ \A p \in Observers \ {o} : pc[p] = "idle"
      /\ cur[o] \in Handles /\ chanOpen[cur[o]]
      /\ SendBegin(o, cur[o]) /\ effect' = None
  BY Mutex DEF Notify, PInv, SendersSafe
<1>3. /\ blockedOn[o] = None
      /\ blockedOn' = [blockedOn EXCEPT ![o] = cur[o]]
      /\ UNCHANGED <<panic, hs, chanOpen, cur>>
  BY <1>2 DEF SendBegin, Notify, ctlVars
<1>4. TypeOK' /\ WorkerHoldsKey'
  BY <1>2, SendBeginTInv DEF PInv
<1>5. SendersSafe'
  <2>1. \A p \in Observers \ {o} : blockedOn[p] = None
    BY <1>2, IdleNotBlocked DEF PInv
  <2>2. /\ pc' = [pc EXCEPT ![o] = "sent"]
        /\ pc \in [Observers -> ParentPcs]
        /\ blockedOn \in [Callers -> Handles \cup {None}]
    BY DEF Notify, PInv, RefInv, TypeOK
  <2>. QED  BY <1>2, <1>3, <2>1, <2>2 DEF SendersSafe
<1>. QED  BY <1>1, <1>3, <1>4, <1>5 DEF PInv, NoPanic

LEMMA NotifyDoneP ==
    ASSUME PInv, NEW o \in Observers, NotifyDone(o), UNCHANGED restCfg
    PROVE  PInv'
<1>1. RefInv'
  BY NotifyDoneStep DEF PInv
<1>2. Release(o) /\ UNCHANGED vars
  BY DEF NotifyDone
<1>3. TypeOK' /\ WorkerHoldsKey' /\ NoPanic'
  BY <1>2, VarsFrame DEF PInv
<1>4. SendersSafe'
  <2>1. pc[o] = "sent" /\ \A p \in Observers \ {o} : pc[p] = "idle"
    BY Mutex DEF NotifyDone, PInv
  <2>2. \A p \in Observers : blockedOn[p] = None
    BY <2>1, IdleNotBlocked DEF NotifyDone, PInv
  <2>3. \A p \in Observers : pc'[p] = "idle"
    BY <1>2, <2>1 DEF Release, PInv, RefInv
  <2>4. \A p \in Observers : blockedOn'[p] = None
    BY <1>2, <2>2 DEF vars
  <2>. QED  BY <2>3, <2>4, NoSendersSafe
<1>. QED  BY <1>1, <1>3, <1>4 DEF PInv

(* The registry stops its registered controller, which is open and has no *)
(* sender blocked on it: the close panics neither itself nor a sender.     *)
LEMMA RegistryStopP ==
    ASSUME PInv, NEW o \in Observers, RegistryStop(o), UNCHANGED restCfg
    PROVE  PInv'
<1>1. RefInv'
  BY RegistryStopStep DEF PInv
<1>2. /\ pc[o] = "stop" /\ \A p \in Observers \ {o} : pc[p] = "idle"
      /\ cur[o] = registry[Target[o]]
      /\ Release(o)
  BY Mutex DEF RegistryStop, PInv, RefInv
<1>3. \A p \in Observers : blockedOn[p] = None
  BY <1>2, IdleNotBlocked DEF PInv
<1>4. \A p \in Observers : pc'[p] = "idle"
  BY <1>2 DEF Release, PInv, RefInv
<1>5. CASE cur[o] = None
  <2>1. UNCHANGED vars
    BY <1>5 DEF RegistryStop
  <2>2. TypeOK' /\ WorkerHoldsKey' /\ NoPanic'
    BY <2>1, VarsFrame DEF PInv
  <2>3. \A p \in Observers : blockedOn'[p] = None
    BY <1>3, <2>1 DEF vars
  <2>. QED  BY <1>1, <1>4, <2>2, <2>3, NoSendersSafe DEF PInv
<1>6. CASE cur[o] # None
  <2>1. /\ cur[o] \in Handles /\ hs[cur[o]] = "built" /\ chanOpen[cur[o]]
        /\ Stop(cur[o]) /\ effect' = None
    BY <1>2, <1>6 DEF RegistryStop, PInv, RefInv
  <2>2. TypeOK' /\ WorkerHoldsKey'
    BY <2>1, StopTInv DEF PInv
  <2>3. NoPanic' /\ UNCHANGED blockedOn
    BY <1>3, <2>1 DEF Stop, NoPanic
  <2>4. \A p \in Observers : blockedOn'[p] = None
    BY <1>3, <2>3
  <2>. QED  BY <1>1, <1>4, <2>2, <2>3, <2>4, NoSendersSafe DEF PInv
<1>. QED  BY <1>5, <1>6
-----------------------------------------------------------------------------
(* The steps of the dhControllers' goroutines and of the cluster.          *)

(* A step that moves no reconcile, closes no channel and at most ends a   *)
(* send keeps SendersSafe.                                                 *)
LEMMA SendersFrame ==
    ASSUME SendersSafe, UNCHANGED <<hs, chanOpen, pc, cur>>,
           \A p \in Callers : blockedOn'[p] \in {blockedOn[p], None}
    PROVE  SendersSafe'
BY DEF SendersSafe

LEMMA SendDoneP ==
    ASSUME PInv, NEW p \in Callers, SendDone(p), effect' = None,
           UNCHANGED regVars
    PROVE  PInv'
<1>1. RefInv'
  BY EnvFrame, FrameStep DEF PInv
<1>2. TypeOK' /\ WorkerHoldsKey'
  BY SendDoneTInv DEF PInv
<1>3. NoPanic' /\ UNCHANGED <<hs, chanOpen, pc, cur, restCfg>>
  BY DEF SendDone, PInv, NoPanic, regVars
<1>4. \A q \in Callers : blockedOn'[q] \in {blockedOn[q], None}
  BY DEF SendDone, PInv, TypeOK
<1>. QED  BY <1>1, <1>2, <1>3, <1>4, SendersFrame DEF PInv

LEMMA ControllerStepP ==
    ASSUME PInv, Quiet(ControllerStep), UNCHANGED regVars
    PROVE  PInv'
<1>1. RefInv'
  BY ControllerFrame, FrameStep DEF PInv
<1>2. TypeOK' /\ WorkerHoldsKey'
  <2>1. PICK h \in Handles :
          \/ Quiet(CtlRun(h)) \/ Quiet(CtlExit(h)) \/ Quiet(WorkerGet(h))
          \/ \E s \in Sources : Quiet(InformerEvent(h, s))
    BY DEF ControllerStep, Quiet
  <2>. QED
    BY <2>1, CtlRunTInv, CtlExitTInv, WorkerGetTInv, InformerEventTInv
    DEF PInv
<1>3. UNCHANGED <<hs, chanOpen, pc, cur, restCfg, blockedOn, panic>>
  BY ControllerFrame DEF mapped, regVars, Quiet
<1>. QED  BY <1>1, <1>2, <1>3, SendersFrame DEF PInv, NoPanic

LEMMA WorkerApplyP ==
    ASSUME PInv, NEW h \in Handles, WorkerApply(h), UNCHANGED regVars
    PROVE  PInv'
<1>1. RefInv'
  BY EnvFrame, FrameStep DEF PInv
<1>2. TypeOK' /\ WorkerHoldsKey'
  BY WorkerApplyTInv DEF PInv
<1>3. UNCHANGED <<hs, chanOpen, pc, cur, restCfg, blockedOn, panic>>
  BY DEF WorkerApply, regVars
<1>. QED  BY <1>1, <1>2, <1>3, SendersFrame DEF PInv, NoPanic

LEMMA ObserverChangeP ==
    ASSUME PInv, NEW o \in Observers, ObserverChange(o), effect' = None,
           UNCHANGED regVars
    PROVE  PInv'
<1>1. RefInv'
  BY ObserverChangeStep DEF PInv
<1>2. TypeOK' /\ WorkerHoldsKey'
  BY ObserverChangeTInv DEF PInv
<1>3. UNCHANGED <<hs, chanOpen, pc, cur, restCfg, blockedOn, panic>>
  BY DEF ObserverChange, ctlVars, regVars
<1>. QED  BY <1>1, <1>2, <1>3, SendersFrame DEF PInv, NoPanic
-----------------------------------------------------------------------------
LEMMA InitP == RInit => PInv
<1>. SUFFICES ASSUME RInit PROVE PInv
  OBVIOUS
<1>1. RefInv
  BY InitRefInv
<1>2. TypeOK /\ WorkerHoldsKey
  BY InitTInv DEF RInit, TInv
<1>3. SendersSafe
  BY DEF RInit, Init, SendersSafe
<1>. QED  BY <1>1, <1>2, <1>3 DEF RInit, Init, PInv, NoPanic

LEMMA NextP == PInv /\ [RNext]_allVars => PInv'
<1>. SUFFICES ASSUME PInv, [RNext]_allVars PROVE PInv'
  OBVIOUS
<1>1. CASE UNCHANGED allVars
  <2>1. RefInv'
    BY <1>1, FrameStep DEF PInv, allVars, vars, ctlVars, regVars, mapped
  <2>2. TypeOK' /\ WorkerHoldsKey' /\ NoPanic'
    BY <1>1, VarsFrame DEF PInv, allVars
  <2>3. SendersSafe' /\ restCfg' \in RestConfigs
    BY <1>1 DEF PInv, SendersSafe, allVars, vars, ctlVars, regVars
  <2>. QED  BY <2>1, <2>2, <2>3 DEF PInv
<1>2. ASSUME NEW o \in Observers, ParentStep(o)
      PROVE  PInv'
  BY <1>2, FetchP, EnsureNewP, EnsureFailedP, EnsureStartP, NotifyP,
     NotifyDoneP, RegistryStopP DEF ParentStep
<1>3. CASE \E p \in Callers : SendDone(p) /\ effect' = None
                             /\ UNCHANGED regVars
  BY <1>3, SendDoneP
<1>4. CASE Quiet(ControllerStep) /\ UNCHANGED regVars
  BY <1>4, ControllerStepP
<1>5. CASE \E h \in Handles : WorkerApply(h) /\ UNCHANGED regVars
  BY <1>5, WorkerApplyP
<1>6. CASE \E o \in Observers :
             ObserverChange(o) /\ effect' = None /\ UNCHANGED regVars
  BY <1>6, ObserverChangeP
<1>. QED  BY <1>1, <1>2, <1>3, <1>4, <1>5, <1>6 DEF RNext

(* The type invariant of the registry run: the dhControllers' state, the   *)
(* registry map, the mutex, each reconcile's step and handle, and the      *)
(* manager's config keep their types along every interleaving, for every  *)
(* set of observers, namespaces and handles.                               *)
THEOREM RTypeCorrect == RSpec => []RTypeOK
<1>1. PInv => RTypeOK
  BY DEF PInv, RefInv, RTypeOK
<1>. QED  BY InitP, NextP, <1>1, PTL DEF RSpec

(* The operator never panics, for every set of observers, namespaces and   *)
(* handles: the parent's mutex serialises ensure, notify and stop, so       *)
(* Stop never closes a closed chanReconcileObs nor one a ReconcileObs is   *)
(* blocked on, and ReconcileObs only sends on an open channel; and no      *)
(* client constructor of NewManagedDhController panics on the manager's    *)
(* config.                                                                 *)
THEOREM NoPanicHolds == RSpec => []NoPanic
<1>1. PInv => NoPanic
  BY DEF PInv
<1>. QED  BY InitP, NextP, <1>1, PTL DEF RSpec
-----------------------------------------------------------------------------
(* StoppedIsQuiescent.  Stop calls every recorded cancel, and every        *)
(* started factory runs on a recorded context (NoLeakedInformer), so no    *)
(* informer of a stopped controller runs; its worker can only be inside a *)
(* reconcile while Controller.Start runs, which only happens once ctx_'s   *)
(* cancel is recorded, hence cancelled, so no reconcile writes the route.  *)

(* The dhController variables Quiesce and StoppedIsQuiescent read.         *)
qvars == <<hs, isStarted, factoryStop, cancels, cancelled, chanOpen, ctl, wk>>

(* StoppedIsQuiescent after a step follows from Quiesce and                *)
(* NoLeakedInformer after it, once the step wrote no stopped controller's  *)
(* route.                                                                  *)
LEMMA QuiesceStops ==
    ASSUME NoLeakedInformer', Quiesce',
           \A h \in Handles : Stopped(h)' => effect' # h
    PROVE  StoppedIsQuiescent'
BY DEF StoppedIsQuiescent, InformerRunning, NoLeakedInformer, Quiesce

(* A step that leaves qvars alone and writes no route, or repeats the      *)
(* last step's write, keeps the four invariants.                           *)
LEMMA QFrame ==
    ASSUME Pristine, NoLeakedInformer, Quiesce, StoppedIsQuiescent,
           UNCHANGED qvars, effect' \in {effect, None}
    PROVE  Pristine' /\ NoLeakedInformer' /\ Quiesce' /\ StoppedIsQuiescent'
<1>1. Pristine' /\ NoLeakedInformer'
  BY OtherIInv DEF qvars
<1>2. Quiesce'
  BY DEF Quiesce, Stopped, qvars
<1>3. \A h \in Handles : Stopped(h)' => effect' # h
  BY DEF StoppedIsQuiescent, Stopped, qvars
<1>. QED  BY <1>1, <1>2, <1>3, QuiesceStops
(* QX: the four invariants StoppedIsQuiescent rests on, with the types.    *)
QX == /\ TypeOK /\ Pristine /\ NoLeakedInformer /\ Quiesce
      /\ StoppedIsQuiescent

(* NewManagedDhController builds an open controller, with ctx_ not yet     *)
(* created and Controller.Start not launched.                              *)
LEMMA NewQ ==
    ASSUME QX, NEW h \in Handles, NEW o \in Observers, Quiet(New(h, o))
    PROVE  Pristine' /\ NoLeakedInformer' /\ Quiesce' /\ StoppedIsQuiescent'
<1>1. Pristine' /\ NoLeakedInformer'
  BY NewIInv DEF QX
<1>2. /\ hs[h] = "unused" /\ ctl[h] = "idle"
      /\ hs' = [hs EXCEPT ![h] = "built"]
      /\ chanOpen' = [chanOpen EXCEPT ![h] = TRUE]
      /\ cancels' = [cancels EXCEPT ![h] = {"obs"}]
      /\ UNCHANGED <<cancelled, ctl, wk>> /\ effect' = None
  BY DEF New, Quiet, QX, Quiesce
<1>3. Quiesce'
  BY <1>2 DEF Quiesce, Stopped, QX, TypeOK
<1>4. \A g \in Handles : Stopped(g)' => effect' # g
  BY <1>2, ConstantsAssumption
<1>. QED  BY <1>1, <1>3, <1>4, QuiesceStops

(* Start on an open controller: ctx_'s cancel is recorded before          *)
(* Controller.Start is launched, and the controller is not stopped.        *)
LEMMA StartQ ==
    ASSUME QX, NEW h \in Handles, chanOpen[h], Quiet(Start(h))
    PROVE  Pristine' /\ NoLeakedInformer' /\ Quiesce' /\ StoppedIsQuiescent'
<1>1. Pristine' /\ NoLeakedInformer'
  BY StartIInv DEF QX
<1>2. /\ ctl[h] = "idle" /\ wk[h] = "idle"
      /\ ctl' = [ctl EXCEPT ![h] = "launched"]
      /\ cancels' = [cancels EXCEPT ![h] = @ \cup {"run"}]
      /\ UNCHANGED <<hs, cancelled, chanOpen, wk>> /\ effect' = None
  BY DEF Start, Quiet, QX, Quiesce
<1>3. Quiesce'
  <2>1. \A g \in Handles : Stopped(g)' => cancels'[g] \subseteq cancelled'[g]
    BY <1>2 DEF Quiesce, Stopped, QX, TypeOK
  <2>2. \A g \in Handles : wk'[g] # "idle" => ctl'[g] = "running"
    BY <1>2 DEF Quiesce, QX, TypeOK
  <2>3. \A g \in Handles : ctl'[g] # "idle" => "run" \in cancels'[g]
    BY <1>2 DEF Quiesce, QX, TypeOK
  <2>4. \A g \in Handles : hs'[g] = "unused" => ctl'[g] = "idle"
    BY <1>2 DEF Start, Quiet, Quiesce, QX, TypeOK
  <2>. QED  BY <2>1, <2>2, <2>3, <2>4 DEF Quiesce
<1>4. \A g \in Handles : Stopped(g)' => effect' # g
  BY <1>2, ConstantsAssumption
<1>. QED  BY <1>1, <1>3, <1>4, QuiesceStops

(* Stop on an open controller cancels every recorded context.              *)
LEMMA StopQ ==
    ASSUME QX, NEW h \in Handles, chanOpen[h], Stop(h), effect' = None
    PROVE  Pristine' /\ NoLeakedInformer' /\ Quiesce' /\ StoppedIsQuiescent'
<1>1. /\ chanOpen' = [chanOpen EXCEPT ![h] = FALSE]
      /\ cancelled' = [cancelled EXCEPT ![h] = @ \cup cancels[h]]
      /\ UNCHANGED <<hs, isStarted, factoryStop, cancels, ctl, wk>>
  BY DEF Stop
<1>2. Pristine' /\ NoLeakedInformer'
  BY <1>1, OtherIInv DEF QX
<1>3. Quiesce'
  BY <1>1 DEF Quiesce, Stopped, QX, TypeOK
<1>4. \A g \in Handles : Stopped(g)' => effect' # g
  BY ConstantsAssumption
<1>. QED  BY <1>2, <1>3, <1>4, QuiesceStops
(* The Controller.Start goroutine and the worker: Controller.Start only    *)
(* returns with the worker idle, and the worker only takes a key while     *)
(* Controller.Start runs.                                                  *)
LEMMA ControllerStepQ ==
    ASSUME QX, Quiet(ControllerStep)
    PROVE  Pristine' /\ NoLeakedInformer' /\ Quiesce' /\ StoppedIsQuiescent'
<1>1. PICK h \in Handles :
        \/ Quiet(CtlRun(h)) \/ Quiet(CtlExit(h)) \/ Quiet(WorkerGet(h))
        \/ \E s \in Sources : Quiet(InformerEvent(h, s))
  BY DEF ControllerStep, Quiet
<1>2. /\ UNCHANGED <<hs, isStarted, factoryStop, cancels, cancelled, chanOpen>>
      /\ effect' = None
  BY <1>1 DEF Quiet, CtlRun, CtlExit, WorkerGet, InformerEvent
<1>3. Pristine' /\ NoLeakedInformer'
  BY <1>2, OtherIInv DEF QX
<1>4. \A g \in Handles : Stopped(g)' => effect' # g
  BY <1>2, ConstantsAssumption
<1>5. Quiesce'
  <2>1. CASE Quiet(CtlRun(h))
    <3>1. /\ ctl[h] = "launched" /\ ctl' = [ctl EXCEPT ![h] = "running"]
          /\ UNCHANGED wk
      BY <2>1 DEF Quiet, CtlRun
    <3>2. \A g \in Handles : Stopped(g)' => cancels'[g] \subseteq cancelled'[g]
      BY <1>2 DEF Quiesce, Stopped, QX
    <3>3. \A g \in Handles : wk'[g] # "idle" => ctl'[g] = "running"
      BY <3>1 DEF Quiesce, QX, TypeOK
    <3>4. \A g \in Handles : ctl'[g] # "idle" => "run" \in cancels'[g]
      BY <1>2, <3>1 DEF Quiesce, QX, TypeOK
    <3>5. \A g \in Handles : hs'[g] = "unused" => ctl'[g] = "idle"
      BY <1>2, <3>1 DEF Quiesce, QX, TypeOK
    <3>. QED  BY <3>2, <3>3, <3>4, <3>5 DEF Quiesce
  <2>2. CASE Quiet(CtlExit(h))
    <3>1. /\ wk[h] = "idle" /\ ctl[h] = "running"
          /\ ctl' = [ctl EXCEPT ![h] = "done"]
          /\ UNCHANGED wk
      BY <2>2 DEF Quiet, CtlExit
    <3>2. \A g \in Handles : Stopped(g)' => cancels'[g] \subseteq cancelled'[g]
      BY <1>2 DEF Quiesce, Stopped, QX
    <3>3. \A g \in Handles : wk'[g] # "idle" => ctl'[g] = "running"
      BY <3>1 DEF Quiesce, QX, TypeOK
    <3>4. \A g \in Handles : ctl'[g] # "idle" => "run" \in cancels'[g]
      BY <1>2, <3>1 DEF Quiesce, QX, TypeOK
    <3>5. \A g \in Handles : hs'[g] = "unused" => ctl'[g] = "idle"
      BY <1>2, <3>1 DEF Quiesce, QX, TypeOK
    <3>. QED  BY <3>2, <3>3, <3>4, <3>5 DEF Quiesce
  <2>3. CASE Quiet(WorkerGet(h))
    <3>1. /\ ctl[h] = "running" /\ UNCHANGED ctl
          /\ \A g \in Handles \ {h} : wk'[g] = wk[g]
      <4>1. PICK k \in queue[h] : WorkerGet(h)!3!(k)
        BY <2>3 DEF WorkerGet, Quiet
      <4>. QED  BY <2>3, <4>1 DEF Quiet, WorkerGet, QX, TypeOK
    <3>2. \A g \in Handles : Stopped(g)' => cancels'[g] \subseteq cancelled'[g]
      BY <1>2 DEF Quiesce, Stopped, QX
    <3>3. \A g \in Handles : wk'[g] # "idle" => ctl'[g] = "running"
      BY <3>1 DEF Quiesce, QX, TypeOK
    <3>4. \A g \in Handles : ctl'[g] # "idle" => "run" \in cancels'[g]
      BY <1>2, <3>1 DEF Quiesce, QX
    <3>5. \A g \in Handles : hs'[g] = "unused" => ctl'[g] = "idle"
      BY <1>2, <3>1 DEF Quiesce, QX
    <3>. QED  BY <3>2, <3>3, <3>4, <3>5 DEF Quiesce
  <2>4. CASE \E s \in Sources : Quiet(InformerEvent(h, s))
    <3>1. UNCHANGED <<ctl, wk>>
      BY <2>4 DEF Quiet, InformerEvent
    <3>. QED  BY <1>2, <3>1 DEF Quiesce, Stopped, QX
  <2>. QED  BY <1>1, <2>1, <2>2, <2>3, <2>4
<1>. QED  BY <1>3, <1>4, <1>5, QuiesceStops

(* A reconcile writes the route only while ctx_ is not cancelled, which    *)
(* Stop has done for every controller it stopped that was ever started.    *)
LEMMA WorkerApplyQ ==
    ASSUME QX, NEW h \in Handles, WorkerApply(h)
    PROVE  Pristine' /\ NoLeakedInformer' /\ Quiesce' /\ StoppedIsQuiescent'
<1>1. /\ wk[h] # "idle" /\ wk' = [wk EXCEPT ![h] = "idle"]
      /\ UNCHANGED <<hs, isStarted, factoryStop, cancels, cancelled, chanOpen,
                     ctl>>
  BY DEF WorkerApply
<1>2. Pristine' /\ NoLeakedInformer'
  BY <1>1, OtherIInv DEF QX
<1>3. Quiesce'
  BY <1>1 DEF Quiesce, Stopped, QX, TypeOK
<1>4. \A g \in Handles : Stopped(g)' => effect' # g
  <2>1. effect' \in {h, None} /\ (effect' = h => "run" \notin cancelled[h])
    BY DEF WorkerApply
  <2>2. Stopped(h) => "run" \in cancelled[h]
    BY <1>1 DEF QX, Quiesce
  <2>. QED  BY <1>1, <2>1, <2>2, ConstantsAssumption DEF Stopped
<1>. QED  BY <1>2, <1>3, <1>4, QuiesceStops
-----------------------------------------------------------------------------
LEMMA InitQ == RInit => QInv
<1>. SUFFICES ASSUME RInit PROVE QInv
  OBVIOUS
<1>1. PInv
  BY InitP
<1>2. Pristine /\ NoLeakedInformer
  BY InitIInv DEF RInit
<1>3. Quiesce /\ StoppedIsQuiescent
  BY ConstantsAssumption
  DEF RInit, Init, Quiesce, StoppedIsQuiescent, Stopped, InformerRunning
<1>. QED  BY <1>1, <1>2, <1>3 DEF QInv

(* The parent's steps: the registry only starts a controller it has just   *)
(* built, and only stops the registered one, so both act on an open        *)
(* controller; every other parent step leaves the controller alone.        *)
LEMMA ParentStepQ ==
    ASSUME QInv, NEW o \in Observers, ParentStep(o)
    PROVE  Pristine' /\ NoLeakedInformer' /\ Quiesce' /\ StoppedIsQuiescent'
<1>. USE DEF QInv, PInv
<1>1. QX
  BY DEF QX
<1>2. CASE Fetch(o) \/ NotifyDone(o) \/ EnsureFailed(o) \/ Notify(o)
  <2>1. UNCHANGED qvars /\ effect' \in {effect, None}
    BY <1>2 DEF Fetch, NotifyDone, EnsureFailed, Release, Notify, SendBegin,
                vars, ctlVars, qvars
  <2>. QED  BY <2>1, QFrame
<1>3. CASE EnsureNew(o)
  BY <1>1, <1>3, NewQ DEF EnsureNew, FreeHandles
<1>4. CASE EnsureStart(o)
  <2>1. cur[o] \in Handles /\ chanOpen[cur[o]]
    BY <1>4 DEF EnsureStart, RefInv
  <2>. QED  BY <1>1, <1>4, <2>1, StartQ DEF EnsureStart
<1>5. CASE RegistryStop(o)
  <2>1. CASE cur[o] = None
    <3>1. UNCHANGED qvars /\ effect' \in {effect, None}
      BY <1>5, <2>1 DEF RegistryStop, vars, ctlVars, qvars
    <3>. QED  BY <3>1, QFrame
  <2>2. CASE cur[o] # None
    <3>1. cur[o] = registry[Target[o]]
      BY <1>5 DEF RegistryStop, RefInv
    <3>2. cur[o] \in Handles /\ chanOpen[cur[o]]
      BY <2>2, <3>1 DEF RefInv
    <3>3. Stop(cur[o]) /\ effect' = None
      BY <1>5, <2>2 DEF RegistryStop
    <3>. QED  BY <1>1, <3>2, <3>3, StopQ
  <2>. QED  BY <2>1, <2>2
<1>. QED  BY <1>2, <1>3, <1>4, <1>5 DEF ParentStep

LEMMA NextQ == QInv /\ [RNext]_allVars => QInv'
<1>. SUFFICES ASSUME QInv, [RNext]_allVars PROVE QInv'
  OBVIOUS
<1>1. PInv'
  BY NextP DEF QInv
<1>2. QX
  BY DEF QInv, PInv, QX
<1>3. Pristine' /\ NoLeakedInformer' /\ Quiesce' /\ StoppedIsQuiescent'
  <2>1. CASE UNCHANGED allVars
    BY <2>1, QFrame DEF QInv, allVars, vars, ctlVars, qvars
  <2>2. CASE \E o \in Observers : ParentStep(o)
    BY <2>2, ParentStepQ
  <2>3. CASE \/ \E p \in Callers : SendDone(p) /\ effect' = None
             \/ \E o \in Observers : ObserverChange(o) /\ effect' = None
    <3>1. UNCHANGED qvars /\ effect' \in {effect, None}
      BY <2>3 DEF SendDone, ObserverChange, ctlVars, qvars
    <3>. QED  BY <3>1, QFrame DEF QInv
  <2>4. CASE Quiet(ControllerStep)
    BY <1>2, <2>4, ControllerStepQ
  <2>5. CASE \E h \in Handles : WorkerApply(h)
    BY <1>2, <2>5, WorkerApplyQ
  <2>. QED  BY <2>1, <2>2, <2>3, <2>4, <2>5 DEF RNext
<1>. QED  BY <1>1, <1>3 DEF QInv

(* A stopped dhController is quiescent in every run of the registry, for   *)
(* every set of observers, namespaces and handles: none of its informer    *)
(* factories still runs and no reconcile of its worker writes the route,   *)
(* because the registry starts only open controllers and dhController.Stop *)
(* cancels every context the factories and the worker were started with.  *)
THEOREM StoppedQuiescentHolds == RSpec => []StoppedIsQuiescent
<1>1. QInv => StoppedIsQuiescent
  BY DEF QInv
<1>. QED  BY InitQ, NextQ, <1>1, PTL DEF RSpec
=============================================================================
