-------------------------- MODULE ObserverRegistry --------------------------
(***************************************************************************)
(* The parent SdiObserver reconciler and the process-wide controller       *)
(* registry that create, notify and stop the dhControllers of             *)
(* DhController.  The parent is not part of src/: it is modelled from the  *)
(* design of spec.md (sections 4.1, 4.4 and 5): one reconcile worker per   *)
(* SdiObserver key, different keys in parallel, a registry map from the    *)
(* target namespace to a running controller, and a registry-wide mutex    *)
(* that serialises ensure, notify and stop.                                *)
(***************************************************************************)
EXTENDS DhController

CONSTANTS
    Namespaces,  \* DataHub namespaces an SdiObserver may target
    Target       \* Target[o]: the target namespace of observer o's spec

ASSUME RegistryAssumption ==
    /\ Namespaces # {}
    /\ Target \in [Observers -> Namespaces]
    /\ Callers = Observers
    /\ None \notin Namespaces

(* Steps of one parent reconcile, all taken while holding the mutex.       *)
ParentPcs == {"idle", "new", "start", "notify", "sent", "stop"}

VARIABLES
    registry,  \* namespace -> running controller handle (or None)
    lock,      \* holder of the registry mutex (or None)
    pc,        \* where each observer's reconcile worker is
    cur,       \* the handle a reconcile is working with
    restCfg    \* the manager's rest.Config (mgr.GetConfig(), line 154)

regVars == <<registry, lock, pc, cur, restCfg>>
allVars == <<vars, regVars>>

-----------------------------------------------------------------------------
RInit ==
    /\ Init
    /\ registry = [n \in Namespaces |-> None]
    /\ lock = None
    /\ pc = [o \in Observers |-> "idle"]
    /\ cur = [o \in Observers |-> None]
    /\ restCfg \in RestConfigs

FreeHandles == {h \in Handles : hs[h] = "unused"}

(* A reconcile of observer o begins (watch event or resync): take the      *)
(* mutex and fetch the observer.  Not found means deletion: stop the       *)
(* controller of its target namespace.  Found: ensure a controller for the *)
(* target namespace, creating one if none is registered.  The model stops  *)
(* creating controllers when Handles is used up (bound).                   *)
Fetch(o) ==
    /\ pc[o] = "idle"
    /\ lock = None
    /\ lock' = o
    /\ LET h == registry[Target[o]] IN
       IF ~exists[o]
       THEN /\ pc' = [pc EXCEPT ![o] = "stop"]
            /\ cur' = [cur EXCEPT ![o] = h]
       ELSE IF h # None
       THEN /\ pc' = [pc EXCEPT ![o] = "notify"]
            /\ cur' = [cur EXCEPT ![o] = h]
       ELSE /\ FreeHandles # {}
            /\ pc' = [pc EXCEPT ![o] = "new"]
            /\ UNCHANGED cur
    /\ UNCHANGED <<vars, registry>>

Release(o) ==
    /\ lock' = None
    /\ pc' = [pc EXCEPT ![o] = "idle"]
    /\ cur' = [cur EXCEPT ![o] = None]

(* Mutant of EnsureNew: the new controller is notified without Start.     *)
EnsureNewNoStart(o) ==
    /\ pc[o] = "new"
    /\ NewClients(restCfg) = "ok"
    /\ \E h \in FreeHandles :
         /\ Quiet(New(h, o))
         /\ pc' = [pc EXCEPT ![o] = "notify"]
         /\ cur' = [cur EXCEPT ![o] = h]
    /\ UNCHANGED <<registry, lock>>

(* ensure, construction: NewManagedDhController for o's target namespace,  *)
(* on its successful path.                                                 *)
EnsureNew(o) ==
    /\ pc[o] = "new"
    /\ NewClients(restCfg) = "ok"
    /\ \E h \in FreeHandles :
         /\ Quiet(New(h, o))
         /\ pc' = [pc EXCEPT ![o] = "start"]
         /\ cur' = [cur EXCEPT ![o] = h]
    /\ UNCHANGED <<registry, lock>>

(* A construction that does not succeed.  Either a client constructor      *)
(* panics (lines 159-160) and takes the process down, or an error (from    *)
(* controller.NewUnmanaged, a Watch registration or line 155) is returned   *)
(* to the parent, which requeues and retries on its next reconcile.  The  *)
(* errors before line 155 are possible whatever the config.                *)
EnsureFailed(o) ==
    /\ pc[o] = "new"
    /\ IF NewClients(restCfg) = "panic"
       THEN /\ panic' = "die"
            /\ UNCHANGED <<ctlVars, blockedOn, exists, effect, lock, pc, cur>>
       ELSE /\ Release(o)
            /\ UNCHANGED vars
    /\ UNCHANGED registry

(* ensure, completion: start the new controller and register it.          *)
EnsureStart(o) ==
    /\ pc[o] = "start"
    /\ Quiet(Start(cur[o]))
    /\ registry' = [registry EXCEPT ![Target[o]] = cur[o]]
    /\ pc' = [pc EXCEPT ![o] = "notify"]
    /\ UNCHANGED <<lock, cur>>

(* notify: ReconcileObs on the registered controller, under the mutex.     *)
Notify(o) ==
    /\ pc[o] = "notify"
    /\ SendBegin(o, cur[o]) /\ effect' = None
    /\ pc' = [pc EXCEPT ![o] = "sent"]
    /\ UNCHANGED <<registry, lock, cur>>

(* Mutant of NotifyDone: the parent does not wait for the send to be     *)
(* received (ReconcileObs issued from a goroutine of its own).             *)
NotifyDoneAsync(o) ==
    /\ pc[o] = "sent"
    /\ Release(o)
    /\ UNCHANGED <<vars, registry>>

(* The send has been received (SendDone): the reconcile ends.              *)
NotifyDone(o) ==
    /\ pc[o] = "sent"
    /\ blockedOn[o] = None
    /\ Release(o)
    /\ UNCHANGED <<vars, registry>>

(* stop: stop and unregister the controller of the deleted observer's      *)
(* target namespace, if there is one.                                      *)
RegistryStop(o) ==
    /\ pc[o] = "stop"
    /\ IF cur[o] # None
       THEN /\ Stop(cur[o]) /\ effect' = None
            /\ registry' = [registry EXCEPT ![Target[o]] = None]
       ELSE UNCHANGED <<vars, registry>>
    /\ Release(o)

-----------------------------------------------------------------------------
ParentStep(o) ==
    /\ \/ Fetch(o) \/ EnsureNew(o) \/ EnsureFailed(o) \/ EnsureStart(o)
       \/ Notify(o) \/ NotifyDone(o) \/ RegistryStop(o)
    /\ UNCHANGED restCfg

RNext ==
    /\ panic = "none"
    /\ \/ \E o \in Observers : ParentStep(o)
       \/ \E p \in Callers : SendDone(p) /\ effect' = None /\ UNCHANGED regVars
       \/ Quiet(ControllerStep) /\ UNCHANGED regVars
       \/ \E h \in Handles : WorkerApply(h) /\ UNCHANGED regVars
       \/ \E o \in Observers :
            ObserverChange(o) /\ effect' = None /\ UNCHANGED regVars

(* Go schedules every runnable goroutine: the parent workers (once they    *)
(* hold the mutex), the channel source receiving a pending send, and each  *)
(* controller's Start goroutine and worker.  Cluster changes and informer  *)
(* events are the environment and are not required to happen.             *)
Fairness ==
    /\ \A o \in Observers :
         WF_allVars((EnsureNew(o) \/ EnsureStart(o) \/ Notify(o)
                     \/ NotifyDone(o) \/ RegistryStop(o)) /\ UNCHANGED restCfg)
    /\ \A p \in Callers : WF_allVars(SendDone(p) /\ effect' = None
                                     /\ UNCHANGED regVars)
    /\ \A h \in Handles :
         /\ WF_allVars(Quiet(CtlRun(h) \/ CtlExit(h) \/ WorkerGet(h))
                       /\ UNCHANGED regVars)
         /\ WF_allVars(WorkerApply(h) /\ UNCHANGED regVars)

RSpec == RInit /\ [][RNext]_allVars /\ Fairness

-----------------------------------------------------------------------------
RTypeOK ==
    /\ TypeOK
    /\ registry \in [Namespaces -> Handles \cup {None}]
    /\ lock \in Observers \cup {None}
    /\ pc \in [Observers -> ParentPcs]
    /\ cur \in [Observers -> Handles \cup {None}]
    /\ restCfg \in RestConfigs

-----------------------------------------------------------------------------
(* The operator never panics (spec.md section 7: nothing may terminate the *)
(* process).  Not on chanReconcileObs, which Stop closes without a guard   *)
(* and ReconcileObs sends on unguarded: no controller is stopped twice and *)
(* no notification is sent to, or blocked on, a controller being stopped,  *)
(* whatever the interleaving of the parent workers.  Nor in client         *)
(* construction: a config NewForConfigOrDie would reject has already made  *)
(* kubernetes.NewForConfig fail, whatever the manager's config is.         *)
NoPanic == panic = "none"

(* Once Stop has been called on a controller, none of its informers still  *)
(* runs and its reconciles no longer reach the route API: Stop cancels     *)
(* every context the factories and the worker were started with.           *)
StoppedIsQuiescent ==
    \A h \in Handles :
        Stopped(h) => /\ \A f \in Factories : ~InformerRunning(h, f)
                      /\ effect # h

(* The registry is exactly the set of live controllers: every registered   *)
(* controller is built, not stopped and serves its namespace, and every    *)
(* live controller is registered or being registered (no controller is     *)
(* leaked running after its entry is replaced or removed).                 *)
RegistryAccurate ==
    /\ \A n \in Namespaces :
         registry[n] # None =>
            /\ hs[registry[n]] = "built"
            /\ chanOpen[registry[n]]
            /\ Target[owner[registry[n]]] = n
    /\ \A h \in Handles :
         (hs[h] = "built" /\ chanOpen[h]) =>
            \/ \E n \in Namespaces : registry[n] = h
            \/ \E o \in Observers : pc[o] = "start" /\ cur[o] = h

(* Every ReconcileObs the parent issues returns: the sub-controller's      *)
(* channel source eventually receives it, so the parent reconcile (holding *)
(* the registry mutex) never blocks forever.                               *)
NotifyCompletes == \A o \in Observers : pc[o] = "sent" ~> pc[o] = "idle"

(* A stopped controller's Controller.Start goroutine eventually returns:   *)
(* Stop cancels ctx_, the queue shuts down, the worker drains what is      *)
(* pending and exits, so no goroutine of a stopped controller is leaked.   *)
ControllerTerminates ==
    \A h \in Handles : Stopped(h) ~> ctl[h] \in {"idle", "done"}

=============================================================================
