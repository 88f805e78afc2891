---------------------------- MODULE DhController ----------------------------
(***************************************************************************)
(* The dynamically created DataHub sub-controller of                       *)
(* src/operator/controllers/managed-dh/controller.go (type dhController)   *)
(* together with the goroutines it spawns: the controller-runtime          *)
(* Controller.Start goroutine (queue, event sources, one worker), the      *)
(* channel source that reads chanReconcileObs, and the informer factories. *)
(*                                                                         *)
(* A controller instance is a handle h \in Handles.  Its callers are the   *)
(* goroutines in Callers that invoke ReconcileObs on it; every other       *)
(* method is called by whoever owns the handle.  In this module a caller   *)
(* may invoke any method at any time: the calling discipline of the parent *)
(* reconciler is added by ObserverRegistry.                                *)
(***************************************************************************)
EXTENDS FiniteSets

CONSTANTS
    Handles,    \* dhController instances the process may create
    Callers,    \* goroutines that call ReconcileObs (parent reconcile workers)
    Observers,  \* SdiObserver resources (the nmName a controller is built for)
    None        \* absence of a handle, an observer or a key

ASSUME ConstantsAssumption ==
    /\ IsFiniteSet(Handles) /\ Handles # {}
    /\ Callers # {}
    /\ Observers # {}
    /\ None \notin Handles \cup Observers

(* The three informer factories of manageDhNamespace (lines 170, 183, 209) *)
(* and the four informers they feed into the controller's queue.           *)
Factories == {"dh", "core", "route"}
Sources == {"dh", "svc", "secret", "route"}
FactoryOf == [s \in Sources |-> IF s \in {"svc", "secret"} THEN "core" ELSE s]

(* The keys a reconcile request can carry: the SdiObserver forwarded       *)
(* through chanReconcileObs, and "object", standing for any object an      *)
(* informer reports (EnqueueRequestForObject keys it by its own name).     *)
(* Reconcile ignores the key, so the model keeps only whether a request of *)
(* each origin is pending; requests for different watched objects coalesce *)
(* in the model, which changes how many reconciles run, never what one does.*)
Keys == {"obs", "object"}

(* The two cancellable contexts of a controller: obsContext created in     *)
(* NewManagedDhController (line 119) and ctx_ created in Start (line 225). *)
(* "none" marks a factory that has not been started.                       *)
Contexts == {"obs", "run"}

(* The manager's rest.Config, which manageDhNamespace hands to three       *)
(* client constructors (lines 155-160), by what client-go makes of it: a  *)
(* usable config, a QPS without a Burst, or TLS files it cannot load.      *)
(* kubernetes.NewForConfig and the generated route clientset reject both  *)
(* bad kinds; dynamic.NewForConfig, which builds its rate limiter itself, *)
(* only the TLS one.                                                       *)
RestConfigs == {"valid", "noBurst", "badTLS"}
RejectedBy == [kube |-> {"noBurst", "badTLS"},
               route |-> {"noBurst", "badTLS"},
               dynamic |-> {"badTLS"}]

(* Mutant: the error of kubernetes.NewForConfig checked only after the     *)
(* other two clients are built (line 161 instead of line 156).            *)
NewClientsLateCheck(cfg) ==
    IF cfg \in RejectedBy.route \cup RejectedBy.dynamic THEN "panic"
    ELSE IF cfg \in RejectedBy.kube THEN "error"
    ELSE "ok"

(* Lines 154-162: an error of kubernetes.NewForConfig is returned; the     *)
(* route and dynamic clients are built with NewForConfigOrDie, which       *)
(* panics the process on a config they reject.                             *)
NewClients(cfg) ==
    IF cfg \in RejectedBy.kube THEN "error"
    ELSE IF cfg \in RejectedBy.route \cup RejectedBy.dynamic THEN "panic"
    ELSE "ok"

(* Phases of the goroutine running controller.Controller.Start (line 227). *)
CtlPhases == {"idle", "launched", "running", "done"}

VARIABLES
    hs,           \* "unused" or "built": NewManagedDhController returned h
    owner,        \* the nmName the reconciler of h reads (line 92)
    isStarted,    \* dhController.isStarted
    unstarted,    \* dhController.unstartedFactories, as a set
    factoryStop,  \* context whose Done channel a factory was started with
    cancels,      \* contexts whose cancel functions are in dhController.cancels
    cancelled,    \* contexts that have been cancelled
    chanOpen,     \* chanReconcileObs not yet closed
    ctl,          \* phase of the Controller.Start goroutine
    queue,        \* keys pending in the controller's work queue
    wk,           \* the single reconcile worker: "idle", "found" or "notfound"
    wkKey,        \* the key the worker is processing
    blockedOn,    \* handle whose channel a caller is blocked sending on
    exists,       \* which SdiObservers exist in the cluster (informer cache)
    panic,        \* "none", or the panic that killed the process
    effect        \* handle whose reconcile wrote to the route API in this step

ctlVars == <<hs, owner, isStarted, unstarted, factoryStop, cancels, cancelled,
             chanOpen, ctl, queue, wk, wkKey>>
vars == <<ctlVars, blockedOn, exists, panic, effect>>

-----------------------------------------------------------------------------
(* Derived state.                                                          *)

(* A started factory runs until the context it was started with ends.     *)
InformerRunning(h, f) ==
    factoryStop[h][f] # "none" /\ factoryStop[h][f] \notin cancelled[h]

(* The work queue is shut down when ctx_ is cancelled (controller-runtime *)
(* shuts it down on ctx.Done()); Add on a shut-down queue is a no-op.      *)
QueueShut(h) == "run" \in cancelled[h]

Enqueue(h, K) ==
    queue' = [queue EXCEPT ![h] = IF QueueShut(h) THEN @ ELSE @ \cup K]

(* The channel source started by Controller.Start reads chanReconcileObs   *)
(* until the channel is closed or its injected stop channel (obsContext)   *)
(* is done (lines 120-121).                                                *)
ReaderActive(h) ==
    /\ ctl[h] \in {"running", "done"}
    /\ chanOpen[h]
    /\ "obs" \notin cancelled[h]

(* Stop has been called on h: it is the only place the channel is closed. *)
Stopped(h) == hs[h] = "built" /\ ~chanOpen[h]

-----------------------------------------------------------------------------
Init ==
    /\ hs = [h \in Handles |-> "unused"]
    /\ owner = [h \in Handles |-> None]
    /\ isStarted = [h \in Handles |-> FALSE]
    /\ unstarted = [h \in Handles |-> {}]
    /\ factoryStop = [h \in Handles |-> [f \in Factories |-> "none"]]
    /\ cancels = [h \in Handles |-> {}]
    /\ cancelled = [h \in Handles |-> {}]
    /\ chanOpen = [h \in Handles |-> FALSE]
    /\ ctl = [h \in Handles |-> "idle"]
    /\ queue = [h \in Handles |-> {}]
    /\ wk = [h \in Handles |-> "idle"]
    /\ wkKey = [h \in Handles |-> None]
    /\ blockedOn = [p \in Callers |-> None]
    /\ exists \in [Observers -> BOOLEAN]
    /\ panic = "none"
    /\ effect = None

-----------------------------------------------------------------------------
(* startFactories (lines 137-147) on the unstarted factories fs: unless   *)
(* the controller is started they stay unstarted; otherwise each is started *)
(* with the given stop channel and the list is cleared.                    *)
StartFactories(h, started, fs, ctx) ==
    IF started
    THEN /\ factoryStop' = [factoryStop EXCEPT ![h] =
                [f \in Factories |-> IF f \in fs THEN ctx ELSE @[f]]]
         /\ unstarted' = [unstarted EXCEPT ![h] = {}]
    ELSE /\ unstarted' = [unstarted EXCEPT ![h] = fs]
         /\ UNCHANGED factoryStop

(* NewManagedDhController for observer o, on its successful path: the     *)
(* channel watch is registered with obsContext and its cancel recorded,   *)
(* manageDhNamespace appends the three factories and registers the four   *)
(* informer watches, then calls startFactories(obsContext.Done()), which  *)
(* returns at once since the controller is not started.  A failed          *)
(* construction leaves no state behind (its obsContext is cancelled and   *)
(* the unstarted factories are dropped) and is modelled by the caller.     *)
New(h, o) ==
    /\ hs[h] = "unused"
    /\ hs' = [hs EXCEPT ![h] = "built"]
    /\ owner' = [owner EXCEPT ![h] = o]
    /\ chanOpen' = [chanOpen EXCEPT ![h] = TRUE]
    /\ cancels' = [cancels EXCEPT ![h] = {"obs"}]
    /\ StartFactories(h, isStarted[h], Factories, "obs")
    /\ UNCHANGED <<isStarted, cancelled, ctl, queue, wk, wkKey>>

(* Mutants of Start: the factories started on the caller's ctx argument  *)
(* instead of ctx_, and ctx_'s cancel not appended to dhController.cancels. *)
StartParentCtx(h) ==
    /\ hs[h] = "built"
    /\ ctl[h] = "idle"
    /\ ctl' = [ctl EXCEPT ![h] = "launched"]
    /\ isStarted' = [isStarted EXCEPT ![h] = TRUE]
    /\ StartFactories(h, TRUE, unstarted[h], "parent")
    /\ cancels' = [cancels EXCEPT ![h] = @ \cup {"run"}]
    /\ UNCHANGED <<hs, owner, cancelled, chanOpen, queue, wk, wkKey>>

StartNoCancel(h) ==
    /\ hs[h] = "built"
    /\ ctl[h] = "idle"
    /\ ctl' = [ctl EXCEPT ![h] = "launched"]
    /\ isStarted' = [isStarted EXCEPT ![h] = TRUE]
    /\ StartFactories(h, TRUE, unstarted[h], "run")
    /\ UNCHANGED <<hs, owner, cancelled, chanOpen, queue, wk, wkKey, cancels>>

(* dhController.Start (lines 224-236): launch Controller.Start in a        *)
(* goroutine, mark the controller started, start the factories with       *)
(* ctx_.Done() and record ctx_'s cancel.  The ctx argument is ignored.    *)
(* A repeated Start only launches a Controller.Start that fails with       *)
(* "started more than once" and appends a cancel nothing listens to: it   *)
(* changes no modelled state, so Start is enabled once.                    *)
Start(h) ==
    /\ hs[h] = "built"
    /\ ctl[h] = "idle"
    /\ ctl' = [ctl EXCEPT ![h] = "launched"]
    /\ isStarted' = [isStarted EXCEPT ![h] = TRUE]
    /\ StartFactories(h, TRUE, unstarted[h], "run")
    /\ cancels' = [cancels EXCEPT ![h] = @ \cup {"run"}]
    /\ UNCHANGED <<hs, owner, cancelled, chanOpen, queue, wk, wkKey>>

(* ReconcileObs (lines 149-151), first half: the send on the unbuffered    *)
(* channel.  On a closed channel it panics; otherwise the caller blocks    *)
(* until the channel source receives.                                      *)
SendBegin(p, h) ==
    /\ blockedOn[p] = None
    /\ hs[h] = "built"
    /\ IF chanOpen[h]
       THEN /\ blockedOn' = [blockedOn EXCEPT ![p] = h]
            /\ UNCHANGED panic
       ELSE /\ panic' = "send"
            /\ UNCHANGED blockedOn
    /\ UNCHANGED <<ctlVars, exists>>

(* ReconcileObs, second half: the channel source receives the event and    *)
(* EnqueueRequestForObject adds the observer's key to the queue.           *)
SendDone(p) ==
    LET h == blockedOn[p] IN
    /\ h # None
    /\ ReaderActive(h)
    /\ blockedOn' = [blockedOn EXCEPT ![p] = None]
    /\ Enqueue(h, {"obs"})
    /\ UNCHANGED <<hs, owner, isStarted, unstarted, factoryStop, cancels,
                   cancelled, chanOpen, ctl, wk, wkKey, exists, panic>>

(* Mutant of Stop: only the constructor's cancel is called.               *)
StopOnlyObs(h) ==
    /\ hs[h] = "built"
    /\ IF chanOpen[h]
       THEN /\ chanOpen' = [chanOpen EXCEPT ![h] = FALSE]
            /\ cancelled' = [cancelled EXCEPT ![h] = @ \cup {"obs"}]
            /\ panic' = IF \E p \in Callers : blockedOn[p] = h
                         THEN "send" ELSE "none"
       ELSE /\ panic' = "close"
            /\ UNCHANGED <<chanOpen, cancelled>>
    /\ UNCHANGED <<hs, owner, isStarted, unstarted, factoryStop, cancels, ctl,
                   queue, wk, wkKey, blockedOn, exists>>

(* dhController.Stop (lines 238-243): close the channel, then call every   *)
(* recorded cancel.  Closing a closed channel panics; closing a channel a  *)
(* sender is blocked on makes that sender panic.                           *)
Stop(h) ==
    /\ hs[h] = "built"
    /\ IF chanOpen[h]
       THEN /\ chanOpen' = [chanOpen EXCEPT ![h] = FALSE]
            /\ cancelled' = [cancelled EXCEPT ![h] = @ \cup cancels[h]]
            /\ panic' = IF \E p \in Callers : blockedOn[p] = h
                         THEN "send" ELSE "none"
       ELSE /\ panic' = "close"
            /\ UNCHANGED <<chanOpen, cancelled>>
    /\ UNCHANGED <<hs, owner, isStarted, unstarted, factoryStop, cancels, ctl,
                   queue, wk, wkKey, blockedOn, exists>>

-----------------------------------------------------------------------------
(* The Controller.Start goroutine makes the queue and starts the event     *)
(* sources: the channel source begins reading and the informer handlers    *)
(* are registered, each replaying the objects its informer has listed (a   *)
(* subset of the running sources, since the predicates may filter them).   *)
CtlRun(h) ==
    /\ ctl[h] = "launched"
    /\ ctl' = [ctl EXCEPT ![h] = "running"]
    /\ \E R \in SUBSET {"object"} :
          /\ R # {} => \E f \in Factories : InformerRunning(h, f)
          /\ Enqueue(h, R)
    /\ UNCHANGED <<hs, owner, isStarted, unstarted, factoryStop, cancels,
                   cancelled, chanOpen, wk, wkKey>>

(* After ctx_ is cancelled the worker drains the queue and Controller.Start *)
(* returns.                                                                *)
CtlExit(h) ==
    /\ ctl[h] = "running"
    /\ QueueShut(h)
    /\ queue[h] = {}
    /\ wk[h] = "idle"
    /\ ctl' = [ctl EXCEPT ![h] = "done"]
    /\ UNCHANGED <<hs, owner, isStarted, unstarted, factoryStop, cancels,
                   cancelled, chanOpen, queue, wk, wkKey>>

(* A running informer observes a change of one of its objects that passes  *)
(* its predicate (label selector for services, name for the CA secret).    *)
InformerEvent(h, s) ==
    /\ ctl[h] = "running"
    /\ InformerRunning(h, FactoryOf[s])
    /\ ~QueueShut(h)
    /\ "object" \notin queue[h]
    /\ Enqueue(h, {"object"})
    /\ UNCHANGED <<hs, owner, isStarted, unstarted, factoryStop, cancels,
                   cancelled, chanOpen, ctl, wk, wkKey>>

(* managedDhReconciler.Reconcile (lines 257-270), first half: the worker   *)
(* takes a key and reads the observer named by nmName from the cache.  A   *)
(* read error other than NotFound returns the error and the key is         *)
(* requeued; on NotFound the reconcile carries on with an empty observer.  *)
WorkerGet(h) ==
    /\ ctl[h] = "running"
    /\ wk[h] = "idle"
    /\ \E k \in queue[h] :
         \/ /\ wk' = [wk EXCEPT ![h] =
                        IF exists[owner[h]] THEN "found" ELSE "notfound"]
            /\ wkKey' = [wkKey EXCEPT ![h] = k]
            /\ queue' = [queue EXCEPT ![h] = @ \ {k}]
         \/ /\ queue' = [queue EXCEPT ![h] = IF QueueShut(h) THEN @ \ {k} ELSE @]
            /\ UNCHANGED <<wk, wkKey>>
    /\ UNCHANGED <<hs, owner, isStarted, unstarted, factoryStop, cancels,
                   cancelled, chanOpen, ctl>>

(* Reconcile, second half: manageVsystemRoute with the worker's context,   *)
(* derived from ctx_.  Once ctx_ is cancelled its API calls fail and the   *)
(* requeue is dropped by the shut-down queue; otherwise it either writes   *)
(* the route (effect) or fails and the key is requeued.                    *)
WorkerApply(h) ==
    /\ wk[h] \in {"found", "notfound"}
    /\ wk' = [wk EXCEPT ![h] = "idle"]
    /\ wkKey' = [wkKey EXCEPT ![h] = None]
    /\ \/ /\ "run" \notin cancelled[h]
          /\ effect' = h
          /\ UNCHANGED queue
       \/ /\ effect' = None
          /\ Enqueue(h, {wkKey[h]})
    /\ UNCHANGED <<hs, owner, isStarted, unstarted, factoryStop, cancels,
                   cancelled, chanOpen, ctl, blockedOn, exists, panic>>

(* The cluster: an SdiObserver is created or deleted by its user.          *)
ObserverChange(o) ==
    /\ exists' = [exists EXCEPT ![o] = ~@]
    /\ UNCHANGED <<ctlVars, blockedOn, panic>>

-----------------------------------------------------------------------------
(* The steps of the controller's own goroutines.                           *)
ControllerStep ==
    \E h \in Handles :
        \/ CtlRun(h) \/ CtlExit(h) \/ WorkerGet(h)
        \/ \E s \in Sources : InformerEvent(h, s)

(* Every step other than WorkerApply writes nothing to the route API.      *)
Quiet(A) == A /\ effect' = None /\ UNCHANGED <<blockedOn, exists, panic>>

(* Free callers: any method of any built controller, at any time.          *)
Next ==
    /\ panic = "none"
    /\ \/ \E h \in Handles, o \in Observers :
             Quiet(New(h, o)) \/ Quiet(Start(h))
       \/ \E h \in Handles : Stop(h) /\ effect' = None
       \/ \E p \in Callers, h \in Handles : SendBegin(p, h) /\ effect' = None
       \/ \E p \in Callers : SendDone(p) /\ effect' = None
       \/ Quiet(ControllerStep)
       \/ \E h \in Handles : WorkerApply(h)
       \/ \E o \in Observers : ObserverChange(o) /\ effect' = None

Spec == Init /\ [][Next]_vars

-----------------------------------------------------------------------------
TypeOK ==
    /\ hs \in [Handles -> {"unused", "built"}]
    /\ owner \in [Handles -> Observers \cup {None}]
    /\ isStarted \in [Handles -> BOOLEAN]
    /\ unstarted \in [Handles -> SUBSET Factories]
    /\ factoryStop \in [Handles -> [Factories -> Contexts \cup {"none"}]]
    /\ cancels \in [Handles -> SUBSET Contexts]
    /\ cancelled \in [Handles -> SUBSET Contexts]
    /\ chanOpen \in [Handles -> BOOLEAN]
    /\ ctl \in [Handles -> CtlPhases]
    /\ queue \in [Handles -> SUBSET Keys]
    /\ wk \in [Handles -> {"idle", "found", "notfound"}]
    /\ wkKey \in [Handles -> Keys \cup {None}]
    /\ blockedOn \in [Callers -> Handles \cup {None}]
    /\ exists \in [Observers -> BOOLEAN]
    /\ panic \in {"none", "close", "send", "die"}
    /\ effect \in Handles \cup {None}

-----------------------------------------------------------------------------
(* Every started informer factory runs on a stop channel whose cancel      *)
(* function is recorded in dhController.cancels, so that Stop can end it:  *)
(* startFactories is only reached with obsContext (whose cancel New        *)
(* records) or with ctx_ (whose cancel Start records in the same call).    *)
NoLeakedInformer ==
    \A h \in Handles, f \in Factories :
        factoryStop[h][f] # "none" => factoryStop[h][f] \in cancels[h]

(* spec.md 4.1: stop is idempotent and must not panic when called twice.   *)
(* Stop closes chanReconcileObs unconditionally.                           *)
StopIsIdempotent == panic # "close"

(* The comment in startFactories (lines 139-140): the factories are        *)
(* started only once the controller and its queue are prepared, so that    *)
(* the informers' initial listing reaches the queue.                       *)
FactoriesStartAfterQueue ==
    \A h \in Handles, f \in Factories :
        factoryStop[h][f] # "none" => ctl[h] \in {"running", "done"}

(* spec.md 4.2 and 7(a): a reconcile that finds its SdiObserver gone       *)
(* treats NotFound as a terminal non-error and makes no further API call.  *)
NotFoundIsSwallowed ==
    [][\A h \in Handles : wk[h] = "notfound" => effect' # h]_vars

=============================================================================
