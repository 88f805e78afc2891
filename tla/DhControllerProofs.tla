------------------------- MODULE DhControllerProofs -------------------------
(***************************************************************************)
(* Proofs about DhController for every value of its constants: the type    *)
(* invariant, and that every started informer factory runs on a stop       *)
(* channel whose cancel Stop calls (NoLeakedInformer).                     *)
(***************************************************************************)
EXTENDS DhController, TLAPS

(* The worker holds a key whenever it is inside a reconcile.               *)
WorkerHoldsKey == \A h \in Handles : wk[h] # "idle" => wkKey[h] \in Keys

TInv == TypeOK /\ WorkerHoldsKey

(* A handle NewManagedDhController has not returned is pristine: not       *)
(* started and none of its factories started.                              *)
Pristine ==
    \A h \in Handles :
        hs[h] = "unused" =>
            /\ ~isStarted[h]
            /\ \A f \in Factories : factoryStop[h][f] = "none"

IInv == TInv /\ Pristine /\ NoLeakedInformer

-----------------------------------------------------------------------------
(* The finite sets of names the model is built from.                       *)
USE DEF Factories, Sources, Keys, Contexts, CtlPhases

LEMMA InitTInv == Init => TInv
BY DEF Init, TInv, TypeOK, WorkerHoldsKey

(* startFactories keeps factoryStop and unstarted in their types.        *)
LEMMA StartFactoriesType ==
    ASSUME TypeOK, NEW h \in Handles, NEW started \in BOOLEAN,
           NEW fs \in SUBSET Factories, NEW ctx \in Contexts,
           StartFactories(h, started, fs, ctx)
    PROVE  /\ factoryStop' \in [Handles -> [Factories -> Contexts \cup {"none"}]]
           /\ unstarted' \in [Handles -> SUBSET Factories]
<1>1. CASE started
  <2>1. factoryStop' = [factoryStop EXCEPT ![h] =
           [f \in Factories |-> IF f \in fs THEN ctx ELSE factoryStop[h][f]]]
    BY <1>1 DEF StartFactories
  <2>2. [f \in Factories |-> IF f \in fs THEN ctx ELSE factoryStop[h][f]]
          \in [Factories -> Contexts \cup {"none"}]
    BY DEF TypeOK
  <2>3. unstarted' = [unstarted EXCEPT ![h] = {}]
    BY <1>1 DEF StartFactories
  <2>4. QED BY <2>1, <2>2, <2>3 DEF TypeOK
<1>2. CASE ~started
  <2>1. unstarted' = [unstarted EXCEPT ![h] = fs] /\ UNCHANGED factoryStop
    BY <1>2 DEF StartFactories
  <2>2. QED BY <2>1 DEF TypeOK
<1>3. QED BY <1>1, <1>2

(* One lemma per action: it preserves the type and WorkerHoldsKey.         *)
LEMMA NewTInv ==
    ASSUME TypeOK, WorkerHoldsKey, NEW h \in Handles, NEW o \in Observers,
           Quiet(New(h, o))
    PROVE  TypeOK' /\ WorkerHoldsKey'
<1>1. StartFactories(h, isStarted[h], Factories, "obs")
  BY DEF New, Quiet
<1>2. isStarted[h] \in BOOLEAN
  BY DEF TypeOK
<1>3. /\ factoryStop' \in [Handles -> [Factories -> Contexts \cup {"none"}]]
      /\ unstarted' \in [Handles -> SUBSET Factories]
  <2>1. CASE isStarted[h]
    <3>1. StartFactories(h, TRUE, Factories, "obs")
      BY <1>1, <1>2, <2>1 DEF StartFactories
    <3>2. QED BY <3>1, StartFactoriesType DEF TypeOK
  <2>2. CASE ~isStarted[h]
    <3>1. StartFactories(h, FALSE, Factories, "obs")
      BY <1>1, <1>2, <2>2 DEF StartFactories
    <3>2. QED BY <3>1, StartFactoriesType DEF TypeOK
  <2>3. QED BY <1>2, <2>1, <2>2
<1>4. QED BY <1>3 DEF New, TypeOK, WorkerHoldsKey, Quiet

LEMMA StartTInv ==
    ASSUME TypeOK, WorkerHoldsKey, NEW h \in Handles, Quiet(Start(h))
    PROVE  TypeOK' /\ WorkerHoldsKey'
<1>1. StartFactories(h, TRUE, unstarted[h], "run")
  BY DEF Start, Quiet
<1>2. /\ factoryStop' \in [Handles -> [Factories -> Contexts \cup {"none"}]]
      /\ unstarted' \in [Handles -> SUBSET Factories]
  BY <1>1, StartFactoriesType DEF TypeOK
<1>3. QED BY <1>2 DEF Start, TypeOK, WorkerHoldsKey, Quiet

LEMMA StopTInv ==
    ASSUME TypeOK, WorkerHoldsKey, NEW h \in Handles, Stop(h), effect' = None
    PROVE  TypeOK' /\ WorkerHoldsKey'
<1>1. cancelled' \in [Handles -> SUBSET Contexts]
  <2>1. CASE chanOpen[h]
    <3>1. cancelled' = [cancelled EXCEPT ![h] = @ \cup cancels[h]]
      BY <2>1 DEF Stop
    <3>2. cancelled[h] \cup cancels[h] \in SUBSET Contexts
      BY DEF TypeOK
    <3>3. QED BY <3>1, <3>2 DEF TypeOK
  <2>2. CASE ~chanOpen[h]
    BY <2>2 DEF Stop, TypeOK
  <2>3. QED BY <2>1, <2>2
<1>2. chanOpen' \in [Handles -> BOOLEAN]
  <2>1. CASE chanOpen[h]
    <3>1. chanOpen' = [chanOpen EXCEPT ![h] = FALSE]
      BY <2>1 DEF Stop
    <3>2. QED BY <3>1 DEF TypeOK
  <2>2. CASE ~chanOpen[h]
    <3>1. chanOpen' = chanOpen BY <2>2 DEF Stop, TypeOK
    <3>2. QED BY <3>1 DEF TypeOK
  <2>3. QED BY <2>1, <2>2 DEF TypeOK
<1>3. panic' \in {"none", "close", "send", "die"}
  BY DEF Stop
<1>4. QED BY <1>1, <1>2, <1>3 DEF Stop, TypeOK, WorkerHoldsKey

LEMMA SendBeginTInv ==
    ASSUME TypeOK, WorkerHoldsKey, NEW p \in Callers, NEW h \in Handles,
           SendBegin(p, h), effect' = None
    PROVE  TypeOK' /\ WorkerHoldsKey'
<1>1. UNCHANGED ctlVars BY DEF SendBegin
<1>2. chanOpen[h] \in BOOLEAN BY DEF TypeOK
<1>3. /\ blockedOn' \in [Callers -> Handles \cup {None}]
      /\ panic' \in {"none", "close", "send", "die"}
  <2>1. CASE chanOpen[h]
    <3>1. blockedOn' = [blockedOn EXCEPT ![p] = h] /\ panic' = panic
      BY <2>1 DEF SendBegin
    <3>2. QED BY <3>1 DEF TypeOK
  <2>2. CASE ~chanOpen[h]
    <3>1. panic' = "send" /\ blockedOn' = blockedOn
      BY <2>2 DEF SendBegin
    <3>2. QED BY <3>1 DEF TypeOK
  <2>3. QED BY <1>2, <2>1, <2>2
<1>4. QED BY <1>1, <1>3 DEF SendBegin, ctlVars, TypeOK, WorkerHoldsKey

LEMMA SendDoneTInv ==
    ASSUME TypeOK, WorkerHoldsKey, NEW p \in Callers, SendDone(p),
           effect' = None
    PROVE  TypeOK' /\ WorkerHoldsKey'
BY DEF SendDone, Enqueue, QueueShut, TypeOK, WorkerHoldsKey

LEMMA CtlRunTInv ==
    ASSUME TypeOK, WorkerHoldsKey, NEW h \in Handles, Quiet(CtlRun(h))
    PROVE  TypeOK' /\ WorkerHoldsKey'
<1>1. PICK R \in SUBSET {"object"} : CtlRun(h)!3!(R) BY DEF CtlRun, Quiet
<1>2. queue' \in [Handles -> SUBSET Keys]
  BY <1>1 DEF Enqueue, QueueShut, TypeOK
<1>3. QED BY <1>2 DEF CtlRun, TypeOK, WorkerHoldsKey, Quiet

LEMMA CtlExitTInv ==
    ASSUME TypeOK, WorkerHoldsKey, NEW h \in Handles, Quiet(CtlExit(h))
    PROVE  TypeOK' /\ WorkerHoldsKey'
BY DEF CtlExit, TypeOK, WorkerHoldsKey, Quiet

LEMMA InformerEventTInv ==
    ASSUME TypeOK, WorkerHoldsKey, NEW h \in Handles, NEW s \in Sources,
           Quiet(InformerEvent(h, s))
    PROVE  TypeOK' /\ WorkerHoldsKey'
BY DEF InformerEvent, Enqueue, QueueShut, TypeOK, WorkerHoldsKey, Quiet

LEMMA WorkerGetTInv ==
    ASSUME TypeOK, WorkerHoldsKey, NEW h \in Handles, Quiet(WorkerGet(h))
    PROVE  TypeOK' /\ WorkerHoldsKey'
<1>1. PICK k \in queue[h] : WorkerGet(h)!3!(k) BY DEF WorkerGet, Quiet
<1>0. /\ k \in Keys
      /\ UNCHANGED <<hs, owner, isStarted, unstarted, factoryStop, cancels,
                     cancelled, chanOpen, ctl, blockedOn, exists, panic>>
      /\ effect' = None
  BY DEF WorkerGet, Quiet, TypeOK
<1>2. CASE WorkerGet(h)!3!(k)!1
  <2>1. /\ wk' = [wk EXCEPT ![h] = IF exists[owner[h]] THEN "found"
                                                      ELSE "notfound"]
        /\ wkKey' = [wkKey EXCEPT ![h] = k]
        /\ queue' = [queue EXCEPT ![h] = @ \ {k}]
    BY <1>2
  <2>2. /\ wk' \in [Handles -> {"idle", "found", "notfound"}]
        /\ wkKey' \in [Handles -> Keys \cup {None}]
        /\ queue' \in [Handles -> SUBSET Keys]
    BY <1>0, <2>1 DEF TypeOK
  <2>3. WorkerHoldsKey'
    BY <1>0, <2>1 DEF TypeOK, WorkerHoldsKey
  <2>4. QED BY <1>0, <2>2, <2>3 DEF TypeOK
<1>3. CASE WorkerGet(h)!3!(k)!2
  BY <1>3 DEF WorkerGet, QueueShut, TypeOK, WorkerHoldsKey, Quiet
<1>4. QED BY <1>1, <1>2, <1>3

LEMMA WorkerApplyTInv ==
    ASSUME TypeOK, WorkerHoldsKey, NEW h \in Handles, WorkerApply(h)
    PROVE  TypeOK' /\ WorkerHoldsKey'
<1>1. /\ wk' = [wk EXCEPT ![h] = "idle"]
      /\ wkKey' = [wkKey EXCEPT ![h] = None]
      /\ UNCHANGED <<hs, owner, isStarted, unstarted, factoryStop, cancels,
                     cancelled, chanOpen, ctl, blockedOn, exists, panic>>
  BY DEF WorkerApply
<1>2. wkKey[h] \in Keys
  BY DEF WorkerApply, WorkerHoldsKey, TypeOK
<1>3. effect' \in Handles \cup {None} /\ queue' \in [Handles -> SUBSET Keys]
  <2>1. CASE effect' = h /\ UNCHANGED queue
    BY <2>1 DEF TypeOK
  <2>2. CASE effect' = None /\ Enqueue(h, {wkKey[h]})
    BY <1>2, <2>2 DEF Enqueue, TypeOK
  <2>3. QED BY <2>1, <2>2 DEF WorkerApply
<1>4. wk' \in [Handles -> {"idle", "found", "notfound"}]
      /\ wkKey' \in [Handles -> Keys \cup {None}]
  BY <1>1 DEF TypeOK
<1>5. WorkerHoldsKey'
  BY <1>1 DEF WorkerHoldsKey, TypeOK
<1>6. QED BY <1>1, <1>3, <1>4, <1>5 DEF TypeOK

LEMMA ObserverChangeTInv ==
    ASSUME TypeOK, WorkerHoldsKey, NEW o \in Observers, ObserverChange(o),
           effect' = None
    PROVE  TypeOK' /\ WorkerHoldsKey'
BY DEF ObserverChange, ctlVars, TypeOK, WorkerHoldsKey

LEMMA NextTInv == TInv /\ [Next]_vars => TInv'
<1> SUFFICES ASSUME TypeOK, WorkerHoldsKey, [Next]_vars
             PROVE  TypeOK' /\ WorkerHoldsKey'
  BY DEF TInv
<1>1. CASE UNCHANGED vars
  BY <1>1 DEF vars, ctlVars, TypeOK, WorkerHoldsKey
<1>2. CASE Quiet(ControllerStep)
  <2>1. PICK h \in Handles :
          \/ Quiet(CtlRun(h)) \/ Quiet(CtlExit(h)) \/ Quiet(WorkerGet(h))
          \/ \E s \in Sources : Quiet(InformerEvent(h, s))
    BY <1>2 DEF ControllerStep, Quiet
  <2>2. QED
    BY <2>1, CtlRunTInv, CtlExitTInv, WorkerGetTInv, InformerEventTInv
<1>3. CASE \E h \in Handles, o \in Observers :
             Quiet(New(h, o)) \/ Quiet(Start(h))
  <2>1. PICK h \in Handles, o \in Observers :
          Quiet(New(h, o)) \/ Quiet(Start(h))
    BY <1>3
  <2>2. QED BY <2>1, NewTInv, StartTInv
<1>4. CASE \E h \in Handles : Stop(h) /\ effect' = None
  BY <1>4, StopTInv
<1>5. CASE \E p \in Callers, h \in Handles : SendBegin(p, h) /\ effect' = None
  BY <1>5, SendBeginTInv
<1>6. CASE \E p \in Callers : SendDone(p) /\ effect' = None
  BY <1>6, SendDoneTInv
<1>7. CASE \E h \in Handles : WorkerApply(h)
  BY <1>7, WorkerApplyTInv
<1>8. CASE \E o \in Observers : ObserverChange(o) /\ effect' = None
  BY <1>8, ObserverChangeTInv
<1>9. QED BY <1>1, <1>2, <1>3, <1>4, <1>5, <1>6, <1>7, <1>8 DEF Next

(* The type invariant of the controller: every variable of dhController   *)
(* and of its goroutines keeps its type along every interleaving.          *)
THEOREM TypeCorrect == Spec => []TypeOK
<1>1. Init => TInv BY InitTInv
<1>2. TInv /\ [Next]_vars => TInv' BY NextTInv
<1>3. QED BY <1>1, <1>2, PTL DEF Spec, TInv

-----------------------------------------------------------------------------
(* NoLeakedInformer.  Only New and Start write factoryStop or cancels; all *)
(* the other actions leave hs, isStarted, factoryStop and cancels alone.   *)
LEMMA InitIInv == Init => Pristine /\ NoLeakedInformer
BY DEF Init, Pristine, NoLeakedInformer

LEMMA NewIInv ==
    ASSUME TypeOK, Pristine, NoLeakedInformer,
           NEW h \in Handles, NEW o \in Observers, Quiet(New(h, o))
    PROVE  Pristine' /\ NoLeakedInformer'
<1>1. ~isStarted[h] /\ \A f \in Factories : factoryStop[h][f] = "none"
  BY DEF New, Quiet, Pristine
<1>2. factoryStop' = factoryStop
  BY <1>1 DEF New, StartFactories, Quiet
<1>3. /\ hs' = [hs EXCEPT ![h] = "built"]
      /\ isStarted' = isStarted
      /\ cancels' = [cancels EXCEPT ![h] = {"obs"}]
  BY DEF New, Quiet
<1>4. Pristine'
  BY <1>2, <1>3 DEF Pristine, TypeOK
<1>5. NoLeakedInformer'
  <2>1. SUFFICES ASSUME NEW g \in Handles, NEW f \in Factories,
                        factoryStop'[g][f] # "none"
                 PROVE  factoryStop'[g][f] \in cancels'[g]
    BY DEF NoLeakedInformer
  <2>2. g # h BY <1>1, <1>2, <2>1
  <2>3. cancels'[g] = cancels[g] BY <1>3, <2>2 DEF TypeOK
  <2>4. QED BY <1>2, <2>1, <2>3 DEF NoLeakedInformer
<1>6. QED BY <1>4, <1>5

LEMMA StartIInv ==
    ASSUME TypeOK, Pristine, NoLeakedInformer,
           NEW h \in Handles, Quiet(Start(h))
    PROVE  Pristine' /\ NoLeakedInformer'
<1>1. factoryStop' = [factoryStop EXCEPT ![h] =
          [f \in Factories |-> IF f \in unstarted[h] THEN "run"
                                                    ELSE factoryStop[h][f]]]
  BY DEF Start, StartFactories, Quiet
<1>2. cancels' = [cancels EXCEPT ![h] = @ \cup {"run"}]
  BY DEF Start, Quiet
<1>3. Pristine'
  <2>1. /\ hs' = hs /\ hs[h] = "built"
        /\ isStarted' = [isStarted EXCEPT ![h] = TRUE]
    BY DEF Start, Quiet
  <2>2. SUFFICES ASSUME NEW g \in Handles, hs'[g] = "unused"
                 PROVE  /\ ~isStarted'[g]
                        /\ \A f \in Factories : factoryStop'[g][f] = "none"
    BY DEF Pristine
  <2>3. g # h BY <2>1, <2>2
  <2>4. isStarted'[g] = isStarted[g] /\ factoryStop'[g] = factoryStop[g]
    BY <1>1, <2>1, <2>3 DEF TypeOK
  <2>5. QED BY <2>1, <2>2, <2>4 DEF Pristine
<1>4. NoLeakedInformer'
  <2>1. SUFFICES ASSUME NEW g \in Handles, NEW f \in Factories,
                        factoryStop'[g][f] # "none"
                 PROVE  factoryStop'[g][f] \in cancels'[g]
    BY DEF NoLeakedInformer
  <2>2. CASE g = h
    <3>1. factoryStop'[h][f] = IF f \in unstarted[h] THEN "run"
                                                    ELSE factoryStop[h][f]
      BY <1>1 DEF TypeOK
    <3>2. cancels'[h] = cancels[h] \cup {"run"}
      BY <1>2 DEF TypeOK
    <3>3. QED BY <2>1, <2>2, <3>1, <3>2 DEF NoLeakedInformer
  <2>3. CASE g # h
    <3>1. factoryStop'[g] = factoryStop[g] /\ cancels'[g] = cancels[g]
      BY <1>1, <1>2, <2>3 DEF TypeOK
    <3>2. QED BY <2>1, <3>1 DEF NoLeakedInformer
  <2>4. QED BY <2>2, <2>3
<1>5. QED BY <1>3, <1>4

(* Every other step leaves the four variables the two invariants read.     *)
LEMMA OtherIInv ==
    ASSUME Pristine, NoLeakedInformer,
           UNCHANGED <<hs, isStarted, factoryStop, cancels>>
    PROVE  Pristine' /\ NoLeakedInformer'
BY DEF Pristine, NoLeakedInformer

LEMMA NextIInv == IInv /\ [Next]_vars => IInv'
<1> SUFFICES ASSUME TypeOK, WorkerHoldsKey, Pristine, NoLeakedInformer,
                    [Next]_vars
             PROVE  IInv'
  BY DEF IInv, TInv
<1>1. TInv' BY NextTInv DEF TInv
<1>2. Pristine' /\ NoLeakedInformer'
  <2>1. CASE \E h \in Handles, o \in Observers : Quiet(New(h, o))
    BY <2>1, NewIInv
  <2>2. CASE \E h \in Handles : Quiet(Start(h))
    BY <2>2, StartIInv
  <2>3. CASE ~(\E h \in Handles, o \in Observers : Quiet(New(h, o)))
             /\ ~(\E h \in Handles : Quiet(Start(h)))
    <3>1. UNCHANGED <<hs, isStarted, factoryStop, cancels>>
      BY <2>3 DEF Next, vars, ctlVars, Stop, SendBegin, SendDone, Quiet,
                  ControllerStep, CtlRun, CtlExit, WorkerGet, InformerEvent,
                  WorkerApply, ObserverChange
    <3>2. QED BY <3>1, OtherIInv
  <2>4. QED BY <2>1, <2>2, <2>3
<1>3. QED BY <1>1, <1>2 DEF IInv

(* Stop cannot leak an informer: every informer factory the controller    *)
(* has started, in NewManagedDhController or in Start, runs on the Done   *)
(* channel of a context whose cancel function is in dhController.cancels. *)
THEOREM NoLeak == Spec => []NoLeakedInformer
<1>1. Init => IInv BY InitTInv, InitIInv DEF IInv
<1>2. IInv /\ [Next]_vars => IInv' BY NextIInv
<1>3. QED BY <1>1, <1>2, PTL DEF Spec, IInv
=============================================================================
