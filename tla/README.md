# TLA+ verification of the SAP Data Intelligence observer operator

This directory holds TLA+ models of the code under `src/`, the TLC configurations that
model-check them on small instances, and TLAPS proofs of their main invariants.

## The system

The repository's `src/` has three pieces of code:

| Source | What it is |
| --- | --- |
| `src/operator/controllers/managed-dh/controller.go` lines 1-270 | `dhController`, the sub-controller the SdiObserver reconciler creates at run time for each DataHub namespace |
| same file, lines 245-250 and 271-385 | RBAC markers, the kubebuilder `PROJECT` file and the generated ClusterRole |
| `src/operator/config/crd/bases/di.sap-cop.redhat.com_sdiobservers.yaml` lines 1-375 | the SdiObserver CRD schema |
| same file, lines 376-511 | the operator's `main.go`: flags, cache choice, manager wiring |
| `src/observer/run-observer-template.sh` | the installer that processes and applies the OpenShift template of the legacy observer |

`spec.md` describes the hard part: a parent reconciler watches SdiObserver resources. For each
target namespace it creates a sub-controller at run time (`NewManagedDhController`), starts it
(`Start`), forwards every change of the SdiObserver to it (`ReconcileObs`, a send on an
unbuffered channel) and stops it when the SdiObserver is deleted (`Stop`). A process-wide
registry maps namespaces to running sub-controllers under a mutex. The parent reconciler and
the registry are **not** under `src/`. They are modelled from spec.md sections 4.1, 4.4 and 5,
and their map entries are marked `spec_modelled`.

How one sub-controller works (controller.go):

* `NewManagedDhController` (81-135) builds an unmanaged controller-runtime controller. It adds
  a `source.Channel` watch on `chanReconcileObs`, stopped by `obsContext`, and then calls
  `manageDhNamespace` (153-222). That call creates three informer factories (dynamic for
  DataHub, core for services and secrets, routes), adds four informer watches, and calls
  `startFactories(obsContext.Done())`. Because `isStarted` is still false, that call only
  records the factories.
* `Start` (224-236) launches `Controller.Start(ctx_)` in a goroutine on a fresh
  `context.Background()` and ignores its own `ctx`. It then sets `isStarted`, starts the
  recorded factories with `ctx_.Done()` and appends `ctx_`'s cancel.
* `Stop` (238-243) closes `chanReconcileObs` without a guard and calls every recorded cancel.
* `Reconcile` (257-270) reads the SdiObserver. On an error other than NotFound it returns it
  (requeue). Otherwise, NotFound included, it calls `manageVsystemRoute`.

## Modules

| Module | Models | State ↔ code |
| --- | --- | --- |
| `DhController` | controller.go 58-270 | `hs`, `owner` (a constructed controller and its `nmName`), `isStarted`, `unstarted` (`unstartedFactories`), `factoryStop` (the context each factory was started on), `cancels`, `cancelled`, `chanOpen`, `ctl` (the `Controller.Start` goroutine: idle → launched → running → done), `queue`, `wk`/`wkKey` (the single worker), `blockedOn` (a goroutine blocked in `ReconcileObs`), `exists` (the SdiObserver in the informer cache), `panic`, `effect` (a reconcile reaching the route API in this step) |
| `ObserverRegistry` | parent reconciler and registry (spec), client construction (controller.go 153-162) | `registry`, `lock` (the registry mutex), `pc`/`cur` per SdiObserver reconcile worker, `restCfg` (the manager's rest.Config); actions Fetch, EnsureNew/EnsureFailed/EnsureStart, Notify/NotifyDone, RegistryStop; it composes DhController's actions |
| `AbstractRegistry` | what the registry promises (spec.md 4.1) | `slot` (the controller of each namespace), `life` (unused, running, stopped); atomic `Create` and `Remove`; the theorem `AbstractOnePerNamespace` |
| `RegistryRefinement` | the refinement mapping | `SlotOf`, `LifeOf`, `AR == INSTANCE AbstractRegistry WITH ...`, the inductive invariant `RefInv` |
| `RegistryRefinementProofs` | proofs | that ObserverRegistry implements AbstractRegistry and keeps `RegistryAccurate` |
| `DhRbac` | controller.go 245-250 and 290-385 | the markers and the ClusterRole as sets of rules; `InFlight(h)`, the API requests controller h makes in the current state |
| `ObserverTemplate` | run-observer-template.sh 1-274 | one sequential process (`pc`) with the user's configuration (`user`, `sh`), the cluster's answers (`ocServer`, `ocClient`, `defaultSc`, `localTemplate`), and `envVars`, `template`, `sourceLocation`, `fileArg`, `args` |
| `OperatorMain` | main.go (yaml file lines 441-511) | `phase`, the three namespace flags, `mgrCache`, `exitCode` |
| `DhControllerProofs` | proofs | TLAPS proofs of `TypeOK` and `NoLeakedInformer` for DhController |
| `RegistrySafetyProofs` | proofs | `NoPanic` and `StoppedIsQuiescent` for the registry composed with its controllers (and `RTypeOK`, the typing they rest on) |
| `DhRbacProofs` | proofs | `RequestsAuthorized`: every request any controller may issue is allowed by the ClusterRole |
| `ObserverTemplateProofs` | proofs | `TTypeOK`, `ReleaseConsistent`, `ParametersResolved` and `NamespacesEnsured` for the installer script |
| `MC_*` | TLC instances | model values and small sets for the constants |

Modelling choices, each taken from the code:

* **DhController actions.** `New` is the whole constructor, `manageDhNamespace` and its
  `startFactories` call included. `Start`, `Stop` and `SendBegin`/`SendDone` (the blocking
  send of `ReconcileObs` and its receipt by the channel source) are the methods.
  `CtlRun`/`CtlExit` are the `Controller.Start` goroutine. `CtlRun` may enqueue the replay of
  an informer's initial list, but only if some informer already runs. `InformerEvent` is a
  watch event of one of the four sources. `WorkerGet`/`WorkerApply` are `Reconcile`: the Get
  (found, not found, or error with requeue) and then the route policy (a write, or an error
  with requeue).
* The queue is a set of keys (controller-runtime's workqueue de-duplicates). Keys are
  abstracted to "obs" (the SdiObserver key) and "object" (any watched object), which are the
  only kinds of key the reconciler tells apart.
* A **shut-down queue** (ctx_ cancelled) accepts no new keys but still hands out what it holds.
  `Controller.Start` returns once the queue is empty and the worker is idle.
* **Panics** (close of a closed channel, send on or blocked on a closed channel) end the
  process: `Next` is disabled once `panic # "none"`.
* The script's **data** is abstracted to what its branches test: a release is a name with its
  minor (`MinorOf`, the `${x#*.}` of line 175), a repository is its URL scheme, a storage
  class is `cephfs` (in `rwxStorageClasses`) or `other`, and a value passed through
  unchanged is `"lit"`.
* **Client construction** (lines 153-162): `kubernetes.NewForConfig` returns an error for a
  config it rejects; the two `...NewForConfigOrDie` calls after it panic on one. The model
  takes from client-go that the three constructors validate the config the same way
  (`RejectedBy`: a burst without a rate limiter is rejected by the kube and route clients, a
  bad TLS config by all three), and the manager's config `restCfg` ranges over a valid one
  and one of each kind. `EnsureFailed` is the returned error (retried by the parent) or the
  panic (the process dies).
* **Namespace creation** in the script (lines 268-272): `CreateNamespaces` lets the cluster
  choose which of the three namespaces exist, which of those `oc get` lists, and which
  creations it refuses; the names still missing are those no listed line matches under
  `grep -x`.
* **RBAC**: a request is a record of API group, resource and verb. `InFlight(h)` collects the
  list and watch of each running informer of h (lines 170-218), the cached read of the
  SdiObserver while its worker is reconciling (line 262), and the route and status writes of
  `manageVsystemRoute` while it reaches the API. The authoriser allows a request when one rule
  of the role lists its group, resource and verb.
* In `ObserverTemplate` an unset shell variable is `Unset`, defined as `""`. The name keeps
  the empty string out of the proof obligations, which tlapm's SMT backend cannot encode.
* In `OperatorMain` a cache is `nil` (the manager's cluster-wide cache) or `multi` with the
  namespace list. In the list, `""` is a cache of all namespaces.

## Runs

| Run | Expect | Checks | What it shows |
| --- | --- | --- | --- |
| `dh_free` | pass | `TypeOK`, `NoLeakedInformer`, `RequestsAuthorized` | With every method callable at any time by two goroutines on two controllers, every started factory runs on a context in `cancels`, and every request in flight is allowed by the ClusterRole (and, except the SdiObserver reads, by this file's markers) |
| `dh_stop_twice` | violation | `StopIsIdempotent` | `New; Stop; Stop` panics on line 239 |
| `dh_factory_order` | violation | `FactoriesStartAfterQueue` | `New; Start` starts the informers before the `Controller.Start` goroutine has run |
| `dh_notfound` | violation | `NotFoundIsSwallowed` | a NotFound Get still reaches `manageVsystemRoute` |
| `registry_safety` | pass | `NoPanic`, `StoppedIsQuiescent`, `RegistryAccurate` | with the registry protocol of the spec, no interleaving of two observers sharing a namespace, watch events and deletions makes a controller panic, leak or run after Stop; whatever the manager's config, client construction returns an error rather than panicking |
| `registry_live` | pass | `NotifyCompletes`, `ControllerTerminates` | every notification is eventually received, and a stopped controller's goroutine returns |
| `registry_refines` | pass | `RegistryRefines` | with three observers on two namespaces, every step of the registry is an abstract Create, an abstract Remove or a stutter of `AbstractRegistry` |
| `template` | pass | `TTypeOK`, `ParametersResolved`, `ReleaseConsistent`, `NamespacesEnsured` | every configuration that reaches `oc apply` has resolved parameters, a release consistent with the oc client, and each of its namespaces present or refused by the cluster |
| `template_access_mode` | violation | `AccessModeFitsClass` | see findings |
| `template_revision` | violation | `TemplateRevisionPinned` | see findings |
| `main_watch_scope` | violation | `WatchScope` | see findings |

Every property of a passing run has a mutant in `PROJECT.json`. The mutant is an operator
defined just before the action it replaces, and TLC finds the property violated once the
mutant is in place. The mutants are:

* `StartParentCtx`: factories started on the caller's ctx.
* `StartNoCancel`: ctx_'s cancel not recorded.
* `StopOnlyObs`: only the constructor's cancel is called.
* `NewClientsLateCheck`: construction checks the config only at the `OrDie` calls, so a
  config the route client rejects panics. It breaks `NoPanic`.
* `EnsureNewNoStart`: the new controller is notified without being started or registered.
  It breaks `RegistryAccurate`, `NotifyCompletes` and `RegistryRefines`.
* `ManagerRoleNoServiceWatch`: the ClusterRole lacks watch on services.
* `GrepMatchesNoX`: the existing-namespace filter without `-x`, so `project/sdi` matches
  `project/sdi-observer` and a missing `sdi` namespace is not created.
* `SelectFlavourNoExit`: an unknown FLAVOUR does not exit.
* `CollectParamsNoExpand`: default values skip the macro substitution.
* `CheckMismatchLoose`: the gate accepts a minor difference of 3.

### Findings

1. **Stop is not idempotent** (controller.go:239). A second `Stop` panics; spec.md 4.1 requires
   that it does not. In `registry_safety`, the registry only prevents this because
   RegistryStop removes the entry under the mutex.
2. **Factories start before the queue** (controller.go:233). This contradicts the comment at
   lines 139-140. The initial list is recovered only by the informer's replay when
   `Controller.Start` registers its handlers.
3. **NotFound is not swallowed** (controller.go:262). `manageVsystemRoute` runs with an empty
   SdiObserver.
4. **Access mode from the wrong class** (run-observer-template.sh:238). When
   `SDI_REGISTRY_STORAGE_CLASS_NAME` names an RWO class and the cluster's default class is
   cephfs, the registry volume is requested as ReadWriteMany.
5. **Unpinned template over http** (run-observer-template.sh:207). Line 255 accepts an
   `http://` repository, but line 207 treats it like a local path: the template URL has no
   revision.
6. **Inverted cache condition** (main, yaml line 473). Giving both `--sdi-namespace` and
   `--slcb-namespace` keeps the cluster-wide cache. Leaving one empty builds a multi-namespace
   cache that contains `""`, which is again all namespaces. So the flags never restrict what
   is watched.

## Bounds

* `MC_DhController`: 2 controllers, 2 notifying goroutines and 1 SdiObserver, with no bound on
  the number of steps. This gives 67,834 states. Two controllers and two callers are enough
  for a caller to be blocked on one controller while the other is stopped, and for two sends
  to race.
* `MC_ObserverRegistry` safety: 2 handles, 2 observers and 1 namespace, with symmetry on
  handles and observers. Both observers target the same namespace, which is the
  contended case. Two handles allow a replacement controller after a Stop (43,560 states).
  Three handles took over 4 minutes and reached no new kind of state.
* `MC_ObserverRegistry` refinement: 2 handles, 3 observers and 2 namespaces, two observers
  sharing `n1` and one on `n2`, without symmetry (1,046,104 states, about 2 minutes). Two
  namespaces are needed for the mapping's per-namespace slots and the injectivity of the
  registry to matter; the shared namespace gives create, stop and re-create.
* `MC_ObserverRegistry` liveness: 1 handle, because TLC does not allow symmetry for liveness
  checking. A single handle still covers notify, stop and drain.
* `MC_ObserverTemplate`: releases 4.6, 4.7 and 4.9, so the minor mismatch takes every case
  (0, 1, 2, 3, and no client version). All four repository schemes and both storage-class
  kinds are present, and the namespace names include `sdi` and `sdi-observer`, one a prefix
  of the other. The run has 2,867,904 states.
* `MC_OperatorMain`: two flag values and one further namespace.

## Fairness

`RSpec` assumes weak fairness only for goroutines the Go scheduler runs once they are
runnable:

* the parent's steps once it holds the mutex;
* the channel source's receive;
* each `Controller.Start` goroutine and its worker.

The following get no fairness: taking the mutex (`Fetch`), a failed construction, cluster
changes (`ObserverChange`) and informer events. These come from the environment, and the code
does not guarantee that they happen.

## Proofs

`DhControllerProofs` proves, for every value of the constants (under `ConstantsAssumption`):

* `THEOREM TypeCorrect == Spec => []TypeOK`. The inductive invariant is
  `TInv == TypeOK /\ WorkerHoldsKey`. `WorkerApply` re-enqueues `wkKey`, so the key must be in
  `Keys` whenever the worker is busy. The proof is one lemma per action, with each changed
  conjunct as its own step.
* `THEOREM NoLeak == Spec => []NoLeakedInformer`. The inductive invariant is
  `IInv == TInv /\ Pristine /\ NoLeakedInformer`. `Pristine` says an unconstructed handle is
  not started and has no factory started. It is needed because `New` starts factories on
  `obsContext` exactly when `isStarted` is already true, and resets `cancels` to `{obs}`.
  TLC checked `IInv` as an invariant of `dh_free` before the proof was written. Only `New`
  and `Start` write `factoryStop` or `cancels`; every other action is covered by one lemma
  about the unchanged variables.

`AbstractRegistry` proves `THEOREM AbstractOnePerNamespace`: assuming `None \notin Handles`,
the running controllers are exactly the registered ones, each for one namespace. The
invariant `TypeOK /\ OnePerNamespace` is inductive as it stands.

`RegistryRefinementProofs` proves, under `ConstantsAssumption` and `RegistryAssumption`:

* `THEOREM RefInvariant == RSpec => []RefInv`. `RefInv` strengthens `RegistryAccurate` with
  what the mutex guarantees: only the mutex holder's reconcile is past its fetch; a
  reconcile about to construct sees no controller for its namespace; the controller a
  reconcile has built and not yet registered is open, owned by an observer of that
  namespace and registered nowhere; a stop works on the namespace's registered controller;
  and the registry is injective. Injectivity is what keeps `RegistryStop` from closing a
  controller that another namespace still holds. TLC checked `RefInv` on the refinement
  instance (1,046,104 states) before the proof was written. There is one lemma per parent
  action; the goroutines' and the cluster's steps change none of the variables `RefInv`
  reads, which one frame lemma covers.
* `THEOREM RegistryAccurateHolds == RSpec => []RegistryAccurate`, from `RefInv`.
* `THEOREM RegistryImplementsAbstract == RSpec => RegistryRefines`. Initial states map to
  the abstract initial state; `EnsureNew` maps to `Create` (the built controller fills the
  namespace's slot through `SlotOf`), `RegistryStop` of a registered controller to `Remove`,
  every other step to a stutter (`EnsureStart` moves the controller from the reconcile to
  the registry without changing the slot). Three lemmas turn pointwise facts about
  `SlotOf` and `LifeOf` into the abstract actions.
* `THEOREM OnePerNamespaceHolds == RSpec => []AR!OnePerNamespace`, from the refinement and
  the abstract theorem.

`RegistrySafetyProofs` proves, under the same assumptions, for the registry composed with
the controllers' own goroutines:

* `THEOREM NoPanicHolds == RSpec => []NoPanic` (and, on the way, `RTypeCorrect`, the typing
  of the registry's variables; `RTypeOK` is not checked by a run, as `TypeOK` already is).
  The inductive invariant is `PInv == RefInv /\ TypeOK /\ WorkerHoldsKey /\ NoPanic /\
  SendersSafe`. `NoPanic` alone is not inductive: a send is safe only if the controller it
  goes to is still open, and a Stop is safe only if nobody is blocked on the channel.
  `SendersSafe` says so: a reconcile about to notify holds an open, built controller, and a
  blocked sender is the mutex holder sending to the controller it holds. With `RefInv`'s
  mutual exclusion this gives that `RegistryStop` never closes a channel a sender waits on.
  `NewClientsSafe` shows that client construction never reaches an `OrDie` panic, whatever
  `restCfg` is.
* `THEOREM StoppedQuiescentHolds == RSpec => []StoppedIsQuiescent`. The inductive invariant
  is `QInv == PInv /\ Pristine /\ NoLeakedInformer /\ Quiesce /\ StoppedIsQuiescent`.
  `Quiesce` adds what Stop relies on: once stopped, every recorded cancel has been called;
  the worker runs only inside a running `Controller.Start`; a started `Controller.Start`
  has recorded ctx_'s cancel; and an unbuilt handle was never started. Without the last
  three, a worker of a stopped controller could still reach the route API.

`DhRbacProofs` proves `THEOREM RbacAuthorized == Spec => []RequestsAuthorized`. No
invariant is needed beyond the model's shape: every request in flight is in `Issuable`,
the requests the code can issue at all, and each element of `Issuable` is matched by a rule
of the ClusterRole. The proof checks the rules one group of requests at a time.

`ObserverTemplateProofs` proves, under `TemplateAssumption`, for every set of releases and
every minor numbering:

* `THEOREM TemplateTypeCorrect == TSpec => []TTypeOK`;
* `THEOREM ReleaseConsistentHolds == TSpec => []ReleaseConsistent`;
* `THEOREM ParametersResolvedHolds == TSpec => []ParametersResolved`;
* `THEOREM NamespacesEnsuredHolds == TSpec => []NamespacesEnsured`.

The script is one sequential pass, so the inductive invariant `TplInv` states, for each
block the script has passed, what that block established:

* the flavour's variables are in `envVars`;
* the shell's `OCP_MINOR_RELEASE` is the settled release `Rel`;
* the client version passed the mismatch gate, with `warned` exactly at a difference of two;
* `args` is the function `Params` that the loop builds from the shell;
* the wanted namespaces all exist or were refused.

It also says that no later block undoes these facts. The shell variables other than the
two the script sets keep the user's values. TLC checked `TplInv` on the template instance
(2,867,904 states) before the proof was written.

Two assumptions are needed:

* `"macro" \notin Releases`: the substituted release is never the macro itself.
* `None \notin Nat`: a missing client version never passes the gate. In the code, `bc`
  fails on it and the `case` falls through to the error.

`ParamResolved` handles the three branches of `Expand`, one step each.

Out of TLAPS's reach, and checked only with TLC:

* the liveness properties `NotifyCompletes` and `ControllerTerminates`, because they need
  fairness and ENABLED;
* `RegistryRefines` on the `registry_refines` instance. It is also proved, by
  `RegistryImplementsAbstract`;
* the `OperatorMain` model and the violation runs, which are findings rather than
  theorems.

Every safety property of every passing run is now proved for all values of the constants.

## Not modelled

* The CRD schema and the kubebuilder `PROJECT` metadata (lines 271-288): they are
  declarative and nothing at run time reads them.
* `manageVsystemRoute` and the parent's own route handling: not under `src/`.
* `init()` and `mkOverride` in main: they build values only.
* What client-go's constructors accept is not modelled from its code: `RejectedBy` states
  it as an assumption.

## Plan for later sittings

* Model a registry without the mutex as a violation run of `RegistryAccurate`, to show the
  mutex is needed.
* Prove `ReleaseConsistent`-style facts for `OperatorMain`'s flag handling once it has a
  passing run.
