------------------------- MODULE RegistryRefinement -------------------------
(***************************************************************************)
(* ObserverRegistry implements AbstractRegistry.  A namespace's abstract   *)
(* slot is the controller the registry map holds for it, or, while a       *)
(* parent reconcile is between NewManagedDhController and the registration *)
(* of its result (pc "start"), the controller it has just built.  A        *)
(* controller runs from the return of NewManagedDhController until Stop    *)
(* closes its channel.  Construction is then the abstract Create, Stop the *)
(* abstract Remove, and every other step a stutter.                        *)
(***************************************************************************)
EXTENDS ObserverRegistry

(* The slot of namespace n: the controller the mutex holder has built for *)
(* n and not yet registered, if there is one, else the registry's entry.   *)
(* Only the mutex holder's reconcile is ever past its fetch.               *)
SlotOf(n) ==
    IF lock # None /\ pc[lock] = "start" /\ Target[lock] = n
    THEN cur[lock]
    ELSE registry[n]

LifeOf(h) ==
    IF hs[h] = "unused" THEN "unused"
    ELSE IF chanOpen[h] THEN "running" ELSE "stopped"

AR == INSTANCE AbstractRegistry
        WITH slot <- [n \in Namespaces |-> SlotOf(n)],
             life <- [h \in Handles |-> LifeOf(h)]

(* An inductive invariant of the registry that the refinement rests on.    *)
(* Only the mutex holder's reconcile is past its fetch; a reconcile about  *)
(* to construct sees no controller for its namespace; a built, unregistered *)
(* controller is open and registered nowhere; a stop works on the          *)
(* namespace's registered controller; registered controllers are open and *)
(* each is registered for one namespace; and RegistryAccurate.            *)
RefInv ==
    /\ hs \in [Handles -> {"unused", "built"}]
    /\ chanOpen \in [Handles -> BOOLEAN]
    /\ exists \in [Observers -> BOOLEAN]
    /\ owner \in [Handles -> Observers \cup {None}]
    /\ registry \in [Namespaces -> Handles \cup {None}]
    /\ lock \in Observers \cup {None}
    /\ pc \in [Observers -> ParentPcs]
    /\ cur \in [Observers -> Handles \cup {None}]
    /\ \A o \in Observers : pc[o] # "idle" => lock = o
    /\ \A o \in Observers : pc[o] = "new" => registry[Target[o]] = None
    /\ \A o \in Observers :
         pc[o] = "start" =>
            /\ registry[Target[o]] = None
            /\ cur[o] \in Handles
            /\ hs[cur[o]] = "built" /\ chanOpen[cur[o]]
            /\ \A m \in Namespaces : registry[m] # cur[o]
            /\ Target[owner[cur[o]]] = Target[o]
    /\ \A o \in Observers : pc[o] = "stop" => cur[o] = registry[Target[o]]
    /\ \A n \in Namespaces :
         registry[n] # None => hs[registry[n]] = "built" /\ chanOpen[registry[n]]
    /\ \A n, m \in Namespaces :
         registry[n] = registry[m] /\ registry[n] # None => n = m
    /\ RegistryAccurate

(* The fine-grained registry (mutex, several steps per ensure and stop,    *)
(* the dhController's own goroutines) behaves as the atomic registry of    *)
(* spec.md section 4.1: every step creates one controller for a namespace *)
(* without one, stops and unregisters a namespace's controller, or changes *)
(* neither.                                                                *)
RegistryRefines == AR!Spec
=============================================================================
