---------------------------- MODULE OperatorMain ----------------------------
(***************************************************************************)
(* The operator's main (src/operator/config/crd/bases/                     *)
(* di.sap-cop.redhat.com_sdiobservers.yaml, lines 441-511): read the       *)
(* namespace flags (defaulting to the NAMESPACE, SDI_NAMESPACE and         *)
(* SLCB_NAMESPACE environment variables), choose the manager's cache, then *)
(* create the manager, set up the SdiObserver reconciler, add the health   *)
(* and readiness checks and start the manager; every failure exits 1.     *)
(* A namespace is "" (unset) or a member of Names.  The cache is nil      *)
(* (mgrCache not assigned: one cluster-wide cache) or "multi" with the     *)
(* namespace list given to MultiNamespacedCacheBuilder, in which "" is a   *)
(* cache of every namespace.                                               *)
(***************************************************************************)
EXTENDS FiniteSets, TLC

(* Names is a subset of AllSpaces, and "" is not a namespace.              *)
CONSTANTS
    Names,      \* namespace names the flags or the environment may give
    AllSpaces   \* every namespace of the cluster

Phases == {"flags", "cache", "manager", "setup", "healthz", "readyz",
           "start", "running", "exited"}

(* The manager-building calls that can fail, in the order main calls them. *)
Fallible == {"manager", "setup", "healthz", "readyz", "start"}

VARIABLES
    phase,          \* where main is
    namespace,      \* --namespace
    sdiNamespace,   \* --sdi-namespace
    slcbNamespace,  \* --slcb-namespace
    mgrCache,       \* the NewCache option main passes to ctrl.NewManager
    exitCode        \* the status os.Exit was called with, or 0

mvars == <<phase, namespace, sdiNamespace, slcbNamespace, mgrCache, exitCode>>

MInit ==
    /\ phase = "flags"
    /\ namespace = "" /\ sdiNamespace = "" /\ slcbNamespace = ""
    /\ mgrCache = [kind |-> "nil", spaces |-> {}]
    /\ exitCode = 0

(* Lines 442-470: parse the flags; without a namespace main exits.         *)
ParseFlags ==
    /\ phase = "flags"
    /\ \E ns, sdi, slcb \in Names \cup {""} :
         /\ namespace' = ns /\ sdiNamespace' = sdi /\ slcbNamespace' = slcb
         /\ IF ns = "" THEN phase' = "exited" /\ exitCode' = 1
                       ELSE phase' = "cache" /\ UNCHANGED exitCode
    /\ UNCHANGED mgrCache

(* Lines 472-475: the cache is restricted to the three namespaces when the *)
(* SDI or the SLCB namespace is empty, and left cluster-wide otherwise.     *)
ChooseCache ==
    /\ phase = "cache"
    /\ IF sdiNamespace = "" \/ slcbNamespace = ""
       THEN mgrCache' = [kind |-> "multi",
                         spaces |-> {namespace, sdiNamespace, slcbNamespace}]
       ELSE UNCHANGED mgrCache
    /\ phase' = "manager"
    /\ UNCHANGED <<namespace, sdiNamespace, slcbNamespace, exitCode>>

(* Lines 477-511: ctrl.NewManager, NewReconciler with SetupWithManager,    *)
(* AddHealthzCheck, AddReadyzCheck and mgr.Start, in this order; each may *)
(* fail, and main then exits 1.                                            *)
NextPhase == ("manager" :> "setup") @@ ("setup" :> "healthz")
             @@ ("healthz" :> "readyz") @@ ("readyz" :> "start")
             @@ ("start" :> "running")

BuildStep ==
    /\ phase \in Fallible
    /\ \/ phase' = NextPhase[phase] /\ UNCHANGED exitCode
       \/ phase' = "exited" /\ exitCode' = 1
    /\ UNCHANGED <<namespace, sdiNamespace, slcbNamespace, mgrCache>>

MNext == ParseFlags \/ ChooseCache \/ BuildStep

MSpec == MInit /\ [][MNext]_mvars

(* The namespaces the manager's cache lists and watches.                   *)
Watched == IF mgrCache.kind = "nil" \/ "" \in mgrCache.spaces THEN AllSpaces
           ELSE mgrCache.spaces

-----------------------------------------------------------------------------
(* The help of --sdi-namespace and --slcb-namespace (lines 453-458): the   *)
(* operator monitors the SDI and SLCB namespaces when they are given, and  *)
(* all namespaces only when one is left unspecified.  So a manager started *)
(* with both given watches exactly the operator's own, the SDI and the     *)
(* SLCB namespace.                                                         *)
WatchScope ==
    (phase = "running" /\ sdiNamespace # "" /\ slcbNamespace # "")
        => Watched = {namespace, sdiNamespace, slcbNamespace}
=============================================================================
