---------------------------- MODULE DhRbacProofs ----------------------------
(***************************************************************************)
(* RequestsAuthorized for every set of controllers, callers and observers. *)
(* The requests a controller can have in flight are bounded by what its    *)
(* code can issue whatever its state: the list and watch of the three      *)
(* informer factories, the cached read of SdiObservers and the route and   *)
(* status writes of manageVsystemRoute.  Each of these is granted by a     *)
(* rule of the ClusterRole, and those the markers of controller.go must    *)
(* cover by a marker rule, so the property holds in every state, reachable *)
(* or not.                                                                 *)
(***************************************************************************)
EXTENDS DhRbac, TLAPS

(* Everything a dhController can ask of the API server.                    *)
Issuable ==
    (UNION {Requests(FactoryResources[f], {"list", "watch"}) : f \in Factories})
    \cup ObserverRead \cup RouteWrites

(* What RequestsAuthorized demands of one request.                         *)
Authorized(req) ==
    /\ Allowed(ManagerRole, req)
    /\ req.resource \notin {"sdiobservers", "sdiobservers/status"}
           => Allowed(MarkerRules, req)

LEMMA InFlightIssuable == \A h \in Handles : InFlight(h) \subseteq Issuable
BY DEF InFlight, Issuable

(* A request is allowed by a role when one of its rules names it.         *)
LEMMA AllowedBy ==
    ASSUME NEW role, NEW r \in role, NEW req,
           req.group \in r.groups, req.resource \in r.resources,
           req.verb \in r.verbs
    PROVE  Allowed(role, req)
BY DEF Allowed

(* The group and the resource of a <<group, resource>> pair.              *)
LEMMA PairParts ==
    ASSUME NEW a, NEW b PROVE <<a, b>>[1] = a /\ <<a, b>>[2] = b
OBVIOUS

Req(g, res, v) == [group |-> g, resource |-> res, verb |-> v]

(* A read of one of the four resources the informers watch is granted by   *)
(* the rule the ClusterRole and the markers have for it.                   *)
LEMMA InformerReadAuthorized ==
    ASSUME NEW v \in ReadVerbs,
           NEW g, NEW res,
           \/ g = "installers.datahub.sap.com" /\ res = "datahubs"
           \/ g = "" /\ res = "services"
           \/ g = "" /\ res = "secrets"
           \/ g = "route.openshift.io" /\ res = "routes"
    PROVE  Authorized(Req(g, res, v))
<1>. DEFINE req == Req(g, res, v)
<1>1. req.group = g /\ req.resource = res /\ req.verb = v
  BY DEF Req
<1>2. CASE g = "installers.datahub.sap.com" /\ res = "datahubs"
  <2>1. Rule({"installers.datahub.sap.com"}, {"datahubs"}, ReadVerbs)
          \in ManagerRole \cap MarkerRules
    BY DEF ManagerRole, MarkerRules
  <2>. QED  BY <1>1, <1>2, <2>1, AllowedBy DEF Authorized, Rule
<1>3. CASE g = "" /\ res = "services"
  <2>1. Rule({""}, {"services"}, ReadVerbs) \in ManagerRole \cap MarkerRules
    BY DEF ManagerRole, MarkerRules
  <2>. QED  BY <1>1, <1>3, <2>1, AllowedBy DEF Authorized, Rule
<1>4. CASE g = "" /\ res = "secrets"
  <2>1. Rule({""}, {"secrets"}, ReadVerbs) \in ManagerRole \cap MarkerRules
    BY DEF ManagerRole, MarkerRules
  <2>. QED  BY <1>1, <1>4, <2>1, AllowedBy DEF Authorized, Rule
<1>5. CASE g = "route.openshift.io" /\ res = "routes"
  <2>1. /\ Rule({"", "route.openshift.io"}, {"routes"}, ReadVerbs \cup WriteVerbs)
             \in ManagerRole
        /\ Rule({"route.openshift.io", ""}, {"routes"}, ReadVerbs \cup WriteVerbs)
             \in MarkerRules
    BY DEF ManagerRole, MarkerRules
  <2>. QED  BY <1>1, <1>5, <2>1, AllowedBy DEF Authorized, Rule
<1>. QED  BY <1>2, <1>3, <1>4, <1>5
(* The route writes of manageVsystemRoute: the route itself and its custom *)
(* host, granted by the ClusterRole and by the markers.                    *)
LEMMA RouteWriteAuthorized ==
    ASSUME NEW res \in {"routes", "routes/custom-host"},
           NEW v \in ReadVerbs \cup WriteVerbs
    PROVE  Authorized(Req("route.openshift.io", res, v))
<1>. DEFINE req == Req("route.openshift.io", res, v)
<1>1. req.group = "route.openshift.io" /\ req.resource = res /\ req.verb = v
  BY DEF Req
<1>2. CASE res = "routes"
  <2>1. /\ Rule({"", "route.openshift.io"}, {"routes"}, ReadVerbs \cup WriteVerbs)
             \in ManagerRole
        /\ Rule({"route.openshift.io", ""}, {"routes"}, ReadVerbs \cup WriteVerbs)
             \in MarkerRules
    BY DEF ManagerRole, MarkerRules
  <2>. QED  BY <1>1, <1>2, <2>1, AllowedBy DEF Authorized, Rule
<1>3. CASE res = "routes/custom-host"
  <2>1. /\ Rule({"", "route.openshift.io"}, {"routes/custom-host"},
                ReadVerbs \cup WriteVerbs) \in ManagerRole
        /\ Rule({"route.openshift.io", ""}, {"routes/custom-host"},
                ReadVerbs \cup WriteVerbs) \in MarkerRules
    BY DEF ManagerRole, MarkerRules
  <2>. QED  BY <1>1, <1>3, <2>1, AllowedBy DEF Authorized, Rule
<1>. QED  BY <1>2, <1>3

(* The SdiObserver requests, which only the ClusterRole has to grant (the  *)
(* parent's markers generate its rules): the cache's list and watch, and  *)
(* the status update.                                                      *)
LEMMA ObserverAuthorized ==
    /\ \A v \in {"list", "watch"} :
          Authorized(Req("di.sap-cop.redhat.com", "sdiobservers", v))
    /\ Authorized(Req("di.sap-cop.redhat.com", "sdiobservers/status", "update"))
<1>1. \A v \in {"list", "watch"} :
         Allowed(ManagerRole, Req("di.sap-cop.redhat.com", "sdiobservers", v))
  <2>1. Rule({"di.sap-cop.redhat.com"}, {"sdiobservers"},
             ReadVerbs \cup WriteVerbs) \in ManagerRole
    BY DEF ManagerRole
  <2>. QED  BY <2>1, AllowedBy DEF Req, Rule, ReadVerbs
<1>2. Allowed(ManagerRole, Req("di.sap-cop.redhat.com", "sdiobservers/status",
                                "update"))
  <2>1. Rule({"di.sap-cop.redhat.com"}, {"sdiobservers/status"},
             {"get", "patch", "update"}) \in ManagerRole
    BY DEF ManagerRole
  <2>. QED  BY <2>1, AllowedBy DEF Req, Rule
<1>. QED  BY <1>1, <1>2 DEF Authorized, Req

(* Every request a dhController can issue is authorised.                   *)
LEMMA IssuableAuthorized == \A req \in Issuable : Authorized(req)
<1>. SUFFICES ASSUME NEW req \in Issuable PROVE Authorized(req)
  OBVIOUS
<1>1. CASE \E f \in Factories :
             req \in Requests(FactoryResources[f], {"list", "watch"})
  <2>1. PICK f \in Factories :
          req \in Requests(FactoryResources[f], {"list", "watch"})
    BY <1>1
  <2>2. PICK gr \in FactoryResources[f], v \in {"list", "watch"} :
          req = Req(gr[1], gr[2], v)
    BY <2>1 DEF Requests, Req
  <2>3. \/ gr = <<"installers.datahub.sap.com", "datahubs">>
        \/ gr = <<"", "services">> \/ gr = <<"", "secrets">>
        \/ gr = <<"route.openshift.io", "routes">>
    <3>1. CASE f = "dh"
      BY <3>1 DEF FactoryResources
    <3>2. CASE f = "core"
      BY <3>2 DEF FactoryResources
    <3>3. CASE f = "route"
      BY <3>3 DEF FactoryResources
    <3>. QED  BY <3>1, <3>2, <3>3 DEF Factories
  <2>4. v \in ReadVerbs
    BY DEF ReadVerbs
  <2>5. \/ gr[1] = "installers.datahub.sap.com" /\ gr[2] = "datahubs"
        \/ gr[1] = "" /\ gr[2] = "services"
        \/ gr[1] = "" /\ gr[2] = "secrets"
        \/ gr[1] = "route.openshift.io" /\ gr[2] = "routes"
    <3>1. CASE gr = <<"installers.datahub.sap.com", "datahubs">>
      BY <3>1, PairParts
    <3>2. CASE gr = <<"", "services">>
      BY <3>2, PairParts
    <3>3. CASE gr = <<"", "secrets">>
      BY <3>3, PairParts
    <3>4. CASE gr = <<"route.openshift.io", "routes">>
      BY <3>4, PairParts
    <3>. QED  BY <2>3, <3>1, <3>2, <3>3, <3>4
  <2>. QED  BY <2>2, <2>4, <2>5, InformerReadAuthorized
<1>2. CASE req \in ObserverRead
  <2>1. PICK v \in {"list", "watch"} :
          req = Req("di.sap-cop.redhat.com", "sdiobservers", v)
    BY <1>2, PairParts DEF ObserverRead, Requests, Req
  <2>. QED  BY <2>1, ObserverAuthorized
<1>3. CASE req \in RouteWrites
  <2>1. \/ \E v \in ReadVerbs \cup WriteVerbs :
             req = Req("route.openshift.io", "routes", v)
        \/ \E v \in {"create", "update"} :
             req = Req("route.openshift.io", "routes/custom-host", v)
        \/ req = Req("di.sap-cop.redhat.com", "sdiobservers/status", "update")
    BY <1>3 DEF RouteWrites, Requests, Req
  <2>2. {"create", "update"} \subseteq ReadVerbs \cup WriteVerbs
    BY DEF WriteVerbs
  <2>3. CASE \E v \in ReadVerbs \cup WriteVerbs :
               req = Req("route.openshift.io", "routes", v)
    BY <2>3, RouteWriteAuthorized
  <2>4. CASE \E v \in {"create", "update"} :
               req = Req("route.openshift.io", "routes/custom-host", v)
    <3>1. PICK v \in {"create", "update"} :
            req = Req("route.openshift.io", "routes/custom-host", v)
      BY <2>4
    <3>. QED  BY <2>2, <3>1, RouteWriteAuthorized
  <2>5. CASE req = Req("di.sap-cop.redhat.com", "sdiobservers/status", "update")
    BY <2>5, ObserverAuthorized
  <2>. QED  BY <2>1, <2>3, <2>4, <2>5
<1>4. \/ \E f \in Factories :
            req \in Requests(FactoryResources[f], {"list", "watch"})
      \/ req \in ObserverRead \/ req \in RouteWrites
  <2>1. CASE req \in UNION {Requests(FactoryResources[f], {"list", "watch"}) :
                              f \in Factories}
    <3>1. PICK S \in {Requests(FactoryResources[f], {"list", "watch"}) :
                         f \in Factories} : req \in S
      BY <2>1
    <3>2. PICK f \in Factories :
            S = Requests(FactoryResources[f], {"list", "watch"})
      BY <3>1
    <3>. QED  BY <3>1, <3>2
  <2>2. CASE req \in ObserverRead \cup RouteWrites
    BY <2>2
  <2>. QED  BY <2>1, <2>2 DEF Issuable
<1>. QED  BY <1>1, <1>2, <1>3, <1>4
(* RequestsAuthorized holds in every state of the controller model.        *)
LEMMA AuthorizedEverywhere == RequestsAuthorized
BY InFlightIssuable, IssuableAuthorized DEF RequestsAuthorized, Authorized

(* Every request any dhController has in flight, in every run and for      *)
(* every set of controllers, callers and observers, is granted by the      *)
(* deployed ClusterRole manager-role, and every informer read and route    *)
(* write is also granted by the +kubebuilder:rbac markers of              *)
(* controller.go, so regenerating the role from them keeps it working.     *)
THEOREM RbacAuthorized == Spec => []RequestsAuthorized
<1>1. Init => RequestsAuthorized
  BY AuthorizedEverywhere
<1>2. RequestsAuthorized /\ [Next]_vars => RequestsAuthorized'
  <2>1. \A h \in Handles : InFlight(h)' \subseteq Issuable
    BY DEF InFlight, Issuable
  <2>. QED  BY <2>1, IssuableAuthorized DEF RequestsAuthorized, Authorized
<1>. QED  BY <1>1, <1>2, PTL DEF Spec
=============================================================================
