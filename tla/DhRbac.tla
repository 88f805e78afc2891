------------------------------- MODULE DhRbac -------------------------------
(***************************************************************************)
(* The permissions of the operator against the API requests the           *)
(* dhController makes.  The ClusterRole manager-role (controller.go, lines *)
(* 290-385) is generated by controller-gen from the +kubebuilder:rbac      *)
(* markers of every controller: those of this file (lines 245-250) and the *)
(* parent's for SdiObservers.  The API server authorises a request when    *)
(* one rule of a role the service account is bound to lists its API group, *)
(* its resource and its verb.                                              *)
(*                                                                         *)
(* A request is a record [group, resource, verb]; the requests in flight  *)
(* are read off the controller's state: the list and watch of every       *)
(* running informer, the cached read of the SdiObserver by a reconcile,   *)
(* and the route writes of a reconcile that reaches the route API.        *)
(***************************************************************************)
EXTENDS DhController

Rule(groups, resources, verbs) ==
    [groups |-> groups, resources |-> resources, verbs |-> verbs]

ReadVerbs == {"get", "list", "watch"}
WriteVerbs == {"create", "update", "patch", "delete"}

(* The +kubebuilder:rbac markers of lines 245-250.                         *)
MarkerRules ==
    {Rule({"route.openshift.io", ""}, {"routes"}, ReadVerbs \cup WriteVerbs),
     Rule({"route.openshift.io", ""}, {"routes/custom-host"},
          ReadVerbs \cup WriteVerbs),
     Rule({"route.openshift.io", ""}, {"routes/status"},
          ReadVerbs \cup WriteVerbs),
     Rule({""}, {"services"}, ReadVerbs),
     Rule({""}, {"secrets"}, ReadVerbs),
     Rule({"installers.datahub.sap.com"}, {"datahubs"}, ReadVerbs)}

(* Mutant: the ClusterRole with the services rule lacking watch.           *)
ManagerRoleNoServiceWatch ==
    {Rule({"", "route.openshift.io"}, {"routes"}, ReadVerbs \cup WriteVerbs),
     Rule({"", "route.openshift.io"}, {"routes/custom-host"},
          ReadVerbs \cup WriteVerbs),
     Rule({"", "route.openshift.io"}, {"routes/status"},
          ReadVerbs \cup WriteVerbs),
     Rule({""}, {"secrets"}, ReadVerbs),
     Rule({""}, {"services"}, {"get", "list"}),
     Rule({"di.sap-cop.redhat.com"}, {"sdiobservers"},
          ReadVerbs \cup WriteVerbs),
     Rule({"di.sap-cop.redhat.com"}, {"sdiobservers/finalizers"}, {"update"}),
     Rule({"di.sap-cop.redhat.com"}, {"sdiobservers/status"},
          {"get", "patch", "update"}),
     Rule({"installers.datahub.sap.com"}, {"datahubs"}, ReadVerbs)}

(* The ClusterRole manager-role of lines 290-385, rule by rule.            *)
ManagerRole ==
    {Rule({"", "route.openshift.io"}, {"routes"}, ReadVerbs \cup WriteVerbs),
     Rule({"", "route.openshift.io"}, {"routes/custom-host"},
          ReadVerbs \cup WriteVerbs),
     Rule({"", "route.openshift.io"}, {"routes/status"},
          ReadVerbs \cup WriteVerbs),
     Rule({""}, {"secrets"}, ReadVerbs),
     Rule({""}, {"services"}, ReadVerbs),
     Rule({"di.sap-cop.redhat.com"}, {"sdiobservers"},
          ReadVerbs \cup WriteVerbs),
     Rule({"di.sap-cop.redhat.com"}, {"sdiobservers/finalizers"}, {"update"}),
     Rule({"di.sap-cop.redhat.com"}, {"sdiobservers/status"},
          {"get", "patch", "update"}),
     Rule({"installers.datahub.sap.com"}, {"datahubs"}, ReadVerbs)}

(* The RBAC authoriser: some rule names the group, resource and verb.      *)
Allowed(role, req) ==
    \E r \in role : /\ req.group \in r.groups
                    /\ req.resource \in r.resources
                    /\ req.verb \in r.verbs

Requests(groupResources, verbs) ==
    {[group |-> gr[1], resource |-> gr[2], verb |-> v] :
        gr \in groupResources, v \in verbs}

(* What each informer factory of manageDhNamespace lists and watches in   *)
(* the DataHub namespace: DataHubs (MkDataHubGvr, lines 170-176), Services *)
(* and Secrets (lines 178-200), Routes (lines 203-218).                   *)
FactoryResources ==
    [dh |-> {<<"installers.datahub.sap.com", "datahubs">>},
     core |-> {<<"", "services">>, <<"", "secrets">>},
     route |-> {<<"route.openshift.io", "routes">>}]

(* Reconcile's r.client.Get (line 262) reads through the manager's cache, *)
(* which lists and watches SdiObservers.                                   *)
ObserverRead ==
    Requests({<<"di.sap-cop.redhat.com", "sdiobservers">>}, {"list", "watch"})

(* manageVsystemRoute (line 265, not under src/; spec.md sections 4.2 and *)
(* 4.3) reads, creates, updates and deletes the vsystem route, sets its    *)
(* host (the routes/custom-host subresource) and writes the observer's     *)
(* status subresource.                                                     *)
RouteWrites ==
    Requests({<<"route.openshift.io", "routes">>}, ReadVerbs \cup WriteVerbs)
    \cup Requests({<<"route.openshift.io", "routes/custom-host">>},
                  {"create", "update"})
    \cup Requests({<<"di.sap-cop.redhat.com", "sdiobservers/status">>},
                  {"update"})

(* The requests controller h has in flight in the current state.           *)
InFlight(h) ==
    (UNION {Requests(FactoryResources[f], {"list", "watch"}) :
               f \in {g \in Factories : InformerRunning(h, g)}})
    \cup (IF wk[h] # "idle" THEN ObserverRead ELSE {})
    \cup (IF effect = h THEN RouteWrites ELSE {})

-----------------------------------------------------------------------------
(* Every request a dhController makes (its informers' list and watch, the *)
(* reconcile's read of the SdiObserver, the route and status writes) is    *)
(* allowed by the deployed ClusterRole; and those of the DataHub, core and *)
(* route informers and of the route writes are also allowed by this        *)
(* file's markers, so that regenerating the role keeps them.               *)
RequestsAuthorized ==
    \A h \in Handles :
        \A req \in InFlight(h) :
            /\ Allowed(ManagerRole, req)
            /\ req.resource \notin {"sdiobservers", "sdiobservers/status"}
                   => Allowed(MarkerRules, req)
=============================================================================
