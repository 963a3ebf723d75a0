--------------------------- MODULE TrafficDirector ---------------------------
(***************************************************************************)
(* TrafficDirectorManager (src/framework/infrastructure/traffic_director.py) *)
(* drives a GCP project through the compute API: it creates a health check, *)
(* three backend services, two URL maps, three target proxies, three        *)
(* forwarding rules and two firewall rules, remembers each in an Optional   *)
(* field, and tears them down in cleanup().                                 *)
(*                                                                         *)
(* The model keeps two views of every resource: the manager's fields        *)
(* (slot, protocol, isHttp, ensureFw) and what exists in the project        *)
(* (remote, refs).  Every public method is a call; a composite method       *)
(* (setup_*, cleanup) is the sequence of calls it makes, run one after the  *)
(* other in `pending` and abandoned at the first exception.  A remote call  *)
(* may fail ("rejected": the API answers with an error and changes nothing) *)
(* or lose its reply ("lost_reply": the change is made, the caller gets an  *)
(* exception); the process may restart, losing every field but not the     *)
(* project.  Resource names are make_resource_name(...) of one manager:    *)
(* a name is identified with its base name here.                           *)
(*                                                                         *)
(* Flavor is the class the manager is an instance of: the base class, or   *)
(* TrafficDirectorAppNetManager (a mesh and two routes, deleted before the *)
(* base resources) or TrafficDirectorSecureManager (TLS, authorization and *)
(* endpoint policies, deleted after them).                                 *)
(***************************************************************************)
EXTENDS Naturals, Sequences, FiniteSets

CONSTANTS
  EnableDualstack,  \* the enable_dualstack constructor argument
  Protocols,        \* backend service protocols a caller passes
  MaxFaults,        \* remote calls that may fail or lose their reply
  MaxRestarts,      \* restarts of the process that owns the manager
  Callable,         \* the public methods a caller (a test) invokes
  Flavor            \* "base", "appnet" or "secure": the manager's class

ASSUME ConstantsAssumption ==
  /\ EnableDualstack \in BOOLEAN
  /\ Protocols \subseteq {"GRPC", "HTTP2"}
  /\ MaxFaults \in Nat
  /\ MaxRestarts \in Nat
  /\ "cleanup" \in Callable
  /\ Flavor \in {"base", "appnet", "secure"}

(***************************************************************************)
(* Project resources: <<collection, name>>.  A gRPC and an HTTP target     *)
(* proxy named "target-proxy" live in different collections.               *)
(***************************************************************************)
HC     == <<"healthChecks", "health-check">>
BS     == <<"backendServices", "backend-service">>
BSAlt  == <<"backendServices", "backend-service-alt">>
BSAff  == <<"backendServices", "backend-service-affinity">>
UM     == <<"urlMaps", "url-map">>
UMAlt  == <<"urlMaps", "url-map-alt">>
TPGrpc == <<"targetGrpcProxies", "target-proxy">>
TPHttp == <<"targetHttpProxies", "target-proxy">>
TP6    == <<"targetHttpProxies", "target-proxy-ipv6">>
TPAlt  == <<"targetGrpcProxies", "target-proxy-alt">>
FR     == <<"forwardingRules", "forwarding-rule">>
FR6    == <<"forwardingRules", "forwarding-rule-ipv6">>
FRAlt  == <<"forwardingRules", "forwarding-rule-alt">>
FW     == <<"firewalls", "allow-health-checks">>
FW6    == <<"firewalls", "allow-health-checks-ipv6">>
MESH   == <<"meshes", "mesh">>
GR     == <<"grpcRoutes", "grpc-route">>
HR     == <<"httpRoutes", "http-route">>
STP    == <<"serverTlsPolicies", "server-tls-policy">>
CTP    == <<"clientTlsPolicies", "client-tls-policy">>
AZ     == <<"authorizationPolicies", "authz-policy">>
EP     == <<"endpointPolicies", "endpoint-policy">>

Res == {HC, BS, BSAlt, BSAff, UM, UMAlt, TPGrpc, TPHttp, TP6, TPAlt,
        FR, FR6, FRAlt, FW, FW6, MESH, GR, HR, STP, CTP, AZ, EP}

\* The None of an Optional[GcpResource] field.
Absent == <<"", "">>

\* The Optional[GcpResource] fields of the manager and what each may hold.
SlotRes == [health_check                |-> {HC},
            backend_service             |-> {BS},
            alternative_backend_service |-> {BSAlt},
            affinity_backend_service    |-> {BSAff},
            url_map                     |-> {UM},
            alternative_url_map         |-> {UMAlt},
            target_proxy                |-> {TPGrpc, TPHttp},
            target_proxy_ipv6           |-> {TP6},
            alternative_target_proxy    |-> {TPAlt},
            forwarding_rule             |-> {FR},
            forwarding_rule_ipv6        |-> {FR6},
            alternative_forwarding_rule |-> {FRAlt},
            firewall_rule               |-> {FW},
            firewall_rule_ipv6          |-> {FW6},
            mesh                        |-> {MESH},
            grpc_route                  |-> {GR},
            http_route                  |-> {HR},
            server_tls_policy           |-> {STP},
            client_tls_policy           |-> {CTP},
            authz_policy                |-> {AZ},
            endpoint_policy             |-> {EP}]

Slots == DOMAIN SlotRes

BSSlots == {"backend_service", "alternative_backend_service",
            "affinity_backend_service"}

\* The backend service a route body names, by the field it belongs to.
BSOf == [backend_service |-> BS, alternative_backend_service |-> BSAlt,
         affinity_backend_service |-> BSAff]

Faults == {"none", "rejected", "lost_reply"}

VARIABLES
  slot,      \* field name -> the resource it holds, or Absent
  protocol,  \* backend_service_protocol (the two variants' are never read)
  isHttp,    \* target_proxy_is_http
  ensureFw,  \* _ensure_firewall
  remote,    \* the resources that exist in the project
  refs,      \* resource -> the resources its body references
  pending,   \* calls still to run in the current top-level operation
  topOp,     \* the operation last invoked: "cleanup", "force_cleanup", "other"
  outcome,   \* the last call returned ("ok"), raised, or the process "crashed"
  faults,    \* remote calls that failed so far
  restarts   \* restarts so far

manager == <<slot, protocol, isHttp, ensureFw>>
project == <<remote, refs>>
vars == <<slot, protocol, isHttp, ensureFw, remote, refs, pending, topOp,
          outcome, faults, restarts>>

Call(op, force, arg) == [op |-> op, force |-> force, arg |-> arg]

(***************************************************************************)
(* The compute API.  A create fails when the name is taken or a referenced *)
(* resource does not exist; a delete fails while another resource          *)
(* references the target, and succeeds on a name that does not exist.      *)
(***************************************************************************)
InUse(r) == \E q \in remote : r \in refs[q]

CreateApplies(r, deps, f) ==
  f # "rejected" /\ r \notin remote /\ deps \subseteq remote
CreateOK(r, deps, f) == f = "none" /\ r \notin remote /\ deps \subseteq remote

RemoteCreate(r, deps, f) ==
  IF CreateApplies(r, deps, f)
  THEN remote' = remote \cup {r} /\ refs' = [refs EXCEPT ![r] = deps]
  ELSE UNCHANGED project

DeleteApplies(r, f) == f # "rejected" /\ r \in remote /\ ~InUse(r)
DeleteOK(r, f) == f = "none" /\ ~InUse(r)

RemoteDelete(r, f) ==
  IF DeleteApplies(r, f)
  THEN remote' = remote \ {r} /\ refs' = [refs EXCEPT ![r] = {}]
  ELSE UNCHANGED project

(* A call returns or raises; an exception abandons the rest of the        *)
(* top-level operation (see Run).                                         *)
Return == outcome' = "ok"
Raise == outcome' = "raised"
Finish(ok) == outcome' = IF ok THEN "ok" ELSE "raised"

\* A method that fails on a None field before any remote call.
NoneError == UNCHANGED <<slot, project>> /\ Raise

\* self.X = compute.create_...(name, ...): the field is set only on success.
CreateInto(s, r, deps, f) ==
  /\ RemoteCreate(r, deps, f)
  /\ slot' = IF CreateOK(r, deps, f) THEN [slot EXCEPT ![s] = r] ELSE slot
  /\ Finish(CreateOK(r, deps, f))

(* The network services and security APIs: create(name, body), then       *)
(* self.X = get(name).  The get (outcome g) runs only after the create     *)
(* returned; when it fails the resource exists and the field stays None.  *)
CreateThenGet(s, r, deps, f, g) ==
  /\ RemoteCreate(r, deps, f)
  /\ slot' = IF CreateOK(r, deps, f) /\ g = "none"
             THEN [slot EXCEPT ![s] = r] ELSE slot
  /\ Finish(CreateOK(r, deps, f) /\ g = "none")

(* delete_X(force): the name is recomputed under force, taken from the    *)
(* field when it is set, and the call returns early otherwise; on success *)
(* the fields in `cleared` are set to None.                               *)
Deletes(tracked, r, force, f) == (force \/ tracked) /\ DeleteOK(r, f)

\* Mutant: the name is taken from the field only, force is ignored.
DeleteFromTrackedOnly(tracked, r, cleared, force, f) ==
  IF tracked
  THEN /\ RemoteDelete(r, f)
       /\ slot' = IF DeleteOK(r, f)
                  THEN [x \in Slots |-> IF x \in cleared THEN Absent ELSE slot[x]]
                  ELSE slot
       /\ Finish(DeleteOK(r, f))
  ELSE UNCHANGED <<slot, project>> /\ Return

DeleteFrom(tracked, r, cleared, force, f) ==
  IF force \/ tracked
  THEN /\ RemoteDelete(r, f)
       /\ slot' = IF DeleteOK(r, f)
                  THEN [x \in Slots |-> IF x \in cleared THEN Absent ELSE slot[x]]
                  ELSE slot
       /\ Finish(DeleteOK(r, f))
  ELSE UNCHANGED <<slot, project>> /\ Return

-----------------------------------------------------------------------------
(* Health check *)

create_health_check(f) ==
  /\ IF slot.health_check # Absent
     THEN UNCHANGED <<slot, project>> /\ Raise
     ELSE CreateInto("health_check", HC, {}, f)
  /\ UNCHANGED <<protocol, isHttp, ensureFw>>

delete_health_check(force, f) ==
  /\ DeleteFrom(slot.health_check # Absent, HC, {"health_check"}, force, f)
  /\ UNCHANGED <<protocol, isHttp, ensureFw>>

(* Backend services.  The body references self.health_check, which is    *)
(* left out when the field is None.                                       *)
HealthCheckRef == IF slot.health_check = Absent THEN {} ELSE {slot.health_check}

create_backend_service(p, f) ==
  /\ CreateInto("backend_service", BS, HealthCheckRef, f)
  /\ protocol' = IF CreateOK(BS, HealthCheckRef, f) THEN p ELSE protocol
  /\ UNCHANGED <<isHttp, ensureFw>>

(* The variants record their protocol in fields nothing reads, so the    *)
(* model leaves both the fields and the protocol argument out.           *)
create_alternative_backend_service(f) ==
  /\ CreateInto("alternative_backend_service", BSAlt, HealthCheckRef, f)
  /\ UNCHANGED <<protocol, isHttp, ensureFw>>
create_affinity_backend_service(f) ==
  /\ CreateInto("affinity_backend_service", BSAff, HealthCheckRef, f)
  /\ UNCHANGED <<protocol, isHttp, ensureFw>>

\* load_*: a get by the computed name; the protocol field is not restored.
LoadBackendService(s, r, f) ==
  /\ slot' = IF r \in remote /\ f = "none" THEN [slot EXCEPT ![s] = r] ELSE slot
  /\ Finish(r \in remote /\ f = "none")
  /\ UNCHANGED <<project, protocol, isHttp, ensureFw>>

load_backend_service(f) == LoadBackendService("backend_service", BS, f)
load_alternative_backend_service(f) ==
  LoadBackendService("alternative_backend_service", BSAlt, f)
load_affinity_backend_service(f) ==
  LoadBackendService("affinity_backend_service", BSAff, f)

DeleteBackendService(s, r, force, f) ==
  /\ DeleteFrom(slot[s] # Absent, r, {s}, force, f)
  /\ UNCHANGED <<protocol, isHttp, ensureFw>>

delete_backend_service(force, f) ==
  DeleteBackendService("backend_service", BS, force, f)
delete_alternative_backend_service(force, f) ==
  DeleteBackendService("alternative_backend_service", BSAlt, force, f)
delete_affinity_backend_service(force, f) ==
  DeleteBackendService("affinity_backend_service", BSAff, force, f)

-----------------------------------------------------------------------------
(* URL maps.  The body routes to one backend service field; a None field  *)
(* raises AttributeError (`.name`) before the remote call.                *)

create_url_map(f) ==
  /\ IF slot.backend_service = Absent
     THEN NoneError
     ELSE CreateInto("url_map", UM, {slot.backend_service}, f)
  /\ UNCHANGED <<protocol, isHttp, ensureFw>>

\* patch_url_map(backend_service=self.<b>): repoints self.url_map.
patch_url_map(b, f) ==
  /\ IF slot[b] = Absent \/ slot.url_map = Absent
     THEN NoneError
     ELSE LET ok == f = "none" /\ UM \in remote /\ slot[b] \in remote
          IN /\ IF f # "rejected" /\ UM \in remote /\ slot[b] \in remote
                THEN refs' = [refs EXCEPT ![UM] = {slot[b]}]
                ELSE UNCHANGED refs
             /\ Finish(ok)
             /\ UNCHANGED <<slot, remote>>
  /\ UNCHANGED <<protocol, isHttp, ensureFw>>

\* create_alternative_url_map(backend_service): b = "none" uses the
\* alternative backend service field.
create_alternative_url_map(b, f) ==
  LET target == IF b = "none" THEN slot.alternative_backend_service ELSE slot[b]
  IN /\ IF target = Absent
        THEN NoneError
        ELSE CreateInto("alternative_url_map", UMAlt, {target}, f)
     /\ UNCHANGED <<protocol, isHttp, ensureFw>>

delete_url_map(force, f) ==
  /\ DeleteFrom(slot.url_map # Absent, UM, {"url_map"}, force, f)
  /\ UNCHANGED <<protocol, isHttp, ensureFw>>

\* Deletes the alternative URL map but sets self.url_map = None.
delete_alternative_url_map(force, f) ==
  /\ DeleteFrom(slot.alternative_url_map # Absent, UMAlt, {"url_map"}, force, f)
  /\ UNCHANGED <<protocol, isHttp, ensureFw>>

-----------------------------------------------------------------------------
(* Target proxies.  The kind follows backend_service_protocol; the flag   *)
(* target_proxy_is_http is written before self.url_map is read and before *)
(* the remote call.                                                       *)

ProxyOfKind(http, r, f) ==
  /\ isHttp' = http
  /\ IF slot.url_map = Absent
     THEN NoneError
     ELSE CreateInto("target_proxy", r, {slot.url_map}, f)

create_target_proxy(f) ==
  /\ \/ protocol = "GRPC" /\ ProxyOfKind(FALSE, TPGrpc, f)
     \/ protocol = "HTTP2" /\ ProxyOfKind(TRUE, TPHttp, f)
     \/ protocol = "UNSET" /\ UNCHANGED <<slot, project, isHttp>>
                                          /\ Raise
  /\ UNCHANGED <<protocol, ensureFw>>

\* Always an HTTP proxy.
create_target_proxy_ipv6(f) ==
  /\ IF slot.url_map = Absent
     THEN NoneError
     ELSE CreateInto("target_proxy_ipv6", TP6, {slot.url_map}, f)
  /\ UNCHANGED <<protocol, isHttp, ensureFw>>

\* Mutant: the alternative proxy is pointed at self.url_map.
create_alternative_target_proxy_default_map(f) ==
  /\ IF protocol # "GRPC" \/ slot.alternative_url_map = Absent
     THEN NoneError
     ELSE CreateInto("alternative_target_proxy", TPAlt, {slot.url_map}, f)
  /\ UNCHANGED <<protocol, isHttp, ensureFw>>

\* Checks the default backend service's protocol, not the alternative's.
create_alternative_target_proxy(f) ==
  /\ IF protocol # "GRPC" \/ slot.alternative_url_map = Absent
     THEN NoneError
     ELSE CreateInto("alternative_target_proxy", TPAlt,
                     {slot.alternative_url_map}, f)
  /\ UNCHANGED <<protocol, isHttp, ensureFw>>

\* Deleting either kind of proxy clears the field and the flag.
DeleteProxy(tracked, r, force, f) ==
  /\ DeleteFrom(tracked, r, {"target_proxy"}, force, f)
  /\ isHttp' = IF Deletes(tracked, r, force, f) THEN FALSE ELSE isHttp
  /\ UNCHANGED <<protocol, ensureFw>>

delete_target_grpc_proxy(force, f) ==
  DeleteProxy(slot.target_proxy # Absent, TPGrpc, force, f)

delete_target_http_proxy(force, f) ==
  DeleteProxy(slot.target_proxy # Absent /\ isHttp, TPHttp, force, f)

delete_target_proxy_ipv6(force, f) ==
  /\ DeleteFrom(slot.target_proxy_ipv6 # Absent, TP6,
                {"target_proxy_ipv6"}, force, f)
  /\ UNCHANGED <<protocol, isHttp, ensureFw>>

delete_alternative_target_grpc_proxy(force, f) ==
  /\ DeleteFrom(slot.alternative_target_proxy # Absent, TPAlt,
                {"alternative_target_proxy"}, force, f)
  /\ UNCHANGED <<protocol, isHttp, ensureFw>>

-----------------------------------------------------------------------------
(* Forwarding rules: each binds a port to the proxy held by a field.      *)

\* Mutant: every variant stores its rule in self.forwarding_rule.
CreateForwardingRuleOneField(s, r, proxySlot, f) ==
  /\ IF slot[proxySlot] = Absent
     THEN NoneError
     ELSE CreateInto("forwarding_rule", r, {slot[proxySlot]}, f)
  /\ UNCHANGED <<protocol, isHttp, ensureFw>>

CreateForwardingRule(s, r, proxySlot, f) ==
  /\ IF slot[proxySlot] = Absent
     THEN NoneError
     ELSE CreateInto(s, r, {slot[proxySlot]}, f)
  /\ UNCHANGED <<protocol, isHttp, ensureFw>>

create_forwarding_rule(f) ==
  CreateForwardingRule("forwarding_rule", FR, "target_proxy", f)
create_forwarding_rule_ipv6(f) ==
  CreateForwardingRule("forwarding_rule_ipv6", FR6, "target_proxy_ipv6", f)
create_alternative_forwarding_rule(f) ==
  CreateForwardingRule("alternative_forwarding_rule", FRAlt,
                       "alternative_target_proxy", f)

DeleteForwardingRule(s, r, force, f) ==
  /\ DeleteFrom(slot[s] # Absent, r, {s}, force, f)
  /\ UNCHANGED <<protocol, isHttp, ensureFw>>

delete_forwarding_rule(force, f) ==
  DeleteForwardingRule("forwarding_rule", FR, force, f)
delete_forwarding_rule_ipv6(force, f) ==
  DeleteForwardingRule("forwarding_rule_ipv6", FR6, force, f)
delete_alternative_forwarding_rule(force, f) ==
  DeleteForwardingRule("alternative_forwarding_rule", FRAlt, force, f)

-----------------------------------------------------------------------------
(* Firewall rules.  create_firewall_rules makes up to two remote calls    *)
(* (f, then g); `ranges` says which source ranges are non-empty.          *)

create_firewall_rules(ranges, f, g) ==
  LET v4 == ranges \in {"v4", "both"}
      v6 == ranges \in {"v6", "both"}
      ok4 == v4 => CreateOK(FW, {}, f)
      made4 == v4 /\ CreateApplies(FW, {}, f)
      made6 == ok4 /\ v6 /\ CreateApplies(FW6, {}, g)
      set4 == v4 /\ CreateOK(FW, {}, f)
      set6 == ok4 /\ v6 /\ CreateOK(FW6, {}, g)
  IN /\ remote' = remote \cup (IF made4 THEN {FW} ELSE {})
                         \cup (IF made6 THEN {FW6} ELSE {})
     /\ slot' = [slot EXCEPT !.firewall_rule = IF set4 THEN FW ELSE @,
                             !.firewall_rule_ipv6 = IF set6 THEN FW6 ELSE @]
     /\ ensureFw' = (ensureFw \/ set4 \/ set6)
     /\ Finish(ok4 /\ (v6 => CreateOK(FW6, {}, g)))
     /\ UNCHANGED <<refs, protocol, isHttp>>

(* _delete_firewall_rule catches the API's errors (googleapiclient) and   *)
(* returns False; a lost reply is a transport error and propagates.       *)
(* delete_firewall_rule prefers the field's name, then force's.           *)
FwAttempt(s, force) == slot[s] # Absent \/ force
FwGone(s, r, force, f) == FwAttempt(s, force) /\ f = "none"
FwRemoved(s, r, force, f) == FwAttempt(s, force) /\ f # "rejected"

delete_firewall_rule(force, f) ==
  /\ remote' = IF FwRemoved("firewall_rule", FW, force, f) THEN remote \ {FW}
               ELSE remote
  /\ slot' = IF FwGone("firewall_rule", FW, force, f)
             THEN [slot EXCEPT !.firewall_rule = Absent] ELSE slot
  /\ Finish(~FwAttempt("firewall_rule", force) \/ f # "lost_reply")
  /\ UNCHANGED <<refs, protocol, isHttp, ensureFw>>

delete_firewall_rule_ipv6(force, f) ==
  /\ remote' = IF FwRemoved("firewall_rule_ipv6", FW6, force, f)
               THEN remote \ {FW6} ELSE remote
  /\ slot' = IF FwGone("firewall_rule_ipv6", FW6, force, f)
             THEN [slot EXCEPT !.firewall_rule_ipv6 = Absent] ELSE slot
  /\ Finish(~FwAttempt("firewall_rule_ipv6", force) \/ f # "lost_reply")
  /\ UNCHANGED <<refs, protocol, isHttp, ensureFw>>

\* Both deletions, then _ensure_firewall = False whatever they returned.
delete_firewall_rules(force, f, g) ==
  IF ~ensureFw
  THEN UNCHANGED <<manager, project>> /\ Return
  ELSE
  LET lost4 == FwAttempt("firewall_rule", force) /\ f = "lost_reply"
      lost6 == ~lost4 /\ FwAttempt("firewall_rule_ipv6", force)
                      /\ g = "lost_reply"
      rm4 == FwRemoved("firewall_rule", FW, force, f)
      rm6 == ~lost4 /\ FwRemoved("firewall_rule_ipv6", FW6, force, g)
      gone4 == FwGone("firewall_rule", FW, force, f)
      gone6 == ~lost4 /\ FwGone("firewall_rule_ipv6", FW6, force, g)
  IN /\ remote' = remote \ ((IF rm4 THEN {FW} ELSE {}) \cup
                            (IF rm6 THEN {FW6} ELSE {}))
     /\ slot' = [slot EXCEPT
                   !.firewall_rule = IF gone4 THEN Absent ELSE @,
                   !.firewall_rule_ipv6 = IF gone6 THEN Absent ELSE @]
     /\ ensureFw' = (lost4 \/ lost6)
     /\ Finish(~lost4 /\ ~lost6)
     /\ UNCHANGED <<refs, protocol, isHttp>>

-----------------------------------------------------------------------------
(* TrafficDirectorAppNetManager: a mesh, and routes that name the mesh and *)
(* a backend service.  A None field read for the body raises before any    *)
(* remote call.                                                           *)

create_mesh(f, g) ==
  /\ CreateThenGet("mesh", MESH, {}, f, g)
  /\ UNCHANGED <<protocol, isHttp, ensureFw>>

delete_mesh(force, f) ==
  /\ DeleteFrom(slot.mesh # Absent, MESH, {"mesh"}, force, f)
  /\ UNCHANGED <<protocol, isHttp, ensureFw>>

create_grpc_route(f, g) ==
  /\ IF slot.backend_service = Absent \/ slot.mesh = Absent
     THEN NoneError
     ELSE CreateThenGet("grpc_route", GR, {slot.backend_service, slot.mesh}, f, g)
  /\ UNCHANGED <<protocol, isHttp, ensureFw>>

\* A body given by the caller: the mesh and the backend service of field b.
create_grpc_route_with_content(b, f, g) ==
  /\ CreateThenGet("grpc_route", GR, {MESH, BSOf[b]}, f, g)
  /\ UNCHANGED <<protocol, isHttp, ensureFw>>

\* Mutant: the HTTP route is stored in self.grpc_route (a copy-paste slip).
create_http_route_with_content_grpc_field(b, f, g) ==
  /\ CreateThenGet("grpc_route", HR, {MESH, BSOf[b]}, f, g)
  /\ UNCHANGED <<protocol, isHttp, ensureFw>>

create_http_route_with_content(b, f, g) ==
  /\ CreateThenGet("http_route", HR, {MESH, BSOf[b]}, f, g)
  /\ UNCHANGED <<protocol, isHttp, ensureFw>>

delete_grpc_route(force, f) ==
  /\ DeleteFrom(slot.grpc_route # Absent, GR, {"grpc_route"}, force, f)
  /\ UNCHANGED <<protocol, isHttp, ensureFw>>

delete_http_route(force, f) ==
  /\ DeleteFrom(slot.http_route # Absent, HR, {"http_route"}, force, f)
  /\ UNCHANGED <<protocol, isHttp, ensureFw>>

-----------------------------------------------------------------------------
(* TrafficDirectorSecureManager.  A TLS policy with neither tls nor mtls   *)
(* (argument "skip") is not created: a warning, and the field stays None.  *)

TlsPolicy(s, r, a, f, g) ==
  /\ IF a = "skip"
     THEN UNCHANGED <<slot, project>> /\ Return
     ELSE CreateThenGet(s, r, {}, f, g)
  /\ UNCHANGED <<protocol, isHttp, ensureFw>>

\* Mutant: the client policy is stored in self.server_tls_policy.
create_client_tls_policy_server_field(a, f, g) ==
  TlsPolicy("server_tls_policy", CTP, a, f, g)

create_server_tls_policy(a, f, g) == TlsPolicy("server_tls_policy", STP, a, f, g)
create_client_tls_policy(a, f, g) == TlsPolicy("client_tls_policy", CTP, a, f, g)

create_authz_policy(f, g) ==
  /\ CreateThenGet("authz_policy", AZ, {}, f, g)
  /\ UNCHANGED <<protocol, isHttp, ensureFw>>

\* Mutant: the endpoint policy names the client TLS policy.
PolicyRefsClient == {slot.client_tls_policy, slot.authz_policy} \ {Absent}

\* The server TLS and authorization policies attached when their field is set.
PolicyRefs == {slot.server_tls_policy, slot.authz_policy} \ {Absent}

create_endpoint_policy(f, g) ==
  /\ CreateThenGet("endpoint_policy", EP, PolicyRefs, f, g)
  /\ UNCHANGED <<protocol, isHttp, ensureFw>>

(* Both branches read self.backend_service.name (the warning, the log);   *)
(* with a client TLS policy, the backend service is patched in place to    *)
(* reference it, keeping its health check.                                *)
backend_service_apply_client_mtls_policy(f) ==
  /\ IF slot.backend_service = Absent THEN NoneError
     ELSE IF slot.client_tls_policy = Absent
     THEN UNCHANGED <<slot, project>> /\ Return
     ELSE LET found == BS \in remote /\ CTP \in remote
          IN /\ IF f # "rejected" /\ found
                THEN refs' = [refs EXCEPT ![BS] = @ \cup {CTP}]
                ELSE UNCHANGED refs
             /\ Finish(f = "none" /\ found)
             /\ UNCHANGED <<slot, remote>>
  /\ UNCHANGED <<protocol, isHttp, ensureFw>>

DeletePolicy(s, r, force, f) ==
  /\ DeleteFrom(slot[s] # Absent, r, {s}, force, f)
  /\ UNCHANGED <<protocol, isHttp, ensureFw>>

delete_server_tls_policy(force, f) ==
  DeletePolicy("server_tls_policy", STP, force, f)
delete_client_tls_policy(force, f) ==
  DeletePolicy("client_tls_policy", CTP, force, f)
delete_authz_policy(force, f) == DeletePolicy("authz_policy", AZ, force, f)
delete_endpoint_policy(force, f) ==
  DeletePolicy("endpoint_policy", EP, force, f)

-----------------------------------------------------------------------------
(* Composite methods as the calls they make, in order.                    *)

Op(op) == Call(op, FALSE, "none")

setup_backend_for_grpc(p) ==
  << Op("create_health_check"), Call("create_backend_service", FALSE, p) >>

setup_routing_rule_map_for_grpc ==
  << Op("create_url_map"), Op("create_target_proxy"),
     Op("create_forwarding_rule") >>
  \o (IF EnableDualstack
      THEN << Op("create_target_proxy_ipv6"), Op("create_forwarding_rule_ipv6") >>
      ELSE << >>)

setup_for_grpc(p) == setup_backend_for_grpc(p) \o setup_routing_rule_map_for_grpc

\* Mutant: the URL maps are deleted after the backend services.
cleanup_maps_last(force) ==
  LET D(op) == Call(op, force, "none")
  IN << D("delete_firewall_rules"), D("delete_forwarding_rule"),
        D("delete_alternative_forwarding_rule"), D("delete_target_http_proxy"),
        D("delete_target_grpc_proxy") >>
     \o (IF EnableDualstack
         THEN << D("delete_forwarding_rule_ipv6"), D("delete_target_proxy_ipv6") >>
         ELSE << >>)
     \o << D("delete_alternative_target_grpc_proxy"), D("delete_backend_service"),
           D("delete_alternative_backend_service"),
           D("delete_affinity_backend_service"), D("delete_url_map"),
           D("delete_alternative_url_map"), D("delete_health_check") >>

\* TrafficDirectorManager.cleanup
manager_cleanup(force) ==
  LET D(op) == Call(op, force, "none")
  IN << D("delete_firewall_rules"), D("delete_forwarding_rule"),
        D("delete_alternative_forwarding_rule"), D("delete_target_http_proxy"),
        D("delete_target_grpc_proxy") >>
     \o (IF EnableDualstack
         THEN << D("delete_forwarding_rule_ipv6"), D("delete_target_proxy_ipv6") >>
         ELSE << >>)
     \o << D("delete_alternative_target_grpc_proxy"), D("delete_url_map"),
           D("delete_alternative_url_map"), D("delete_backend_service"),
           D("delete_alternative_backend_service"),
           D("delete_affinity_backend_service"), D("delete_health_check") >>

\* Mutant: the mesh is deleted before the routes that name it.
appnet_cleanup_mesh_first(force) ==
  << Call("delete_mesh", force, "none"), Call("delete_http_route", force, "none"),
     Call("delete_grpc_route", force, "none") >>
  \o manager_cleanup(force)

\* TrafficDirectorAppNetManager.cleanup: routes, mesh, then the base class's.
appnet_cleanup(force) ==
  << Call("delete_http_route", force, "none"), Call("delete_grpc_route", force, "none"),
     Call("delete_mesh", force, "none") >>
  \o manager_cleanup(force)

\* Mutant: the policies are deleted before the base class's resources.
secure_cleanup_policies_first(force) ==
  << Call("delete_endpoint_policy", force, "none"),
     Call("delete_server_tls_policy", force, "none"),
     Call("delete_client_tls_policy", force, "none"),
     Call("delete_authz_policy", force, "none") >>
  \o manager_cleanup(force)

\* TrafficDirectorSecureManager.cleanup: the base class's, then the policies.
secure_cleanup(force) ==
  manager_cleanup(force)
  \o << Call("delete_endpoint_policy", force, "none"),
        Call("delete_server_tls_policy", force, "none"),
        Call("delete_client_tls_policy", force, "none"),
        Call("delete_authz_policy", force, "none") >>

cleanup(force) ==
  CASE Flavor = "appnet" -> appnet_cleanup(force)
    [] Flavor = "secure" -> secure_cleanup(force)
    [] OTHER -> manager_cleanup(force)

\* TrafficDirectorSecureManager's two setups; a is "skip" for tls=mtls=False.
TlsArgs == {"skip", "policy"}

setup_server_security(a) ==
  << Call("create_server_tls_policy", FALSE, a), Op("create_endpoint_policy") >>

setup_client_security(a) ==
  << Call("create_client_tls_policy", FALSE, a),
     Op("backend_service_apply_client_mtls_policy") >>

\* The single methods a caller may invoke, with the arguments it may pass.
CreateOps == {"create_health_check", "load_backend_service",
              "load_alternative_backend_service", "load_affinity_backend_service",
              "create_url_map", "create_target_proxy", "create_target_proxy_ipv6",
              "create_alternative_target_proxy", "create_forwarding_rule",
              "create_forwarding_rule_ipv6", "create_alternative_forwarding_rule",
              "create_alternative_backend_service",
              "create_affinity_backend_service", "create_mesh", "create_grpc_route",
              "create_authz_policy", "create_endpoint_policy",
              "backend_service_apply_client_mtls_policy"}
DeleteOps == {"delete_health_check", "delete_backend_service",
              "delete_alternative_backend_service",
              "delete_affinity_backend_service", "delete_url_map",
              "delete_alternative_url_map", "delete_target_grpc_proxy",
              "delete_target_http_proxy", "delete_target_proxy_ipv6",
              "delete_alternative_target_grpc_proxy", "delete_forwarding_rule",
              "delete_forwarding_rule_ipv6", "delete_alternative_forwarding_rule",
              "delete_firewall_rules", "delete_firewall_rule",
              "delete_firewall_rule_ipv6", "delete_mesh", "delete_grpc_route",
              "delete_http_route", "delete_server_tls_policy",
              "delete_client_tls_policy", "delete_authz_policy",
              "delete_endpoint_policy"}

CreateCalls == {Op(op) : op \in CreateOps}
BackendServiceCalls == {Call("create_backend_service", FALSE, p) : p \in Protocols}
DeleteCalls == {Call(op, force, "none") : op \in DeleteOps, force \in BOOLEAN}
ArgumentCalls ==
  {Call("patch_url_map", FALSE, b) : b \in BSSlots}
  \cup {Call("create_alternative_url_map", FALSE, b) : b \in BSSlots \cup {"none"}}
  \cup {Call("create_firewall_rules", FALSE, r) : r \in {"v4", "v6", "both"}}

RouteCalls ==
  {Call("create_grpc_route_with_content", FALSE, b) : b \in BSSlots}
  \cup {Call("create_http_route_with_content", FALSE, b) : b \in BSSlots}
TlsCalls ==
  {Call("create_server_tls_policy", FALSE, a) : a \in TlsArgs}
  \cup {Call("create_client_tls_policy", FALSE, a) : a \in TlsArgs}

MethodCalls == CreateCalls \cup BackendServiceCalls \cup DeleteCalls \cup ArgumentCalls
               \cup RouteCalls \cup TlsCalls

\* The methods only a subclass has, and those the manager's class lacks.
AppNetOps == {"create_mesh", "delete_mesh", "create_grpc_route",
              "create_grpc_route_with_content", "create_http_route_with_content",
              "delete_grpc_route", "delete_http_route"}
SecureOps == {"create_server_tls_policy", "delete_server_tls_policy",
              "create_client_tls_policy", "delete_client_tls_policy",
              "create_authz_policy", "delete_authz_policy", "create_endpoint_policy",
              "delete_endpoint_policy", "backend_service_apply_client_mtls_policy",
              "setup_server_security", "setup_client_security"}
ForeignOps ==
  CASE Flavor = "appnet" -> SecureOps
    [] Flavor = "secure" -> AppNetOps
    [] OTHER -> AppNetOps \cup SecureOps

OwnCalls == {c \in MethodCalls : c.op \notin ForeignOps}

CompositeCalls ==
  {Call("setup_for_grpc", FALSE, p) : p \in Protocols}
  \cup {Call("setup_backend_for_grpc", FALSE, p) : p \in Protocols}
  \cup {Op("setup_routing_rule_map_for_grpc")}
  \cup {Call("cleanup", force, "none") : force \in BOOLEAN}
  \cup {Call("setup_server_security", FALSE, a) : a \in TlsArgs}
  \cup {Call("setup_client_security", FALSE, a) : a \in TlsArgs}

TopCalls ==
  {c \in MethodCalls \cup CompositeCalls : c.op \in Callable \ ForeignOps}

Expand(c) ==
  CASE c.op = "setup_for_grpc" -> setup_for_grpc(c.arg)
    [] c.op = "setup_backend_for_grpc" -> setup_backend_for_grpc(c.arg)
    [] c.op = "setup_routing_rule_map_for_grpc" -> setup_routing_rule_map_for_grpc
    [] c.op = "cleanup" -> cleanup(c.force)
    [] c.op = "setup_server_security" -> setup_server_security(c.arg)
    [] c.op = "setup_client_security" -> setup_client_security(c.arg)
    [] OTHER -> << c >>

\* One method call with the outcomes f and g of its (first, second) remote call.
Exec(c, f, g) ==
  LET force == c.force IN
  \/ c.op = "create_health_check" /\ create_health_check(f)
  \/ c.op = "delete_health_check" /\ delete_health_check(force, f)
  \/ c.op = "create_backend_service" /\ create_backend_service(c.arg, f)
  \/ c.op = "create_alternative_backend_service"
       /\ create_alternative_backend_service(f)
  \/ c.op = "create_affinity_backend_service" /\ create_affinity_backend_service(f)
  \/ c.op = "load_backend_service" /\ load_backend_service(f)
  \/ c.op = "load_alternative_backend_service"
       /\ load_alternative_backend_service(f)
  \/ c.op = "load_affinity_backend_service" /\ load_affinity_backend_service(f)
  \/ c.op = "delete_backend_service" /\ delete_backend_service(force, f)
  \/ c.op = "delete_alternative_backend_service"
       /\ delete_alternative_backend_service(force, f)
  \/ c.op = "delete_affinity_backend_service"
       /\ delete_affinity_backend_service(force, f)
  \/ c.op = "create_url_map" /\ create_url_map(f)
  \/ c.op = "patch_url_map" /\ patch_url_map(c.arg, f)
  \/ c.op = "create_alternative_url_map" /\ create_alternative_url_map(c.arg, f)
  \/ c.op = "delete_url_map" /\ delete_url_map(force, f)
  \/ c.op = "delete_alternative_url_map" /\ delete_alternative_url_map(force, f)
  \/ c.op = "create_target_proxy" /\ create_target_proxy(f)
  \/ c.op = "create_target_proxy_ipv6" /\ create_target_proxy_ipv6(f)
  \/ c.op = "create_alternative_target_proxy" /\ create_alternative_target_proxy(f)
  \/ c.op = "delete_target_grpc_proxy" /\ delete_target_grpc_proxy(force, f)
  \/ c.op = "delete_target_http_proxy" /\ delete_target_http_proxy(force, f)
  \/ c.op = "delete_target_proxy_ipv6" /\ delete_target_proxy_ipv6(force, f)
  \/ c.op = "delete_alternative_target_grpc_proxy"
       /\ delete_alternative_target_grpc_proxy(force, f)
  \/ c.op = "create_forwarding_rule" /\ create_forwarding_rule(f)
  \/ c.op = "create_forwarding_rule_ipv6" /\ create_forwarding_rule_ipv6(f)
  \/ c.op = "create_alternative_forwarding_rule"
       /\ create_alternative_forwarding_rule(f)
  \/ c.op = "delete_forwarding_rule" /\ delete_forwarding_rule(force, f)
  \/ c.op = "delete_forwarding_rule_ipv6" /\ delete_forwarding_rule_ipv6(force, f)
  \/ c.op = "delete_alternative_forwarding_rule"
       /\ delete_alternative_forwarding_rule(force, f)
  \/ c.op = "create_firewall_rules" /\ create_firewall_rules(c.arg, f, g)
  \/ c.op = "delete_firewall_rules" /\ delete_firewall_rules(force, f, g)
  \/ c.op = "delete_firewall_rule" /\ delete_firewall_rule(force, f)
  \/ c.op = "delete_firewall_rule_ipv6" /\ delete_firewall_rule_ipv6(force, f)
  \/ c.op = "create_mesh" /\ create_mesh(f, g)
  \/ c.op = "delete_mesh" /\ delete_mesh(force, f)
  \/ c.op = "create_grpc_route" /\ create_grpc_route(f, g)
  \/ c.op = "create_grpc_route_with_content"
       /\ create_grpc_route_with_content(c.arg, f, g)
  \/ c.op = "create_http_route_with_content"
       /\ create_http_route_with_content(c.arg, f, g)
  \/ c.op = "delete_grpc_route" /\ delete_grpc_route(force, f)
  \/ c.op = "delete_http_route" /\ delete_http_route(force, f)
  \/ c.op = "create_server_tls_policy" /\ create_server_tls_policy(c.arg, f, g)
  \/ c.op = "create_client_tls_policy" /\ create_client_tls_policy(c.arg, f, g)
  \/ c.op = "create_authz_policy" /\ create_authz_policy(f, g)
  \/ c.op = "create_endpoint_policy" /\ create_endpoint_policy(f, g)
  \/ c.op = "backend_service_apply_client_mtls_policy"
       /\ backend_service_apply_client_mtls_policy(f)
  \/ c.op = "delete_server_tls_policy" /\ delete_server_tls_policy(force, f)
  \/ c.op = "delete_client_tls_policy" /\ delete_client_tls_policy(force, f)
  \/ c.op = "delete_authz_policy" /\ delete_authz_policy(force, f)
  \/ c.op = "delete_endpoint_policy" /\ delete_endpoint_policy(force, f)

TwoCallOps == {"create_firewall_rules", "delete_firewall_rules", "create_mesh",
               "create_grpc_route", "create_grpc_route_with_content",
               "create_http_route_with_content", "create_server_tls_policy",
               "create_client_tls_policy", "create_authz_policy",
               "create_endpoint_policy"}

Cost(f) == IF f = "none" THEN 0 ELSE 1

-----------------------------------------------------------------------------
Init ==
  /\ slot = [s \in Slots |-> Absent]
  /\ protocol = "UNSET"
  /\ isHttp = FALSE
  /\ ensureFw = FALSE
  /\ remote = {}
  /\ refs = [r \in Res |-> {}]
  /\ pending = << >>
  /\ topOp = "other"
  /\ outcome = "ok"
  /\ faults = 0
  /\ restarts = 0

(* Runs the first call of L with the outcomes f and g of its remote      *)
(* calls; the rest of L is left pending unless the call raised.           *)
Run(L) ==
  /\ \E f, g \in Faults :
       /\ Head(L).op \notin TwoCallOps => g = "none"
       /\ faults + Cost(f) + Cost(g) <= MaxFaults
       /\ faults' = faults + Cost(f) + Cost(g)
       /\ Exec(Head(L), f, g)
  /\ pending' = IF outcome' = "raised" THEN << >> ELSE Tail(L)
  /\ UNCHANGED restarts

\* The caller (a test) invokes a public method when none is running.
Invoke(c) ==
  /\ pending = << >>
  /\ topOp' = IF c.op # "cleanup" THEN "other"
              ELSE IF c.force THEN "force_cleanup" ELSE "cleanup"
  /\ Run(Expand(c))

\* The next call of a running composite method.
Continue ==
  /\ pending # << >>
  /\ Run(pending)
  /\ UNCHANGED topOp

\* The process dies: every field is lost, the project keeps its resources.
Restart ==
  /\ restarts < MaxRestarts
  /\ restarts' = restarts + 1
  /\ slot' = [s \in Slots |-> Absent]
  /\ protocol' = "UNSET"
  /\ isHttp' = FALSE
  /\ ensureFw' = FALSE
  /\ pending' = << >>
  /\ outcome' = "crashed"
  /\ UNCHANGED <<project, topOp, faults>>

Next ==
  \/ \E c \in TopCalls : Invoke(c)
  \/ Continue
  \/ Restart

Spec == Init /\ [][Next]_vars

-----------------------------------------------------------------------------
(* Properties *)

(* Types.  The manager's fields, the project, and the caller's state.    *)
ManagerTypeOK ==
  /\ slot \in [Slots -> Res \cup {Absent}]
  /\ \A s \in Slots : slot[s] \in SlotRes[s] \cup {Absent}
  /\ protocol \in Protocols \cup {"UNSET"}
  /\ isHttp \in BOOLEAN
  /\ ensureFw \in BOOLEAN

ProjectTypeOK ==
  /\ remote \subseteq Res
  /\ refs \in [Res -> SUBSET Res]

CallerTypeOK ==
  /\ pending \in Seq(OwnCalls)
  /\ topOp \in {"cleanup", "force_cleanup", "other"}
  /\ outcome \in {"ok", "raised", "crashed"}
  /\ faults \in 0..MaxFaults
  /\ restarts \in 0..MaxRestarts

TypeOK == ManagerTypeOK /\ ProjectTypeOK /\ CallerTypeOK

\* The resources a delete method removes when called with force=True.
DeletedBy(op) ==
  CASE op = "delete_firewall_rules" -> {FW, FW6}
    [] op = "delete_forwarding_rule" -> {FR}
    [] op = "delete_alternative_forwarding_rule" -> {FRAlt}
    [] op = "delete_forwarding_rule_ipv6" -> {FR6}
    [] op = "delete_target_http_proxy" -> {TPHttp}
    [] op = "delete_target_grpc_proxy" -> {TPGrpc}
    [] op = "delete_target_proxy_ipv6" -> {TP6}
    [] op = "delete_alternative_target_grpc_proxy" -> {TPAlt}
    [] op = "delete_url_map" -> {UM}
    [] op = "delete_alternative_url_map" -> {UMAlt}
    [] op = "delete_backend_service" -> {BS}
    [] op = "delete_alternative_backend_service" -> {BSAlt}
    [] op = "delete_affinity_backend_service" -> {BSAff}
    [] op = "delete_health_check" -> {HC}
    [] op = "delete_mesh" -> {MESH}
    [] op = "delete_grpc_route" -> {GR}
    [] op = "delete_http_route" -> {HR}
    [] op = "delete_server_tls_policy" -> {STP}
    [] op = "delete_client_tls_policy" -> {CTP}
    [] op = "delete_authz_policy" -> {AZ}
    [] op = "delete_endpoint_policy" -> {EP}

(* cleanup() deletes "in the reverse order of creation": whenever a       *)
(* resource in the project references another (a forwarding rule its     *)
(* proxy, a proxy its URL map, a URL map its backend service, a backend   *)
(* service its health check), cleanup's call list deletes the referencing *)
(* one strictly before the referenced one, whatever sequence of creates,  *)
(* patches, failures and restarts built the project.                       *)
CleanupOrderRespectsReferences ==
  LET order == cleanup(TRUE)
  IN \A q \in remote : \A r \in refs[q] :
       \E i, j \in 1..Len(order) :
         /\ i < j
         /\ q \in DeletedBy(order[i].op)
         /\ r \in DeletedBy(order[j].op)

(* A cleanup(force=True) that returns without an exception leaves nothing *)
(* of the manager's in the project but, possibly, its firewall rules      *)
(* (whose deletion is best-effort and skipped when _ensure_firewall is    *)
(* unset): the resources created by lost replies, by a process that       *)
(* restarted, or left by the line-612 slip are all deleted by name.       *)
ForceCleanupComplete ==
  (topOp = "force_cleanup" /\ pending = << >> /\ outcome = "ok")
    => remote \subseteq {FW, FW6}

(* Spec section 7: a firewall deletion that fails "is recovered locally;   *)
(* the local slot is not cleared, so a later cleanup attempt retries the  *)
(* same deletion".  A later cleanup only retries while _ensure_firewall is *)
(* set, so a firewall rule still held in a field must keep it set.        *)
FirewallRetryPossible ==
  (slot.firewall_rule # Absent \/ slot.firewall_rule_ipv6 # Absent) => ensureFw

(* When no remote call has failed and the process never restarted, a      *)
(* cleanup() without force tears everything down without an exception:    *)
(* every resource it must delete is either held in its field or already   *)
(* unreferenced.                                                          *)
CleanupSucceedsWithoutFaults ==
  (topOp = "cleanup" /\ faults = 0 /\ restarts = 0) => outcome # "raised"

(* Spec section 3: "creating into a Present slot is a precondition        *)
(* violation": no call replaces the resource a field holds by another one *)
(* (which would leave the first in the project, held by no field).        *)
TrackedNeverReplaced ==
  [][\A s \in Slots : slot[s] # Absent /\ slot'[s] # Absent => slot'[s] = slot[s]]_vars

(* Spec section 4.2: create_target_proxy "tracks whether the active proxy *)
(* is HTTP-kind to disambiguate deletion": while self.target_proxy holds   *)
(* a proxy, target_proxy_is_http says which collection it is in (the      *)
(* non-forced deletes choose the collection, and so the proxy, by it).    *)
ProxyKindTracked ==
  slot.target_proxy # Absent => (isHttp <=> slot.target_proxy = TPHttp)

=============================================================================
