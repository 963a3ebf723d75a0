-------------------------- MODULE ForceCleanupProofs --------------------------
(***************************************************************************)
(* cleanup(force=True) that returns leaves only the firewall rules.  The   *)
(* forced deletes name their resource whether or not a field holds it, a  *)
(* delete that returns has removed its resource, and a delete never adds  *)
(* one; so while a forced cleanup runs without an exception, every        *)
(* resource still in the project sits later in cleanup's list than the    *)
(* calls already made.  When the list is exhausted nothing is left but    *)
(* what the list does not promise to remove.                              *)
(***************************************************************************)
EXTENDS CleanupOrderProofs

\* The deletes the cleanup lists are made of.
CleanupOps ==
  {"delete_firewall_rules", "delete_forwarding_rule",
   "delete_alternative_forwarding_rule", "delete_target_http_proxy",
   "delete_target_grpc_proxy", "delete_forwarding_rule_ipv6",
   "delete_target_proxy_ipv6", "delete_alternative_target_grpc_proxy",
   "delete_url_map", "delete_alternative_url_map", "delete_backend_service",
   "delete_alternative_backend_service", "delete_affinity_backend_service",
   "delete_health_check", "delete_mesh", "delete_grpc_route",
   "delete_http_route", "delete_endpoint_policy", "delete_server_tls_policy",
   "delete_client_tls_policy", "delete_authz_policy"}

\* The project holds only resources the manager's own cleanup deletes.
RemoteInFlavor == remote \subseteq FlavorRes

\* An exception or a restart abandons the rest of the running method.
RaisedIdle == outcome # "ok" => pending = << >>

\* The calls cleanup(force=True) makes, in order.
ForceList == cleanup(TRUE)

(* A forced cleanup that has made its first k calls without an exception: *)
(* the rest of the list is pending, and every resource of the project but *)
(* the firewall rules is deleted by a later call.                         *)
ForceProgress(k) ==
  /\ Len(pending) = Len(ForceList) - k
  /\ \A i \in 1..Len(pending) : pending[i] = ForceList[i + k]
  /\ \A x \in remote \ {FW, FW6} : DelPos[x] > k

ForceInv ==
  (topOp = "force_cleanup" /\ outcome = "ok")
    => \E k \in 0..Len(ForceList) : ForceProgress(k)

\* The inductive invariant.
IInv == TypeOK /\ RemoteInFlavor /\ RaisedIdle /\ ForceInv

-----------------------------------------------------------------------------
(* One forced delete.                                                     *)

\* A forced delete removes at most its resource, and removes it if it returns.
LEMMA DeleteFromForced ==
  ASSUME NEW tracked, NEW r, NEW cleared, NEW f,
         DeleteFrom(tracked, r, cleared, TRUE, f)
  PROVE  remote' \subseteq remote /\ (outcome' = "ok" => r \notin remote')
BY DEF DeleteFrom, RemoteDelete, DeleteApplies, DeleteOK, Finish, project

\* A resource of the manager's is not a firewall rule.
LEMMA NotFirewall ==
  {HC, BS, BSAlt, BSAff, UM, UMAlt, TPGrpc, TPHttp, TP6, TPAlt, FR, FR6, FRAlt,
   MESH, GR, HR, STP, CTP, AZ, EP} \cap {FW, FW6} = {}
BY DEF HC, BS, BSAlt, BSAff, UM, UMAlt, TPGrpc, TPHttp, TP6, TPAlt, FR, FR6,
       FRAlt, MESH, GR, HR, STP, CTP, AZ, EP, FW, FW6

\* The delete of one resource, r, by a DeleteFrom under force.
LEMMA ForcedDeleteOf ==
  ASSUME NEW d, NEW r \in {HC, BS, BSAlt, BSAff, UM, UMAlt, TPGrpc, TPHttp, TP6,
                           TPAlt, FR, FR6, FRAlt, MESH, GR, HR, STP, CTP, AZ, EP},
         NEW f, DeletedBy(d) = {r},
         \E tr, cl : DeleteFrom(tr, r, cl, TRUE, f)
  PROVE  /\ remote' \subseteq remote
         /\ outcome' = "ok" => (DeletedBy(d) \ {FW, FW6}) \cap remote' = {}
<1>1. PICK tr, cl : DeleteFrom(tr, r, cl, TRUE, f)
  OBVIOUS
<1>2. remote' \subseteq remote /\ (outcome' = "ok" => r \notin remote')
  BY <1>1, DeleteFromForced
<1>. QED  BY <1>2, NotFirewall

(* A call of cleanup's list, made with force=True, never adds a resource, *)
(* and when it returns the resources it deletes (but the firewall rules)  *)
(* are gone.                                                               *)
LEMMA ForceDeleteStep ==
  ASSUME NEW d \in CleanupOps, NEW f \in Faults, NEW g \in Faults,
         Exec(Call(d, TRUE, "none"), f, g)
  PROVE  /\ remote' \subseteq remote
         /\ outcome' = "ok" => (DeletedBy(d) \ {FW, FW6}) \cap remote' = {}
<1>1. Call(d, TRUE, "none").op = d /\ Call(d, TRUE, "none").force = TRUE
  BY DEF Call
<1>0. CASE d = "delete_firewall_rules"
  <2>1. delete_firewall_rules(TRUE, f, g)
    BY <1>1, <1>0 DEF Exec
  <2>2. remote' \subseteq remote
    BY <2>1 DEF delete_firewall_rules, manager, project
  <2>3. DeletedBy(d) \ {FW, FW6} = {}
    BY <1>0 DEF DeletedBy
  <2>. QED  BY <2>2, <2>3
<1>2. CASE d = "delete_forwarding_rule"
  <2>1. delete_forwarding_rule(TRUE, f)
    BY <1>1, <1>2 DEF Exec
  <2>2. \E tr, cl : DeleteFrom(tr, FR, cl, TRUE, f)
    BY <2>1 DEF delete_forwarding_rule, DeleteForwardingRule
  <2>3. DeletedBy(d) = {FR}
    BY <1>2 DEF DeletedBy
  <2>. QED  BY <2>2, <2>3, ForcedDeleteOf
<1>3. CASE d = "delete_alternative_forwarding_rule"
  <2>1. delete_alternative_forwarding_rule(TRUE, f)
    BY <1>1, <1>3 DEF Exec
  <2>2. \E tr, cl : DeleteFrom(tr, FRAlt, cl, TRUE, f)
    BY <2>1 DEF delete_alternative_forwarding_rule, DeleteForwardingRule
  <2>3. DeletedBy(d) = {FRAlt}
    BY <1>3 DEF DeletedBy
  <2>. QED  BY <2>2, <2>3, ForcedDeleteOf
<1>4. CASE d = "delete_forwarding_rule_ipv6"
  <2>1. delete_forwarding_rule_ipv6(TRUE, f)
    BY <1>1, <1>4 DEF Exec
  <2>2. \E tr, cl : DeleteFrom(tr, FR6, cl, TRUE, f)
    BY <2>1 DEF delete_forwarding_rule_ipv6, DeleteForwardingRule
  <2>3. DeletedBy(d) = {FR6}
    BY <1>4 DEF DeletedBy
  <2>. QED  BY <2>2, <2>3, ForcedDeleteOf
<1>5. CASE d = "delete_target_http_proxy"
  <2>1. delete_target_http_proxy(TRUE, f)
    BY <1>1, <1>5 DEF Exec
  <2>2. \E tr, cl : DeleteFrom(tr, TPHttp, cl, TRUE, f)
    BY <2>1 DEF delete_target_http_proxy, DeleteProxy
  <2>3. DeletedBy(d) = {TPHttp}
    BY <1>5 DEF DeletedBy
  <2>. QED  BY <2>2, <2>3, ForcedDeleteOf
<1>6. CASE d = "delete_target_grpc_proxy"
  <2>1. delete_target_grpc_proxy(TRUE, f)
    BY <1>1, <1>6 DEF Exec
  <2>2. \E tr, cl : DeleteFrom(tr, TPGrpc, cl, TRUE, f)
    BY <2>1 DEF delete_target_grpc_proxy, DeleteProxy
  <2>3. DeletedBy(d) = {TPGrpc}
    BY <1>6 DEF DeletedBy
  <2>. QED  BY <2>2, <2>3, ForcedDeleteOf
<1>7. CASE d = "delete_target_proxy_ipv6"
  <2>1. delete_target_proxy_ipv6(TRUE, f)
    BY <1>1, <1>7 DEF Exec
  <2>2. \E tr, cl : DeleteFrom(tr, TP6, cl, TRUE, f)
    BY <2>1 DEF delete_target_proxy_ipv6
  <2>3. DeletedBy(d) = {TP6}
    BY <1>7 DEF DeletedBy
  <2>. QED  BY <2>2, <2>3, ForcedDeleteOf
<1>8. CASE d = "delete_alternative_target_grpc_proxy"
  <2>1. delete_alternative_target_grpc_proxy(TRUE, f)
    BY <1>1, <1>8 DEF Exec
  <2>2. \E tr, cl : DeleteFrom(tr, TPAlt, cl, TRUE, f)
    BY <2>1 DEF delete_alternative_target_grpc_proxy
  <2>3. DeletedBy(d) = {TPAlt}
    BY <1>8 DEF DeletedBy
  <2>. QED  BY <2>2, <2>3, ForcedDeleteOf
<1>9. CASE d = "delete_url_map"
  <2>1. delete_url_map(TRUE, f)
    BY <1>1, <1>9 DEF Exec
  <2>2. \E tr, cl : DeleteFrom(tr, UM, cl, TRUE, f)
    BY <2>1 DEF delete_url_map
  <2>3. DeletedBy(d) = {UM}
    BY <1>9 DEF DeletedBy
  <2>. QED  BY <2>2, <2>3, ForcedDeleteOf
<1>10. CASE d = "delete_alternative_url_map"
  <2>1. delete_alternative_url_map(TRUE, f)
    BY <1>1, <1>10 DEF Exec
  <2>2. \E tr, cl : DeleteFrom(tr, UMAlt, cl, TRUE, f)
    BY <2>1 DEF delete_alternative_url_map
  <2>3. DeletedBy(d) = {UMAlt}
    BY <1>10 DEF DeletedBy
  <2>. QED  BY <2>2, <2>3, ForcedDeleteOf
<1>11. CASE d = "delete_backend_service"
  <2>1. delete_backend_service(TRUE, f)
    BY <1>1, <1>11 DEF Exec
  <2>2. \E tr, cl : DeleteFrom(tr, BS, cl, TRUE, f)
    BY <2>1 DEF delete_backend_service, DeleteBackendService
  <2>3. DeletedBy(d) = {BS}
    BY <1>11 DEF DeletedBy
  <2>. QED  BY <2>2, <2>3, ForcedDeleteOf
<1>12. CASE d = "delete_alternative_backend_service"
  <2>1. delete_alternative_backend_service(TRUE, f)
    BY <1>1, <1>12 DEF Exec
  <2>2. \E tr, cl : DeleteFrom(tr, BSAlt, cl, TRUE, f)
    BY <2>1 DEF delete_alternative_backend_service, DeleteBackendService
  <2>3. DeletedBy(d) = {BSAlt}
    BY <1>12 DEF DeletedBy
  <2>. QED  BY <2>2, <2>3, ForcedDeleteOf
<1>13. CASE d = "delete_affinity_backend_service"
  <2>1. delete_affinity_backend_service(TRUE, f)
    BY <1>1, <1>13 DEF Exec
  <2>2. \E tr, cl : DeleteFrom(tr, BSAff, cl, TRUE, f)
    BY <2>1 DEF delete_affinity_backend_service, DeleteBackendService
  <2>3. DeletedBy(d) = {BSAff}
    BY <1>13 DEF DeletedBy
  <2>. QED  BY <2>2, <2>3, ForcedDeleteOf
<1>14. CASE d = "delete_health_check"
  <2>1. delete_health_check(TRUE, f)
    BY <1>1, <1>14 DEF Exec
  <2>2. \E tr, cl : DeleteFrom(tr, HC, cl, TRUE, f)
    BY <2>1 DEF delete_health_check
  <2>3. DeletedBy(d) = {HC}
    BY <1>14 DEF DeletedBy
  <2>. QED  BY <2>2, <2>3, ForcedDeleteOf
<1>15. CASE d = "delete_mesh"
  <2>1. delete_mesh(TRUE, f)
    BY <1>1, <1>15 DEF Exec
  <2>2. \E tr, cl : DeleteFrom(tr, MESH, cl, TRUE, f)
    BY <2>1 DEF delete_mesh
  <2>3. DeletedBy(d) = {MESH}
    BY <1>15 DEF DeletedBy
  <2>. QED  BY <2>2, <2>3, ForcedDeleteOf
<1>16. CASE d = "delete_grpc_route"
  <2>1. delete_grpc_route(TRUE, f)
    BY <1>1, <1>16 DEF Exec
  <2>2. \E tr, cl : DeleteFrom(tr, GR, cl, TRUE, f)
    BY <2>1 DEF delete_grpc_route
  <2>3. DeletedBy(d) = {GR}
    BY <1>16 DEF DeletedBy
  <2>. QED  BY <2>2, <2>3, ForcedDeleteOf
<1>17. CASE d = "delete_http_route"
  <2>1. delete_http_route(TRUE, f)
    BY <1>1, <1>17 DEF Exec
  <2>2. \E tr, cl : DeleteFrom(tr, HR, cl, TRUE, f)
    BY <2>1 DEF delete_http_route
  <2>3. DeletedBy(d) = {HR}
    BY <1>17 DEF DeletedBy
  <2>. QED  BY <2>2, <2>3, ForcedDeleteOf
<1>18. CASE d = "delete_endpoint_policy"
  <2>1. delete_endpoint_policy(TRUE, f)
    BY <1>1, <1>18 DEF Exec
  <2>2. \E tr, cl : DeleteFrom(tr, EP, cl, TRUE, f)
    BY <2>1 DEF delete_endpoint_policy, DeletePolicy
  <2>3. DeletedBy(d) = {EP}
    BY <1>18 DEF DeletedBy
  <2>. QED  BY <2>2, <2>3, ForcedDeleteOf
<1>19. CASE d = "delete_server_tls_policy"
  <2>1. delete_server_tls_policy(TRUE, f)
    BY <1>1, <1>19 DEF Exec
  <2>2. \E tr, cl : DeleteFrom(tr, STP, cl, TRUE, f)
    BY <2>1 DEF delete_server_tls_policy, DeletePolicy
  <2>3. DeletedBy(d) = {STP}
    BY <1>19 DEF DeletedBy
  <2>. QED  BY <2>2, <2>3, ForcedDeleteOf
<1>20. CASE d = "delete_client_tls_policy"
  <2>1. delete_client_tls_policy(TRUE, f)
    BY <1>1, <1>20 DEF Exec
  <2>2. \E tr, cl : DeleteFrom(tr, CTP, cl, TRUE, f)
    BY <2>1 DEF delete_client_tls_policy, DeletePolicy
  <2>3. DeletedBy(d) = {CTP}
    BY <1>20 DEF DeletedBy
  <2>. QED  BY <2>2, <2>3, ForcedDeleteOf
<1>21. CASE d = "delete_authz_policy"
  <2>1. delete_authz_policy(TRUE, f)
    BY <1>1, <1>21 DEF Exec
  <2>2. \E tr, cl : DeleteFrom(tr, AZ, cl, TRUE, f)
    BY <2>1 DEF delete_authz_policy, DeletePolicy
  <2>3. DeletedBy(d) = {AZ}
    BY <1>21 DEF DeletedBy
  <2>. QED  BY <2>2, <2>3, ForcedDeleteOf
<1>. QED  BY <1>0, <1>2, <1>3, <1>4, <1>5, <1>6, <1>7, <1>8, <1>9, <1>10, <1>11, <1>12, <1>13, <1>14, <1>15, <1>16, <1>17, <1>18, <1>19, <1>20, <1>21 DEF CleanupOps

-----------------------------------------------------------------------------
(* The cleanup lists are lists of forced deletes.                         *)

\* A call of a delete in cleanup's lists, with force=True.
ForceCalls == {Call(d, TRUE, "none") : d \in CleanupOps}

\* A call the caller may invoke that starts a forced cleanup.
LEMMA ForceCallOf ==
  ASSUME NEW d \in CleanupOps
  PROVE  Call(d, TRUE, "none") \in ForceCalls
BY DEF ForceCalls

\* With enable_dualstack, the base class's list.
LEMMA ManagerForceCalls ==
  ASSUME EnableDualstack = TRUE
  PROVE  manager_cleanup(TRUE) \in Seq(ForceCalls)
<1>. DEFINE D(op) == Call(op, TRUE, "none")
<1>1. << D("delete_firewall_rules"), D("delete_forwarding_rule"),
         D("delete_alternative_forwarding_rule"), D("delete_target_http_proxy"),
         D("delete_target_grpc_proxy") >> \in Seq(ForceCalls)
  BY DEF ForceCalls, CleanupOps
<1>2. << D("delete_forwarding_rule_ipv6"), D("delete_target_proxy_ipv6") >>
        \in Seq(ForceCalls)
  BY DEF ForceCalls, CleanupOps
<1>3. << D("delete_alternative_target_grpc_proxy"), D("delete_url_map"),
         D("delete_alternative_url_map"), D("delete_backend_service"),
         D("delete_alternative_backend_service"),
         D("delete_affinity_backend_service"), D("delete_health_check") >>
        \in Seq(ForceCalls)
  BY DEF ForceCalls, CleanupOps
<1>4. manager_cleanup(TRUE) =
        << D("delete_firewall_rules"), D("delete_forwarding_rule"),
           D("delete_alternative_forwarding_rule"), D("delete_target_http_proxy"),
           D("delete_target_grpc_proxy") >>
        \o << D("delete_forwarding_rule_ipv6"), D("delete_target_proxy_ipv6") >>
        \o << D("delete_alternative_target_grpc_proxy"), D("delete_url_map"),
              D("delete_alternative_url_map"), D("delete_backend_service"),
              D("delete_alternative_backend_service"),
              D("delete_affinity_backend_service"), D("delete_health_check") >>
  BY DEF manager_cleanup
<1>5. << D("delete_firewall_rules"), D("delete_forwarding_rule"),
         D("delete_alternative_forwarding_rule"), D("delete_target_http_proxy"),
         D("delete_target_grpc_proxy") >>
      \o << D("delete_forwarding_rule_ipv6"), D("delete_target_proxy_ipv6") >>
        \in Seq(ForceCalls)
  BY <1>1, <1>2, ConcatProperties
<1>. QED  BY <1>3, <1>4, <1>5, ConcatProperties

\* With enable_dualstack, the manager's own list.
LEMMA CleanupForceCalls ==
  ASSUME EnableDualstack = TRUE
  PROVE  cleanup(TRUE) \in Seq(ForceCalls)
<1>1. manager_cleanup(TRUE) \in Seq(ForceCalls)
  BY ManagerForceCalls
<1>2. CASE Flavor = "appnet"
  <2>1. << Call("delete_http_route", TRUE, "none"),
           Call("delete_grpc_route", TRUE, "none"),
           Call("delete_mesh", TRUE, "none") >> \in Seq(ForceCalls)
    BY DEF ForceCalls, CleanupOps
  <2>. QED  BY <1>1, <1>2, <2>1, ConcatProperties DEF cleanup, appnet_cleanup
<1>3. CASE Flavor = "secure"
  <2>1. << Call("delete_endpoint_policy", TRUE, "none"),
           Call("delete_server_tls_policy", TRUE, "none"),
           Call("delete_client_tls_policy", TRUE, "none"),
           Call("delete_authz_policy", TRUE, "none") >> \in Seq(ForceCalls)
    BY DEF ForceCalls, CleanupOps
  <2>. QED  BY <1>1, <1>3, <2>1, ConcatProperties DEF cleanup, secure_cleanup
<1>4. CASE Flavor = "base"
  BY <1>1, <1>4 DEF cleanup
<1>. QED  BY <1>2, <1>3, <1>4, ConstantsAssumption

-----------------------------------------------------------------------------
(* The project holds only the manager's own resources.                    *)

\* A step that adds to the project only resources the manager's cleanup deletes.
RemoteStep == remote' \subseteq remote \cup FlavorRes

\* Which resources the manager's own cleanup deletes, by flavor.
LEMMA FlavorResFacts ==
  /\ {HC, BS, BSAlt, BSAff, UM, UMAlt, TPGrpc, TPHttp, TP6, TPAlt, FR, FR6, FRAlt,
      FW, FW6} \subseteq FlavorRes
  /\ Flavor = "appnet" => {HR, GR, MESH} \subseteq FlavorRes
  /\ Flavor = "secure" => {EP, STP, CTP, AZ} \subseteq FlavorRes
BY DEF FlavorRes, BaseRes

\* The remote effect of the helpers the methods are built from.
LEMMA HelperRemote ==
  /\ \A s, r, deps, f : CreateInto(s, r, deps, f) => remote' \subseteq remote \cup {r}
  /\ \A s, r, deps, f, g :
       CreateThenGet(s, r, deps, f, g) => remote' \subseteq remote \cup {r}
  /\ \A tr, r, cl, force, f : DeleteFrom(tr, r, cl, force, f) => remote' \subseteq remote
  /\ NoneError => remote' = remote
BY DEF CreateInto, CreateThenGet, RemoteCreate, DeleteFrom, RemoteDelete,
       NoneError, project

\* Every method call of the manager's class adds only resources of the class.
LEMMA ExecRemote ==
  ASSUME NEW c \in OwnCalls, NEW f \in Faults, NEW g \in Faults, Exec(c, f, g)
  PROVE  RemoteStep
<1>. USE FlavorResFacts, HelperRemote DEF RemoteStep
<1>0. c \in MethodCalls /\ c.op \notin ForeignOps
  BY DEF OwnCalls
<1>1. CASE \/ c.op = "create_health_check" /\ create_health_check(f)
           \/ c.op = "create_backend_service" /\ create_backend_service(c.arg, f)
           \/ c.op = "create_alternative_backend_service"
              /\ create_alternative_backend_service(f)
           \/ c.op = "create_affinity_backend_service"
              /\ create_affinity_backend_service(f)
           \/ c.op = "create_url_map" /\ create_url_map(f)
           \/ c.op = "create_alternative_url_map"
              /\ create_alternative_url_map(c.arg, f)
  BY <1>1 DEF create_health_check, create_backend_service,
              create_alternative_backend_service, create_affinity_backend_service,
              create_url_map, create_alternative_url_map, project
<1>2. CASE \/ c.op = "load_backend_service" /\ load_backend_service(f)
           \/ c.op = "load_alternative_backend_service"
              /\ load_alternative_backend_service(f)
           \/ c.op = "load_affinity_backend_service"
              /\ load_affinity_backend_service(f)
           \/ c.op = "patch_url_map" /\ patch_url_map(c.arg, f)
           \/ c.op = "backend_service_apply_client_mtls_policy"
              /\ backend_service_apply_client_mtls_policy(f)
  BY <1>2 DEF load_backend_service, load_alternative_backend_service,
              load_affinity_backend_service, LoadBackendService, patch_url_map,
              backend_service_apply_client_mtls_policy, project
<1>3. CASE \/ c.op = "delete_health_check" /\ delete_health_check(c.force, f)
           \/ c.op = "delete_backend_service" /\ delete_backend_service(c.force, f)
           \/ c.op = "delete_alternative_backend_service"
              /\ delete_alternative_backend_service(c.force, f)
           \/ c.op = "delete_affinity_backend_service"
              /\ delete_affinity_backend_service(c.force, f)
           \/ c.op = "delete_url_map" /\ delete_url_map(c.force, f)
           \/ c.op = "delete_alternative_url_map"
              /\ delete_alternative_url_map(c.force, f)
           \/ c.op = "delete_target_grpc_proxy"
              /\ delete_target_grpc_proxy(c.force, f)
           \/ c.op = "delete_target_http_proxy"
              /\ delete_target_http_proxy(c.force, f)
           \/ c.op = "delete_target_proxy_ipv6"
              /\ delete_target_proxy_ipv6(c.force, f)
           \/ c.op = "delete_alternative_target_grpc_proxy"
              /\ delete_alternative_target_grpc_proxy(c.force, f)
  BY <1>3 DEF delete_health_check, delete_backend_service,
              delete_alternative_backend_service, delete_affinity_backend_service,
              DeleteBackendService, delete_url_map, delete_alternative_url_map,
              delete_target_grpc_proxy, delete_target_http_proxy, DeleteProxy,
              delete_target_proxy_ipv6, delete_alternative_target_grpc_proxy
<1>4. CASE \/ c.op = "delete_forwarding_rule" /\ delete_forwarding_rule(c.force, f)
           \/ c.op = "delete_forwarding_rule_ipv6"
              /\ delete_forwarding_rule_ipv6(c.force, f)
           \/ c.op = "delete_alternative_forwarding_rule"
              /\ delete_alternative_forwarding_rule(c.force, f)
           \/ c.op = "delete_mesh" /\ delete_mesh(c.force, f)
           \/ c.op = "delete_grpc_route" /\ delete_grpc_route(c.force, f)
           \/ c.op = "delete_http_route" /\ delete_http_route(c.force, f)
           \/ c.op = "delete_server_tls_policy"
              /\ delete_server_tls_policy(c.force, f)
           \/ c.op = "delete_client_tls_policy"
              /\ delete_client_tls_policy(c.force, f)
           \/ c.op = "delete_authz_policy" /\ delete_authz_policy(c.force, f)
           \/ c.op = "delete_endpoint_policy" /\ delete_endpoint_policy(c.force, f)
  BY <1>4 DEF delete_forwarding_rule, delete_forwarding_rule_ipv6,
              delete_alternative_forwarding_rule, DeleteForwardingRule,
              delete_mesh, delete_grpc_route, delete_http_route,
              delete_server_tls_policy, delete_client_tls_policy,
              delete_authz_policy, delete_endpoint_policy, DeletePolicy
<1>5. CASE \/ c.op = "create_target_proxy" /\ create_target_proxy(f)
           \/ c.op = "create_target_proxy_ipv6" /\ create_target_proxy_ipv6(f)
           \/ c.op = "create_alternative_target_proxy"
              /\ create_alternative_target_proxy(f)
  BY <1>5 DEF create_target_proxy, ProxyOfKind, create_target_proxy_ipv6,
              create_alternative_target_proxy, project
<1>6. CASE \/ c.op = "create_forwarding_rule" /\ create_forwarding_rule(f)
           \/ c.op = "create_forwarding_rule_ipv6" /\ create_forwarding_rule_ipv6(f)
           \/ c.op = "create_alternative_forwarding_rule"
              /\ create_alternative_forwarding_rule(f)
  BY <1>6 DEF create_forwarding_rule, create_forwarding_rule_ipv6,
              create_alternative_forwarding_rule, CreateForwardingRule
<1>7. CASE \/ c.op = "create_firewall_rules" /\ create_firewall_rules(c.arg, f, g)
           \/ c.op = "delete_firewall_rules" /\ delete_firewall_rules(c.force, f, g)
           \/ c.op = "delete_firewall_rule" /\ delete_firewall_rule(c.force, f)
           \/ c.op = "delete_firewall_rule_ipv6"
              /\ delete_firewall_rule_ipv6(c.force, f)
  BY <1>7 DEF create_firewall_rules, delete_firewall_rules, delete_firewall_rule,
              delete_firewall_rule_ipv6, manager, project
<1>8. CASE \/ c.op = "create_mesh" /\ create_mesh(f, g)
           \/ c.op = "create_grpc_route" /\ create_grpc_route(f, g)
           \/ c.op = "create_grpc_route_with_content"
              /\ create_grpc_route_with_content(c.arg, f, g)
           \/ c.op = "create_http_route_with_content"
              /\ create_http_route_with_content(c.arg, f, g)
  <2>1. Flavor = "appnet"
    BY <1>0, <1>8, FlavorOfOp DEF AppNetOps
  <2>. QED  BY <1>8, <2>1 DEF create_mesh, create_grpc_route,
                              create_grpc_route_with_content,
                              create_http_route_with_content
<1>9. CASE \/ c.op = "create_server_tls_policy"
              /\ create_server_tls_policy(c.arg, f, g)
           \/ c.op = "create_client_tls_policy"
              /\ create_client_tls_policy(c.arg, f, g)
           \/ c.op = "create_authz_policy" /\ create_authz_policy(f, g)
           \/ c.op = "create_endpoint_policy" /\ create_endpoint_policy(f, g)
  <2>1. Flavor = "secure"
    BY <1>0, <1>9, FlavorOfOp DEF SecureOps
  <2>. QED  BY <1>9, <2>1 DEF create_server_tls_policy, create_client_tls_policy,
                              TlsPolicy, create_authz_policy,
                              create_endpoint_policy, project
<1>. QED  BY <1>1, <1>2, <1>3, <1>4, <1>5, <1>6, <1>7, <1>8, <1>9 DEF Exec

-----------------------------------------------------------------------------
(* The steps of a forced cleanup.                                         *)

\* Every call the caller may invoke has a Boolean force argument.
LEMMA TopCallForce ==
  ASSUME NEW c \in TopCalls
  PROVE  c.force \in BOOLEAN
<1>1. CASE c \in MethodCalls
  BY <1>1, MethodCallArgs
<1>2. CASE c \in CompositeCalls
  <2>1. \/ \E p \in Protocols : c = Call("setup_for_grpc", FALSE, p)
        \/ \E p \in Protocols : c = Call("setup_backend_for_grpc", FALSE, p)
        \/ c = Op("setup_routing_rule_map_for_grpc")
        \/ \E force \in BOOLEAN : c = Call("cleanup", force, "none")
        \/ \E a \in TlsArgs : c = Call("setup_server_security", FALSE, a)
        \/ \E a \in TlsArgs : c = Call("setup_client_security", FALSE, a)
    BY <1>2 DEF CompositeCalls
  <2>2. CASE \E p \in Protocols : c = Call("setup_for_grpc", FALSE, p)
    BY <2>2 DEF Call
  <2>3. CASE \E p \in Protocols : c = Call("setup_backend_for_grpc", FALSE, p)
    BY <2>3 DEF Call
  <2>4. CASE c = Op("setup_routing_rule_map_for_grpc")
    BY <2>4 DEF Op, Call
  <2>5. CASE \E force \in BOOLEAN : c = Call("cleanup", force, "none")
    BY <2>5 DEF Call
  <2>6. CASE \E a \in TlsArgs : c = Call("setup_server_security", FALSE, a)
    BY <2>6 DEF Call
  <2>7. CASE \E a \in TlsArgs : c = Call("setup_client_security", FALSE, a)
    BY <2>7 DEF Call
  <2>. QED  BY <2>1, <2>2, <2>3, <2>4, <2>5, <2>6, <2>7
<1>. QED  BY <1>1, <1>2 DEF TopCalls

\* The forced list is a list of forced deletes, each resource at its place.
LEMMA ForceListFacts ==
  ASSUME EnableDualstack = TRUE
  PROVE  /\ ForceList \in Seq(ForceCalls)
         /\ \A x \in FlavorRes : /\ DelPos[x] \in 1..Len(ForceList)
                                 /\ x \in DeletedBy(ForceList[DelPos[x]].op)
<1>1. ForceList = cleanup(TRUE)
  BY DEF ForceList
<1>2. cleanup(TRUE) \in Seq(ForceCalls)
  BY CleanupForceCalls
<1>3. \A x \in FlavorRes : /\ DelPos[x] \in 1..Len(cleanup(TRUE))
                           /\ x \in DeletedBy(cleanup(TRUE)[DelPos[x]].op)
  BY DelPosDeletes
<1>. QED  BY <1>1, <1>2, <1>3, Zenon

(* Running the first call of a list of the class's calls: the project      *)
(* keeps only the class's resources, and the rest of the list is pending   *)
(* when the call returned, nothing when it raised.                        *)
LEMMA RunStep ==
  ASSUME TypeOK, RemoteInFlavor, NEW L \in Seq(OwnCalls), L # << >>, Run(L)
  PROVE  /\ RemoteInFlavor'
         /\ outcome' \in {"ok", "raised"}
         /\ outcome' = "raised" => pending' = << >>
         /\ outcome' = "ok" => pending' = Tail(L)
         /\ \E f, g \in Faults : Exec(Head(L), f, g)
<1>1. PICK f, g \in Faults : Exec(Head(L), f, g)
  BY DEF Run
<1>2. Head(L) \in OwnCalls
  BY HeadTailProperties
<1>3. RemoteStep
  BY <1>1, <1>2, ExecRemote
<1>4. outcome' \in {"ok", "raised"}
  BY <1>1, <1>2, ExecType DEF OwnCalls, StepTypeOK
<1>. QED  BY <1>1, <1>3, <1>4 DEF Run, RemoteStep, RemoteInFlavor

(* One more call of the forced cleanup returns: if the first k calls were  *)
(* made, the remaining list was pending and every resource but the        *)
(* firewall rules is deleted after place k, then the same holds of k + 1: *)
(* the call at place k + 1 added nothing and removed what it deletes.     *)
LEMMA ForceRunStep ==
  ASSUME EnableDualstack = TRUE, TypeOK, RemoteInFlavor',
         NEW k \in 0..(Len(ForceList) - 1), NEW L \in Seq(OwnCalls),
         Len(L) = Len(ForceList) - k,
         \A i \in 1..Len(L) : L[i] = ForceList[i + k],
         \A x \in remote \ {FW, FW6} : DelPos[x] > k,
         Run(L), outcome' = "ok"
  PROVE  ForceProgress(k + 1)'
<1>0. ForceList \in Seq(ForceCalls)
  BY ForceListFacts
<1>1. ForceList \in Seq(ForceCalls) /\ Len(ForceList) \in Nat
  BY <1>0, LenProperties
<1>3. k + 1 \in 1..Len(ForceList) /\ Len(L) >= 1
  BY <1>1, SMT
<1>2. L # << >> /\ Head(L) = ForceList[k + 1]
  <2>1. L # << >>
    BY <1>3
  <2>2. Head(L) = L[1]
    BY <2>1
  <2>3. L[1] = ForceList[1 + k]
    BY <1>3
  <2>. QED  BY <2>1, <2>2, <2>3
<1>4. PICK d \in CleanupOps : ForceList[k + 1] = Call(d, TRUE, "none")
  <2>1. ForceList[k + 1] \in ForceCalls
    BY <1>1, <1>3
  <2>. QED  BY <2>1 DEF ForceCalls
<1>5. PICK f, g \in Faults : Exec(Call(d, TRUE, "none"), f, g)
  BY <1>2, <1>4 DEF Run
<1>6. /\ remote' \subseteq remote
      /\ (DeletedBy(d) \ {FW, FW6}) \cap remote' = {}
  BY <1>5, ForceDeleteStep
<1>7. pending' = Tail(L)
  BY DEF Run
<1>8. /\ Len(pending') = Len(ForceList) - (k + 1)
      /\ \A i \in 1..Len(pending') : pending'[i] = ForceList[i + (k + 1)]
  BY <1>2, <1>7, HeadTailProperties
<1>9. ASSUME NEW x \in remote' \ {FW, FW6} PROVE DelPos[x] > k + 1
  <2>1. DelPos[x] > k
    BY <1>6
  <2>2. x \in FlavorRes
    BY DEF RemoteInFlavor
  <2>3. DelPos[x] \in 1..Len(ForceList) /\ x \in DeletedBy(ForceList[DelPos[x]].op)
    BY <2>2, ForceListFacts
  <2>4. DelPos[x] # k + 1
    BY <1>4, <1>6, <2>3 DEF Call
  <2>. QED  BY <2>1, <2>3, <2>4
<1>. QED  BY <1>8, <1>9 DEF ForceProgress

-----------------------------------------------------------------------------
(* The invariant is inductive.                                            *)

LEMMA InitIInv == Init => IInv
<1>. SUFFICES ASSUME Init PROVE IInv
  OBVIOUS
<1>1. TypeOK
  BY InitTypeOK
<1>. QED  BY <1>1 DEF Init, IInv, RemoteInFlavor, RaisedIdle, ForceInv

LEMMA NextIInv ==
  ASSUME EnableDualstack = TRUE
  PROVE  IInv /\ [Next]_vars => IInv'
<1>. SUFFICES ASSUME IInv, [Next]_vars PROVE IInv'
  OBVIOUS
<1>0. TypeOK /\ RemoteInFlavor /\ RaisedIdle /\ ForceInv
  BY DEF IInv
<1>1. TypeOK'
  BY <1>0, NextTypeOK
<1>2. ASSUME NEW c \in TopCalls, Invoke(c) PROVE IInv'
  <2>1. Expand(c) \in Seq(OwnCalls) /\ Expand(c) # << >>
    BY ExpandType
  <2>2. /\ RemoteInFlavor'
        /\ outcome' \in {"ok", "raised"}
        /\ outcome' = "raised" => pending' = << >>
    BY <1>0, <1>2, <2>1, RunStep DEF Invoke
  <2>3. RaisedIdle'
    BY <2>2 DEF RaisedIdle
  <2>4. ForceInv'
    <3>. SUFFICES ASSUME topOp' = "force_cleanup", outcome' = "ok"
                  PROVE  \E k \in 0..Len(ForceList) : ForceProgress(k)'
      BY DEF ForceInv
    <3>1. c.op = "cleanup" /\ c.force = TRUE
      BY <1>2, TopCallForce DEF Invoke
    <3>2. Expand(c) = ForceList
      BY <3>1, Zenon DEF Expand, ForceList
    <3>3. ForceList \in Seq(ForceCalls) /\ Len(ForceList) \in Nat
      BY ForceListFacts, LenProperties
    <3>4. Len(ForceList) >= 1
      BY <2>1, <3>2, <3>3, EmptySeq
    <3>5. \A x \in remote \ {FW, FW6} : DelPos[x] > 0
      BY <1>0, ForceListFacts DEF RemoteInFlavor
    <3>6. ForceProgress(0 + 1)'
      BY <1>0, <1>2, <2>1, <2>2, <3>2, <3>3, <3>4, <3>5, ForceRunStep DEF Invoke
    <3>. QED  BY <3>3, <3>4, <3>6
  <2>. QED  BY <1>1, <2>2, <2>3, <2>4 DEF IInv
<1>3. CASE Continue
  <2>1. pending # << >> /\ Run(pending) /\ topOp' = topOp
    BY <1>3 DEF Continue
  <2>2. outcome = "ok" /\ pending \in Seq(OwnCalls)
    BY <1>0, <2>1 DEF RaisedIdle, TypeOK, CallerTypeOK
  <2>3. /\ RemoteInFlavor'
        /\ outcome' \in {"ok", "raised"}
        /\ outcome' = "raised" => pending' = << >>
    BY <1>0, <2>1, <2>2, RunStep
  <2>4. RaisedIdle'
    BY <2>3 DEF RaisedIdle
  <2>5. ForceInv'
    <3>. SUFFICES ASSUME topOp' = "force_cleanup", outcome' = "ok"
                  PROVE  \E k \in 0..Len(ForceList) : ForceProgress(k)'
      BY DEF ForceInv
    <3>1. PICK k \in 0..Len(ForceList) : ForceProgress(k)
      BY <1>0, <2>1, <2>2 DEF ForceInv
    <3>2. Len(ForceList) \in Nat
      BY ForceListFacts, LenProperties
    <3>3. k \in 0..(Len(ForceList) - 1)
      BY <2>1, <3>1, <3>2, EmptySeq DEF ForceProgress
    <3>4. ForceProgress(k + 1)'
      BY <1>0, <2>1, <2>2, <2>3, <3>1, <3>3, ForceRunStep DEF ForceProgress
    <3>. QED  BY <3>2, <3>3, <3>4
  <2>. QED  BY <1>1, <2>3, <2>4, <2>5 DEF IInv
<1>4. CASE Restart
  BY <1>0, <1>1, <1>4 DEF Restart, project, IInv, RemoteInFlavor, RaisedIdle,
                          ForceInv
<1>5. CASE UNCHANGED vars
  <2>1. remote' = remote /\ pending' = pending /\ topOp' = topOp
        /\ outcome' = outcome
    BY <1>5 DEF vars
  <2>2. RemoteInFlavor' /\ RaisedIdle'
    BY <1>0, <2>1 DEF RemoteInFlavor, RaisedIdle
  <2>3. ForceInv'
    <3>. SUFFICES ASSUME topOp' = "force_cleanup", outcome' = "ok"
                  PROVE  \E k \in 0..Len(ForceList) : ForceProgress(k)'
      BY DEF ForceInv
    <3>1. PICK k \in 0..Len(ForceList) : ForceProgress(k)
      BY <1>0, <2>1 DEF ForceInv
    <3>. QED  BY <2>1, <3>1 DEF ForceProgress
  <2>. QED  BY <1>1, <2>2, <2>3 DEF IInv
<1>. QED  BY <1>2, <1>3, <1>4, <1>5 DEF Next

\* When the list is exhausted, only the firewall rules may remain.
LEMMA IInvComplete ==
  ASSUME EnableDualstack = TRUE, IInv
  PROVE  ForceCleanupComplete
<1>. SUFFICES ASSUME topOp = "force_cleanup", pending = << >>, outcome = "ok",
                     NEW x \in remote \ {FW, FW6}
              PROVE  FALSE
  BY DEF ForceCleanupComplete
<1>1. PICK k \in 0..Len(ForceList) : ForceProgress(k)
  BY DEF IInv, ForceInv
<1>2. Len(ForceList) \in Nat
  BY ForceListFacts, LenProperties
<1>3. k = Len(ForceList) /\ DelPos[x] > k
  BY <1>1, <1>2 DEF ForceProgress
<1>4. DelPos[x] \in 1..Len(ForceList)
  BY ForceListFacts DEF IInv, RemoteInFlavor
<1>. QED  BY <1>2, <1>3, <1>4

(* cleanup(force=True) "deletes whatever exists by name": with             *)
(* enable_dualstack, in every reachable state, once a forced cleanup has   *)
(* returned without an exception the project holds none of the manager's  *)
(* resources but its firewall rules, whatever creates, failed calls, lost *)
(* replies and restarts came before it.                                   *)
THEOREM ForceCleanupCorrect ==
  ASSUME EnableDualstack = TRUE
  PROVE  Spec => []ForceCleanupComplete
<1>1. Init => IInv
  BY InitIInv
<1>2. IInv /\ [Next]_vars => IInv'
  BY NextIInv
<1>3. IInv => ForceCleanupComplete
  BY IInvComplete
<1>. QED  BY <1>1, <1>2, <1>3, PTL DEF Spec

=============================================================================
