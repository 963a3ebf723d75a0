--------------------------- MODULE CleanupOrderProofs ---------------------------
(***************************************************************************)
(* cleanup() deletes every resource before the resources it references.   *)
(* The references a resource may carry are fixed by the method that       *)
(* creates it (or patches it): a forwarding rule its proxy, a proxy its URL *)
(* map, a URL map a backend service, a backend service the health check;  *)
(* for the AppNet manager a route its mesh and a backend service, for the  *)
(* Secure manager an endpoint policy its server TLS and authorization      *)
(* policies, and a patched backend service its client TLS policy.         *)
(* RefsBounded says so of every reachable state; the order of cleanup()'s  *)
(* call list agrees with MayRef, so cleanup's order respects references.   *)
(***************************************************************************)
EXTENDS TrafficDirectorProofs

\* The resources each resource may reference, as the creating methods give them.
MayRef ==
  [r \in Res |->
     CASE r = FR -> {TPGrpc, TPHttp}
       [] r = FR6 -> {TP6}
       [] r = FRAlt -> {TPAlt}
       [] r \in {TPGrpc, TPHttp, TP6} -> {UM}
       [] r = TPAlt -> {UMAlt}
       [] r \in {UM, UMAlt} -> {BS, BSAlt, BSAff}
       [] r = BS -> {HC} \cup (IF Flavor = "secure" THEN {CTP} ELSE {})
       [] r \in {BSAlt, BSAff} -> {HC}
       [] r \in {GR, HR} /\ Flavor = "appnet" -> {MESH, BS, BSAlt, BSAff}
       [] r = EP /\ Flavor = "secure" -> {STP, AZ}
       [] OTHER -> {}]

RefsBounded == \A q \in Res : refs[q] \subseteq MayRef[q]

\* A step that sets the references of at most one resource, within MayRef.
RefsStep ==
  \/ refs' = refs
  \/ \E r \in Res, D \in SUBSET Res :
       D \subseteq MayRef[r] /\ refs' = [refs EXCEPT ![r] = D]

\* Such a step keeps the references bounded.
LEMMA RefsStepBounded ==
  ASSUME TypeOK, RefsBounded, RefsStep
  PROVE  RefsBounded'
BY DEF RefsStep, RefsBounded, TypeOK, ProjectTypeOK

\* A remote create sets the new resource's references to deps.
LEMMA CreateIntoRefs ==
  ASSUME NEW s, NEW r \in Res, NEW deps \in SUBSET Res, NEW f,
         deps \subseteq MayRef[r], CreateInto(s, r, deps, f)
  PROVE  RefsStep
BY DEF CreateInto, RemoteCreate, project, RefsStep

\* A remote delete empties the deleted resource's references.
LEMMA DeleteFromRefs ==
  ASSUME NEW tracked, NEW r \in Res, NEW cleared, NEW force, NEW f,
         DeleteFrom(tracked, r, cleared, force, f)
  PROVE  RefsStep
<1>1. {} \subseteq MayRef[r]
  OBVIOUS
<1>. QED  BY <1>1 DEF DeleteFrom, RemoteDelete, project, RefsStep

\* A create followed by a get sets the new resource's references to deps.
LEMMA CreateThenGetRefs ==
  ASSUME NEW s, NEW r \in Res, NEW deps \in SUBSET Res, NEW f, NEW g,
         deps \subseteq MayRef[r], CreateThenGet(s, r, deps, f, g)
  PROVE  RefsStep
BY DEF CreateThenGet, RemoteCreate, project, RefsStep

\* A method that raises on a None field changes no reference.
LEMMA NoneErrorRefs ==
  ASSUME NoneError
  PROVE  RefsStep
BY DEF NoneError, project, RefsStep

\* What MayRef allows each created resource to reference.
LEMMA MayRefValues ==
  /\ MayRef[HC] = {} /\ MayRef[FW] = {} /\ MayRef[FW6] = {}
  /\ MayRef[BS] = {HC} \cup (IF Flavor = "secure" THEN {CTP} ELSE {})
  /\ MayRef[BSAlt] = {HC} /\ MayRef[BSAff] = {HC}
  /\ MayRef[UM] = {BS, BSAlt, BSAff} /\ MayRef[UMAlt] = {BS, BSAlt, BSAff}
  /\ MayRef[TPGrpc] = {UM} /\ MayRef[TPHttp] = {UM} /\ MayRef[TP6] = {UM}
  /\ MayRef[TPAlt] = {UMAlt}
  /\ MayRef[FR] = {TPGrpc, TPHttp} /\ MayRef[FR6] = {TP6}
  /\ MayRef[FRAlt] = {TPAlt}
  /\ MayRef[GR] = IF Flavor = "appnet" THEN {MESH, BS, BSAlt, BSAff} ELSE {}
  /\ MayRef[HR] = IF Flavor = "appnet" THEN {MESH, BS, BSAlt, BSAff} ELSE {}
  /\ MayRef[EP] = IF Flavor = "secure" THEN {STP, AZ} ELSE {}
  /\ MayRef[MESH] = {} /\ MayRef[STP] = {} /\ MayRef[CTP] = {} /\ MayRef[AZ] = {}
BY DEF MayRef, Res, HC, BS, BSAlt, BSAff, UM, UMAlt, TPGrpc, TPHttp, TP6, TPAlt,
       FR, FR6, FRAlt, FW, FW6, MESH, GR, HR, STP, CTP, AZ, EP

\* A set field holds the resource of its kind.
LEMMA FieldValues ==
  ASSUME TypeOK
  PROVE  /\ slot.health_check # Absent => slot.health_check = HC
         /\ slot.backend_service # Absent => slot.backend_service = BS
         /\ slot.alternative_backend_service # Absent =>
              slot.alternative_backend_service = BSAlt
         /\ slot.affinity_backend_service # Absent =>
              slot.affinity_backend_service = BSAff
         /\ slot.url_map # Absent => slot.url_map = UM
         /\ slot.alternative_url_map # Absent => slot.alternative_url_map = UMAlt
         /\ slot.target_proxy # Absent => slot.target_proxy \in {TPGrpc, TPHttp}
         /\ slot.target_proxy_ipv6 # Absent => slot.target_proxy_ipv6 = TP6
         /\ slot.alternative_target_proxy # Absent =>
              slot.alternative_target_proxy = TPAlt
         /\ slot.mesh # Absent => slot.mesh = MESH
         /\ slot.server_tls_policy # Absent => slot.server_tls_policy = STP
         /\ slot.authz_policy # Absent => slot.authz_policy = AZ
BY SlotsDomain DEF TypeOK, ManagerTypeOK, SlotRes

\* The resources the creates make are resources of the project.
LEMMA ResMembers ==
  {HC, BS, BSAlt, BSAff, UM, UMAlt, TPGrpc, TPHttp, TP6, TPAlt, FR, FR6, FRAlt,
   MESH, GR, HR, STP, CTP, AZ, EP} \subseteq Res
BY DEF Res


\* A method only a subclass has runs only in a manager of that subclass.
LEMMA FlavorOfOp ==
  /\ \A op \in AppNetOps : op \notin ForeignOps => Flavor = "appnet"
  /\ \A op \in SecureOps : op \notin ForeignOps => Flavor = "secure"
BY ConstantsAssumption DEF ForeignOps, AppNetOps, SecureOps

\* Every method call sets the references of at most one resource, to
\* references its creating method allows.
LEMMA ExecRefs ==
  ASSUME TypeOK, RefsBounded, NEW c \in OwnCalls, NEW f \in Faults,
         NEW g \in Faults, Exec(c, f, g)
  PROVE  RefsStep
<1>. USE ResMembers, MayRefValues, FieldValues
<1>0. c \in MethodCalls /\ c.op \notin ForeignOps
  BY DEF OwnCalls
<1>1. HealthCheckRef \subseteq {HC} /\ HealthCheckRef \in SUBSET Res
  BY HealthCheckRefType DEF HealthCheckRef
<1>2. CASE c.op = "create_health_check" /\ create_health_check(f)
  BY <1>2, CreateIntoRefs, NoneErrorRefs DEF create_health_check, NoneError
<1>3. CASE \/ c.op = "create_backend_service" /\ create_backend_service(c.arg, f)
           \/ c.op = "create_alternative_backend_service"
              /\ create_alternative_backend_service(f)
           \/ c.op = "create_affinity_backend_service"
              /\ create_affinity_backend_service(f)
  BY <1>1, <1>3, CreateIntoRefs
  DEF create_backend_service, create_alternative_backend_service,
      create_affinity_backend_service
<1>4. CASE \/ c.op = "load_backend_service" /\ load_backend_service(f)
           \/ c.op = "load_alternative_backend_service"
              /\ load_alternative_backend_service(f)
           \/ c.op = "load_affinity_backend_service"
              /\ load_affinity_backend_service(f)
  BY <1>4 DEF load_backend_service, load_alternative_backend_service,
              load_affinity_backend_service, LoadBackendService, project, RefsStep
<1>5. CASE \/ c.op = "delete_backend_service" /\ delete_backend_service(c.force, f)
           \/ c.op = "delete_alternative_backend_service"
              /\ delete_alternative_backend_service(c.force, f)
           \/ c.op = "delete_affinity_backend_service"
              /\ delete_affinity_backend_service(c.force, f)
           \/ c.op = "delete_health_check" /\ delete_health_check(c.force, f)
           \/ c.op = "delete_url_map" /\ delete_url_map(c.force, f)
           \/ c.op = "delete_alternative_url_map"
              /\ delete_alternative_url_map(c.force, f)
  BY <1>5, DeleteFromRefs
  DEF delete_backend_service, delete_alternative_backend_service,
      delete_affinity_backend_service, DeleteBackendService,
      delete_health_check, delete_url_map, delete_alternative_url_map
<1>6. CASE c.op = "create_url_map" /\ create_url_map(f)
  BY <1>6, CreateIntoRefs, NoneErrorRefs DEF create_url_map
<1>7. CASE c.op = "create_alternative_url_map" /\ create_alternative_url_map(c.arg, f)
  <2>1. c.arg \in BSSlots \cup {"none"}
    BY <1>0, <1>7, MethodCallArgs
  <2>. DEFINE target == IF c.arg = "none" THEN slot.alternative_backend_service
                        ELSE slot[c.arg]
  <2>2. target # Absent => {target} \subseteq {BS, BSAlt, BSAff}
    BY <2>1 DEF BSSlots
  <2>. QED  BY <1>7, <2>2, CreateIntoRefs, NoneErrorRefs
            DEF create_alternative_url_map
<1>8. CASE c.op = "patch_url_map" /\ patch_url_map(c.arg, f)
  <2>1. c.arg \in BSSlots
    BY <1>0, <1>8, MethodCallArgs
  <2>2. slot[c.arg] # Absent => slot[c.arg] \in {BS, BSAlt, BSAff}
    BY <2>1 DEF BSSlots
  <2>3. CASE slot[c.arg] = Absent \/ slot.url_map = Absent
    BY <1>8, <2>3, NoneErrorRefs DEF patch_url_map
  <2>4. CASE slot[c.arg] # Absent /\ slot.url_map # Absent
    <3>1. {slot[c.arg]} \subseteq MayRef[UM] /\ {slot[c.arg]} \in SUBSET Res
      BY <2>2, <2>4
    <3>2. refs' = refs \/ refs' = [refs EXCEPT ![UM] = {slot[c.arg]}]
      BY <1>8, <2>4 DEF patch_url_map
    <3>. QED  BY <3>1, <3>2 DEF RefsStep
  <2>. QED  BY <2>3, <2>4
<1>9. CASE \/ c.op = "create_target_proxy" /\ create_target_proxy(f)
           \/ c.op = "create_target_proxy_ipv6" /\ create_target_proxy_ipv6(f)
           \/ c.op = "create_alternative_target_proxy"
              /\ create_alternative_target_proxy(f)
  <2>1. ASSUME NEW http, NEW r \in {TPGrpc, TPHttp}, ProxyOfKind(http, r, f)
        PROVE  RefsStep
    BY <2>1, CreateIntoRefs, NoneErrorRefs DEF ProxyOfKind
  <2>2. CASE create_target_proxy(f)
    BY <2>1, <2>2 DEF create_target_proxy, project, RefsStep
  <2>3. CASE create_target_proxy_ipv6(f)
    BY <2>3, CreateIntoRefs, NoneErrorRefs DEF create_target_proxy_ipv6
  <2>4. CASE create_alternative_target_proxy(f)
    BY <2>4, CreateIntoRefs, NoneErrorRefs DEF create_alternative_target_proxy
  <2>. QED  BY <1>9, <2>2, <2>3, <2>4
<1>10. CASE \/ c.op = "delete_target_grpc_proxy"
               /\ delete_target_grpc_proxy(c.force, f)
            \/ c.op = "delete_target_http_proxy"
               /\ delete_target_http_proxy(c.force, f)
            \/ c.op = "delete_target_proxy_ipv6"
               /\ delete_target_proxy_ipv6(c.force, f)
            \/ c.op = "delete_alternative_target_grpc_proxy"
               /\ delete_alternative_target_grpc_proxy(c.force, f)
  BY <1>10, DeleteFromRefs
  DEF delete_target_grpc_proxy, delete_target_http_proxy, DeleteProxy,
      delete_target_proxy_ipv6, delete_alternative_target_grpc_proxy
<1>11. CASE \/ c.op = "create_forwarding_rule" /\ create_forwarding_rule(f)
            \/ c.op = "create_forwarding_rule_ipv6" /\ create_forwarding_rule_ipv6(f)
            \/ c.op = "create_alternative_forwarding_rule"
               /\ create_alternative_forwarding_rule(f)
  BY <1>11, CreateIntoRefs, NoneErrorRefs
  DEF create_forwarding_rule, create_forwarding_rule_ipv6,
      create_alternative_forwarding_rule, CreateForwardingRule
<1>12. CASE \/ c.op = "delete_forwarding_rule" /\ delete_forwarding_rule(c.force, f)
            \/ c.op = "delete_forwarding_rule_ipv6"
               /\ delete_forwarding_rule_ipv6(c.force, f)
            \/ c.op = "delete_alternative_forwarding_rule"
               /\ delete_alternative_forwarding_rule(c.force, f)
  BY <1>12, DeleteFromRefs
  DEF delete_forwarding_rule, delete_forwarding_rule_ipv6,
      delete_alternative_forwarding_rule, DeleteForwardingRule
<1>13. CASE \/ c.op = "create_firewall_rules" /\ create_firewall_rules(c.arg, f, g)
            \/ c.op = "delete_firewall_rules" /\ delete_firewall_rules(c.force, f, g)
            \/ c.op = "delete_firewall_rule" /\ delete_firewall_rule(c.force, f)
            \/ c.op = "delete_firewall_rule_ipv6"
               /\ delete_firewall_rule_ipv6(c.force, f)
  BY <1>13 DEF create_firewall_rules, delete_firewall_rules, delete_firewall_rule,
               delete_firewall_rule_ipv6, project, RefsStep
<1>14. CASE \/ c.op = "create_mesh" /\ create_mesh(f, g)
            \/ c.op = "create_authz_policy" /\ create_authz_policy(f, g)
            \/ c.op = "create_server_tls_policy"
               /\ create_server_tls_policy(c.arg, f, g)
            \/ c.op = "create_client_tls_policy"
               /\ create_client_tls_policy(c.arg, f, g)
  BY <1>14, CreateThenGetRefs
  DEF create_mesh, create_authz_policy, create_server_tls_policy,
      create_client_tls_policy, TlsPolicy, project, RefsStep
<1>15. CASE c.op = "create_grpc_route" /\ create_grpc_route(f, g)
  <2>1. Flavor = "appnet"
    BY <1>0, <1>15, FlavorOfOp DEF AppNetOps
  <2>2. CASE slot.backend_service = Absent \/ slot.mesh = Absent
    BY <1>15, <2>2, NoneErrorRefs DEF create_grpc_route
  <2>3. CASE slot.backend_service # Absent /\ slot.mesh # Absent
    <3>1. {slot.backend_service, slot.mesh} = {BS, MESH}
      BY <2>3
    <3>. QED  BY <1>15, <2>1, <2>3, <3>1, CreateThenGetRefs DEF create_grpc_route
  <2>. QED  BY <2>2, <2>3
<1>16. CASE \/ c.op = "create_grpc_route_with_content"
               /\ create_grpc_route_with_content(c.arg, f, g)
            \/ c.op = "create_http_route_with_content"
               /\ create_http_route_with_content(c.arg, f, g)
  <2>1. Flavor = "appnet"
    BY <1>0, <1>16, FlavorOfOp DEF AppNetOps
  <2>2. BSOf[c.arg] \in {BS, BSAlt, BSAff}
    BY <1>0, <1>16, MethodCallArgs DEF BSOf, BSSlots
  <2>. QED  BY <1>16, <2>1, <2>2, CreateThenGetRefs
            DEF create_grpc_route_with_content, create_http_route_with_content
<1>17. CASE c.op = "create_endpoint_policy" /\ create_endpoint_policy(f, g)
  <2>1. Flavor = "secure"
    BY <1>0, <1>17, FlavorOfOp DEF SecureOps
  <2>2. PolicyRefs \subseteq {STP, AZ}
    BY DEF PolicyRefs
  <2>. QED  BY <1>17, <2>1, <2>2, CreateThenGetRefs DEF create_endpoint_policy
<1>18. CASE c.op = "backend_service_apply_client_mtls_policy"
            /\ backend_service_apply_client_mtls_policy(f)
  <2>1. Flavor = "secure"
    BY <1>0, <1>18, FlavorOfOp DEF SecureOps
  <2>2. CASE slot.backend_service = Absent
    BY <1>18, <2>2, NoneErrorRefs DEF backend_service_apply_client_mtls_policy
  <2>3. CASE slot.backend_service # Absent /\ slot.client_tls_policy = Absent
    BY <1>18, <2>3 DEF backend_service_apply_client_mtls_policy, project, RefsStep
  <2>4. CASE slot.backend_service # Absent /\ slot.client_tls_policy # Absent
    <3>1. refs' = refs \/ refs' = [refs EXCEPT ![BS] = refs[BS] \cup {CTP}]
      BY <1>18, <2>4 DEF backend_service_apply_client_mtls_policy
    <3>2. refs[BS] \cup {CTP} \in SUBSET Res /\ refs[BS] \cup {CTP} \subseteq MayRef[BS]
      BY <2>1 DEF TypeOK, ProjectTypeOK, RefsBounded, Res
    <3>. QED  BY <3>1, <3>2 DEF RefsStep
  <2>. QED  BY <2>2, <2>3, <2>4
<1>19. CASE \/ c.op = "delete_mesh" /\ delete_mesh(c.force, f)
            \/ c.op = "delete_grpc_route" /\ delete_grpc_route(c.force, f)
            \/ c.op = "delete_http_route" /\ delete_http_route(c.force, f)
            \/ c.op = "delete_server_tls_policy"
               /\ delete_server_tls_policy(c.force, f)
            \/ c.op = "delete_client_tls_policy"
               /\ delete_client_tls_policy(c.force, f)
            \/ c.op = "delete_authz_policy" /\ delete_authz_policy(c.force, f)
            \/ c.op = "delete_endpoint_policy" /\ delete_endpoint_policy(c.force, f)
  BY <1>19, DeleteFromRefs
  DEF delete_mesh, delete_grpc_route, delete_http_route, delete_server_tls_policy,
      delete_client_tls_policy, delete_authz_policy, delete_endpoint_policy,
      DeletePolicy
<1>. QED
  BY <1>2, <1>3, <1>4, <1>5, <1>6, <1>7, <1>8, <1>9, <1>10, <1>11, <1>12, <1>13,
     <1>14, <1>15, <1>16, <1>17, <1>18, <1>19
  DEF Exec


\* The reference bound holds initially.
LEMMA InitRefsBounded == Init => RefsBounded
BY DEF Init, RefsBounded

\* Every step sets references within the bound.
LEMMA NextRefsBounded == TypeOK /\ RefsBounded /\ [Next]_vars => RefsBounded'
<1>. SUFFICES ASSUME TypeOK, RefsBounded, [Next]_vars PROVE RefsBounded'
  OBVIOUS
<1>1. ASSUME NEW L \in Seq(OwnCalls), L # << >>, Run(L) PROVE RefsStep
  <2>1. Head(L) \in OwnCalls
    BY <1>1, HeadTailProperties
  <2>. QED  BY <1>1, <2>1, ExecRefs DEF Run
<1>2. ASSUME NEW c \in TopCalls, Invoke(c) PROVE RefsStep
  BY <1>1, <1>2, ExpandType DEF Invoke
<1>3. ASSUME Continue PROVE RefsStep
  BY <1>1, <1>3 DEF Continue, TypeOK, CallerTypeOK
<1>4. ASSUME Restart \/ UNCHANGED vars PROVE RefsStep
  BY <1>4 DEF Restart, project, vars, RefsStep
<1>5. RefsStep
  BY <1>2, <1>3, <1>4 DEF Next
<1>. QED  BY <1>5, RefsStepBounded

(* Where the base class's cleanup(force=True) deletes each resource: the   *)
(* firewall rules first, then forwarding rules, proxies, URL maps, backend *)
(* services, and the health check last.                                   *)
BasePos ==
  [x \in Res |->
     CASE x \in {FW, FW6} -> 1
       [] x = FR -> 2
       [] x = FRAlt -> 3
       [] x = TPHttp -> 4
       [] x = TPGrpc -> 5
       [] x = FR6 -> 6
       [] x = TP6 -> 7
       [] x = TPAlt -> 8
       [] x = UM -> 9
       [] x = UMAlt -> 10
       [] x = BS -> 11
       [] x = BSAlt -> 12
       [] x = BSAff -> 13
       [] x = HC -> 14
       [] OTHER -> 0]

\* The resources the base class's cleanup deletes.
BaseRes == {HC, BS, BSAlt, BSAff, UM, UMAlt, TPGrpc, TPHttp, TP6, TPAlt, FR, FR6,
            FRAlt, FW, FW6}

\* The resources the manager's own cleanup deletes.
FlavorRes ==
  BaseRes \cup (CASE Flavor = "appnet" -> {HR, GR, MESH}
                  [] Flavor = "secure" -> {EP, STP, CTP, AZ}
                  [] OTHER -> {})

(* Where the manager's cleanup deletes each resource: the AppNet manager   *)
(* deletes its routes and mesh before the base class's list, the Secure    *)
(* manager its policies after it.                                         *)
DelPos ==
  CASE Flavor = "appnet" ->
         [x \in Res |-> CASE x = HR -> 1 [] x = GR -> 2 [] x = MESH -> 3
                          [] OTHER -> BasePos[x] + 3]
    [] Flavor = "secure" ->
         [x \in Res |-> CASE x = EP -> 15 [] x = STP -> 16 [] x = CTP -> 17
                          [] x = AZ -> 18 [] OTHER -> BasePos[x]]
    [] OTHER -> BasePos

\* With enable_dualstack, the delete at each place of the base class's list.
LEMMA ManagerList ==
  ASSUME EnableDualstack = TRUE
  PROVE  LET order == manager_cleanup(TRUE) IN
         /\ Len(order) = 14
         /\ order[1].op = "delete_firewall_rules"
         /\ order[2].op = "delete_forwarding_rule"
         /\ order[3].op = "delete_alternative_forwarding_rule"
         /\ order[4].op = "delete_target_http_proxy"
         /\ order[5].op = "delete_target_grpc_proxy"
         /\ order[6].op = "delete_forwarding_rule_ipv6"
         /\ order[7].op = "delete_target_proxy_ipv6"
         /\ order[8].op = "delete_alternative_target_grpc_proxy"
         /\ order[9].op = "delete_url_map"
         /\ order[10].op = "delete_alternative_url_map"
         /\ order[11].op = "delete_backend_service"
         /\ order[12].op = "delete_alternative_backend_service"
         /\ order[13].op = "delete_affinity_backend_service"
         /\ order[14].op = "delete_health_check"
BY DEF manager_cleanup, Call

\* With enable_dualstack, the AppNet manager's list: routes, mesh, the base list.
LEMMA AppNetList ==
  ASSUME EnableDualstack = TRUE
  PROVE  LET order == appnet_cleanup(TRUE) IN
         /\ Len(order) = 17
         /\ order[1].op = "delete_http_route"
         /\ order[2].op = "delete_grpc_route"
         /\ order[3].op = "delete_mesh"
         /\ \A i \in 1..14 : order[i + 3] = manager_cleanup(TRUE)[i]
BY DEF appnet_cleanup, manager_cleanup, Call

\* With enable_dualstack, the Secure manager's list: the base list, the policies.
LEMMA SecureList ==
  ASSUME EnableDualstack = TRUE
  PROVE  LET order == secure_cleanup(TRUE) IN
         /\ Len(order) = 18
         /\ \A i \in 1..14 : order[i] = manager_cleanup(TRUE)[i]
         /\ order[15].op = "delete_endpoint_policy"
         /\ order[16].op = "delete_server_tls_policy"
         /\ order[17].op = "delete_client_tls_policy"
         /\ order[18].op = "delete_authz_policy"
BY DEF secure_cleanup, manager_cleanup, Call

\* The place of each resource in the base class's list.
LEMMA BasePosValues ==
  /\ BasePos[FW] = 1 /\ BasePos[FW6] = 1 /\ BasePos[FR] = 2 /\ BasePos[FRAlt] = 3
  /\ BasePos[TPHttp] = 4 /\ BasePos[TPGrpc] = 5 /\ BasePos[FR6] = 6
  /\ BasePos[TP6] = 7 /\ BasePos[TPAlt] = 8 /\ BasePos[UM] = 9
  /\ BasePos[UMAlt] = 10 /\ BasePos[BS] = 11 /\ BasePos[BSAlt] = 12
  /\ BasePos[BSAff] = 13 /\ BasePos[HC] = 14
BY DEF BasePos, Res, HC, BS, BSAlt, BSAff, UM, UMAlt, TPGrpc, TPHttp, TP6, TPAlt,
       FR, FR6, FRAlt, FW, FW6, MESH, GR, HR, STP, CTP, AZ, EP

\* The place of each resource in the manager's own list.
LEMMA DelPosValues ==
  /\ Flavor = "appnet" =>
       /\ DelPos[HR] = 1 /\ DelPos[GR] = 2 /\ DelPos[MESH] = 3
       /\ \A x \in BaseRes : DelPos[x] = BasePos[x] + 3
  /\ Flavor = "secure" =>
       /\ DelPos[EP] = 15 /\ DelPos[STP] = 16 /\ DelPos[CTP] = 17 /\ DelPos[AZ] = 18
       /\ \A x \in BaseRes : DelPos[x] = BasePos[x]
  /\ Flavor = "base" => DelPos = BasePos
BY DEF DelPos, BaseRes, Res, HC, BS, BSAlt, BSAff, UM, UMAlt, TPGrpc, TPHttp, TP6,
       TPAlt, FR, FR6, FRAlt, FW, FW6, MESH, GR, HR, STP, CTP, AZ, EP

\* A resource references only resources the manager's own cleanup deletes.
LEMMA MayRefInFlavor ==
  \A q \in Res : MayRef[q] # {} => q \in FlavorRes /\ MayRef[q] \subseteq FlavorRes
<1>. SUFFICES ASSUME NEW q \in Res, MayRef[q] # {}
              PROVE  q \in FlavorRes /\ MayRef[q] \subseteq FlavorRes
  OBVIOUS
<1>1. CASE Flavor = "appnet"
  BY <1>1, MayRefValues DEF FlavorRes, BaseRes, Res
<1>2. CASE Flavor = "secure"
  BY <1>2, MayRefValues DEF FlavorRes, BaseRes, Res
<1>3. CASE Flavor = "base"
  BY <1>3, MayRefValues DEF FlavorRes, BaseRes, Res
<1>. QED  BY <1>1, <1>2, <1>3, ConstantsAssumption

\* A resource is deleted before every resource it may reference.
LEMMA DelPosRespectsMayRef ==
  \A q \in Res : \A r \in MayRef[q] : DelPos[q] < DelPos[r]
<1>. SUFFICES ASSUME NEW q \in Res, NEW r \in MayRef[q]
              PROVE  DelPos[q] < DelPos[r]
  OBVIOUS
<1>1. q \in BaseRes \/ q \in {GR, HR, EP}
  BY MayRefValues DEF Res, BaseRes
<1>2. CASE Flavor = "appnet"
  BY <1>1, <1>2, MayRefValues, BasePosValues, DelPosValues DEF BaseRes
<1>3. CASE Flavor = "secure"
  BY <1>1, <1>3, MayRefValues, BasePosValues, DelPosValues DEF BaseRes
<1>4. CASE Flavor = "base"
  BY <1>1, <1>4, MayRefValues, BasePosValues, DelPosValues DEF BaseRes
<1>. QED  BY <1>2, <1>3, <1>4, ConstantsAssumption

\* The delete at a resource's place in the base class's list removes it.
LEMMA BaseDeletes ==
  ASSUME EnableDualstack = TRUE
  PROVE  \A x \in BaseRes : /\ BasePos[x] \in 1..14
                            /\ x \in DeletedBy(manager_cleanup(TRUE)[BasePos[x]].op)
<1>. SUFFICES ASSUME NEW x \in BaseRes
              PROVE  /\ BasePos[x] \in 1..14
                     /\ x \in DeletedBy(manager_cleanup(TRUE)[BasePos[x]].op)
  OBVIOUS
<1>1. CASE x = FW
  <2>1. BasePos[x] = 1
    BY <1>1, BasePosValues
  <2>2. manager_cleanup(TRUE)[1].op = "delete_firewall_rules"
    BY ManagerList
  <2>3. x \in DeletedBy("delete_firewall_rules")
    BY <1>1 DEF DeletedBy
  <2>4. BasePos[x] \in 1..14
    BY <2>1
  <2>5. x \in DeletedBy(manager_cleanup(TRUE)[BasePos[x]].op)
    BY <2>1, <2>2, <2>3, Zenon
  <2>. QED  BY <2>4, <2>5
<1>2. CASE x = FW6
  <2>1. BasePos[x] = 1
    BY <1>2, BasePosValues
  <2>2. manager_cleanup(TRUE)[1].op = "delete_firewall_rules"
    BY ManagerList
  <2>3. x \in DeletedBy("delete_firewall_rules")
    BY <1>2 DEF DeletedBy
  <2>4. BasePos[x] \in 1..14
    BY <2>1
  <2>5. x \in DeletedBy(manager_cleanup(TRUE)[BasePos[x]].op)
    BY <2>1, <2>2, <2>3, Zenon
  <2>. QED  BY <2>4, <2>5
<1>3. CASE x = FR
  <2>1. BasePos[x] = 2
    BY <1>3, BasePosValues
  <2>2. manager_cleanup(TRUE)[2].op = "delete_forwarding_rule"
    BY ManagerList
  <2>3. x \in DeletedBy("delete_forwarding_rule")
    BY <1>3 DEF DeletedBy
  <2>4. BasePos[x] \in 1..14
    BY <2>1
  <2>5. x \in DeletedBy(manager_cleanup(TRUE)[BasePos[x]].op)
    BY <2>1, <2>2, <2>3, Zenon
  <2>. QED  BY <2>4, <2>5
<1>4. CASE x = FRAlt
  <2>1. BasePos[x] = 3
    BY <1>4, BasePosValues
  <2>2. manager_cleanup(TRUE)[3].op = "delete_alternative_forwarding_rule"
    BY ManagerList
  <2>3. x \in DeletedBy("delete_alternative_forwarding_rule")
    BY <1>4 DEF DeletedBy
  <2>4. BasePos[x] \in 1..14
    BY <2>1
  <2>5. x \in DeletedBy(manager_cleanup(TRUE)[BasePos[x]].op)
    BY <2>1, <2>2, <2>3, Zenon
  <2>. QED  BY <2>4, <2>5
<1>5. CASE x = TPHttp
  <2>1. BasePos[x] = 4
    BY <1>5, BasePosValues
  <2>2. manager_cleanup(TRUE)[4].op = "delete_target_http_proxy"
    BY ManagerList
  <2>3. x \in DeletedBy("delete_target_http_proxy")
    BY <1>5 DEF DeletedBy
  <2>4. BasePos[x] \in 1..14
    BY <2>1
  <2>5. x \in DeletedBy(manager_cleanup(TRUE)[BasePos[x]].op)
    BY <2>1, <2>2, <2>3, Zenon
  <2>. QED  BY <2>4, <2>5
<1>6. CASE x = TPGrpc
  <2>1. BasePos[x] = 5
    BY <1>6, BasePosValues
  <2>2. manager_cleanup(TRUE)[5].op = "delete_target_grpc_proxy"
    BY ManagerList
  <2>3. x \in DeletedBy("delete_target_grpc_proxy")
    BY <1>6 DEF DeletedBy
  <2>4. BasePos[x] \in 1..14
    BY <2>1
  <2>5. x \in DeletedBy(manager_cleanup(TRUE)[BasePos[x]].op)
    BY <2>1, <2>2, <2>3, Zenon
  <2>. QED  BY <2>4, <2>5
<1>7. CASE x = FR6
  <2>1. BasePos[x] = 6
    BY <1>7, BasePosValues
  <2>2. manager_cleanup(TRUE)[6].op = "delete_forwarding_rule_ipv6"
    BY ManagerList
  <2>3. x \in DeletedBy("delete_forwarding_rule_ipv6")
    BY <1>7 DEF DeletedBy
  <2>4. BasePos[x] \in 1..14
    BY <2>1
  <2>5. x \in DeletedBy(manager_cleanup(TRUE)[BasePos[x]].op)
    BY <2>1, <2>2, <2>3, Zenon
  <2>. QED  BY <2>4, <2>5
<1>8. CASE x = TP6
  <2>1. BasePos[x] = 7
    BY <1>8, BasePosValues
  <2>2. manager_cleanup(TRUE)[7].op = "delete_target_proxy_ipv6"
    BY ManagerList
  <2>3. x \in DeletedBy("delete_target_proxy_ipv6")
    BY <1>8 DEF DeletedBy
  <2>4. BasePos[x] \in 1..14
    BY <2>1
  <2>5. x \in DeletedBy(manager_cleanup(TRUE)[BasePos[x]].op)
    BY <2>1, <2>2, <2>3, Zenon
  <2>. QED  BY <2>4, <2>5
<1>9. CASE x = TPAlt
  <2>1. BasePos[x] = 8
    BY <1>9, BasePosValues
  <2>2. manager_cleanup(TRUE)[8].op = "delete_alternative_target_grpc_proxy"
    BY ManagerList
  <2>3. x \in DeletedBy("delete_alternative_target_grpc_proxy")
    BY <1>9 DEF DeletedBy
  <2>4. BasePos[x] \in 1..14
    BY <2>1
  <2>5. x \in DeletedBy(manager_cleanup(TRUE)[BasePos[x]].op)
    BY <2>1, <2>2, <2>3, Zenon
  <2>. QED  BY <2>4, <2>5
<1>10. CASE x = UM
  <2>1. BasePos[x] = 9
    BY <1>10, BasePosValues
  <2>2. manager_cleanup(TRUE)[9].op = "delete_url_map"
    BY ManagerList
  <2>3. x \in DeletedBy("delete_url_map")
    BY <1>10 DEF DeletedBy
  <2>4. BasePos[x] \in 1..14
    BY <2>1
  <2>5. x \in DeletedBy(manager_cleanup(TRUE)[BasePos[x]].op)
    BY <2>1, <2>2, <2>3, Zenon
  <2>. QED  BY <2>4, <2>5
<1>11. CASE x = UMAlt
  <2>1. BasePos[x] = 10
    BY <1>11, BasePosValues
  <2>2. manager_cleanup(TRUE)[10].op = "delete_alternative_url_map"
    BY ManagerList
  <2>3. x \in DeletedBy("delete_alternative_url_map")
    BY <1>11 DEF DeletedBy
  <2>4. BasePos[x] \in 1..14
    BY <2>1
  <2>5. x \in DeletedBy(manager_cleanup(TRUE)[BasePos[x]].op)
    BY <2>1, <2>2, <2>3, Zenon
  <2>. QED  BY <2>4, <2>5
<1>12. CASE x = BS
  <2>1. BasePos[x] = 11
    BY <1>12, BasePosValues
  <2>2. manager_cleanup(TRUE)[11].op = "delete_backend_service"
    BY ManagerList
  <2>3. x \in DeletedBy("delete_backend_service")
    BY <1>12 DEF DeletedBy
  <2>4. BasePos[x] \in 1..14
    BY <2>1
  <2>5. x \in DeletedBy(manager_cleanup(TRUE)[BasePos[x]].op)
    BY <2>1, <2>2, <2>3, Zenon
  <2>. QED  BY <2>4, <2>5
<1>13. CASE x = BSAlt
  <2>1. BasePos[x] = 12
    BY <1>13, BasePosValues
  <2>2. manager_cleanup(TRUE)[12].op = "delete_alternative_backend_service"
    BY ManagerList
  <2>3. x \in DeletedBy("delete_alternative_backend_service")
    BY <1>13 DEF DeletedBy
  <2>4. BasePos[x] \in 1..14
    BY <2>1
  <2>5. x \in DeletedBy(manager_cleanup(TRUE)[BasePos[x]].op)
    BY <2>1, <2>2, <2>3, Zenon
  <2>. QED  BY <2>4, <2>5
<1>14. CASE x = BSAff
  <2>1. BasePos[x] = 13
    BY <1>14, BasePosValues
  <2>2. manager_cleanup(TRUE)[13].op = "delete_affinity_backend_service"
    BY ManagerList
  <2>3. x \in DeletedBy("delete_affinity_backend_service")
    BY <1>14 DEF DeletedBy
  <2>4. BasePos[x] \in 1..14
    BY <2>1
  <2>5. x \in DeletedBy(manager_cleanup(TRUE)[BasePos[x]].op)
    BY <2>1, <2>2, <2>3, Zenon
  <2>. QED  BY <2>4, <2>5
<1>15. CASE x = HC
  <2>1. BasePos[x] = 14
    BY <1>15, BasePosValues
  <2>2. manager_cleanup(TRUE)[14].op = "delete_health_check"
    BY ManagerList
  <2>3. x \in DeletedBy("delete_health_check")
    BY <1>15 DEF DeletedBy
  <2>4. BasePos[x] \in 1..14
    BY <2>1
  <2>5. x \in DeletedBy(manager_cleanup(TRUE)[BasePos[x]].op)
    BY <2>1, <2>2, <2>3, Zenon
  <2>. QED  BY <2>4, <2>5
<1>. QED  BY <1>1, <1>2, <1>3, <1>4, <1>5, <1>6, <1>7, <1>8, <1>9, <1>10, <1>11, <1>12, <1>13, <1>14, <1>15 DEF BaseRes

\* The delete at a resource's place in the manager's own list removes it.
LEMMA DelPosDeletes ==
  ASSUME EnableDualstack = TRUE
  PROVE  \A x \in FlavorRes : /\ DelPos[x] \in 1..Len(cleanup(TRUE))
                              /\ x \in DeletedBy(cleanup(TRUE)[DelPos[x]].op)
<1>. SUFFICES ASSUME NEW x \in FlavorRes
              PROVE  /\ DelPos[x] \in 1..Len(cleanup(TRUE))
                     /\ x \in DeletedBy(cleanup(TRUE)[DelPos[x]].op)
  OBVIOUS
<1>1. CASE Flavor = "appnet"
  <2>1. cleanup(TRUE) = appnet_cleanup(TRUE)
    BY <1>1 DEF cleanup
  <2>2. CASE x \in BaseRes
    <3>1. DelPos[x] = BasePos[x] + 3 /\ BasePos[x] \in 1..14
      BY <1>1, <2>2, DelPosValues, BaseDeletes
    <3>2. appnet_cleanup(TRUE)[DelPos[x]] = manager_cleanup(TRUE)[BasePos[x]]
      BY <3>1, AppNetList
    <3>3. DelPos[x] \in 1..Len(appnet_cleanup(TRUE))
      <4>1. Len(appnet_cleanup(TRUE)) = 17
        BY AppNetList
      <4>2. DelPos[x] \in 4..17
        BY <3>1
      <4>3. 4..17 \subseteq 1..17
        OBVIOUS
      <4>. QED  BY <4>1, <4>2, <4>3, Zenon
    <3>. QED  BY <2>1, <2>2, <3>2, <3>3, BaseDeletes
  <2>3. CASE x \in {HR, GR, MESH}
    <3>1. /\ DelPos[HR] = 1 /\ DelPos[GR] = 2 /\ DelPos[MESH] = 3
          /\ DelPos[x] \in 1..Len(appnet_cleanup(TRUE))
      <4>1. Len(appnet_cleanup(TRUE)) = 17
        BY AppNetList
      <4>2. /\ DelPos[HR] = 1 /\ DelPos[GR] = 2 /\ DelPos[MESH] = 3
        BY <1>1, DelPosValues
      <4>3. DelPos[x] \in 1..3
        BY <2>3, <4>2
      <4>4. 1..3 \subseteq 1..17
        OBVIOUS
      <4>. QED  BY <4>1, <4>2, <4>3, <4>4, Zenon
    <3>2. /\ HR \in DeletedBy("delete_http_route")
          /\ GR \in DeletedBy("delete_grpc_route")
          /\ MESH \in DeletedBy("delete_mesh")
      BY DEF DeletedBy
    <3>3. x \in DeletedBy(appnet_cleanup(TRUE)[DelPos[x]].op)
      <4>1. /\ appnet_cleanup(TRUE)[1].op = "delete_http_route"
            /\ appnet_cleanup(TRUE)[2].op = "delete_grpc_route"
            /\ appnet_cleanup(TRUE)[3].op = "delete_mesh"
        BY AppNetList
      <4>. QED  BY <2>3, <3>1, <3>2, <4>1, Zenon
    <3>. QED  BY <2>1, <3>1, <3>3
  <2>. QED  BY <1>1, <2>2, <2>3 DEF FlavorRes
<1>2. CASE Flavor = "secure"
  <2>1. cleanup(TRUE) = secure_cleanup(TRUE)
    BY <1>2 DEF cleanup
  <2>2. CASE x \in BaseRes
    <3>1. DelPos[x] = BasePos[x] /\ BasePos[x] \in 1..14
      BY <1>2, <2>2, DelPosValues, BaseDeletes
    <3>2. secure_cleanup(TRUE)[DelPos[x]] = manager_cleanup(TRUE)[BasePos[x]]
      BY <3>1, SecureList
    <3>3. DelPos[x] \in 1..Len(secure_cleanup(TRUE))
      <4>1. Len(secure_cleanup(TRUE)) = 18
        BY SecureList
      <4>2. DelPos[x] \in 1..14
        BY <3>1
      <4>3. 1..14 \subseteq 1..18
        OBVIOUS
      <4>. QED  BY <4>1, <4>2, <4>3, Zenon
    <3>. QED  BY <2>1, <2>2, <3>2, <3>3, BaseDeletes
  <2>3. CASE x \in {EP, STP, CTP, AZ}
    <3>1. /\ DelPos[EP] = 15 /\ DelPos[STP] = 16 /\ DelPos[CTP] = 17
          /\ DelPos[AZ] = 18
          /\ DelPos[x] \in 1..Len(secure_cleanup(TRUE))
      <4>1. Len(secure_cleanup(TRUE)) = 18
        BY SecureList
      <4>2. /\ DelPos[EP] = 15 /\ DelPos[STP] = 16 /\ DelPos[CTP] = 17
            /\ DelPos[AZ] = 18
        BY <1>2, DelPosValues
      <4>3. DelPos[x] \in 15..18
        BY <2>3, <4>2
      <4>4. 15..18 \subseteq 1..18
        OBVIOUS
      <4>. QED  BY <4>1, <4>2, <4>3, <4>4, Zenon
    <3>2. /\ EP \in DeletedBy("delete_endpoint_policy")
          /\ STP \in DeletedBy("delete_server_tls_policy")
          /\ CTP \in DeletedBy("delete_client_tls_policy")
          /\ AZ \in DeletedBy("delete_authz_policy")
      BY DEF DeletedBy
    <3>3. x \in DeletedBy(secure_cleanup(TRUE)[DelPos[x]].op)
      <4>1. /\ secure_cleanup(TRUE)[15].op = "delete_endpoint_policy"
            /\ secure_cleanup(TRUE)[16].op = "delete_server_tls_policy"
            /\ secure_cleanup(TRUE)[17].op = "delete_client_tls_policy"
            /\ secure_cleanup(TRUE)[18].op = "delete_authz_policy"
        BY SecureList
      <4>. QED  BY <2>3, <3>1, <3>2, <4>1, Zenon
    <3>. QED  BY <2>1, <3>1, <3>3
  <2>. QED  BY <1>2, <2>2, <2>3 DEF FlavorRes
<1>3. CASE Flavor = "base"
  <2>1. cleanup(TRUE) = manager_cleanup(TRUE) /\ DelPos = BasePos /\ x \in BaseRes
    BY <1>3, DelPosValues DEF cleanup, FlavorRes
  <2>2. Len(manager_cleanup(TRUE)) = 14
    BY ManagerList
  <2>. QED  BY <2>1, <2>2, BaseDeletes
<1>. QED  BY <1>1, <1>2, <1>3, ConstantsAssumption

\* The reference bound and the dual-stack call list give the property.
LEMMA RefsBoundedOrder ==
  ASSUME EnableDualstack = TRUE, TypeOK, RefsBounded
  PROVE  CleanupOrderRespectsReferences
<1>. SUFFICES ASSUME NEW q \in remote, NEW r \in refs[q]
              PROVE  \E i, j \in 1..Len(cleanup(TRUE)) :
                       /\ i < j
                       /\ q \in DeletedBy(cleanup(TRUE)[i].op)
                       /\ r \in DeletedBy(cleanup(TRUE)[j].op)
  BY DEF CleanupOrderRespectsReferences
<1>1. q \in Res /\ r \in MayRef[q]
  BY DEF TypeOK, ProjectTypeOK, RefsBounded
<1>2. q \in FlavorRes /\ r \in FlavorRes /\ r \in Res
  BY <1>1, MayRefInFlavor DEF FlavorRes, BaseRes, Res
<1>3. DelPos[q] < DelPos[r]
  BY <1>1, DelPosRespectsMayRef
<1>. QED  BY <1>2, <1>3, DelPosDeletes

(* cleanup() "deletes in the reverse order of creation": with              *)
(* enable_dualstack, in every reachable state, whenever a resource of the *)
(* project references another, cleanup's call list deletes the first      *)
(* strictly before the second, whatever creates, patches, failed calls,   *)
(* lost replies and restarts built the project.                           *)
THEOREM CleanupOrderCorrect ==
  ASSUME EnableDualstack = TRUE
  PROVE  Spec => []CleanupOrderRespectsReferences
<1>1. Init => TypeOK /\ RefsBounded
  BY InitTypeOK, InitRefsBounded
<1>2. TypeOK /\ RefsBounded /\ [Next]_vars => TypeOK' /\ RefsBounded'
  BY NextTypeOK, NextRefsBounded
<1>3. TypeOK /\ RefsBounded => CleanupOrderRespectsReferences
  BY RefsBoundedOrder
<1>. QED  BY <1>1, <1>2, <1>3, PTL DEF Spec


=============================================================================
