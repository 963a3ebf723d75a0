-------------------------- MODULE ProjectRefinement --------------------------
(***************************************************************************)
(* TrafficDirector implements ComputeProject: every step of the manager,   *)
(* its caller and the API leaves the project as the abstract API allows.  *)
(* The mapping keeps the project's two variables, takes the manager's own *)
(* resources (FlavorRes, what its cleanup deletes) for Owned and the      *)
(* references its creating methods write (MayRef) for Schema.  Every      *)
(* other variable of the detailed specification is hidden.                *)
(***************************************************************************)
EXTENDS ForceCleanupProofs

CP == INSTANCE ComputeProject WITH Resources <- Res, Owned <- FlavorRes,
                                   Schema <- MayRef

(* The manager only ever asks the API for what the API allows: it creates *)
(* resources of its own class under free names, naming resources that     *)
(* exist; it deletes only resources nothing names (a firewall rule, which  *)
(* _delete_firewall_rule removes without the API's in-use check, is named *)
(* by nothing); and its patches (patch_url_map, the client mTLS policy)   *)
(* repoint an existing resource to existing ones.                         *)
ProjectSpec == CP!Spec

-----------------------------------------------------------------------------
(* The proof.  Each method call moves the project as the API allows, with *)
(* no constraint on which resources it creates or what they name: a step *)
(* of CPFree.  ExecRemote bounds what is created by FlavorRes, RefsBounded *)
(* bounds what is named by MayRef, and together they make a CPFree step a *)
(* step of CP.                                                            *)

CPFree == INSTANCE ComputeProject WITH Resources <- Res, Owned <- Res,
                                       Schema <- [r \in Res |-> Res]

\* The inductive invariant: the project as the abstract API keeps it.
PInv == TypeOK /\ RefsBounded /\ CP!Integrity

\* A step that leaves the project alone is an abstract stutter.
LEMMA ProjectUnchanged ==
  ASSUME UNCHANGED project
  PROVE  [CPFree!Next]_CP!vars
BY DEF project, CP!vars

\* A remote create that takes effect inserts one resource.
LEMMA CreateFree ==
  ASSUME TypeOK, NEW r \in Res, NEW deps \in SUBSET Res, NEW f,
         RemoteCreate(r, deps, f)
  PROVE  [CPFree!Next]_CP!vars
<1>1. CASE CreateApplies(r, deps, f)
  <2>1. remote' = remote \cup {r} /\ refs' = [refs EXCEPT ![r] = deps]
        /\ r \notin remote /\ deps \subseteq remote
    BY <1>1 DEF RemoteCreate, CreateApplies
  <2>2. remote' \ remote = {r}
    BY <2>1
  <2>3. CPFree!Insert({r})
    BY <2>1 DEF CPFree!Insert, TypeOK, ProjectTypeOK
  <2>. QED  BY <2>2, <2>3 DEF CPFree!Next
<1>2. CASE ~CreateApplies(r, deps, f)
  BY <1>2, ProjectUnchanged DEF RemoteCreate
<1>. QED  BY <1>1, <1>2

\* A remote delete that takes effect removes one unused resource.
LEMMA DeleteFree ==
  ASSUME TypeOK, NEW r \in Res, NEW f, RemoteDelete(r, f)
  PROVE  [CPFree!Next]_CP!vars
<1>1. CASE DeleteApplies(r, f)
  <2>1. remote' = remote \ {r} /\ refs' = [refs EXCEPT ![r] = {}]
        /\ r \in remote /\ ~InUse(r)
    BY <1>1 DEF RemoteDelete, DeleteApplies
  <2>2. remote \ remote' = {r}
    BY <2>1
  <2>3. CPFree!Remove({r})
    BY <2>1 DEF CPFree!Remove, CPFree!InUse, InUse, TypeOK, ProjectTypeOK
  <2>. QED  BY <2>2, <2>3 DEF CPFree!Next
<1>2. CASE ~DeleteApplies(r, f)
  BY <1>2, ProjectUnchanged DEF RemoteDelete
<1>. QED  BY <1>1, <1>2

LEMMA CreateIntoFree ==
  ASSUME TypeOK, NEW s, NEW r \in Res, NEW deps \in SUBSET Res, NEW f,
         CreateInto(s, r, deps, f)
  PROVE  [CPFree!Next]_CP!vars
BY CreateFree DEF CreateInto

LEMMA CreateThenGetFree ==
  ASSUME TypeOK, NEW s, NEW r \in Res, NEW deps \in SUBSET Res, NEW f, NEW g,
         CreateThenGet(s, r, deps, f, g)
  PROVE  [CPFree!Next]_CP!vars
BY CreateFree DEF CreateThenGet

LEMMA DeleteFromFree ==
  ASSUME TypeOK, NEW tracked, NEW r \in Res, NEW cleared, NEW force, NEW f,
         DeleteFrom(tracked, r, cleared, force, f)
  PROVE  [CPFree!Next]_CP!vars
BY DeleteFree, ProjectUnchanged DEF DeleteFrom

LEMMA NoneErrorFree ==
  ASSUME NoneError
  PROVE  [CPFree!Next]_CP!vars
BY ProjectUnchanged DEF NoneError

\* No resource may name a firewall rule, so none is ever in use.
LEMMA FirewallUnnamed ==
  ASSUME TypeOK, RefsBounded
  PROVE  /\ ~InUse(FW) /\ ~InUse(FW6)
         /\ refs[FW] = {} /\ refs[FW6] = {}
<1>1. \A q \in Res : FW \notin MayRef[q] /\ FW6 \notin MayRef[q]
  <2>. SUFFICES ASSUME NEW q \in Res
                PROVE  MayRef[q] \subseteq {TPGrpc, TPHttp, TP6, TPAlt, UM, UMAlt,
                                            BS, BSAlt, BSAff, HC, CTP, MESH,
                                            STP, AZ}
    BY DEF FW, FW6, TPGrpc, TPHttp, TP6, TPAlt, UM, UMAlt, BS, BSAlt, BSAff, HC,
           CTP, MESH, STP, AZ
  <2>1. q \in {HC, BS, BSAlt, BSAff, UM, UMAlt, TPGrpc, TPHttp, TP6, TPAlt,
               FR, FR6, FRAlt, FW, FW6, MESH, GR, HR, STP, CTP, AZ, EP}
    BY DEF Res
  <2>. QED  BY <2>1, MayRefValues
<1>2. FW \in Res /\ FW6 \in Res
  BY DEF Res
<1>. QED  BY <1>1, <1>2, MayRefValues
          DEF InUse, RefsBounded, TypeOK, ProjectTypeOK

(* The firewall methods add or remove firewall rules and touch no         *)
(* reference: firewall rules name nothing and nothing names them.         *)
LEMMA FirewallAddFree ==
  ASSUME TypeOK, RefsBounded, remote \subseteq remote',
         remote' \ remote \subseteq {FW, FW6}, refs' = refs
  PROVE  [CPFree!Next]_CP!vars
<1>1. refs[FW] = {} /\ refs[FW6] = {}
  BY FirewallUnnamed
<1>2. CASE remote' \ remote = {}
  BY <1>2 DEF CP!vars
<1>3. CASE remote' \ remote # {}
  <2>1. remote' \ remote \subseteq Res \ remote
    BY DEF Res
  <2>. QED  BY <1>1, <1>3, <2>1 DEF CPFree!Next, CPFree!Insert, TypeOK, ProjectTypeOK
<1>. QED  BY <1>2, <1>3

LEMMA FirewallRemoveFree ==
  ASSUME TypeOK, RefsBounded, remote' \subseteq remote,
         remote \ remote' \subseteq {FW, FW6}, refs' = refs
  PROVE  [CPFree!Next]_CP!vars
<1>1. ~InUse(FW) /\ ~InUse(FW6) /\ refs[FW] = {} /\ refs[FW6] = {}
  BY FirewallUnnamed
<1>2. CASE remote \ remote' = {}
  BY <1>2 DEF CP!vars
<1>3. CASE remote \ remote' # {}
  <2>1. \A r \in remote \ remote' : ~CPFree!InUse(r)
    BY <1>1 DEF InUse, CPFree!InUse
  <2>2. refs' = [r \in Res |-> IF r \in remote \ remote' THEN {} ELSE refs[r]]
    BY <1>1 DEF TypeOK, ProjectTypeOK
  <2>. QED  BY <1>3, <2>1, <2>2 DEF CPFree!Next, CPFree!Remove
<1>. QED  BY <1>2, <1>3

\* A patch of an existing resource to name existing resources.
LEMMA RepointFree ==
  ASSUME TypeOK, NEW r \in remote, NEW D \in SUBSET remote, remote' = remote,
         refs' = [refs EXCEPT ![r] = D]
  PROVE  [CPFree!Next]_CP!vars
<1>1. CPFree!Repoint(r)
  BY DEF CPFree!Repoint, TypeOK, ProjectTypeOK
<1>. QED  BY <1>1 DEF CPFree!Next

LEMMA FirewallFree ==
  ASSUME TypeOK, RefsBounded, NEW c, NEW f, NEW g,
         \/ create_firewall_rules(c.arg, f, g)
         \/ delete_firewall_rules(c.force, f, g)
         \/ delete_firewall_rule(c.force, f)
         \/ delete_firewall_rule_ipv6(c.force, f)
  PROVE  [CPFree!Next]_CP!vars
<1>1. CASE create_firewall_rules(c.arg, f, g)
  <2>1. remote \subseteq remote' /\ remote' \ remote \subseteq {FW, FW6}
        /\ refs' = refs
    BY <1>1 DEF create_firewall_rules
  <2>. QED  BY <2>1, FirewallAddFree
<1>2. CASE delete_firewall_rules(c.force, f, g)
  <2>1. remote' \subseteq remote /\ remote \ remote' \subseteq {FW, FW6}
        /\ refs' = refs
    BY <1>2 DEF delete_firewall_rules, manager, project
  <2>. QED  BY <2>1, FirewallRemoveFree
<1>3. CASE delete_firewall_rule(c.force, f) \/ delete_firewall_rule_ipv6(c.force, f)
  <2>1. remote' \subseteq remote /\ remote \ remote' \subseteq {FW, FW6}
        /\ refs' = refs
    BY <1>3 DEF delete_firewall_rule, delete_firewall_rule_ipv6
  <2>. QED  BY <2>1, FirewallRemoveFree
<1>. QED  BY <1>1, <1>2, <1>3

\* Every method call moves the project as the API allows.
LEMMA ExecFree ==
  ASSUME TypeOK, RefsBounded, CP!Integrity, NEW c \in OwnCalls,
         NEW f \in Faults, NEW g \in Faults, Exec(c, f, g)
  PROVE  [CPFree!Next]_CP!vars
<1>. USE ResMembers, FieldValues
<1>0. c \in MethodCalls /\ c.op \notin ForeignOps
  BY DEF OwnCalls
<1>1. HealthCheckRef \in SUBSET Res
  BY HealthCheckRefType
<1>2. CASE \/ c.op = "create_health_check" /\ create_health_check(f)
           \/ c.op = "create_url_map" /\ create_url_map(f)
  BY <1>2, CreateIntoFree, NoneErrorFree
  DEF create_health_check, create_url_map, NoneError
<1>3. CASE \/ c.op = "create_backend_service" /\ create_backend_service(c.arg, f)
           \/ c.op = "create_alternative_backend_service"
              /\ create_alternative_backend_service(f)
           \/ c.op = "create_affinity_backend_service"
              /\ create_affinity_backend_service(f)
  BY <1>1, <1>3, CreateIntoFree
  DEF create_backend_service, create_alternative_backend_service,
      create_affinity_backend_service
<1>4. CASE \/ c.op = "load_backend_service" /\ load_backend_service(f)
           \/ c.op = "load_alternative_backend_service"
              /\ load_alternative_backend_service(f)
           \/ c.op = "load_affinity_backend_service"
              /\ load_affinity_backend_service(f)
  BY <1>4, ProjectUnchanged
  DEF load_backend_service, load_alternative_backend_service,
      load_affinity_backend_service, LoadBackendService
<1>5. CASE \/ c.op = "delete_backend_service" /\ delete_backend_service(c.force, f)
           \/ c.op = "delete_alternative_backend_service"
              /\ delete_alternative_backend_service(c.force, f)
           \/ c.op = "delete_affinity_backend_service"
              /\ delete_affinity_backend_service(c.force, f)
           \/ c.op = "delete_health_check" /\ delete_health_check(c.force, f)
           \/ c.op = "delete_url_map" /\ delete_url_map(c.force, f)
           \/ c.op = "delete_alternative_url_map"
              /\ delete_alternative_url_map(c.force, f)
  BY <1>5, DeleteFromFree
  DEF delete_backend_service, delete_alternative_backend_service,
      delete_affinity_backend_service, DeleteBackendService,
      delete_health_check, delete_url_map, delete_alternative_url_map
<1>6. CASE c.op = "create_alternative_url_map" /\ create_alternative_url_map(c.arg, f)
  <2>1. c.arg \in BSSlots \cup {"none"}
    BY <1>0, <1>6, MethodCallArgs
  <2>2. /\ slot.alternative_backend_service # Absent
           => {slot.alternative_backend_service} \in SUBSET Res
        /\ c.arg \in BSSlots /\ slot[c.arg] # Absent => {slot[c.arg]} \in SUBSET Res
    BY <2>1 DEF BSSlots
  <2>. QED  BY <1>6, <2>1, <2>2, CreateIntoFree, NoneErrorFree
            DEF create_alternative_url_map
<1>7. CASE c.op = "patch_url_map" /\ patch_url_map(c.arg, f)
  <2>1. CASE slot[c.arg] = Absent \/ slot.url_map = Absent
    BY <1>7, <2>1, NoneErrorFree DEF patch_url_map
  <2>2. CASE /\ slot[c.arg] # Absent /\ slot.url_map # Absent
             /\ f # "rejected" /\ UM \in remote /\ slot[c.arg] \in remote
    <3>1. remote' = remote /\ refs' = [refs EXCEPT ![UM] = {slot[c.arg]}]
      BY <1>7, <2>2 DEF patch_url_map
    <3>2. {slot[c.arg]} \in SUBSET remote
      BY <2>2
    <3>. QED  BY <2>2, <3>1, <3>2, RepointFree, Zenon
  <2>3. CASE /\ slot[c.arg] # Absent /\ slot.url_map # Absent
             /\ ~(f # "rejected" /\ UM \in remote /\ slot[c.arg] \in remote)
    BY <1>7, <2>3, ProjectUnchanged DEF patch_url_map, project
  <2>. QED  BY <2>1, <2>2, <2>3
<1>8. CASE \/ c.op = "create_target_proxy" /\ create_target_proxy(f)
           \/ c.op = "create_target_proxy_ipv6" /\ create_target_proxy_ipv6(f)
           \/ c.op = "create_alternative_target_proxy"
              /\ create_alternative_target_proxy(f)
  <2>1. ASSUME NEW http, NEW r \in {TPGrpc, TPHttp}, ProxyOfKind(http, r, f)
        PROVE  [CPFree!Next]_CP!vars
    BY <2>1, CreateIntoFree, NoneErrorFree DEF ProxyOfKind
  <2>2. CASE create_target_proxy(f)
    BY <2>1, <2>2, NoneErrorFree DEF create_target_proxy, NoneError
  <2>3. CASE create_target_proxy_ipv6(f)
    BY <2>3, CreateIntoFree, NoneErrorFree DEF create_target_proxy_ipv6
  <2>4. CASE create_alternative_target_proxy(f)
    BY <2>4, CreateIntoFree, NoneErrorFree DEF create_alternative_target_proxy
  <2>. QED  BY <1>8, <2>2, <2>3, <2>4
<1>9. CASE \/ c.op = "delete_target_grpc_proxy"
             /\ delete_target_grpc_proxy(c.force, f)
           \/ c.op = "delete_target_http_proxy"
             /\ delete_target_http_proxy(c.force, f)
           \/ c.op = "delete_target_proxy_ipv6"
             /\ delete_target_proxy_ipv6(c.force, f)
           \/ c.op = "delete_alternative_target_grpc_proxy"
             /\ delete_alternative_target_grpc_proxy(c.force, f)
           \/ c.op = "delete_forwarding_rule" /\ delete_forwarding_rule(c.force, f)
           \/ c.op = "delete_forwarding_rule_ipv6"
             /\ delete_forwarding_rule_ipv6(c.force, f)
           \/ c.op = "delete_alternative_forwarding_rule"
             /\ delete_alternative_forwarding_rule(c.force, f)
  BY <1>9, DeleteFromFree
  DEF delete_target_grpc_proxy, delete_target_http_proxy, DeleteProxy,
      delete_target_proxy_ipv6, delete_alternative_target_grpc_proxy,
      delete_forwarding_rule, delete_forwarding_rule_ipv6,
      delete_alternative_forwarding_rule, DeleteForwardingRule
<1>10. CASE \/ c.op = "create_forwarding_rule" /\ create_forwarding_rule(f)
            \/ c.op = "create_forwarding_rule_ipv6" /\ create_forwarding_rule_ipv6(f)
            \/ c.op = "create_alternative_forwarding_rule"
               /\ create_alternative_forwarding_rule(f)
  BY <1>10, CreateIntoFree, NoneErrorFree
  DEF create_forwarding_rule, create_forwarding_rule_ipv6,
      create_alternative_forwarding_rule, CreateForwardingRule
<1>11. CASE \/ c.op = "create_firewall_rules" /\ create_firewall_rules(c.arg, f, g)
            \/ c.op = "delete_firewall_rules" /\ delete_firewall_rules(c.force, f, g)
            \/ c.op = "delete_firewall_rule" /\ delete_firewall_rule(c.force, f)
            \/ c.op = "delete_firewall_rule_ipv6"
               /\ delete_firewall_rule_ipv6(c.force, f)
  BY <1>11, FirewallFree
<1>12. CASE \/ c.op = "create_mesh" /\ create_mesh(f, g)
            \/ c.op = "create_authz_policy" /\ create_authz_policy(f, g)
            \/ c.op = "create_server_tls_policy"
               /\ create_server_tls_policy(c.arg, f, g)
            \/ c.op = "create_client_tls_policy"
               /\ create_client_tls_policy(c.arg, f, g)
  BY <1>12, CreateThenGetFree, ProjectUnchanged
  DEF create_mesh, create_authz_policy, create_server_tls_policy,
      create_client_tls_policy, TlsPolicy
<1>13. CASE c.op = "create_grpc_route" /\ create_grpc_route(f, g)
  <2>1. CASE slot.backend_service = Absent \/ slot.mesh = Absent
    BY <1>13, <2>1, NoneErrorFree DEF create_grpc_route
  <2>2. CASE slot.backend_service # Absent /\ slot.mesh # Absent
    <3>1. {slot.backend_service, slot.mesh} \in SUBSET Res
      BY <2>2
    <3>. QED  BY <1>13, <2>2, <3>1, CreateThenGetFree DEF create_grpc_route
  <2>. QED  BY <2>1, <2>2
<1>14. CASE \/ c.op = "create_grpc_route_with_content"
              /\ create_grpc_route_with_content(c.arg, f, g)
            \/ c.op = "create_http_route_with_content"
              /\ create_http_route_with_content(c.arg, f, g)
  <2>1. BSOf[c.arg] \in {BS, BSAlt, BSAff}
    BY <1>0, <1>14, MethodCallArgs DEF BSOf, BSSlots
  <2>2. {MESH, BSOf[c.arg]} \in SUBSET Res
    BY <2>1
  <2>. QED  BY <1>14, <2>2, CreateThenGetFree
            DEF create_grpc_route_with_content, create_http_route_with_content
<1>15. CASE c.op = "create_endpoint_policy" /\ create_endpoint_policy(f, g)
  <2>1. PolicyRefs \in SUBSET Res
    BY DEF PolicyRefs
  <2>. QED  BY <1>15, <2>1, CreateThenGetFree DEF create_endpoint_policy
<1>16. CASE c.op = "backend_service_apply_client_mtls_policy"
            /\ backend_service_apply_client_mtls_policy(f)
  <2>1. CASE slot.backend_service = Absent
    BY <1>16, <2>1, NoneErrorFree DEF backend_service_apply_client_mtls_policy
  <2>2. CASE slot.backend_service # Absent /\ slot.client_tls_policy = Absent
    BY <1>16, <2>2, ProjectUnchanged
    DEF backend_service_apply_client_mtls_policy, project
  <2>3. CASE /\ slot.backend_service # Absent /\ slot.client_tls_policy # Absent
             /\ f # "rejected" /\ BS \in remote /\ CTP \in remote
    <3>1. remote' = remote /\ refs' = [refs EXCEPT ![BS] = refs[BS] \cup {CTP}]
      BY <1>16, <2>3 DEF backend_service_apply_client_mtls_policy
    <3>2. refs[BS] \cup {CTP} \subseteq remote
      BY <2>3 DEF CP!Integrity
    <3>. QED  BY <2>3, <3>1, <3>2, RepointFree, Zenon
  <2>4. CASE /\ slot.backend_service # Absent /\ slot.client_tls_policy # Absent
             /\ ~(f # "rejected" /\ BS \in remote /\ CTP \in remote)
    BY <1>16, <2>4, ProjectUnchanged
    DEF backend_service_apply_client_mtls_policy, project
  <2>. QED  BY <2>1, <2>2, <2>3, <2>4
<1>17. CASE \/ c.op = "delete_mesh" /\ delete_mesh(c.force, f)
            \/ c.op = "delete_grpc_route" /\ delete_grpc_route(c.force, f)
            \/ c.op = "delete_http_route" /\ delete_http_route(c.force, f)
            \/ c.op = "delete_server_tls_policy"
               /\ delete_server_tls_policy(c.force, f)
            \/ c.op = "delete_client_tls_policy"
               /\ delete_client_tls_policy(c.force, f)
            \/ c.op = "delete_authz_policy" /\ delete_authz_policy(c.force, f)
            \/ c.op = "delete_endpoint_policy" /\ delete_endpoint_policy(c.force, f)
  BY <1>17, DeleteFromFree
  DEF delete_mesh, delete_grpc_route, delete_http_route, delete_server_tls_policy,
      delete_client_tls_policy, delete_authz_policy, delete_endpoint_policy,
      DeletePolicy
<1>. QED
  BY <1>2, <1>3, <1>4, <1>5, <1>6, <1>7, <1>8, <1>9, <1>10, <1>11, <1>12, <1>13,
     <1>14, <1>15, <1>16, <1>17
  DEF Exec

-----------------------------------------------------------------------------
(* From the free steps to the steps of CP.                                *)

\* The manager's own resources are resources of the project.
LEMMA FlavorResInRes == FlavorRes \subseteq Res
<1>1. BaseRes \subseteq Res /\ {HR, GR, MESH} \subseteq Res
      /\ {EP, STP, CTP, AZ} \subseteq Res
  BY DEF BaseRes, Res
<1>. QED  BY <1>1 DEF FlavorRes

(* A free step that adds only the class's resources and leaves every      *)
(* resource naming only what its kind may name is a step of CP.           *)
LEMMA FreeToCP ==
  ASSUME TypeOK, RemoteStep, RefsBounded', [CPFree!Next]_CP!vars
  PROVE  [CP!Next]_CP!vars
<1>1. CASE CPFree!Insert(remote' \ remote)
  <2>1. remote' \ remote \subseteq FlavorRes \ remote
    BY DEF RemoteStep
  <2>2. \A r \in remote' \ remote : refs'[r] \subseteq MayRef[r]
    BY <1>1 DEF CPFree!Insert, RefsBounded
  <2>3. CP!Insert(remote' \ remote)
    BY <1>1, <2>1, <2>2 DEF CPFree!Insert, CP!Insert
  <2>. QED  BY <2>3 DEF CP!Next
<1>2. CASE CPFree!Remove(remote \ remote')
  <2>1. CP!Remove(remote \ remote')
    BY <1>2 DEF CPFree!Remove, CP!Remove, CPFree!InUse, CP!InUse
  <2>. QED  BY <2>1 DEF CP!Next
<1>3. CASE \E r \in remote : CPFree!Repoint(r)
  <2>1. PICK r \in remote : CPFree!Repoint(r)
    BY <1>3
  <2>2. r \in Res
    BY DEF TypeOK, ProjectTypeOK
  <2>3. refs'[r] \subseteq MayRef[r]
    BY <2>2 DEF RefsBounded
  <2>4. CP!Repoint(r)
    BY <2>1, <2>3 DEF CPFree!Repoint, CP!Repoint
  <2>. QED  BY <2>4 DEF CP!Next
<1>4. CASE UNCHANGED CP!vars
  BY <1>4
<1>. QED  BY <1>1, <1>2, <1>3, <1>4 DEF CPFree!Next

\* Every step of the detailed specification is a step of CP or a stutter.
LEMMA NextProject ==
  ASSUME PInv, [Next]_vars
  PROVE  [CP!Next]_CP!vars
<1>0. TypeOK /\ RefsBounded /\ CP!Integrity /\ RefsBounded'
  BY NextRefsBounded DEF PInv
<1>1. ASSUME NEW L \in Seq(OwnCalls), L # << >>, Run(L) PROVE [CP!Next]_CP!vars
  <2>1. Head(L) \in OwnCalls
    BY <1>1, HeadTailProperties
  <2>2. PICK f \in Faults, g \in Faults : Exec(Head(L), f, g)
    BY <1>1 DEF Run
  <2>3. [CPFree!Next]_CP!vars
    BY <1>0, <2>1, <2>2, ExecFree
  <2>4. RemoteStep
    BY <2>1, <2>2, ExecRemote
  <2>. QED  BY <1>0, <2>3, <2>4, FreeToCP
<1>2. CASE \E c \in TopCalls : Invoke(c)
  BY <1>1, <1>2, ExpandType DEF Invoke
<1>3. CASE Continue
  BY <1>0, <1>1, <1>3 DEF Continue, TypeOK, CallerTypeOK
<1>4. CASE Restart \/ UNCHANGED vars
  BY <1>4 DEF Restart, project, vars, CP!vars
<1>. QED  BY <1>2, <1>3, <1>4 DEF Next

-----------------------------------------------------------------------------
LEMMA InitPInv == Init => PInv
<1>. SUFFICES ASSUME Init PROVE PInv
  OBVIOUS
<1>1. TypeOK /\ RefsBounded
  BY InitTypeOK, InitRefsBounded
<1>. QED  BY <1>1 DEF Init, PInv, CP!Integrity

LEMMA NextPInv == PInv /\ [Next]_vars => PInv'
<1>. SUFFICES ASSUME PInv, [Next]_vars PROVE PInv'
  OBVIOUS
<1>1. TypeOK' /\ RefsBounded'
  BY NextTypeOK, NextRefsBounded DEF PInv
<1>2. CP!TypeOK /\ CP!Integrity
  BY DEF PInv, CP!TypeOK, TypeOK, ProjectTypeOK
<1>3. [CP!Next]_CP!vars
  BY NextProject
<1>4. CP!Integrity'
  BY <1>2, <1>3, FlavorResInRes, CP!IntegrityStep
<1>. QED  BY <1>1, <1>4 DEF PInv

(* The manager, its caller, faults and restarts together drive the        *)
(* project only through steps the compute API allows (ProjectSpec, the    *)
(* refinement TD_refine_* check with TLC).                                *)
THEOREM Refinement == Spec => ProjectSpec
<1>1. Init => CP!Init
  BY DEF Init, CP!Init
<1>2. PInv /\ [Next]_vars => [CP!Next]_CP!vars
  BY NextProject
<1>. QED  BY <1>1, <1>2, InitPInv, NextPInv, PTL DEF Spec, ProjectSpec, CP!Spec

(* In every reachable state the project has no dangling reference:        *)
(* whatever creates, patches, deletes, failed calls, lost replies and     *)
(* restarts came before, every resource in it is the manager's and names  *)
(* only resources in it, of the kinds its creating method names.          *)
THEOREM ProjectIntegrity == Spec => []CP!Integrity
<1>1. Spec => CP!Spec
  BY Refinement DEF ProjectSpec
<1>2. CP!Spec => [](CP!TypeOK /\ CP!Integrity)
  BY FlavorResInRes, CP!IntegrityInvariant
<1>. QED  BY <1>1, <1>2, PTL

=============================================================================
