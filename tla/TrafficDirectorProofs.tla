------------------------ MODULE TrafficDirectorProofs ------------------------
(***************************************************************************)
(* Proofs about TrafficDirector, for every value of its constants.         *)
(***************************************************************************)
EXTENDS TrafficDirector, SequenceTheorems, TLAPS

\* The manager's fields are typed, before or after a step.
FieldsOK(sl) ==
  /\ sl \in [Slots -> Res \cup {Absent}]
  /\ \A s \in Slots : sl[s] \in SlotRes[s] \cup {Absent}

\* What one method call leaves typed: the manager, the project, its outcome.
StepTypeOK ==
  /\ FieldsOK(slot')
  /\ protocol' \in Protocols \cup {"UNSET"}
  /\ isHttp' \in BOOLEAN
  /\ ensureFw' \in BOOLEAN
  /\ remote' \subseteq Res
  /\ refs' \in [Res -> SUBSET Res]
  /\ outcome' \in {"ok", "raised"}

\* The manager's Optional fields, by name.
LEMMA SlotsDomain ==
  Slots = {"health_check", "backend_service", "alternative_backend_service",
           "affinity_backend_service", "url_map", "alternative_url_map",
           "target_proxy", "target_proxy_ipv6", "alternative_target_proxy",
           "forwarding_rule", "forwarding_rule_ipv6",
           "alternative_forwarding_rule", "firewall_rule", "firewall_rule_ipv6",
           "mesh", "grpc_route", "http_route", "server_tls_policy",
           "client_tls_policy", "authz_policy", "endpoint_policy"}
BY DEF Slots, SlotRes

\* A create into field s of a resource it may hold, referencing resources.
LEMMA CreateIntoType ==
  ASSUME TypeOK, NEW s \in Slots, NEW r \in SlotRes[s], NEW deps \in SUBSET Res,
         NEW f \in Faults, CreateInto(s, r, deps, f)
  PROVE  /\ FieldsOK(slot')
         /\ remote' \subseteq Res
         /\ refs' \in [Res -> SUBSET Res]
         /\ outcome' \in {"ok", "raised"}
<1>1. r \in Res
  BY SlotsDomain DEF SlotRes, Res
<1>2. FieldsOK(slot')
  BY <1>1 DEF CreateInto, FieldsOK, TypeOK, ManagerTypeOK
<1>3. remote' \subseteq Res /\ refs' \in [Res -> SUBSET Res]
  BY <1>1 DEF CreateInto, RemoteCreate, project, TypeOK, ProjectTypeOK
<1>4. outcome' \in {"ok", "raised"}
  BY DEF CreateInto, Finish
<1>. QED  BY <1>2, <1>3, <1>4

\* A delete that clears some fields.
LEMMA DeleteFromType ==
  ASSUME TypeOK, NEW tracked \in BOOLEAN, NEW r \in Res,
         NEW cleared \in SUBSET Slots, NEW force \in BOOLEAN, NEW f \in Faults,
         DeleteFrom(tracked, r, cleared, force, f)
  PROVE  /\ FieldsOK(slot')
         /\ remote' \subseteq Res
         /\ refs' \in [Res -> SUBSET Res]
         /\ outcome' \in {"ok", "raised"}
<1>1. FieldsOK(slot')
  BY DEF DeleteFrom, FieldsOK, TypeOK, ManagerTypeOK
<1>2. remote' \subseteq Res /\ refs' \in [Res -> SUBSET Res]
  BY DEF DeleteFrom, RemoteDelete, project, TypeOK, ProjectTypeOK
<1>3. outcome' \in {"ok", "raised"}
  BY DEF DeleteFrom, Finish, Return
<1>. QED  BY <1>1, <1>2, <1>3

\* The flags a method step leaves alone.
Frame == UNCHANGED <<protocol, isHttp, ensureFw>>

\* A create into a field, by a method that touches no flag, is typed.
LEMMA CreateIntoStep ==
  ASSUME TypeOK, NEW s \in Slots, NEW r \in SlotRes[s], NEW deps \in SUBSET Res,
         NEW f \in Faults, CreateInto(s, r, deps, f), Frame
  PROVE  StepTypeOK
BY CreateIntoType DEF StepTypeOK, Frame, TypeOK, ManagerTypeOK

\* A delete from fields, by a method that touches no flag, is typed.
LEMMA DeleteFromStep ==
  ASSUME TypeOK, NEW tracked \in BOOLEAN, NEW r \in Res,
         NEW cleared \in SUBSET Slots, NEW force \in BOOLEAN, NEW f \in Faults,
         DeleteFrom(tracked, r, cleared, force, f), Frame
  PROVE  StepTypeOK
BY DeleteFromType DEF StepTypeOK, Frame, TypeOK, ManagerTypeOK

\* A method that raises on a None field is typed.
LEMMA NoneErrorStep ==
  ASSUME TypeOK, NoneError, Frame
  PROVE  StepTypeOK
BY DEF NoneError, Raise, project, StepTypeOK, Frame, FieldsOK, TypeOK,
       ManagerTypeOK, ProjectTypeOK

\* A create followed by a get into field s.
LEMMA CreateThenGetType ==
  ASSUME TypeOK, NEW s \in Slots, NEW r \in SlotRes[s], NEW deps \in SUBSET Res,
         NEW f \in Faults, NEW g \in Faults, CreateThenGet(s, r, deps, f, g)
  PROVE  /\ FieldsOK(slot')
         /\ remote' \subseteq Res
         /\ refs' \in [Res -> SUBSET Res]
         /\ outcome' \in {"ok", "raised"}
<1>1. r \in Res
  BY SlotsDomain DEF SlotRes, Res
<1>2. FieldsOK(slot')
  BY <1>1 DEF CreateThenGet, FieldsOK, TypeOK, ManagerTypeOK
<1>3. remote' \subseteq Res /\ refs' \in [Res -> SUBSET Res]
  BY <1>1 DEF CreateThenGet, RemoteCreate, project, TypeOK, ProjectTypeOK
<1>4. outcome' \in {"ok", "raised"}
  BY DEF CreateThenGet, Finish
<1>. QED  BY <1>2, <1>3, <1>4

\* A create followed by a get, by a method that touches no flag, is typed.
LEMMA CreateThenGetStep ==
  ASSUME TypeOK, NEW s \in Slots, NEW r \in SlotRes[s], NEW deps \in SUBSET Res,
         NEW f \in Faults, NEW g \in Faults, CreateThenGet(s, r, deps, f, g), Frame
  PROVE  StepTypeOK
BY CreateThenGetType DEF StepTypeOK, Frame, TypeOK, ManagerTypeOK

\* Each resource sits in the fields that may hold it.
LEMMA SlotResFacts ==
  /\ HC \in SlotRes["health_check"]
  /\ BS \in SlotRes["backend_service"]
  /\ BSAlt \in SlotRes["alternative_backend_service"]
  /\ BSAff \in SlotRes["affinity_backend_service"]
  /\ UM \in SlotRes["url_map"]
  /\ UMAlt \in SlotRes["alternative_url_map"]
  /\ TPGrpc \in SlotRes["target_proxy"]
  /\ TPHttp \in SlotRes["target_proxy"]
  /\ TP6 \in SlotRes["target_proxy_ipv6"]
  /\ TPAlt \in SlotRes["alternative_target_proxy"]
  /\ FR \in SlotRes["forwarding_rule"]
  /\ FR6 \in SlotRes["forwarding_rule_ipv6"]
  /\ FRAlt \in SlotRes["alternative_forwarding_rule"]
  /\ MESH \in SlotRes["mesh"] /\ GR \in SlotRes["grpc_route"]
  /\ HR \in SlotRes["http_route"] /\ STP \in SlotRes["server_tls_policy"]
  /\ CTP \in SlotRes["client_tls_policy"] /\ AZ \in SlotRes["authz_policy"]
  /\ EP \in SlotRes["endpoint_policy"]
  /\ \A s \in Slots : SlotRes[s] \subseteq Res
BY SlotsDomain DEF SlotRes, Res

\* A field that is set holds a resource of the project's kind.
LEMMA SetFieldRes ==
  ASSUME TypeOK, NEW s \in Slots, slot[s] # Absent
  PROVE  slot[s] \in SlotRes[s] /\ {slot[s]} \in SUBSET Res
BY SlotResFacts DEF TypeOK, ManagerTypeOK

\* A backend service references project resources only.
LEMMA HealthCheckRefType ==
  ASSUME TypeOK
  PROVE  HealthCheckRef \in SUBSET Res
BY SlotsDomain, SetFieldRes DEF HealthCheckRef


\* create_health_check raises on a set field, else creates into it.
LEMMA CreateHealthCheckType ==
  ASSUME TypeOK, NEW f \in Faults, create_health_check(f)
  PROVE  StepTypeOK
<1>1. CASE slot.health_check # Absent
  BY <1>1 DEF create_health_check, Raise, project, StepTypeOK, FieldsOK, TypeOK,
              ManagerTypeOK, ProjectTypeOK
<1>2. CASE slot.health_check = Absent
  <2>1. CreateInto("health_check", HC, {}, f) /\ Frame
    BY <1>2 DEF create_health_check, Frame
  <2>. QED  BY <2>1, CreateIntoStep, SlotResFacts, SlotsDomain
<1>. QED  BY <1>1, <1>2

\* create_backend_service records the protocol it was given.
LEMMA CreateBackendServiceType ==
  ASSUME TypeOK, NEW p \in Protocols, NEW f \in Faults, create_backend_service(p, f)
  PROVE  StepTypeOK
<1>1. CreateInto("backend_service", BS, HealthCheckRef, f)
  BY DEF create_backend_service
<1>2. HealthCheckRef \in SUBSET Res
  BY HealthCheckRefType
<1>3. /\ FieldsOK(slot')
      /\ remote' \subseteq Res
      /\ refs' \in [Res -> SUBSET Res]
      /\ outcome' \in {"ok", "raised"}
  BY <1>1, <1>2, CreateIntoType, SlotResFacts, SlotsDomain
<1>. QED  BY <1>3 DEF create_backend_service, StepTypeOK, TypeOK, ManagerTypeOK


\* The two backend service variants create into their own fields.
LEMMA CreateVariantBackendServiceType ==
  ASSUME TypeOK, NEW f \in Faults,
         create_alternative_backend_service(f) \/ create_affinity_backend_service(f)
  PROVE  StepTypeOK
<1>1. HealthCheckRef \in SUBSET Res
  BY HealthCheckRefType
<1>2. CASE create_alternative_backend_service(f)
  BY <1>1, <1>2, CreateIntoStep, SlotResFacts, SlotsDomain
  DEF create_alternative_backend_service, Frame
<1>3. CASE create_affinity_backend_service(f)
  BY <1>1, <1>3, CreateIntoStep, SlotResFacts, SlotsDomain
  DEF create_affinity_backend_service, Frame
<1>. QED  BY <1>2, <1>3

\* load_* sets a field to the resource of its own name.
LEMMA LoadBackendServiceType ==
  ASSUME TypeOK, NEW s \in Slots, NEW r \in SlotRes[s], NEW f \in Faults,
         LoadBackendService(s, r, f)
  PROVE  StepTypeOK
BY DEF LoadBackendService, Finish, project, StepTypeOK, FieldsOK, TypeOK,
       ManagerTypeOK, ProjectTypeOK

\* A delete of a backend service or a forwarding rule clears its own field.
LEMMA DeleteOwnFieldType ==
  ASSUME TypeOK, NEW s \in Slots, NEW r \in SlotRes[s], NEW force \in BOOLEAN,
         NEW f \in Faults,
         DeleteFrom(slot[s] # Absent, r, {s}, force, f), Frame
  PROVE  StepTypeOK
BY DeleteFromStep, SlotResFacts

\* create_url_map and create_alternative_url_map reference a set field.
LEMMA CreateUrlMapType ==
  ASSUME TypeOK, NEW f \in Faults, NEW b \in BSSlots \cup {"none"},
         create_url_map(f) \/ create_alternative_url_map(b, f)
  PROVE  StepTypeOK
<1>1. BSSlots \subseteq Slots
  BY SlotsDomain DEF BSSlots
<1>2. CASE create_url_map(f)
  <2>1. CASE slot.backend_service = Absent
    BY <1>2, <2>1, NoneErrorStep DEF create_url_map, Frame
  <2>2. CASE slot.backend_service # Absent
    <3>1. {slot.backend_service} \in SUBSET Res
      BY <2>2, SetFieldRes, SlotsDomain
    <3>. QED  BY <1>2, <2>2, <3>1, CreateIntoStep, SlotResFacts, SlotsDomain
              DEF create_url_map, Frame
  <2>. QED  BY <2>1, <2>2
<1>3. CASE create_alternative_url_map(b, f)
  <2>. DEFINE target == IF b = "none" THEN slot.alternative_backend_service
                        ELSE slot[b]
  <2>1. CASE target = Absent
    BY <1>3, <2>1, NoneErrorStep DEF create_alternative_url_map, Frame
  <2>2. CASE target # Absent
    <3>1. {target} \in SUBSET Res
      BY <1>1, <2>2, SetFieldRes, SlotsDomain
    <3>. QED  BY <1>3, <2>2, <3>1, CreateIntoStep, SlotResFacts, SlotsDomain
              DEF create_alternative_url_map, Frame
  <2>. QED  BY <2>1, <2>2
<1>. QED  BY <1>2, <1>3

\* patch_url_map changes only the references of the URL map.
LEMMA PatchUrlMapType ==
  ASSUME TypeOK, NEW b \in BSSlots, NEW f \in Faults, patch_url_map(b, f)
  PROVE  StepTypeOK
<1>1. b \in Slots
  BY SlotsDomain DEF BSSlots
<1>2. CASE slot[b] = Absent \/ slot.url_map = Absent
  BY <1>2, NoneErrorStep DEF patch_url_map, Frame
<1>3. CASE slot[b] # Absent /\ slot.url_map # Absent
  <2>1. {slot[b]} \in SUBSET Res
    BY <1>1, <1>3, SetFieldRes
  <2>. QED  BY <1>3, <2>1 DEF patch_url_map, Finish, StepTypeOK, FieldsOK, TypeOK,
                             ManagerTypeOK, ProjectTypeOK, Res, UM
<1>. QED  BY <1>2, <1>3


\* The three proxy creates reference a set URL map field.
LEMMA CreateTargetProxyType ==
  ASSUME TypeOK, NEW f \in Faults,
         \/ create_target_proxy(f)
         \/ create_target_proxy_ipv6(f)
         \/ create_alternative_target_proxy(f)
  PROVE  StepTypeOK
<1>1. slot.url_map # Absent => {slot.url_map} \in SUBSET Res
  BY SetFieldRes, SlotsDomain
<1>2. slot.alternative_url_map # Absent => {slot.alternative_url_map} \in SUBSET Res
  BY SetFieldRes, SlotsDomain
<1>3. ASSUME NEW http \in BOOLEAN, NEW r \in SlotRes["target_proxy"],
             ProxyOfKind(http, r, f), UNCHANGED <<protocol, ensureFw>>
      PROVE  StepTypeOK
  <2>1. CASE slot.url_map = Absent
    BY <1>3, <2>1 DEF ProxyOfKind, NoneError, Raise, project, StepTypeOK,
                      FieldsOK, TypeOK, ManagerTypeOK, ProjectTypeOK
  <2>2. CASE slot.url_map # Absent
    <3>1. /\ FieldsOK(slot')
          /\ remote' \subseteq Res
          /\ refs' \in [Res -> SUBSET Res]
          /\ outcome' \in {"ok", "raised"}
      BY <1>1, <1>3, <2>2, CreateIntoType, SlotsDomain DEF ProxyOfKind
    <3>. QED  BY <1>3, <3>1 DEF ProxyOfKind, StepTypeOK, TypeOK, ManagerTypeOK
  <2>. QED  BY <2>1, <2>2
<1>4. CASE create_target_proxy(f)
  <2>1. CASE protocol = "UNSET"
    BY <1>4, <2>1 DEF create_target_proxy, Raise, project, StepTypeOK, FieldsOK,
                      TypeOK, ManagerTypeOK, ProjectTypeOK
  <2>2. CASE protocol # "UNSET"
    BY <1>3, <1>4, <2>2, SlotResFacts DEF create_target_proxy
  <2>. QED  BY <2>1, <2>2
<1>5. CASE create_target_proxy_ipv6(f)
  BY <1>1, <1>5, NoneErrorStep, CreateIntoStep, SlotResFacts, SlotsDomain
  DEF create_target_proxy_ipv6, Frame
<1>6. CASE create_alternative_target_proxy(f)
  BY <1>2, <1>6, NoneErrorStep, CreateIntoStep, SlotResFacts, SlotsDomain
  DEF create_alternative_target_proxy, Frame
<1>. QED  BY <1>4, <1>5, <1>6

\* The proxy deletes clear their field and, for the default one, the flag.
LEMMA DeleteTargetProxyType ==
  ASSUME TypeOK, NEW force \in BOOLEAN, NEW f \in Faults,
         \/ delete_target_grpc_proxy(force, f)
         \/ delete_target_http_proxy(force, f)
         \/ delete_target_proxy_ipv6(force, f)
         \/ delete_alternative_target_grpc_proxy(force, f)
  PROVE  StepTypeOK
<1>1. ASSUME NEW tracked \in BOOLEAN, NEW r \in Res,
             DeleteProxy(tracked, r, force, f)
      PROVE  StepTypeOK
  <2>1. "target_proxy" \in Slots
    BY SlotsDomain
  <2>2. /\ FieldsOK(slot')
        /\ remote' \subseteq Res
        /\ refs' \in [Res -> SUBSET Res]
        /\ outcome' \in {"ok", "raised"}
    BY <1>1, <2>1, DeleteFromType DEF DeleteProxy
  <2>. QED  BY <1>1, <2>2 DEF DeleteProxy, StepTypeOK, TypeOK, ManagerTypeOK
<1>2. CASE delete_target_grpc_proxy(force, f)
  BY <1>1, <1>2 DEF delete_target_grpc_proxy, Res, TPGrpc
<1>3. CASE delete_target_http_proxy(force, f)
  BY <1>1, <1>3 DEF delete_target_http_proxy, Res, TPHttp, TypeOK, ManagerTypeOK
<1>4. CASE delete_target_proxy_ipv6(force, f)
  BY <1>4, DeleteFromStep, SlotsDomain DEF delete_target_proxy_ipv6, Frame, Res, TP6
<1>5. CASE delete_alternative_target_grpc_proxy(force, f)
  BY <1>5, DeleteFromStep, SlotsDomain
  DEF delete_alternative_target_grpc_proxy, Frame, Res, TPAlt
<1>. QED  BY <1>2, <1>3, <1>4, <1>5

\* A forwarding rule references the proxy its field names.
LEMMA CreateForwardingRuleType ==
  ASSUME TypeOK, NEW s \in Slots, NEW r \in SlotRes[s], NEW proxySlot \in Slots,
         NEW f \in Faults, CreateForwardingRule(s, r, proxySlot, f)
  PROVE  StepTypeOK
<1>1. CASE slot[proxySlot] = Absent
  BY <1>1, NoneErrorStep DEF CreateForwardingRule, Frame
<1>2. CASE slot[proxySlot] # Absent
  BY <1>2, SetFieldRes, CreateIntoStep DEF CreateForwardingRule, Frame
<1>. QED  BY <1>1, <1>2


\* The firewall methods add or remove only the two firewall rules.
LEMMA FirewallType ==
  ASSUME TypeOK, NEW force \in BOOLEAN, NEW ranges, NEW f \in Faults,
         NEW g \in Faults,
         \/ create_firewall_rules(ranges, f, g)
         \/ delete_firewall_rules(force, f, g)
         \/ delete_firewall_rule(force, f)
         \/ delete_firewall_rule_ipv6(force, f)
  PROVE  StepTypeOK
<1>1. /\ "firewall_rule" \in Slots /\ "firewall_rule_ipv6" \in Slots
      /\ FW \in SlotRes["firewall_rule"] /\ FW6 \in SlotRes["firewall_rule_ipv6"]
      /\ FW \in Res /\ FW6 \in Res
  BY SlotsDomain DEF SlotRes, Res
<1>2. CASE create_firewall_rules(ranges, f, g)
  BY <1>1, <1>2 DEF create_firewall_rules, Finish, StepTypeOK, FieldsOK, TypeOK,
                    ManagerTypeOK, ProjectTypeOK
<1>3. CASE delete_firewall_rules(force, f, g)
  BY <1>1, <1>3 DEF delete_firewall_rules, Finish, Return, manager, project,
                    StepTypeOK, FieldsOK, TypeOK, ManagerTypeOK, ProjectTypeOK
<1>4. CASE delete_firewall_rule(force, f)
  BY <1>1, <1>4 DEF delete_firewall_rule, Finish, StepTypeOK, FieldsOK, TypeOK,
                    ManagerTypeOK, ProjectTypeOK
<1>5. CASE delete_firewall_rule_ipv6(force, f)
  BY <1>1, <1>5 DEF delete_firewall_rule_ipv6, Finish, StepTypeOK, FieldsOK,
                    TypeOK, ManagerTypeOK, ProjectTypeOK
<1>. QED  BY <1>2, <1>3, <1>4, <1>5


\* The AppNet methods create or delete a mesh or a route.
LEMMA AppNetType ==
  ASSUME TypeOK, NEW force \in BOOLEAN, NEW b \in BSSlots, NEW f \in Faults,
         NEW g \in Faults,
         \/ create_mesh(f, g) \/ delete_mesh(force, f)
         \/ create_grpc_route(f, g)
         \/ create_grpc_route_with_content(b, f, g)
         \/ create_http_route_with_content(b, f, g)
         \/ delete_grpc_route(force, f) \/ delete_http_route(force, f)
  PROVE  StepTypeOK
<1>1. /\ {"mesh", "grpc_route", "http_route", "backend_service"} \subseteq Slots
      /\ MESH \in Res /\ GR \in Res /\ HR \in Res /\ BSOf[b] \in Res
  BY SlotsDomain DEF BSOf, BSSlots, Res
<1>2. CASE create_mesh(f, g)
  <2>1. CreateThenGet("mesh", MESH, {}, f, g) /\ Frame
    BY <1>2 DEF create_mesh, Frame
  <2>2. MESH \in SlotRes["mesh"]
    BY SlotResFacts
  <2>. QED  BY <1>1, <2>1, <2>2, CreateThenGetStep
<1>3. CASE create_grpc_route(f, g)
  <2>1. CASE slot.backend_service = Absent \/ slot.mesh = Absent
    BY <1>3, <2>1, NoneErrorStep DEF create_grpc_route, Frame
  <2>2. CASE slot.backend_service # Absent /\ slot.mesh # Absent
    <3>1. {slot.backend_service, slot.mesh} \in SUBSET Res
      BY <1>1, <2>2, SetFieldRes
    <3>. QED  BY <1>3, <2>2, <3>1, SlotResFacts, SlotsDomain, CreateThenGetStep
              DEF create_grpc_route, Frame
  <2>. QED  BY <2>1, <2>2
<1>4. CASE create_grpc_route_with_content(b, f, g)
  BY <1>1, <1>4, SlotResFacts, CreateThenGetStep
  DEF create_grpc_route_with_content, Frame
<1>5. CASE create_http_route_with_content(b, f, g)
  BY <1>1, <1>5, SlotResFacts, CreateThenGetStep
  DEF create_http_route_with_content, Frame
<1>6. CASE delete_mesh(force, f) \/ delete_grpc_route(force, f)
                                \/ delete_http_route(force, f)
  BY <1>1, <1>6, DeleteFromStep DEF delete_mesh, delete_grpc_route,
                                    delete_http_route, Frame
<1>. QED  BY <1>2, <1>3, <1>4, <1>5, <1>6

\* A client TLS policy attached to the backend service is a project resource.
LEMMA ApplyMtlsType ==
  ASSUME TypeOK, NEW f \in Faults, backend_service_apply_client_mtls_policy(f)
  PROVE  StepTypeOK
<1>1. BS \in Res /\ CTP \in Res
  BY DEF Res
<1>2. CASE slot.backend_service = Absent
  <2>1. NoneError /\ Frame
    BY <1>2, Zenon DEF backend_service_apply_client_mtls_policy, Frame
  <2>. QED  BY <2>1, NoneErrorStep
<1>3. CASE slot.backend_service # Absent /\ slot.client_tls_policy = Absent
  <2>1. UNCHANGED <<slot, project>> /\ Return /\ Frame
    BY <1>3, Zenon DEF backend_service_apply_client_mtls_policy, Frame
  <2>. QED  BY <2>1 DEF Return, project, StepTypeOK, FieldsOK, TypeOK,
                      ManagerTypeOK, ProjectTypeOK, Frame
<1>4. CASE slot.backend_service # Absent /\ slot.client_tls_policy # Absent
  <2>1. /\ refs' = refs \/ refs' = [refs EXCEPT ![BS] = refs[BS] \cup {CTP}]
        /\ outcome' \in {"ok", "raised"}
        /\ UNCHANGED <<slot, remote>> /\ Frame
    BY <1>4, Zenon DEF backend_service_apply_client_mtls_policy, Finish, Frame
  <2>. QED  BY <1>1, <2>1 DEF StepTypeOK, FieldsOK, TypeOK, ManagerTypeOK,
                           ProjectTypeOK, Frame
<1>. QED  BY <1>2, <1>3, <1>4

\* The Secure methods create or delete a policy, or patch the backend service.
LEMMA SecureType ==
  ASSUME TypeOK, NEW force \in BOOLEAN, NEW a \in TlsArgs, NEW f \in Faults,
         NEW g \in Faults,
         \/ create_server_tls_policy(a, f, g) \/ create_client_tls_policy(a, f, g)
         \/ create_authz_policy(f, g) \/ create_endpoint_policy(f, g)
         \/ backend_service_apply_client_mtls_policy(f)
         \/ delete_server_tls_policy(force, f) \/ delete_client_tls_policy(force, f)
         \/ delete_authz_policy(force, f) \/ delete_endpoint_policy(force, f)
  PROVE  StepTypeOK
<1>1. /\ {"server_tls_policy", "client_tls_policy", "authz_policy",
          "endpoint_policy"} \subseteq Slots
      /\ STP \in Res /\ CTP \in Res /\ AZ \in Res /\ EP \in Res
  BY SlotsDomain DEF Res
<1>2. ASSUME NEW s \in Slots, NEW r \in SlotRes[s], TlsPolicy(s, r, a, f, g)
      PROVE  StepTypeOK
  <2>1. CASE a = "skip"
    BY <1>2, <2>1 DEF TlsPolicy, Return, project, StepTypeOK, FieldsOK, TypeOK,
                      ManagerTypeOK, ProjectTypeOK
  <2>2. CASE a # "skip"
    BY <1>2, <2>2, CreateThenGetStep DEF TlsPolicy, Frame
  <2>. QED  BY <2>1, <2>2
<1>3. CASE create_server_tls_policy(a, f, g) \/ create_client_tls_policy(a, f, g)
  BY <1>1, <1>2, <1>3, SlotResFacts
  DEF create_server_tls_policy, create_client_tls_policy
<1>4. CASE create_authz_policy(f, g)
  BY <1>1, <1>4, SlotResFacts, CreateThenGetStep DEF create_authz_policy, Frame
<1>5. CASE create_endpoint_policy(f, g)
  <2>1. PolicyRefs \in SUBSET Res
    BY <1>1 DEF PolicyRefs, TypeOK, ManagerTypeOK
  <2>. QED  BY <1>1, <1>5, <2>1, SlotResFacts, CreateThenGetStep
            DEF create_endpoint_policy, Frame
<1>6. CASE backend_service_apply_client_mtls_policy(f)
  BY <1>6, ApplyMtlsType
<1>7. CASE \/ delete_server_tls_policy(force, f) \/ delete_client_tls_policy(force, f)
           \/ delete_authz_policy(force, f) \/ delete_endpoint_policy(force, f)
  BY <1>1, <1>7, DeleteFromStep
  DEF delete_server_tls_policy, delete_client_tls_policy, delete_authz_policy,
      delete_endpoint_policy, DeletePolicy, Frame
<1>. QED  BY <1>3, <1>4, <1>5, <1>6, <1>7


\* The arguments a method call carries.
LEMMA MethodCallArgs ==
  ASSUME NEW c, c \in MethodCalls
  PROVE  /\ c.op \in CreateOps \cup DeleteOps \cup
                  {"create_backend_service", "patch_url_map",
                   "create_alternative_url_map", "create_firewall_rules",
                   "create_grpc_route_with_content", "create_http_route_with_content",
                   "create_server_tls_policy", "create_client_tls_policy"}
         /\ c.force \in BOOLEAN
         /\ c.op = "create_backend_service" => c.arg \in Protocols
         /\ c.op = "patch_url_map" => c.arg \in BSSlots
         /\ c.op = "create_alternative_url_map" => c.arg \in BSSlots \cup {"none"}
         /\ c.op \in {"create_grpc_route_with_content",
                       "create_http_route_with_content"} => c.arg \in BSSlots
         /\ c.op \in {"create_server_tls_policy", "create_client_tls_policy"}
              => c.arg \in TlsArgs
<1>1. CASE c \in CreateCalls
  <2>1. PICK op \in CreateOps : c = Op(op)
    BY <1>1 DEF CreateCalls
  <2>2. op \notin {"create_backend_service", "patch_url_map",
                   "create_alternative_url_map", "create_grpc_route_with_content",
                   "create_http_route_with_content", "create_server_tls_policy",
                   "create_client_tls_policy"}
    BY DEF CreateOps
  <2>. QED  BY <2>1, <2>2 DEF Op, Call
<1>2. CASE c \in BackendServiceCalls
  <2>1. PICK p \in Protocols : c = Call("create_backend_service", FALSE, p)
    BY <1>2 DEF BackendServiceCalls
  <2>. QED  BY <2>1 DEF Call
<1>3. CASE c \in DeleteCalls
  <2>1. PICK op \in DeleteOps, force \in BOOLEAN : c = Call(op, force, "none")
    BY <1>3 DEF DeleteCalls
  <2>2. op \notin {"create_backend_service", "patch_url_map",
                   "create_alternative_url_map", "create_grpc_route_with_content",
                   "create_http_route_with_content", "create_server_tls_policy",
                   "create_client_tls_policy"}
    BY DEF DeleteOps
  <2>. QED  BY <2>1, <2>2 DEF Call
<1>4. CASE \E b \in BSSlots : c = Call("patch_url_map", FALSE, b)
  BY <1>4 DEF Call
<1>5. CASE \E b \in BSSlots \cup {"none"} :
             c = Call("create_alternative_url_map", FALSE, b)
  BY <1>5 DEF Call
<1>6. CASE \E r \in {"v4", "v6", "both"} : c = Call("create_firewall_rules", FALSE, r)
  BY <1>6 DEF Call
<1>7. c \in ArgumentCalls =>
        \/ \E b \in BSSlots : c = Call("patch_url_map", FALSE, b)
        \/ \E b \in BSSlots \cup {"none"} :
             c = Call("create_alternative_url_map", FALSE, b)
        \/ \E r \in {"v4", "v6", "both"} : c = Call("create_firewall_rules", FALSE, r)
  BY DEF ArgumentCalls
<1>8. CASE c \in RouteCalls
  <2>1. PICK op \in {"create_grpc_route_with_content",
                     "create_http_route_with_content"}, b \in BSSlots :
          c = Call(op, FALSE, b)
    BY <1>8 DEF RouteCalls
  <2>. QED  BY <2>1 DEF Call, CreateOps, DeleteOps
<1>9. CASE c \in TlsCalls
  <2>1. PICK op \in {"create_server_tls_policy", "create_client_tls_policy"},
             a \in TlsArgs : c = Call(op, FALSE, a)
    BY <1>9 DEF TlsCalls
  <2>. QED  BY <2>1 DEF Call, CreateOps, DeleteOps
<1>. QED  BY <1>1, <1>2, <1>3, <1>4, <1>5, <1>6, <1>7, <1>8, <1>9 DEF MethodCalls

\* Every method call leaves the manager and the project typed.
LEMMA ExecType ==
  ASSUME TypeOK, NEW c \in MethodCalls, NEW f \in Faults, NEW g \in Faults,
         Exec(c, f, g)
  PROVE  StepTypeOK
<1>1. c.force \in BOOLEAN
  BY MethodCallArgs
<1>2. \A s \in BSSlots : s \in Slots /\ SlotRes[s] \subseteq Res
  BY SlotsDomain, SlotResFacts DEF BSSlots
<1>3. /\ BS \in SlotRes["backend_service"]
      /\ BSAlt \in SlotRes["alternative_backend_service"]
      /\ BSAff \in SlotRes["affinity_backend_service"]
      /\ FR \in SlotRes["forwarding_rule"]
      /\ FR6 \in SlotRes["forwarding_rule_ipv6"]
      /\ FRAlt \in SlotRes["alternative_forwarding_rule"]
      /\ {"backend_service", "alternative_backend_service",
          "affinity_backend_service", "forwarding_rule", "forwarding_rule_ipv6",
          "alternative_forwarding_rule", "target_proxy", "target_proxy_ipv6",
          "alternative_target_proxy"} \subseteq Slots
  BY SlotResFacts, SlotsDomain
<1>4. CASE c.op = "create_health_check" /\ create_health_check(f)
  BY <1>4, CreateHealthCheckType
<1>5. CASE c.op = "create_backend_service" /\ create_backend_service(c.arg, f)
  BY <1>5, MethodCallArgs, CreateBackendServiceType
<1>6. CASE \/ c.op = "create_alternative_backend_service"
              /\ create_alternative_backend_service(f)
           \/ c.op = "create_affinity_backend_service"
              /\ create_affinity_backend_service(f)
  BY <1>6, CreateVariantBackendServiceType
<1>7. CASE \/ c.op = "load_backend_service" /\ load_backend_service(f)
           \/ c.op = "load_alternative_backend_service"
              /\ load_alternative_backend_service(f)
           \/ c.op = "load_affinity_backend_service"
              /\ load_affinity_backend_service(f)
  BY <1>3, <1>7, LoadBackendServiceType
  DEF load_backend_service, load_alternative_backend_service,
      load_affinity_backend_service
<1>8. CASE \/ c.op = "delete_backend_service"
              /\ delete_backend_service(c.force, f)
           \/ c.op = "delete_alternative_backend_service"
              /\ delete_alternative_backend_service(c.force, f)
           \/ c.op = "delete_affinity_backend_service"
              /\ delete_affinity_backend_service(c.force, f)
  BY <1>1, <1>3, <1>8, DeleteOwnFieldType
  DEF delete_backend_service, delete_alternative_backend_service,
      delete_affinity_backend_service, DeleteBackendService, Frame
<1>9. CASE \/ c.op = "delete_health_check" /\ delete_health_check(c.force, f)
           \/ c.op = "delete_url_map" /\ delete_url_map(c.force, f)
           \/ c.op = "delete_alternative_url_map"
              /\ delete_alternative_url_map(c.force, f)
  BY <1>1, <1>9, DeleteFromStep, SlotsDomain
  DEF delete_health_check, delete_url_map, delete_alternative_url_map, Frame,
      Res, HC, UM, UMAlt
<1>10. CASE \/ c.op = "create_url_map" /\ create_url_map(f)
            \/ c.op = "create_alternative_url_map"
               /\ create_alternative_url_map(c.arg, f)
  BY <1>10, MethodCallArgs, CreateUrlMapType DEF BSSlots
<1>11. CASE c.op = "patch_url_map" /\ patch_url_map(c.arg, f)
  BY <1>11, MethodCallArgs, PatchUrlMapType
<1>12. CASE \/ c.op = "create_target_proxy" /\ create_target_proxy(f)
            \/ c.op = "create_target_proxy_ipv6" /\ create_target_proxy_ipv6(f)
            \/ c.op = "create_alternative_target_proxy"
               /\ create_alternative_target_proxy(f)
  BY <1>12, CreateTargetProxyType
<1>13. CASE \/ c.op = "delete_target_grpc_proxy"
               /\ delete_target_grpc_proxy(c.force, f)
            \/ c.op = "delete_target_http_proxy"
               /\ delete_target_http_proxy(c.force, f)
            \/ c.op = "delete_target_proxy_ipv6"
               /\ delete_target_proxy_ipv6(c.force, f)
            \/ c.op = "delete_alternative_target_grpc_proxy"
               /\ delete_alternative_target_grpc_proxy(c.force, f)
  BY <1>1, <1>13, DeleteTargetProxyType
<1>14. CASE \/ c.op = "create_forwarding_rule" /\ create_forwarding_rule(f)
            \/ c.op = "create_forwarding_rule_ipv6" /\ create_forwarding_rule_ipv6(f)
            \/ c.op = "create_alternative_forwarding_rule"
               /\ create_alternative_forwarding_rule(f)
  BY <1>3, <1>14, CreateForwardingRuleType
  DEF create_forwarding_rule, create_forwarding_rule_ipv6,
      create_alternative_forwarding_rule
<1>15. CASE \/ c.op = "delete_forwarding_rule" /\ delete_forwarding_rule(c.force, f)
            \/ c.op = "delete_forwarding_rule_ipv6"
               /\ delete_forwarding_rule_ipv6(c.force, f)
            \/ c.op = "delete_alternative_forwarding_rule"
               /\ delete_alternative_forwarding_rule(c.force, f)
  BY <1>1, <1>3, <1>15, DeleteOwnFieldType
  DEF delete_forwarding_rule, delete_forwarding_rule_ipv6,
      delete_alternative_forwarding_rule, DeleteForwardingRule, Frame
<1>16. CASE \/ c.op = "create_firewall_rules" /\ create_firewall_rules(c.arg, f, g)
            \/ c.op = "delete_firewall_rules" /\ delete_firewall_rules(c.force, f, g)
            \/ c.op = "delete_firewall_rule" /\ delete_firewall_rule(c.force, f)
            \/ c.op = "delete_firewall_rule_ipv6"
               /\ delete_firewall_rule_ipv6(c.force, f)
  BY <1>1, <1>16, FirewallType
<1>17. CASE \/ c.op = "create_mesh" /\ create_mesh(f, g)
            \/ c.op = "delete_mesh" /\ delete_mesh(c.force, f)
            \/ c.op = "create_grpc_route" /\ create_grpc_route(f, g)
            \/ c.op = "delete_grpc_route" /\ delete_grpc_route(c.force, f)
            \/ c.op = "delete_http_route" /\ delete_http_route(c.force, f)
  <2>1. "backend_service" \in BSSlots
    BY DEF BSSlots
  <2>. QED  BY <1>1, <1>17, <2>1, AppNetType
<1>18. CASE \/ c.op = "create_grpc_route_with_content"
               /\ create_grpc_route_with_content(c.arg, f, g)
            \/ c.op = "create_http_route_with_content"
               /\ create_http_route_with_content(c.arg, f, g)
  BY <1>1, <1>18, MethodCallArgs, AppNetType
<1>19. CASE \/ c.op = "create_server_tls_policy"
               /\ create_server_tls_policy(c.arg, f, g)
            \/ c.op = "create_client_tls_policy"
               /\ create_client_tls_policy(c.arg, f, g)
  BY <1>1, <1>19, MethodCallArgs, SecureType
<1>20. CASE \/ c.op = "create_authz_policy" /\ create_authz_policy(f, g)
            \/ c.op = "create_endpoint_policy" /\ create_endpoint_policy(f, g)
            \/ c.op = "backend_service_apply_client_mtls_policy"
               /\ backend_service_apply_client_mtls_policy(f)
            \/ c.op = "delete_server_tls_policy"
               /\ delete_server_tls_policy(c.force, f)
            \/ c.op = "delete_client_tls_policy"
               /\ delete_client_tls_policy(c.force, f)
            \/ c.op = "delete_authz_policy" /\ delete_authz_policy(c.force, f)
            \/ c.op = "delete_endpoint_policy" /\ delete_endpoint_policy(c.force, f)
  <2>1. "skip" \in TlsArgs
    BY DEF TlsArgs
  <2>. QED  BY <1>1, <1>20, <2>1, SecureType
<1>. QED
  BY <1>4, <1>5, <1>6, <1>7, <1>8, <1>9, <1>10, <1>11, <1>12, <1>13, <1>14,
     <1>15, <1>16, <1>17, <1>18, <1>19, <1>20 DEF Exec


\* A pair of elements of S is a sequence over S.
LEMMA PairSeq ==
  ASSUME NEW S, NEW x \in S, NEW y \in S
  PROVE  << x, y >> \in Seq(S)
OBVIOUS

\* Which methods belong to the manager's class, by flavor.
LEMMA ForeignFacts ==
  /\ ForeignOps \subseteq AppNetOps \cup SecureOps
  /\ Flavor = "appnet" => ForeignOps = SecureOps
  /\ Flavor = "secure" => ForeignOps = AppNetOps
  /\ \A op \in SecureOps : op \notin ForeignOps => Flavor = "secure"
BY ConstantsAssumption DEF ForeignOps, AppNetOps, SecureOps

\* The calls the composite methods make are calls of the manager's class.
LEMMA CompositeCallsType ==
  /\ \A p \in Protocols : setup_backend_for_grpc(p) \in Seq(OwnCalls)
  /\ setup_routing_rule_map_for_grpc \in Seq(OwnCalls)
  /\ \A force \in BOOLEAN : cleanup(force) \in Seq(OwnCalls)
  /\ \A force \in BOOLEAN : Len(cleanup(force)) > 0
  /\ Flavor = "secure" =>
       \A a \in TlsArgs : /\ setup_server_security(a) \in Seq(OwnCalls)
                          /\ setup_client_security(a) \in Seq(OwnCalls)
<1>0. /\ \A op \in CreateOps : Op(op) \in MethodCalls
      /\ \A op \in DeleteOps, force \in BOOLEAN : Call(op, force, "none") \in MethodCalls
      /\ \A p \in Protocols : Call("create_backend_service", FALSE, p) \in MethodCalls
      /\ \A op \in {"create_server_tls_policy", "create_client_tls_policy"},
            a \in TlsArgs : Call(op, FALSE, a) \in MethodCalls
  <2>1. \A op \in CreateOps : Op(op) \in MethodCalls
    BY DEF MethodCalls, CreateCalls
  <2>2. \A op \in DeleteOps, force \in BOOLEAN : Call(op, force, "none") \in MethodCalls
    BY DEF MethodCalls, DeleteCalls
  <2>3. \A p \in Protocols : Call("create_backend_service", FALSE, p) \in MethodCalls
    BY DEF MethodCalls, BackendServiceCalls
  <2>4. \A op \in {"create_server_tls_policy", "create_client_tls_policy"},
             a \in TlsArgs : Call(op, FALSE, a) \in MethodCalls
    BY DEF MethodCalls, TlsCalls
  <2>. QED  BY <2>1, <2>2, <2>3, <2>4
<1>1. ASSUME NEW op \in CreateOps, op \notin ForeignOps PROVE Op(op) \in OwnCalls
  <2>1. Op(op).op = op
    BY DEF Op, Call
  <2>. QED  BY <1>0, <1>1, <2>1 DEF OwnCalls
<1>2. ASSUME NEW op \in DeleteOps, NEW force \in BOOLEAN, op \notin ForeignOps
      PROVE  Call(op, force, "none") \in OwnCalls
  <2>1. Call(op, force, "none").op = op
    BY DEF Call
  <2>. QED  BY <1>0, <1>2, <2>1 DEF OwnCalls
<1>3. \A p \in Protocols : Call("create_backend_service", FALSE, p) \in OwnCalls
  <2>1. "create_backend_service" \notin ForeignOps
    BY ForeignFacts DEF AppNetOps, SecureOps
  <2>. QED  BY <1>0, <2>1 DEF OwnCalls, Call
<1>3a. \A op \in (CreateOps \cup DeleteOps) \ (AppNetOps \cup SecureOps) :
         op \notin ForeignOps
  BY ForeignFacts
<1>4. ASSUME NEW p \in Protocols
      PROVE  setup_backend_for_grpc(p) \in Seq(OwnCalls)
  <2>1. Op("create_health_check") \in OwnCalls
    BY <1>1, <1>3a DEF CreateOps, AppNetOps, SecureOps
  <2>2. Call("create_backend_service", FALSE, p) \in OwnCalls
    BY <1>3
  <2>3. setup_backend_for_grpc(p) =
          << Op("create_health_check"), Call("create_backend_service", FALSE, p) >>
    BY DEF setup_backend_for_grpc
  <2>. QED  BY <2>1, <2>2, <2>3, PairSeq
<1>5. setup_routing_rule_map_for_grpc \in Seq(OwnCalls)
  <2>1. \A op \in {"create_url_map", "create_target_proxy", "create_forwarding_rule",
                   "create_target_proxy_ipv6", "create_forwarding_rule_ipv6"} :
          Op(op) \in OwnCalls
    BY <1>1, <1>3a DEF CreateOps, AppNetOps, SecureOps
  <2>. QED  BY <2>1 DEF setup_routing_rule_map_for_grpc
<1>6. ASSUME NEW force \in BOOLEAN
      PROVE  manager_cleanup(force) \in Seq(OwnCalls) /\ Len(manager_cleanup(force)) > 0
  <2>1. manager_cleanup(force) \in Seq(OwnCalls)
    <3>1. \A op \in {"delete_firewall_rules", "delete_forwarding_rule",
                     "delete_alternative_forwarding_rule", "delete_target_http_proxy",
                     "delete_target_grpc_proxy", "delete_forwarding_rule_ipv6",
                     "delete_target_proxy_ipv6", "delete_alternative_target_grpc_proxy",
                     "delete_url_map", "delete_alternative_url_map",
                     "delete_backend_service", "delete_alternative_backend_service",
                     "delete_affinity_backend_service", "delete_health_check"} :
            Call(op, force, "none") \in OwnCalls
      BY <1>2, <1>3a DEF DeleteOps, AppNetOps, SecureOps
    <3>. QED  BY <3>1 DEF manager_cleanup
  <2>2. manager_cleanup(force) # << >>
    BY DEF manager_cleanup
  <2>. QED  BY <2>1, <2>2, EmptySeq, LenProperties
<1>7. ASSUME NEW force \in BOOLEAN, Flavor = "appnet"
      PROVE  appnet_cleanup(force) \in Seq(OwnCalls)
             /\ Len(appnet_cleanup(force)) > 0
  <2>. DEFINE routes == << Call("delete_http_route", force, "none"),
                           Call("delete_grpc_route", force, "none"),
                           Call("delete_mesh", force, "none") >>
  <2>1. routes \in Seq(OwnCalls)
    <3>1. \A op \in {"delete_http_route", "delete_grpc_route", "delete_mesh"} :
            op \in DeleteOps /\ op \notin ForeignOps
      BY <1>7, ForeignFacts DEF DeleteOps, SecureOps
    <3>. QED  BY <3>1, <1>2
  <2>2. Len(routes) = 3
    OBVIOUS
  <2>3. appnet_cleanup(force) = routes \o manager_cleanup(force)
    BY DEF appnet_cleanup
  <2>. QED  BY <1>6, <2>1, <2>2, <2>3, ConcatProperties
<1>8. ASSUME NEW force \in BOOLEAN, Flavor = "secure"
      PROVE  secure_cleanup(force) \in Seq(OwnCalls)
             /\ Len(secure_cleanup(force)) > 0
  <2>. DEFINE policies == << Call("delete_endpoint_policy", force, "none"),
                             Call("delete_server_tls_policy", force, "none"),
                             Call("delete_client_tls_policy", force, "none"),
                             Call("delete_authz_policy", force, "none") >>
  <2>1. policies \in Seq(OwnCalls)
    <3>1. \A op \in {"delete_endpoint_policy", "delete_server_tls_policy",
                     "delete_client_tls_policy", "delete_authz_policy"} :
            op \in DeleteOps /\ op \notin ForeignOps
      BY <1>8, ForeignFacts DEF DeleteOps, AppNetOps
    <3>. QED  BY <3>1, <1>2
  <2>2. Len(policies) = 4
    OBVIOUS
  <2>3. secure_cleanup(force) = manager_cleanup(force) \o policies
    BY DEF secure_cleanup
  <2>. QED  BY <1>6, <2>1, <2>2, <2>3, ConcatProperties
<1>9. ASSUME NEW force \in BOOLEAN
      PROVE  cleanup(force) \in Seq(OwnCalls) /\ Len(cleanup(force)) > 0
  <2>1. CASE Flavor = "appnet"
    BY <1>7, <2>1 DEF cleanup
  <2>2. CASE Flavor = "secure"
    BY <1>8, <2>2 DEF cleanup
  <2>3. CASE Flavor = "base"
    BY <1>6, <2>3 DEF cleanup
  <2>. QED  BY <2>1, <2>2, <2>3, ConstantsAssumption
<1>10. ASSUME Flavor = "secure", NEW a \in TlsArgs
       PROVE  /\ setup_server_security(a) \in Seq(OwnCalls)
              /\ setup_client_security(a) \in Seq(OwnCalls)
  <2>1. /\ Call("create_server_tls_policy", FALSE, a) \in OwnCalls
        /\ Call("create_client_tls_policy", FALSE, a) \in OwnCalls
    <3>1. "create_server_tls_policy" \notin ForeignOps
          /\ "create_client_tls_policy" \notin ForeignOps
      BY <1>10, ForeignFacts DEF AppNetOps
    <3>. QED  BY <1>0, <3>1 DEF OwnCalls, Call
  <2>2. /\ Op("create_endpoint_policy") \in OwnCalls
        /\ Op("backend_service_apply_client_mtls_policy") \in OwnCalls
    <3>1. "create_endpoint_policy" \notin ForeignOps
          /\ "backend_service_apply_client_mtls_policy" \notin ForeignOps
      BY <1>10, ForeignFacts DEF AppNetOps
    <3>. QED  BY <1>1, <3>1 DEF CreateOps
  <2>3. setup_server_security(a) =
          << Call("create_server_tls_policy", FALSE, a), Op("create_endpoint_policy") >>
    BY DEF setup_server_security
  <2>4. setup_client_security(a) =
          << Call("create_client_tls_policy", FALSE, a),
             Op("backend_service_apply_client_mtls_policy") >>
    BY DEF setup_client_security
  <2>. QED  BY <2>1, <2>2, <2>3, <2>4, PairSeq
<1>. QED  BY <1>4, <1>5, <1>9, <1>10

\* A call the caller invokes expands to a non-empty list of its class's calls.
LEMMA ExpandType ==
  ASSUME NEW c, c \in TopCalls
  PROVE  Expand(c) \in Seq(OwnCalls) /\ Expand(c) # << >>
<1>0. c.op \notin ForeignOps
  BY DEF TopCalls
<1>1. CASE c \in MethodCalls
  <2>1. c.op \notin {"setup_for_grpc", "setup_backend_for_grpc",
                    "setup_routing_rule_map_for_grpc", "cleanup",
                    "setup_server_security", "setup_client_security"}
    BY <1>1, MethodCallArgs DEF CreateOps, DeleteOps
  <2>2. c \in OwnCalls
    BY <1>0, <1>1 DEF OwnCalls
  <2>. QED  BY <2>1, <2>2 DEF Expand
<1>2. CASE \E p \in Protocols : c = Call("setup_for_grpc", FALSE, p)
  <2>1. PICK p \in Protocols : c = Call("setup_for_grpc", FALSE, p)
    BY <1>2
  <2>2. Expand(c) = setup_backend_for_grpc(p) \o setup_routing_rule_map_for_grpc
    BY <2>1 DEF Expand, Call, setup_for_grpc
  <2>3. /\ setup_backend_for_grpc(p) \in Seq(OwnCalls)
        /\ setup_routing_rule_map_for_grpc \in Seq(OwnCalls)
    BY CompositeCallsType
  <2>4. Len(setup_backend_for_grpc(p)) = 2
    BY DEF setup_backend_for_grpc
  <2>5. setup_backend_for_grpc(p) \o setup_routing_rule_map_for_grpc
          \in Seq(OwnCalls)
    BY <2>3, ConcatProperties
  <2>6. Len(setup_backend_for_grpc(p) \o setup_routing_rule_map_for_grpc) > 0
    <3>1. Len(setup_routing_rule_map_for_grpc) \in Nat
      BY <2>3, LenProperties
    <3>2. Len(setup_backend_for_grpc(p) \o setup_routing_rule_map_for_grpc)
            = Len(setup_backend_for_grpc(p)) + Len(setup_routing_rule_map_for_grpc)
      BY <2>3, ConcatProperties
    <3>. QED  BY <2>4, <3>1, <3>2
  <2>. QED  BY <2>2, <2>5, <2>6
<1>3. CASE \E p \in Protocols : c = Call("setup_backend_for_grpc", FALSE, p)
  <2>1. PICK p \in Protocols : c = Call("setup_backend_for_grpc", FALSE, p)
    BY <1>3
  <2>2. Expand(c) = setup_backend_for_grpc(p)
    BY <2>1 DEF Expand, Call
  <2>3. setup_backend_for_grpc(p) \in Seq(OwnCalls)
    BY CompositeCallsType
  <2>4. setup_backend_for_grpc(p) # << >>
    BY DEF setup_backend_for_grpc
  <2>. QED  BY <2>2, <2>3, <2>4
<1>4. CASE c = Op("setup_routing_rule_map_for_grpc")
  BY <1>4, CompositeCallsType DEF Expand, Op, Call, setup_routing_rule_map_for_grpc
<1>5. CASE \E force \in BOOLEAN : c = Call("cleanup", force, "none")
  <2>1. PICK force \in BOOLEAN : c = Call("cleanup", force, "none")
    BY <1>5
  <2>2. Expand(c) = cleanup(force)
    BY <2>1 DEF Expand, Call
  <2>3. cleanup(force) \in Seq(OwnCalls) /\ Len(cleanup(force)) > 0
    BY CompositeCallsType
  <2>4. cleanup(force) # << >>
    BY <2>3, EmptySeq
  <2>. QED  BY <2>2, <2>3, <2>4
<1>6. CASE \E a \in TlsArgs : \/ c = Call("setup_server_security", FALSE, a)
                              \/ c = Call("setup_client_security", FALSE, a)
  <2>1. PICK a \in TlsArgs : \/ c = Call("setup_server_security", FALSE, a)
                             \/ c = Call("setup_client_security", FALSE, a)
    BY <1>6
  <2>2. c.op \in SecureOps
    BY <2>1 DEF Call, SecureOps
  <2>3. Flavor = "secure"
    BY <1>0, <2>2, ForeignFacts
  <2>4. CASE c = Call("setup_server_security", FALSE, a)
    BY <2>3, <2>4, CompositeCallsType DEF Expand, Call, setup_server_security
  <2>5. CASE c = Call("setup_client_security", FALSE, a)
    BY <2>3, <2>5, CompositeCallsType DEF Expand, Call, setup_client_security
  <2>. QED  BY <2>1, <2>4, <2>5
<1>7. c \in MethodCalls \/ c \in CompositeCalls
  BY DEF TopCalls
<1>8. c \in CompositeCalls =>
        \/ \E p \in Protocols : c = Call("setup_for_grpc", FALSE, p)
        \/ \E p \in Protocols : c = Call("setup_backend_for_grpc", FALSE, p)
        \/ c = Op("setup_routing_rule_map_for_grpc")
        \/ \E force \in BOOLEAN : c = Call("cleanup", force, "none")
        \/ \E a \in TlsArgs : \/ c = Call("setup_server_security", FALSE, a)
                              \/ c = Call("setup_client_security", FALSE, a)
  BY DEF CompositeCalls
<1>. QED  BY <1>1, <1>2, <1>3, <1>4, <1>5, <1>6, <1>7, <1>8


\* Running the first call of a list of method calls keeps everything typed
\* but topOp, and leaves a list of method calls pending.
LEMMA RunType ==
  ASSUME TypeOK, NEW L \in Seq(OwnCalls), L # << >>, Run(L)
  PROVE  /\ ManagerTypeOK' /\ ProjectTypeOK'
         /\ pending' \in Seq(OwnCalls)
         /\ outcome' \in {"ok", "raised", "crashed"}
         /\ faults' \in 0..MaxFaults
         /\ restarts' \in 0..MaxRestarts
<1>1. PICK f, g \in Faults :
        /\ faults + Cost(f) + Cost(g) <= MaxFaults
        /\ faults' = faults + Cost(f) + Cost(g)
        /\ Exec(Head(L), f, g)
  BY DEF Run
<1>2. Head(L) \in MethodCalls /\ Tail(L) \in Seq(OwnCalls)
  BY HeadTailProperties DEF OwnCalls
<1>3. StepTypeOK
  BY <1>1, <1>2, ExecType
<1>4. faults' \in 0..MaxFaults
  BY <1>1 DEF Cost, TypeOK, CallerTypeOK
<1>5. pending' \in Seq(OwnCalls)
  BY <1>2, EmptySeq DEF Run
<1>6. restarts' \in 0..MaxRestarts
  BY DEF Run, TypeOK, CallerTypeOK
<1>. QED  BY <1>3, <1>4, <1>5, <1>6 DEF StepTypeOK, FieldsOK, ManagerTypeOK,
                                      ProjectTypeOK

\* The type invariant holds initially.
LEMMA InitTypeOK == Init => TypeOK
<1>. SUFFICES ASSUME Init PROVE TypeOK
  OBVIOUS
<1>1. ManagerTypeOK
  BY ConstantsAssumption DEF Init, ManagerTypeOK, Absent
<1>2. ProjectTypeOK
  BY DEF Init, ProjectTypeOK
<1>3. CallerTypeOK
  BY ConstantsAssumption DEF Init, CallerTypeOK
<1>. QED  BY <1>1, <1>2, <1>3 DEF TypeOK

\* Every step keeps the type invariant.
LEMMA NextTypeOK == TypeOK /\ [Next]_vars => TypeOK'
<1>. SUFFICES ASSUME TypeOK, [Next]_vars PROVE TypeOK'
  OBVIOUS
<1>1. ASSUME NEW c \in TopCalls, Invoke(c) PROVE TypeOK'
  <2>1. Expand(c) \in Seq(OwnCalls) /\ Expand(c) # << >>
    BY ExpandType
  <2>2. topOp' \in {"cleanup", "force_cleanup", "other"}
    BY <1>1 DEF Invoke
  <2>. QED  BY <1>1, <2>1, <2>2, RunType DEF Invoke, TypeOK, CallerTypeOK
<1>2. CASE Continue
  BY <1>2, RunType DEF Continue, TypeOK, CallerTypeOK
<1>3. CASE Restart
  <2>1. ManagerTypeOK'
    BY <1>3, ConstantsAssumption DEF Restart, ManagerTypeOK
  <2>2. ProjectTypeOK'
    BY <1>3 DEF Restart, TypeOK, ProjectTypeOK, project
  <2>3. pending' \in Seq(OwnCalls)
    BY <1>3, EmptySeq DEF Restart
  <2>4. CallerTypeOK'
    BY <1>3, <2>3, ConstantsAssumption DEF Restart, TypeOK, CallerTypeOK
  <2>. QED  BY <2>1, <2>2, <2>4 DEF TypeOK
<1>4. CASE UNCHANGED vars
  BY <1>4 DEF vars, TypeOK, ManagerTypeOK, ProjectTypeOK, CallerTypeOK
<1>. QED  BY <1>1, <1>2, <1>3, <1>4 DEF Next

(* The manager's fields hold only the resources of their kind, the project *)
(* only the manager's resources, and the caller's pending calls are method *)
(* calls, in every reachable state: the cleanup() list, the setup_* lists  *)
(* and every method's assignments agree on the shape of the state.         *)
THEOREM TypeCorrect == Spec => []TypeOK
BY InitTypeOK, NextTypeOK, PTL DEF Spec


=============================================================================
