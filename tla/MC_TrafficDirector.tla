------------------------- MODULE MC_TrafficDirector -------------------------
(* Model-checking instances of TrafficDirector.  Each run lets the caller *)
(* invoke one group of public methods (cleanup is always among them).     *)
EXTENDS TrafficDirector

MCProtocols == {"GRPC", "HTTP2"}
MCGrpcOnly == {"GRPC"}

\* The serving chain the tests set up (setup_for_grpc and its parts), the
\* firewall rules, and their teardown.
MainChain ==
  {"setup_for_grpc", "setup_backend_for_grpc", "setup_routing_rule_map_for_grpc",
   "cleanup", "create_firewall_rules", "delete_firewall_rules",
   "delete_firewall_rule", "delete_firewall_rule_ipv6", "load_backend_service",
   "delete_target_http_proxy", "delete_target_grpc_proxy",
   "delete_target_proxy_ipv6", "delete_forwarding_rule",
   "delete_forwarding_rule_ipv6", "delete_url_map", "delete_backend_service",
   "delete_health_check"}

\* The alternative and affinity backend services, the alternative URL map,
\* proxy and forwarding rule, and patch_url_map (migration tests).
AltChain ==
  {"cleanup", "create_backend_service", "create_alternative_backend_service",
   "create_affinity_backend_service", "load_alternative_backend_service",
   "load_affinity_backend_service", "create_url_map", "patch_url_map",
   "create_alternative_url_map", "create_alternative_target_proxy",
   "create_alternative_forwarding_rule", "delete_alternative_forwarding_rule",
   "delete_alternative_target_grpc_proxy", "delete_alternative_url_map",
   "delete_alternative_backend_service", "delete_affinity_backend_service"}

\* Firewall rules only.
Firewall == {"cleanup", "create_firewall_rules", "delete_firewall_rules"}

\* A URL map and the alternative one, deleted on their own.
AltUrlMap ==
  {"cleanup", "create_backend_service", "create_url_map",
   "create_alternative_url_map", "delete_alternative_url_map"}

\* Re-creating the target proxy after migrating the URL map.
ProxyRecreate ==
  {"cleanup", "create_backend_service", "create_alternative_backend_service",
   "create_url_map", "patch_url_map", "delete_backend_service",
   "create_target_proxy"}
\* A mesh and routes over the serving chain (TrafficDirectorAppNetManager).
AppNetChain ==
  {"cleanup", "setup_backend_for_grpc", "create_alternative_backend_service",
   "create_mesh", "create_grpc_route", "create_grpc_route_with_content",
   "create_http_route_with_content", "delete_mesh", "delete_grpc_route",
   "delete_backend_service"}

\* Server and client security over a backend service
\* (TrafficDirectorSecureManager).
SecureChain ==
  {"cleanup", "setup_backend_for_grpc", "setup_server_security",
   "setup_client_security", "create_authz_policy", "create_endpoint_policy",
   "delete_server_tls_policy", "delete_client_tls_policy",
   "delete_backend_service"}
=============================================================================
