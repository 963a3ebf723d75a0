# TLA+ models of the Traffic Director resource manager

This directory is a formal model of `TrafficDirectorManager` (in
`src/framework/infrastructure/traffic_director.py`) and of how a test such as
`src/tests/custom_lb_test.py` drives it. The models are checked with TLC and
proved with TLAPS.

## The system

`TrafficDirectorManager` builds a chain of GCP compute resources through the
compute API:

    health check <- backend service(s) <- URL map(s) <- target proxy(ies)
                 <- forwarding rule(s);   firewall rules (stand-alone)

Each resource is remembered in an `Optional[GcpResource]` field. `setup_for_grpc`
calls the creates in order. `cleanup(force)` calls the deletes "in the reverse
order of creation".

- A delete with `force=True` recomputes the resource name, so it also finds
  resources that no field holds.
- A plain delete uses the field, and returns early when the field is None.
- The API refuses to delete a resource that another resource references.
- An exception in any call abandons the rest of the composite method.

The subclasses add more resources and override `cleanup`:

- `TrafficDirectorAppNetManager` adds a mesh and gRPC and HTTP routes. A route
  names the mesh and a backend service. Its cleanup deletes the routes and the
  mesh, then runs the base cleanup.
- `TrafficDirectorSecureManager` adds server and client TLS policies, an
  authorization policy and an endpoint policy. The endpoint policy names the
  server TLS and authorization policies, and
  `backend_service_apply_client_mtls_policy` patches the backend service to
  name the client TLS policy. Its cleanup runs the base cleanup, then deletes
  the endpoint, server TLS, client TLS and authorization policies.
- These creates call `create` and then `get`; the field is set from the `get`.

Each backend service also has a set of network endpoint groups (NEGs). The
manager keeps them in `self.backends` (and the alternative and affinity sets),
and pushes the whole set to the service with a patch.

A test calls these public methods one after another. The compute, network
services and network security APIs are not under `src/`; they are modelled
from `spec.md`.

## Modules

| module | models |
|---|---|
| `TrafficDirector` | the base manager, the compute API's effect on a project, and the caller |
| `MC_TrafficDirector` | the TLC instances: which public methods the caller may invoke |
| `TrafficDirectorProofs` | TLAPS proof of the type invariant |
| `CleanupOrderProofs` | TLAPS proof that cleanup's order respects every reference, for each manager class |
| `BackendMembership` | the NEG backends of the three backend services |
| `MC_BackendMembership` | its TLC instances: two zones, two backend services |
| `ForceCleanupProofs` | TLAPS proof that a forced cleanup that returns leaves only the firewall rules |
| `BackendMembershipProofs` | TLAPS proof that a returned push leaves the project's list equal to the local set |
| `ComputeProject` | the abstract project: what the compute and network services APIs promise (create under a free name, naming only existing resources of allowed kinds; delete only when unused; patch), with its proved integrity invariant |
| `ProjectRefinement` | the refinement mapping from `TrafficDirector` to `ComputeProject`, and its TLAPS proof |
| `MC_ProjectRefinement` | `MC_TrafficDirector` with the refinement's definitions; the runs `TD_alt` and `TD_secure` use it to check the refinement as a property |

The constant `Flavor` (`"base"`, `"appnet"` or `"secure"`) is the class of the
manager. It selects which `cleanup` runs. `ForeignOps` are the methods of the
other subclasses, which the caller cannot invoke.

### State in `TrafficDirector`

- `slot`: one entry per Optional field (`health_check`, `backend_service`, ...,
  `firewall_rule_ipv6`, `mesh`, `grpc_route`, ..., `endpoint_policy`). Each
  entry holds the resource or `Absent` (None).
- `protocol`, `isHttp` and `ensureFw`: `backend_service_protocol`,
  `target_proxy_is_http` and `_ensure_firewall`.
- `remote` and `refs`: the resources in the project, and what each one's body
  references. A URL map references its backend service, and so on down the
  chain.
- `pending`: the remaining calls of the running composite method.
- `topOp`: the last top-level operation.
- `outcome`: whether the last call returned, raised, or the process crashed.
- `faults` and `restarts`: counters, bounded by `MaxFaults` and `MaxRestarts`.

A name is identified with its base name. One manager, with one prefix and
suffix, owns every name. A gRPC and an HTTP target proxy share the name
`target-proxy`, but they live in different collections. The model therefore
keeps them as two resources, `TPGrpc` and `TPHttp`.

### Actions

Every public method is an operator named after it. Each one translates:

- the method's early return, or its AttributeError on a None field
  (`NoneError`);
- the remote call (`RemoteCreate` / `RemoteDelete`);
- the field assignment, which happens only after the call returns.

A remote call has one of three outcomes:

- `"none"`: success;
- `"rejected"`: the API raises and changes nothing;
- `"lost_reply"`: the change is made, but the caller sees an exception.

`create_firewall_rules` and `delete_firewall_rules` make two remote calls, with
outcomes `f` and `g`. `_delete_firewall_rule` swallows API errors, but a lost
reply (a transport error) propagates.

The AppNet and Secure creates also make two calls: `create`, then `get`
(`CreateThenGet`). When the `get` fails, the resource exists but the field
stays None. A TLS policy with neither `tls` nor `mtls` is not created.
`backend_service_apply_client_mtls_policy` reads `self.backend_service.name`
on both branches, so a None backend service always raises.

The three actions of `Next` are:

- `Invoke(c)`: the caller starts a public method. A composite method is expanded
  by `Expand` into its calls (`setup_for_grpc`, `setup_backend_for_grpc`,
  `setup_routing_rule_map_for_grpc`, `cleanup`), and the first call runs.
- `Continue`: the next call of a running composite method runs. A call that
  raises empties `pending`.
- `Restart`: the process dies. Every field is lost, and the project keeps its
  resources.

## Runs

| run | expect | checks |
|---|---|---|
| `TD_main` | pass | `TypeOK`, `CleanupOrderRespectsReferences`, `ForceCleanupComplete` on setup_for_grpc and its parts, the firewall rules, single deletes and cleanup, with dual stack |
| `TD_alt` | pass | the same properties, with the alternative and affinity resources and patch_url_map, without dual stack; and `ProjectSpec` |
| `TD_appnet` | pass | the same properties for the AppNet manager: mesh and routes over the serving chain |
| `TD_secure` | pass | the same properties for the Secure manager: both security setups, the authorization and endpoint policies, mTLS on the backend service; and `ProjectSpec` |
| `BM_main` | pass | `MembershipSynced` |
| `TD_proxy_flag` | violation | `ProxyKindTracked` |
| `BM_empty_zones` | violation | `AddWithoutZonesRaises` |
| `TD_firewall` | violation | `FirewallRetryPossible` |
| `TD_alt_url_map` | violation | `CleanupSucceedsWithoutFaults` |
| `TD_proxy_recreate` | violation | `TrackedNeverReplaced` |

The properties:

- **CleanupOrderRespectsReferences.** Whatever sequence of creates, patches,
  faults and restarts built the project, every reference in it points from a
  resource that `cleanup` deletes earlier to one that it deletes later.
- **ForceCleanupComplete.** A `cleanup(force=True)` that returns without an
  exception leaves nothing but, possibly, the firewall rules. Their deletion is
  best-effort and is skipped when `_ensure_firewall` is unset. This covers
  resources created by lost replies, resources left by a restarted process, and
  the map forgotten because of line 612.
- **ProjectSpec.** Every step of the manager, its caller and the project,
  faults and restarts included, is a step of `ComputeProject`, or leaves the
  project unchanged. The mapping is the identity on `remote` and `refs`.
  `Owned` is the set of resources of the manager's class (`FlavorRes`), and
  `Schema` is `MayRef`. A create must take a free name and name only existing
  resources its kind may name. A delete must hit an unused resource. A patch
  must re-point one existing resource within its kind. The mutants show what
  breaks it: the alternative proxy pointed at the default URL map (a
  copy-paste slip at line 695), and the endpoint policy naming the client TLS
  policy instead of the server one (line 1180). `TD_appnet` does not check it:
  the AppNet methods write fixed route bodies (the mesh and the default backend
  service), so for that class the property holds by the shape of the modelled
  API, and no slip in the AppNet code could break it. The theorem below covers
  that class as well.

Bounds: one fault and one restart in the passing runs. With these, TLC reaches
lost replies in every position of a composite method, and restarts between any
two calls. Each extra fault only repeats a pattern one fault already shows,
because the effects of faults do not accumulate: the project's state space is
the same finite set. The runs have no fairness, since every property is a
safety property. The model does not deadlock, because the caller can always
invoke `cleanup`.

## Findings

1. **Line 612 (code bug).** `delete_alternative_url_map` sets
   `self.url_map = None`. After it runs, a fault-free, non-forced `cleanup()`
   skips the default URL map. `delete_backend_service` then raises, because the
   map still references the backend service. (`TD_alt_url_map`)
2. **Line 871.** `delete_firewall_rules` clears `_ensure_firewall` even when a
   deletion failed and the field was kept. No later cleanup then retries the
   deletion, although spec section 7 says one does. (`TD_firewall`)
3. **Lines 614-633.** `create_target_proxy` does not check its field. After the
   protocol changes, it creates a proxy in the other collection and overwrites
   the field, orphaning the first proxy. (`TD_proxy_recreate`)
4. **Lines 619 and 623 (code bug).** `create_target_proxy` sets
   `target_proxy_is_http` before the remote call. When that call fails, the
   field still holds the proxy of the other kind. Spec section 4.2 says the flag
   "tracks whether the active proxy is HTTP-kind". A later non-forced cleanup
   then deletes by name in the wrong collection, clears the field, and orphans
   the proxy. (`TD_proxy_flag`)
5. **Line 291.** `backend_service_add_neg_backends` checks the accumulated set,
   not the NEGs just found. With no zones after an earlier add, it patches and
   returns. Spec section 8 says it raises and performs no patch.
   (`BM_empty_zones`)

## Proofs

The `TrafficDirector` proofs cover every value of the constants that satisfies
`ConstantsAssumption`:

- `Protocols` is a subset of `{"GRPC","HTTP2"}`;
- the bounds are naturals;
- `Callable` contains `"cleanup"`;
- `Flavor` is one of the three classes.

**`TrafficDirectorProofs!TypeCorrect`: `Spec => []TypeOK`.** `TypeOK` is
inductive by itself. The proof has one lemma per kind of method: create into a
field, create-then-get, delete from a field, proxy, forwarding rule, firewall,
the AppNet and Secure methods, and the mTLS patch. A further lemma shows that
every `Expand` is a sequence of the calls of the manager's own class
(`OwnCalls`).

**`CleanupOrderProofs!CleanupOrderCorrect`:
`EnableDualstack = TRUE => (Spec => []CleanupOrderRespectsReferences)`.** The
property is not inductive as it stands, because it says nothing about which
references a create may add. The strengthening is `RefsBounded`: every resource
references only what its kind may reference (`MayRef`). `MayRef` depends on the
class:

- a forwarding rule may reference its proxy;
- a proxy may reference its URL map;
- a map may reference the backend services;
- a backend service may reference the health check, and for the Secure manager
  also the client TLS policy;
- for the AppNet manager, a route may reference the mesh and the backend
  services;
- for the Secure manager, the endpoint policy may reference the server TLS and
  authorization policies.

TLC checked `RefsBounded` as an invariant on `TD_main`, `TD_appnet` and
`TD_secure`. The proof has three parts:

1. `TypeOK /\ RefsBounded` is inductive. Each action changes `refs` at most at
   one entry, and only to a subset of `MayRef`.
2. `DelPos` gives each resource's position in `cleanup(TRUE)`. The base
   positions are shifted by three for the AppNet manager, whose routes and mesh
   come first. The four policies are appended at 15 to 18 for the Secure
   manager. `DelPos` strictly increases along `MayRef`.
3. The positions `DelPos` assigns are the ones the call list has. The lemmas
   `AppNetList` and `SecureList` give the subclass lists in terms of the base
   list. So `MayRef` implies the property.

`EnableDualstack` is assumed TRUE for this theorem. Without dual stack, the IPv6
deletes are absent from the list, and the property only holds because an IPv6
proxy is never referenced. `TD_alt`, `TD_appnet` and `TD_secure` check that
case with TLC.

**`BackendMembershipProofs!MembershipSyncedCorrect`:
`Spec => []MembershipSynced`.** This holds for every set of zones, every set of
services that contains the default one, and every pair of bounds. The
inductive invariant is `TypeOK /\ MembershipSynced`:

- a push that returns has set the list to the new local set (lemma
  `PushSynced`);
- every other call records an operation outside add, remove and patch
  (`NotPushSynced`);
- a restart makes the outcome `"crashed"`.

**`ForceCleanupProofs!ForceCleanupCorrect`:
`EnableDualstack = TRUE => (Spec => []ForceCleanupComplete)`.** This holds for
every flavor and every pair of bounds. `ForceCleanupComplete` is not inductive:
it speaks only of the state after the last delete, so it says nothing about
the states in between. The inductive invariant `IInv` has four conjuncts:

- `TypeOK`;
- `RemoteInFlavor`: the project holds only resources of the manager's class;
- `RaisedIdle`: a call that raised or crashed leaves no calls pending;
- `ForceInv`: while a forced cleanup is running and nothing has raised, there
  is a progress index `k`. The pending calls are exactly the list
  `cleanup(TRUE)` after its first `k` entries, and every resource left in the
  project that is not a firewall rule has its `DelPos` beyond `k`.

Each delete of the list that returns has removed its resources, whether the
resource existed or was already gone (lemma `ForceDeleteStep`, one case per
delete). A create never runs inside a forced cleanup. When the list is
exhausted, `k` equals the list's length. Every non-firewall resource has a
position at most that length, so none is left. TLC checked `IInv` as an
invariant of all five chains before the proof was written. In the proof the
list is named `ForceList`, and the lemma `ForceListFacts` states what is used
about it: it is a sequence of forced deletes, and `DelPos` indexes it.

**`ProjectRefinement!Refinement`: `Spec => ProjectSpec`.** This holds for
every flavor, every protocol set, every pair of bounds, and both values of
`EnableDualstack`. `ComputeProject`'s actions take the set of resources a step
adds or removes: `create_firewall_rules` and `delete_firewall_rules` make two
remote calls in one step of the detailed model. Its `Next` is therefore
written over pairs of states (`Insert(remote' \ remote)`,
`Remove(remote \ remote')`), so it is only meaningful as a property of
another specification, and no run executes it by itself. The proof has four
parts:

1. The inductive invariant is `PInv == TypeOK /\ RefsBounded /\ CP!Integrity`.
   `CP!Integrity'` follows from the abstract module's own lemma
   `IntegrityStep`, instantiated, once the step is known to be a
   `ComputeProject` step. `RefsBounded` is the strengthening from
   `CleanupOrderProofs`.
2. Each step is first shown to be a step of `CPFree`: the same module with
   every resource owned and every reference allowed. There is one lemma per
   kind of remote call (create into a field, create-then-get, delete, the
   firewall pair, re-pointing a URL map or a backend service) and `ExecFree`
   has one case per method.
3. `FreeToCP` lifts a `CPFree` step to a `CP` step with two facts. The first
   is that the project only gains resources of the manager's class
   (`RemoteStep`, from `ForceCleanupProofs`). The second is that the new
   references are within `MayRef` (`RefsBounded'`).
4. The firewall rules are never named (`FirewallUnnamed`). So their delete
   needs no in-use check beyond the one the API makes.

**`ProjectRefinement!ProjectIntegrity`: `Spec => []CP!Integrity`.** This follows
from the refinement and the lemma `ComputeProject!IntegrityInvariant`, which
proves the abstract integrity for every `Owned` within `Resources`. That lemma
is about the API alone. The theorem is about the code, because the refinement
is what ties the manager's steps to the API's rules. The project never
holds a resource outside the manager's class. It never holds a reference to a
missing resource, or to a kind the referencing body may not name.

Only TLC checks these:

- Among the properties the passing runs check, only the cases without dual
  stack of `CleanupOrderRespectsReferences` and `ForceCleanupComplete`. Every
  other property is proved for every value of the constants.
  The project states no liveness property. The composite methods are
  straight-line code over a finite list of calls, so "every composite method
  ends" would hold whatever the code does. Liveness and `ENABLED` are beyond
  TLAPS here in any case.
- What the `violation` runs show. These are findings: the property fails, so
  there is nothing to prove.

## Not modelled yet, and the plan

- **`create_url_map_with_content`** (lines 561-565). This public method creates a
  URL map from a caller's body, and no test calls it. The other URL-map creates
  are modelled.
- **`find_unused_forwarding_rule_port`.** Planned: a bounded random search, with
  a second manager racing for the port.
- **`make_resource_name`, and several managers sharing a project.** Planned: a
  `Naming` module for prefixes and suffixes, including the empty suffix.
- **The `subTest` steps of `custom_lb_test`.** These continue after an
  exception. The RPC checks against live servers are out of scope.
- **The protocol fields of the alternative and affinity backend services.**
  These are written but never read, so no property could tell them apart.
- **`_get_certificate_provider` and the body contents** (SPIFFE names, port
  selectors, certificate fields). They build data and change no state.
