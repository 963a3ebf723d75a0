-------------------------- MODULE BackendMembership --------------------------
(***************************************************************************)
(* The backends of TrafficDirectorManager's three backend services.        *)
(* The manager keeps a local set of network endpoint groups per service    *)
(* (self.backends, self.alternative_backends, self.affinity_backends);     *)
(* add_neg_backends unions the NEGs found in some zones into it and        *)
(* pushes the whole set to the service with a patch, remove_neg_backends   *)
(* takes them out and pushes it again, remove_all_backends empties the     *)
(* service's list in the project without touching the local set.           *)
(*                                                                         *)
(* A NEG is identified with its zone (one deployment name per test).  A    *)
(* backend service is reduced to what membership depends on: whether its  *)
(* field is set, whether it exists in the project, and its backend list.  *)
(* A remote call may fail ("rejected") or lose its reply ("lost_reply");  *)
(* the NEG lookup (wait_for_network_endpoint_group) may time out; the     *)
(* process may restart, losing the fields and the local sets.             *)
(***************************************************************************)
EXTENDS Naturals, FiniteSets

CONSTANTS
  Zones,        \* the zones a test deploys its server to
  Variants,     \* the backend services in use: "default" and the variants
  MaxFaults,    \* remote calls that may fail or lose their reply
  MaxRestarts   \* restarts of the process that owns the manager

ASSUME MembershipAssumption ==
  /\ Zones # {}
  /\ Variants \subseteq {"default", "alternative", "affinity"}
  /\ "default" \in Variants
  /\ MaxFaults \in Nat
  /\ MaxRestarts \in Nat

Faults == {"none", "rejected", "lost_reply"}

VARIABLES
  field,     \* variant -> the *_backend_service field is set
  exists,    \* variant -> the backend service exists in the project
  local,     \* variant -> self.*backends, the NEGs the manager believes attached
  attached,  \* variant -> the service's backends in the project
  lastCall,  \* the last public method: [op, v, zones]
  outcome,   \* it returned ("ok"), raised, or the process "crashed"
  faults,    \* remote calls that failed so far
  restarts   \* restarts so far

vars == <<field, exists, local, attached, lastCall, outcome, faults, restarts>>

Ops == {"create", "delete", "load", "add", "remove", "patch", "remove_all",
        "wait"}

Cost(f) == IF f = "none" THEN 0 ELSE 1

\* The call records itself and pays for its failed remote calls.
Called(op, v, zones, cost) ==
  /\ faults + cost <= MaxFaults
  /\ faults' = faults + cost
  /\ lastCall' = [op |-> op, v |-> v, zones |-> zones]
  /\ UNCHANGED restarts

Finish(ok) == outcome' = IF ok THEN "ok" ELSE "raised"

-----------------------------------------------------------------------------
(* create_*_backend_service: the API refuses an existing name; a new      *)
(* service has no backends.  The field is set only when the call returns. *)
create_backend_service(v, f) ==
  LET applies == f # "rejected" /\ ~exists[v]
  IN /\ Called("create", v, {}, Cost(f))
     /\ exists' = [exists EXCEPT ![v] = @ \/ applies]
     /\ attached' = IF applies THEN [attached EXCEPT ![v] = {}] ELSE attached
     /\ field' = IF applies /\ f = "none" THEN [field EXCEPT ![v] = TRUE]
                 ELSE field
     /\ Finish(applies /\ f = "none")
     /\ UNCHANGED local

\* load_*_backend_service: a get by name; the local set is not reloaded.
load_backend_service(v, f) ==
  /\ Called("load", v, {}, Cost(f))
  /\ field' = IF exists[v] /\ f = "none" THEN [field EXCEPT ![v] = TRUE]
              ELSE field
  /\ Finish(exists[v] /\ f = "none")
  /\ UNCHANGED <<exists, local, attached>>

(* delete_*_backend_service(force): by the recomputed name under force,   *)
(* by the field otherwise (an early return when it is None).  The local   *)
(* set is kept.                                                           *)
delete_backend_service(v, force, f) ==
  /\ Called("delete", v, {}, Cost(f))
  /\ IF force \/ field[v]
     THEN /\ exists' = [exists EXCEPT ![v] = @ /\ f = "rejected"]
          /\ attached' = IF f # "rejected" THEN [attached EXCEPT ![v] = {}]
                         ELSE attached
          /\ field' = IF f = "none" THEN [field EXCEPT ![v] = FALSE] ELSE field
          /\ Finish(f = "none")
     ELSE UNCHANGED <<field, exists, attached>> /\ Finish(TRUE)
  /\ UNCHANGED local

-----------------------------------------------------------------------------
(* compute.backend_service_patch_backends(self.*_backend_service, set):    *)
(* the service's list becomes the whole set.  Reading the field's .name   *)
(* for the log raises AttributeError when it is None; a service that was  *)
(* deleted behind the field answers not found.                            *)
PushBackends(v, set, f) ==
  IF ~field[v]
  THEN f = "none" /\ UNCHANGED attached /\ Finish(FALSE)
  ELSE /\ attached' = IF exists[v] /\ f # "rejected"
                      THEN [attached EXCEPT ![v] = set] ELSE attached
       /\ Finish(exists[v] /\ f = "none")

\* Mutant: only the NEGs just found are pushed, not the whole set.
add_neg_backends_new_only(v, zones, l, f) ==
  LET new == local[v] \cup zones
  IN /\ Called("add", v, zones, Cost(l) + Cost(f))
     /\ l \in {"none", "timeout"}
     /\ zones = {} => l = "none"
     /\ IF l = "timeout"
        THEN f = "none" /\ UNCHANGED <<local, attached>> /\ Finish(FALSE)
        ELSE /\ local' = [local EXCEPT ![v] = new]
             /\ IF new = {}
                THEN f = "none" /\ UNCHANGED attached /\ Finish(FALSE)
                ELSE PushBackends(v, zones, f)
     /\ UNCHANGED <<field, exists>>

(* *_add_neg_backends(name, zones): the NEGs are looked up zone by zone    *)
(* (a timeout raises before anything changes), unioned into the local set, *)
(* the union is checked to be non-empty, and the whole set is pushed.      *)
add_neg_backends(v, zones, l, f) ==
  LET new == local[v] \cup zones
  IN /\ Called("add", v, zones, Cost(l) + Cost(f))
     /\ l \in {"none", "timeout"}
     /\ zones = {} => l = "none"
     /\ IF l = "timeout"
        THEN f = "none" /\ UNCHANGED <<local, attached>> /\ Finish(FALSE)
        ELSE /\ local' = [local EXCEPT ![v] = new]
             /\ IF new = {}
                THEN f = "none" /\ UNCHANGED attached /\ Finish(FALSE)
                ELSE PushBackends(v, new, f)
     /\ UNCHANGED <<field, exists>>

\* backend_service_remove_neg_backends (the default service only): no check.
remove_neg_backends(zones, l, f) ==
  LET new == local["default"] \ zones
  IN /\ Called("remove", "default", zones, Cost(l) + Cost(f))
     /\ l \in {"none", "timeout"}
     /\ zones = {} => l = "none"
     /\ IF l = "timeout"
        THEN f = "none" /\ UNCHANGED <<local, attached>> /\ Finish(FALSE)
        ELSE /\ local' = [local EXCEPT !["default"] = new]
             /\ PushBackends("default", new, f)
     /\ UNCHANGED <<field, exists>>

patch_backends(v, f) ==
  /\ Called("patch", v, {}, Cost(f))
  /\ PushBackends(v, local[v], f)
  /\ UNCHANGED <<field, exists, local>>

\* *_remove_all_backends: the project's list is emptied, the local set kept.
remove_all_backends(v, f) ==
  /\ Called("remove_all", v, {}, Cost(f))
  /\ PushBackends(v, {}, f)
  /\ UNCHANGED <<field, exists, local>>

(* wait_for_*backends_healthy_status: polls until the NEGs of the local   *)
(* set report healthy in the service; one that is not attached never      *)
(* does, and the collaborator's deadline raises.                          *)
wait_for_backends_healthy_status(v) ==
  /\ Called("wait", v, {}, 0)
  /\ Finish(field[v] /\ exists[v] /\ local[v] \subseteq attached[v])
  /\ UNCHANGED <<field, exists, local, attached>>

\* The process dies: the fields and the local sets are lost.
Restart ==
  /\ restarts < MaxRestarts
  /\ restarts' = restarts + 1
  /\ field' = [v \in Variants |-> FALSE]
  /\ local' = [v \in Variants |-> {}]
  /\ outcome' = "crashed"
  /\ UNCHANGED <<exists, attached, lastCall, faults>>

-----------------------------------------------------------------------------
Init ==
  /\ field = [v \in Variants |-> FALSE]
  /\ exists = [v \in Variants |-> FALSE]
  /\ local = [v \in Variants |-> {}]
  /\ attached = [v \in Variants |-> {}]
  /\ lastCall = [op |-> "create", v |-> "default", zones |-> {}]
  /\ outcome = "ok"
  /\ faults = 0
  /\ restarts = 0

Next ==
  \/ \E v \in Variants, f \in Faults :
       \/ create_backend_service(v, f)
       \/ load_backend_service(v, f)
       \/ \E force \in BOOLEAN : delete_backend_service(v, force, f)
       \/ \E zones \in SUBSET Zones, l \in {"none", "timeout"} :
            add_neg_backends(v, zones, l, f)
       \/ patch_backends(v, f)
       \/ remove_all_backends(v, f)
  \/ \E v \in Variants : wait_for_backends_healthy_status(v)
  \/ \E zones \in SUBSET Zones, l \in {"none", "timeout"}, f \in Faults :
       remove_neg_backends(zones, l, f)
  \/ Restart

Spec == Init /\ [][Next]_vars

-----------------------------------------------------------------------------
(* Properties *)

TypeOK ==
  /\ field \in [Variants -> BOOLEAN]
  /\ exists \in [Variants -> BOOLEAN]
  /\ local \in [Variants -> SUBSET Zones]
  /\ attached \in [Variants -> SUBSET Zones]
  /\ lastCall \in [op : Ops, v : Variants, zones : SUBSET Zones]
  /\ outcome \in {"ok", "raised", "crashed"}
  /\ faults \in 0..MaxFaults
  /\ restarts \in 0..MaxRestarts

(* The patch pushes "the full current membership set, not a delta" (spec  *)
(* section 4.2): whatever earlier adds, removes or patches failed, lost    *)
(* their reply, or ran before a restart, once an add, remove or patch      *)
(* returns, the service's backends in the project are exactly the local   *)
(* set (so the local set being ahead after a failed patch, line 290, is   *)
(* repaired by the next push).                                            *)
MembershipSynced ==
  (lastCall.op \in {"add", "remove", "patch"} /\ outcome = "ok")
    => attached[lastCall.v] = local[lastCall.v]

(* Spec section 8: add_backends with no zones "raises the empty-result     *)
(* error and performs no patch call".                                     *)
AddWithoutZonesRaises ==
  [][(lastCall'.op = "add" /\ lastCall'.zones = {} /\ outcome' # "crashed")
       => (outcome' = "raised" /\ attached' = attached)]_vars

=============================================================================
