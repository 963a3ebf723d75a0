----------------------- MODULE BackendMembershipProofs -----------------------
(***************************************************************************)
(* Proofs about BackendMembership for every set of zones and variants and *)
(* every bound on faults and restarts.                                     *)
(***************************************************************************)
EXTENDS BackendMembership, TLAPS

\* The inductive invariant: the type invariant and MembershipSynced.
Inv == TypeOK /\ MembershipSynced

(* Every call that is not a push (create, load, delete, remove_all, wait) *)
(* records an op outside add/remove/patch, so MembershipSynced holds       *)
(* after it whatever it did to the backend lists.                          *)
LEMMA NotPushSynced ==
  ASSUME lastCall'.op \notin {"add", "remove", "patch"}
  PROVE  MembershipSynced'
BY DEF MembershipSynced

(* A push that returns leaves the service's list equal to the set pushed. *)
LEMMA PushSynced ==
  ASSUME NEW v \in Variants, NEW set, NEW f \in Faults,
         TypeOK, PushBackends(v, set, f), outcome' = "ok"
  PROVE  attached'[v] = set
BY DEF PushBackends, Finish, TypeOK

(* Called keeps the caller's fields typed: the call is recorded with a   *)
(* variant and zones of the model, and the fault count stays in bounds.  *)
LEMMA CalledType ==
  ASSUME TypeOK, NEW op \in Ops, NEW v \in Variants, NEW zones \in SUBSET Zones,
         NEW cost \in Nat, Called(op, v, zones, cost)
  PROVE  /\ lastCall' \in [op : Ops, v : Variants, zones : SUBSET Zones]
         /\ faults' \in 0..MaxFaults
         /\ restarts' \in 0..MaxRestarts
BY DEF Called, TypeOK

\* A push keeps the backend list a function to sets of zones.
LEMMA PushType ==
  ASSUME TypeOK, NEW v \in Variants, NEW set \in SUBSET Zones, NEW f \in Faults,
         PushBackends(v, set, f)
  PROVE  /\ attached' \in [Variants -> SUBSET Zones]
         /\ outcome' \in {"ok", "raised", "crashed"}
BY DEF PushBackends, Finish, TypeOK

LEMMA CostNat == \A f : Cost(f) \in Nat
BY DEF Cost

\* The type invariant and MembershipSynced hold initially.
LEMMA InitInv == Init => Inv
BY MembershipAssumption DEF Init, Inv, TypeOK, MembershipSynced, Ops

(* Every step keeps both: a push sets the service's list to the new local *)
(* set when it returns, and the other steps make MembershipSynced vacuous *)
(* (a restart leaves the last call and makes the outcome "crashed").       *)
LEMMA NextInv == Inv /\ [Next]_vars => Inv'
<1> SUFFICES ASSUME Inv, [Next]_vars PROVE Inv'
  OBVIOUS
<1>0. TypeOK
  BY DEF Inv
<1>1. TypeOK'
  <2>1. ASSUME NEW v \in Variants, NEW f \in Faults, create_backend_service(v, f)
        PROVE  TypeOK'
    BY <1>0, <2>1, CalledType, CostNat DEF create_backend_service, Finish, TypeOK, Ops
  <2>2. ASSUME NEW v \in Variants, NEW f \in Faults, load_backend_service(v, f)
        PROVE  TypeOK'
    BY <1>0, <2>2, CalledType, CostNat DEF load_backend_service, Finish, TypeOK, Ops
  <2>3. ASSUME NEW v \in Variants, NEW f \in Faults, NEW force \in BOOLEAN,
               delete_backend_service(v, force, f)
        PROVE  TypeOK'
    BY <1>0, <2>3, CalledType, CostNat
    DEF delete_backend_service, Finish, TypeOK, Ops
  <2>4. ASSUME NEW v \in Variants, NEW f \in Faults, NEW zones \in SUBSET Zones,
               NEW l \in {"none", "timeout"}, add_neg_backends(v, zones, l, f)
        PROVE  TypeOK'
    <3>1. lastCall' \in [op : Ops, v : Variants, zones : SUBSET Zones]
          /\ faults' \in 0..MaxFaults /\ restarts' \in 0..MaxRestarts
      <4>1. Cost(l) + Cost(f) \in Nat
        BY CostNat
      <4>. QED  BY <1>0, <2>4, <4>1, CalledType DEF add_neg_backends, Ops
    <3>2. local' \in [Variants -> SUBSET Zones]
      <4>1. CASE l = "timeout"
        BY <2>4, <4>1, <1>0 DEF add_neg_backends, TypeOK
      <4>2. CASE l = "none"
        <5>1. local' = [local EXCEPT ![v] = local[v] \cup zones]
          BY <2>4, <4>2 DEF add_neg_backends
        <5>. QED  BY <1>0, <5>1 DEF TypeOK
      <4>. QED  BY <4>1, <4>2
    <3>3. attached' \in [Variants -> SUBSET Zones]
          /\ outcome' \in {"ok", "raised", "crashed"}
      BY <1>0, <2>4, PushType DEF add_neg_backends, Finish, TypeOK
    <3>. QED  BY <1>0, <2>4, <3>1, <3>2, <3>3 DEF add_neg_backends, TypeOK
  <2>5. ASSUME NEW f \in Faults, NEW zones \in SUBSET Zones,
               NEW l \in {"none", "timeout"}, remove_neg_backends(zones, l, f)
        PROVE  TypeOK'
    <3>0. "default" \in Variants
      BY MembershipAssumption
    <3>1. lastCall' \in [op : Ops, v : Variants, zones : SUBSET Zones]
          /\ faults' \in 0..MaxFaults /\ restarts' \in 0..MaxRestarts
      <4>1. Cost(l) + Cost(f) \in Nat
        BY CostNat
      <4>. QED  BY <1>0, <2>5, <3>0, <4>1, CalledType DEF remove_neg_backends, Ops
    <3>2. local' \in [Variants -> SUBSET Zones]
      <4>1. CASE l = "timeout"
        BY <2>5, <4>1, <1>0 DEF remove_neg_backends, TypeOK
      <4>2. CASE l = "none"
        <5>1. local' = [local EXCEPT !["default"] = local["default"] \ zones]
          BY <2>5, <4>2 DEF remove_neg_backends
        <5>. QED  BY <1>0, <3>0, <5>1 DEF TypeOK
      <4>. QED  BY <4>1, <4>2
    <3>3. attached' \in [Variants -> SUBSET Zones]
          /\ outcome' \in {"ok", "raised", "crashed"}
      BY <1>0, <2>5, <3>0, PushType DEF remove_neg_backends, Finish, TypeOK
    <3>. QED  BY <1>0, <2>5, <3>1, <3>2, <3>3 DEF remove_neg_backends, TypeOK
  <2>6. ASSUME NEW v \in Variants, NEW f \in Faults, patch_backends(v, f)
        PROVE  TypeOK'
    BY <1>0, <2>6, CalledType, CostNat, PushType DEF patch_backends, TypeOK, Ops
  <2>7. ASSUME NEW v \in Variants, NEW f \in Faults, remove_all_backends(v, f)
        PROVE  TypeOK'
    <3>1. {} \in SUBSET Zones
      OBVIOUS
    <3>. QED  BY <1>0, <2>7, <3>1, CalledType, CostNat, PushType
              DEF remove_all_backends, TypeOK, Ops
  <2>8. ASSUME NEW v \in Variants, wait_for_backends_healthy_status(v)
        PROVE  TypeOK'
    BY <1>0, <2>8, CalledType DEF wait_for_backends_healthy_status, Finish,
                                  TypeOK, Ops
  <2>9. CASE Restart
    BY <1>0, <2>9, MembershipAssumption DEF Restart, TypeOK
  <2>10. CASE UNCHANGED vars
    BY <1>0, <2>10 DEF TypeOK, vars
  <2>. QED  BY <2>1, <2>2, <2>3, <2>4, <2>5, <2>6, <2>7, <2>8, <2>9, <2>10
            DEF Next
<1>2. MembershipSynced'
  <2>1. ASSUME NEW v \in Variants, NEW f \in Faults,
               \/ create_backend_service(v, f)
               \/ load_backend_service(v, f)
               \/ \E force \in BOOLEAN : delete_backend_service(v, force, f)
               \/ remove_all_backends(v, f)
        PROVE  MembershipSynced'
    <3>1. lastCall'.op \notin {"add", "remove", "patch"}
      <4>1. CASE create_backend_service(v, f)
        BY <4>1 DEF create_backend_service, Called
      <4>2. CASE load_backend_service(v, f)
        BY <4>2 DEF load_backend_service, Called
      <4>3. CASE \E force \in BOOLEAN : delete_backend_service(v, force, f)
        BY <4>3 DEF delete_backend_service, Called
      <4>4. CASE remove_all_backends(v, f)
        BY <4>4 DEF remove_all_backends, Called
      <4>. QED  BY <2>1, <4>1, <4>2, <4>3, <4>4
    <3>. QED  BY <3>1, NotPushSynced
  <2>2. ASSUME NEW v \in Variants, NEW f \in Faults,
               NEW zones \in SUBSET Zones, NEW l \in {"none", "timeout"},
               add_neg_backends(v, zones, l, f)
        PROVE  MembershipSynced'
    <3>. DEFINE new == local[v] \cup zones
    <3>1. lastCall'.v = v
      BY <2>2 DEF add_neg_backends, Called
    <3>2. SUFFICES ASSUME outcome' = "ok" PROVE attached'[v] = local'[v]
      BY <3>1 DEF MembershipSynced
    <3>3. l = "none" /\ new # {} /\ local' = [local EXCEPT ![v] = new]
          /\ PushBackends(v, new, f)
      BY <2>2, <3>2 DEF add_neg_backends, Finish
    <3>4. local'[v] = new
      BY <3>3, Inv DEF Inv, TypeOK
    <3>5. attached'[v] = new
      BY <1>0, <3>2, <3>3, PushSynced
    <3>. QED  BY <3>4, <3>5
  <2>3. ASSUME NEW f \in Faults, NEW zones \in SUBSET Zones,
               NEW l \in {"none", "timeout"}, remove_neg_backends(zones, l, f)
        PROVE  MembershipSynced'
    <3>0. "default" \in Variants
      BY MembershipAssumption
    <3>. DEFINE new == local["default"] \ zones
    <3>1. lastCall'.v = "default"
      BY <2>3 DEF remove_neg_backends, Called
    <3>2. SUFFICES ASSUME outcome' = "ok"
                   PROVE  attached'["default"] = local'["default"]
      BY <3>1 DEF MembershipSynced
    <3>3. l = "none" /\ local' = [local EXCEPT !["default"] = new]
          /\ PushBackends("default", new, f)
      BY <2>3, <3>2 DEF remove_neg_backends, Finish
    <3>4. local'["default"] = new
      BY <3>0, <3>3, Inv DEF Inv, TypeOK
    <3>5. attached'["default"] = new
      BY <1>0, <3>0, <3>2, <3>3, PushSynced
    <3>. QED  BY <3>4, <3>5
  <2>4. ASSUME NEW v \in Variants, NEW f \in Faults, patch_backends(v, f)
        PROVE  MembershipSynced'
    <3>1. lastCall'.v = v /\ local' = local
      BY <2>4 DEF patch_backends, Called
    <3>2. SUFFICES ASSUME outcome' = "ok" PROVE attached'[v] = local'[v]
      BY <3>1 DEF MembershipSynced
    <3>. QED  BY <2>4, <3>1, <3>2, PushSynced, Inv DEF Inv, patch_backends
  <2>5. ASSUME NEW v \in Variants, wait_for_backends_healthy_status(v)
        PROVE  MembershipSynced'
    BY <2>5, NotPushSynced DEF wait_for_backends_healthy_status, Called
  <2>6. CASE Restart
    BY <2>6 DEF Restart, MembershipSynced
  <2>7. CASE UNCHANGED vars
    BY <2>7, Inv DEF Inv, MembershipSynced, vars
  <2>. QED  BY <2>1, <2>2, <2>3, <2>4, <2>5, <2>6, <2>7 DEF Next
<1>. QED  BY <1>1, <1>2 DEF Inv

(* MembershipSynced holds in every reachable state: once an add, remove or *)
(* patch of a backend service's NEGs returns, the service's backends in    *)
(* the project are exactly the manager's local set, whatever failed,       *)
(* lost its reply or restarted before.                                     *)
THEOREM MembershipSyncedCorrect == Spec => []MembershipSynced
<1>1. Init => Inv
  BY InitInv
<1>2. Inv /\ [Next]_vars => Inv'
  BY NextInv
<1>3. Inv => MembershipSynced
  BY DEF Inv
<1>. QED  BY <1>1, <1>2, <1>3, PTL DEF Spec

=============================================================================
