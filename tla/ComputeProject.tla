--------------------------- MODULE ComputeProject ---------------------------
(***************************************************************************)
(* What the compute and network services APIs guarantee about the         *)
(* resources of one project, seen from the manager that drives it.         *)
(*                                                                         *)
(* A resource is created only under a name that is free, only of a kind   *)
(* the manager's class creates, and naming only resources that exist and  *)
(* that its kind may name.  It is deleted only when no resource of the    *)
(* project names it (the API answers resourceInUseByAnotherResource).     *)
(* The references of a resource that exists change (a patch) only to      *)
(* resources of the same kind.                                            *)
(*                                                                         *)
(* One step may create, or delete, several resources at once:              *)
(* create_firewall_rules and delete_firewall_rules make two remote calls   *)
(* that the detailed specification runs as one step.  The parameter of    *)
(* each action is the set of resources the step adds or removes, so Next  *)
(* relates a pair of states and is checked as a property of the detailed  *)
(* specification rather than run by itself.                               *)
(***************************************************************************)
EXTENDS TLAPS

CONSTANTS
  Resources,  \* the resources a project may hold
  Owned,      \* those the manager's class creates
  Schema      \* resource -> the resources its body may name

VARIABLES
  remote,  \* the resources that exist in the project
  refs     \* resource -> the resources its body names

vars == <<remote, refs>>

InUse(r) == \E q \in remote : r \in refs[q]

Init ==
  /\ remote = {}
  /\ refs = [r \in Resources |-> {}]

\* The resources in `new` are created, each naming existing resources.
Insert(new) ==
  /\ new # {}
  /\ new \subseteq Owned \ remote
  /\ remote' = remote \cup new
  /\ refs' \in [Resources -> SUBSET Resources]
  /\ \A r \in new : refs'[r] \subseteq remote \cap Schema[r]
  /\ \A r \in Resources \ new : refs'[r] = refs[r]

\* The resources in `gone` are deleted; none of them is in use.
Remove(gone) ==
  /\ gone # {}
  /\ gone \subseteq remote
  /\ \A r \in gone : ~InUse(r)
  /\ remote' = remote \ gone
  /\ refs' = [r \in Resources |-> IF r \in gone THEN {} ELSE refs[r]]

\* The body of an existing resource r is patched to name other resources.
Repoint(r) ==
  /\ r \in remote
  /\ remote' = remote
  /\ refs' \in [Resources -> SUBSET Resources]
  /\ refs'[r] \subseteq remote \cap Schema[r]
  /\ \A q \in Resources \ {r} : refs'[q] = refs[q]

Next ==
  \/ Insert(remote' \ remote)
  \/ Remove(remote \ remote')
  \/ \E r \in remote : Repoint(r)

Spec == Init /\ [][Next]_vars

-----------------------------------------------------------------------------
TypeOK ==
  /\ remote \subseteq Resources
  /\ refs \in [Resources -> SUBSET Resources]

(* No dangling reference: the project holds only the manager's resources; *)
(* every resource in it names only resources that are in it, of the kinds *)
(* its body may name; a resource that is not in it names nothing.         *)
Integrity ==
  /\ remote \subseteq Owned
  /\ \A q \in Resources :
       /\ refs[q] \subseteq Schema[q]
       /\ q \in remote => refs[q] \subseteq remote
       /\ q \notin remote => refs[q] = {}

\* Every step of the project keeps the type and the integrity.
LEMMA IntegrityStep ==
  ASSUME Owned \subseteq Resources,
         TypeOK, Integrity, [Next]_vars
  PROVE  TypeOK' /\ Integrity'
<1>1. CASE Insert(remote' \ remote)
  BY <1>1 DEF Insert, TypeOK, Integrity
<1>2. CASE Remove(remote \ remote')
  BY <1>2 DEF Remove, InUse, TypeOK, Integrity
<1>3. CASE \E r \in remote : Repoint(r)
  BY <1>3 DEF Repoint, TypeOK, Integrity
<1>4. CASE UNCHANGED vars
  BY <1>4 DEF vars, TypeOK, Integrity
<1>. QED  BY <1>1, <1>2, <1>3, <1>4 DEF Next

(* Whatever the order of creates, deletes and patches, the project never  *)
(* holds a reference to a resource it does not hold: a fact about the API  *)
(* alone, used by ProjectRefinement!ProjectIntegrity to carry it over to   *)
(* the projects the manager's calls build.                                *)
LEMMA IntegrityInvariant ==
  ASSUME Owned \subseteq Resources
  PROVE  Spec => [](TypeOK /\ Integrity)
<1>1. Init => TypeOK /\ Integrity
  BY DEF Init, TypeOK, Integrity
<1>2. TypeOK /\ Integrity /\ [Next]_vars => TypeOK' /\ Integrity'
  BY IntegrityStep
<1>. QED  BY <1>1, <1>2, PTL DEF Spec

=============================================================================
