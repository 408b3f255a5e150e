--------------------------- MODULE MC_Coordinator ---------------------------
(***************************************************************************)
(* Instantiates the coordinator for TLC: two pods sharing one sandbox id   *)
(* (the id is compared only with the pod's own record), a pool of one or   *)
(* two secondary IPs, one ENI and one elastic IP.  Pods and IPs are        *)
(* symmetric: the managers hand out any free item and the handlers treat   *)
(* pods alike.                                                             *)
(***************************************************************************)
EXTENDS Coordinator, TLC

CONSTANTS p1, p2, c1, ip1, ip2, eni1, eip1

MCPods         == {p1, p2}
MCContainerIDs == {c1}
MCOneIP        == {ip1}
MCTwoIPs       == {ip1, ip2}
MCEIPIds       == {eip1}
MCENIIds       == {eni1}

Symmetry == Permutations(MCPods) \cup Permutations(MCTwoIPs)

\* Who each resource is handed to, and the pods pendingPods holds.
Alloc == INSTANCE AbstractAlloc WITH holder <- owner, busy <- pending,
                                     Items <- Items, Pods <- Pods, Free <- Free

(***************************************************************************)
(* Between restarts the coordinator drives the managers as the abstract   *)
(* discipline allows: AllocIP's Allocate with a prior id and its rollback *)
(* grant and release only the pod's own resources, ReleaseIP releases     *)
(* only what its pod holds, and the GC pass, under the write lock,        *)
(* releases only while no handler runs.                                    *)
(***************************************************************************)
AllocRefined == Alloc!Spec

=============================================================================
