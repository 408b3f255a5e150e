---------------------------- MODULE AbstractAlloc ----------------------------
(***************************************************************************)
(* The resource discipline the coordinator promises (spec sections 4.1,   *)
(* 4.2 and 5): each resource is held by at most one pod and passes from    *)
(* one pod to another only by being released first; a request handler    *)
(* serving a pod grants resources to that pod and releases only that      *)
(* pod's resources; the garbage collector releases resources only while   *)
(* no handler runs, several in one pass.                                    *)
(***************************************************************************)
CONSTANTS Pods, Items, Free

VARIABLES
    holder,   \* resource -> the pod it is handed to, or Free
    busy      \* the pods a request handler is serving

vars == <<holder, busy>>

Init == holder = [i \in Items |-> Free] /\ busy = {}

\* Resource i is handed to pod p; only a free resource can be.
Grant(i, p) == holder[i] = Free /\ holder'[i] = p

\* Resource i, held by some pod, is released.
Revoke(i) == holder[i] # Free /\ holder'[i] = Free

\* A handler for p begins.
Begin(p) == p \notin busy /\ busy' = busy \cup {p} /\ UNCHANGED holder

\* One step of p's handler, possibly its last.
Serve(p) ==
    /\ p \in busy
    /\ busy' \in {busy, busy \ {p}}
    /\ holder' \in [Items -> Pods \cup {Free}]
    /\ \A i \in Items :
          holder'[i] = holder[i] \/ Grant(i, p) \/ (holder[i] = p /\ Revoke(i))

\* A garbage-collection pass, with every handler out.
Collect ==
    /\ busy = {} /\ busy' = {}
    /\ holder' \in [Items -> Pods \cup {Free}]
    /\ \A i \in Items : holder'[i] = holder[i] \/ Revoke(i)

Next == Collect \/ \E p \in Pods : Begin(p) \/ Serve(p)

Spec == Init /\ [][Next]_vars
=============================================================================
