------------------------------ MODULE ResMapping ------------------------------
(***************************************************************************)
(* The three-way resource mapping of src/daemon/daemon.go:                *)
(* GetResourceMapping and toResMapping.  The manager's local and remote   *)
(* resources and the stored pod records are joined by resource id.  Ids  *)
(* and pod names are numbers so that the sort's comparisons can be       *)
(* written; Empty (0) stands for the empty string.                        *)
(***************************************************************************)
EXTENDS Naturals, Sequences, FiniteSets, SequencesExt

Empty == 0

\* tracing.PodMapping with every field zero.
NewMapping == [name |-> Empty, local |-> Empty, remote |-> Empty,
               bind |-> Empty, valid |-> FALSE]

\* The first loop over poolStats.GetLocal().
AddLocal(all, id) ==
    IF id \in DOMAIN all THEN [all EXCEPT ![id].local = id]
    ELSE all @@ (id :> [NewMapping EXCEPT !.local = id])

\* The second loop over poolStats.GetRemote().
AddRemote(all, id) ==
    IF id \in DOMAIN all THEN [all EXCEPT ![id].remote = id]
    ELSE all @@ (id :> [NewMapping EXCEPT !.remote = id])

\* A rebinding that takes the bound and remote ids agreeing as enough.
RebindEntryNoLocal(old, name, id) ==
    LET m == [old EXCEPT !.name = name, !.bind = id]
    IN  [m EXCEPT !.valid = @ \/ m.bind = m.remote]

\* The entry of an id already seen, once bound to a pod: the pod's name and
\* the bound id are written, and Valid is set when the three ids agree.
RebindEntry(old, name, id) ==
    LET m == [old EXCEPT !.name = name, !.bind = id]
    IN  [m EXCEPT !.valid = @ \/ (m.bind = m.local /\ m.local = m.remote)]

\* One resource of one pod record in the third loop; EIPs are skipped.
AddPodRes(name, all, res) ==
    IF res.type = "EIP" THEN all
    ELSE IF res.id \in DOMAIN all
         THEN [all EXCEPT ![res.id] = RebindEntry(@, name, res.id)]
         ELSE all @@ (res.id :> [NewMapping EXCEPT !.name = name, !.bind = res.id])

\* The third loop, over every resource of every stored PodResources.
AddPod(all, pod) == FoldLeft(LAMBDA a, r : AddPodRes(pod.name, a, r), all, pod.res)

\* The loop that collects the entries: an entry with no pod whose local
\* and remote ids agree is valid (idle).
MarkIdle(m) == [m EXCEPT !.valid = @ \/ (m.name = Empty /\ m.local = m.remote)]

\* The comparison given to sort.Slice: Name descending, then RemoteResID
\* ascending.
MappingLess(a, b) ==
    IF a.name # b.name THEN a.name > b.name ELSE a.remote < b.remote

\* sort.Slice is not stable: it may return any order of the entries in
\* which no entry is less than one before it.
SortedBy(s) ==
    \A i, j \in 1..Len(s) : i < j => ~MappingLess(s[j], s[i])

\* toResMapping: the set of lists it may return.
toResMapping(local, remote, pods) ==
    LET all == FoldLeft(AddPod,
                        FoldLeft(AddRemote, FoldLeft(AddLocal, <<>>, local), remote),
                        pods)
        entries == {MarkIdle(all[id]) : id \in DOMAIN all}
    IN  {s \in SetToSeqs(entries) : SortedBy(s)}

\* GetResourceMapping: the mode's manager mapping (none in VPC mode, which
\* returns nil), then the DB list, each of which may fail.  A result is an
\* error, no mapping, or one of toResMapping's lists.
GetResourceMapping(mode, local, remote, pods, mgrErr, listErr) ==
    IF mode = "VPC" THEN {[err |-> FALSE, val |-> <<>>]}
    ELSE IF mgrErr \/ listErr THEN {[err |-> TRUE, val |-> <<>>]}
    ELSE {[err |-> FALSE, val |-> s] : s \in toResMapping(local, remote, pods)}

-----------------------------------------------------------------------------
(***************************************************************************)
(* The mapping as section 4.8 of the specification states it: one entry  *)
(* per resource id of local, remote and the pod bindings (EIPs excluded); *)
(* Valid when the id is bound and local = remote = bound, or idle and     *)
(* local = remote; sorted by (Name desc, RemoteResID asc).                 *)
(***************************************************************************)
BoundIds(pods) ==
    UNION {{r.id : r \in {r2 \in ToSet(pods[i].res) : r2.type # "EIP"}} :
             i \in 1..Len(pods)}

SpecIds(local, remote, pods) == ToSet(local) \cup ToSet(remote) \cup BoundIds(pods)

SpecEntryOk(m, local, remote, pods) ==
    LET id    == IF m.bind # Empty THEN m.bind
                 ELSE IF m.local # Empty THEN m.local ELSE m.remote
        bound == id \in BoundIds(pods)
    IN  /\ m.local  = IF id \in ToSet(local)  THEN id ELSE Empty
        /\ m.remote = IF id \in ToSet(remote) THEN id ELSE Empty
        /\ m.bind   = IF bound THEN id ELSE Empty
        /\ bound => \E i \in 1..Len(pods) :
                       /\ m.name = pods[i].name
                       /\ \E k \in 1..Len(pods[i].res) : pods[i].res[k].id = id
        /\ ~bound => m.name = Empty
        /\ m.valid = IF bound THEN m.local = id /\ m.remote = id
                     ELSE m.local = m.remote
=============================================================================
