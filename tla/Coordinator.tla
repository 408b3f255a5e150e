----------------------------- MODULE Coordinator -----------------------------
(***************************************************************************)
(* The request coordinator and resource reconciler of the terway daemon   *)
(* (src/daemon/daemon.go) in its three daemon modes: the AllocIP,         *)
(* ReleaseIP and GetIPInfo handlers step by step, the pendingPods gate,    *)
(* the RWMutex shared with the garbage-collection loop, the resource DB    *)
(* keyed by pod, and the ENIIP, ENI, Veth and EIP resource managers seen   *)
(* through their Allocate, Release, Stat and GarbageCollection contract.  Kubernetes is an environment that     *)
(* creates, stops and deletes pods; the CNI plugin may call either handler *)
(* for any pod and sandbox at any time.  Failures of the collaborators are *)
(* injected where the code checks an error, as selected by Failures.       *)
(***************************************************************************)
EXTENDS Naturals, Sequences, FiniteSets, SequencesExt

CONSTANTS
    Pods,          \* pod keys "<namespace>/<name>"
    ContainerIDs,  \* sandbox container ids a CNI request may carry
    ENIIPIds,      \* ids of the secondary IPs the ENIIP pool can hand out
    ENIIds,        \* ids of the ENIs the ENI manager can hand out
    EIPIds,        \* ids of the elastic IPs the EIP manager can hand out
    Modes,         \* the daemon modes the node may be configured with
    None,          \* no record, no prior id, no request
    Free,          \* owner of a resource no pod holds
    EnableEIP,     \* config.EnableEIPPool at the first start; pods ask for EIPs only then
    StickyModes,   \* which of IPStickTime = 0 / > 0 the cluster's pods use
    VPCPodTypes,   \* which of VPCENI / VPCIP the cluster's pods use in VPC mode
    Failures,      \* the collaborator failures the environment may inject
    InfoCalls      \* whether the CNI plugin's CHECK calls GetIPInfo

\* "reconfig": the daemon restarts with EnableEIPPool changed.
Faults == {"store", "alloc", "release", "gc", "cancel", "crash", "reconfig"}

ASSUME /\ Failures \subseteq Faults
       /\ Modes \subseteq {"VPC", "ENIMultiIP", "ENIOnly"} /\ Modes # {}
       /\ EnableEIP \in BOOLEAN /\ InfoCalls \in BOOLEAN
       /\ StickyModes \subseteq BOOLEAN /\ StickyModes # {}
       /\ VPCPodTypes \subseteq {"VPCENI", "VPCIP"} /\ VPCPodTypes # {}
       /\ None \notin Pods /\ Free \notin Pods

ENIIP == "ENIIP"
ENI   == "ENI"
Veth  == "Veth"
EIP   == "EIP"
\* A ResourceItem {Type, ID}.  The VPC manager's veth is the pod's own: its
\* id is derived from the pod.
Items == ({ENIIP} \X ENIIPIds) \cup ({ENI} \X ENIIds) \cup ({Veth} \X Pods)
           \cup ({EIP} \X EIPIds)

PodTypes == {"ENIMultiIP", "VPCENI", "VPCIP"}

\* verifyPodNetworkType: the pod network types a daemon mode serves.
Accepts(m) == CASE m = "VPC"        -> {"VPCENI", "VPCIP"}
                [] m = "ENIMultiIP" -> {"ENIMultiIP"}
                [] m = "ENIOnly"    -> {"VPCENI"}

\* The resource AllocIP's branch for a pod type takes first.
PrimaryType(t) == CASE t = "ENIMultiIP" -> ENIIP
                    [] t = "VPCENI"     -> ENI
                    [] t = "VPCIP"      -> Veth

\* The outcomes of a collaborator call that can fail with fault f.
Fails(f) == IF f \in Failures THEN BOOLEAN ELSE {FALSE}

\* The pod as GetPod sees it: never seen (GetPod fails), running or with
\* its sandbox exited, or deleted and still answered from the cache with
\* its last PodInfo; with the IPStickTime > 0 flag, EipInfo.PodEip and the
\* PodNetworkType.
Unseen   == [phase |-> "none", sticky |-> FALSE, eip |-> FALSE, type |-> None]
PodState == {Unseen} \cup
            [phase : {"running", "exited", "deleted"},
             sticky : BOOLEAN, eip : BOOLEAN, type : PodTypes]

\* A PodResources record of the resource DB.
Record == [cid : ContainerIDs, sticky : BOOLEAN, res : BoundedSeq(Items, 2)]

\* The locals of the one handler the pendingPods gate lets run for a pod:
\* the request's container id, the PodInfo snapshot, and the items taken
\* or still to process: networkContext.resources for AllocIP (equal to the
\* Resources of the record it builds) and its rollback, the rest of
\* oldRes.Resources for ReleaseIP.  The old record AllocIP reads needs no
\* copy: only this handler writes the pod's record while it runs, and the
\* GC cannot run while it holds the read lock.
NoReq == [cid |-> None, sticky |-> FALSE, eip |-> FALSE, type |-> None,
          items |-> <<>>]

Pcs == {"idle", "a_res", "a_eip", "a_put", "a_rollback", "r_loop"}

VARIABLES
    k8s,      \* pod -> PodState
    store,    \* pod -> Record or None: the resource DB
    owner,    \* item -> pod or Free: what the managers have handed out
    pending,  \* n.pendingPods
    pc,       \* pod -> step of the handler running for it
    rq,       \* pod -> locals of that handler
    gc,       \* "idle"; "waiting" once the GC ticker fired and Lock() waits;
              \* "down" once a GC pass has panicked and the process died
    lost,     \* items whose rollback Release failed and was only logged
    eipPool,  \* eipResMgr is non-nil: config.EnableEIPPool of the running
              \* daemon, outside VPC mode
    info,     \* pod -> the ENIIP or ENI id a GetIPInfo read from the record
              \* and has yet to Stat, or None
    mode      \* the daemon mode the node runs in

vars == <<k8s, store, owner, pending, pc, rq, gc, lost, eipPool, info, mode>>

\* The keys of mgrForResource: ENI and Veth in VPC mode, the mode's own
\* manager and EIP in the other two.
MapTypes == CASE mode = "VPC"        -> {ENI, Veth}
              [] mode = "ENIMultiIP" -> {ENIIP, EIP}
              [] mode = "ENIOnly"    -> {ENI, EIP}

\* The keys whose entry holds a non-nil manager: the EIP entry is nil
\* unless eipResMgr was built (EnableEIPPool, and in ENIOnly mode no
\* trunking).
MgrTypes == IF eipPool THEN MapTypes ELSE MapTypes \ {EIP}

\* Handlers between RLock and RUnlock.
Readers == {p \in Pods : pc[p] # "idle"}

Present(p) == store[p] # None
ResOf(p)   == IF Present(p) THEN ToSet(store[p].res) ELSE {}

TypeOK ==
    /\ k8s \in [Pods -> PodState]
    /\ store \in [Pods -> Record \cup {None}]
    /\ owner \in [Items -> Pods \cup {Free}]
    /\ pending \subseteq Pods
    /\ pc \in [Pods -> Pcs]
    /\ \A p \in Pods : pc[p] = "idle" <=> p \notin pending
    /\ gc \in {"idle", "waiting", "down"}
    /\ lost \subseteq Items
    /\ eipPool \in BOOLEAN
    /\ mode \in Modes
    /\ info \in [Pods -> Items \cup {None}]

-----------------------------------------------------------------------------
(* Resource managers (pkg/pool and the ENIIP/EIP managers, not under src/) *)

\* Allocate(ctx, priorID): the prior resource when it is still valid (free
\* or already this pod's), otherwise any free one; no result means the pool
\* is exhausted and Allocate returns an error.
\* The VPC manager hands a pod its own veth.
MgrAllocate(p, t, prior) ==
    CASE t = Veth -> {<<Veth, p>>}
      [] prior # None /\ owner[prior] \in {Free, p} -> {prior}
      [] OTHER -> {i \in Items : i[1] = t /\ owner[i] = Free}

\* The id a handler passes as priorID: the one item of that type in the old
\* record, or "" when there is no record or not exactly one.
PriorID(old, t) ==
    IF old = None THEN None
    ELSE LET s == SelectSeq(old.res, LAMBDA i : i[1] = t)
         IN  IF Len(s) = 1 THEN s[1] ELSE None

-----------------------------------------------------------------------------
(* Handler bookkeeping *)

\* Mutant: the handler returns without its deferred pendingPods.Delete.
FinishKeepPending(p) ==
    /\ UNCHANGED pending
    /\ pc' = [pc EXCEPT ![p] = "idle"]
    /\ rq' = [rq EXCEPT ![p] = NoReq]

\* The deferred pendingPods.Delete and RUnlock of a returning handler.
Finish(p) ==
    /\ pending' = pending \ {p}
    /\ pc' = [pc EXCEPT ![p] = "idle"]
    /\ rq' = [rq EXCEPT ![p] = NoReq]

Goto(p, step) == pc' = [pc EXCEPT ![p] = step]

\* The end of one iteration of a handler's loop over its items: on to the
\* next item, or return after the last.
NextItem(p) ==
    IF Len(rq[p].items) = 1
    THEN Finish(p)
    ELSE rq' = [rq EXCEPT ![p].items = Tail(@)] /\ UNCHANGED <<pending, pc>>

\* pendingPods.LoadOrStore, n.RLock() and the reads that open a handler,
\* taken as one step: until they are done the handler has changed nothing
\* another step can see.  A second call for a pod already being served
\* fails fast with "resource processing"; RLock waits while the GC loop
\* waits for or holds the write lock.  A call whose GetPod or DB read fails
\* returns before it changes anything and is not a step of the model, and
\* so is one that verifyPodNetworkType rejects ("maybe daemon mode
\* changed"), which AllocIP reports as an error and ReleaseIP as success.
Enter(p, c, step) ==
    /\ pc[p] = "idle"
    /\ p \notin pending
    /\ gc = "idle"
    /\ k8s[p].phase # "none"
    /\ k8s[p].type \in Accepts(mode)
    /\ pending' = pending \cup {p}
    /\ Goto(p, step)

Snapshot(p, c) == [cid |-> c, sticky |-> k8s[p].sticky, eip |-> k8s[p].eip,
                   type |-> k8s[p].type, items |-> <<>>]

-----------------------------------------------------------------------------
(* AllocIP *)

\* Steps 0-2: pod info, old record and verifyPodNetworkType.  Neither the
\* CRD IPAM nor trunking is configured, so multiIPFromCRD returns no
\* NetConf and the VPCENI branch takes the ENI manager path.
AllocStart(p, c) ==
    /\ Enter(p, c, "a_res")
    /\ rq' = [rq EXCEPT ![p] = Snapshot(p, c)]
    /\ UNCHANGED <<k8s, store, owner, gc, lost, eipPool, info, mode>>

\* A successful Allocate: the item is the pod's and is appended both to the
\* record being built and to networkContext.resources.
Acquire(p, i) ==
    /\ owner' = [owner EXCEPT ![i] = p]
    /\ lost' = lost \ {i}
    /\ rq' = [rq EXCEPT ![p].items = Append(@, i)]

\* The outcomes of Allocate: an error when the pool has nothing valid to
\* give or the manager fails, else one of the valid items.
AllocFails(p, t) ==
    MgrAllocate(p, t, PriorID(store[p], t)) = {} \/ "alloc" \in Failures

\* allocateENIMultiIP, allocateENI or allocateVeth, by the pod's type.  On
\* error networkContext.resources is still empty, so the deferred rollback
\* does nothing and the handler returns; else, in the ENIMultiIP and VPCENI
\* branches, on to the EIP when eipResMgr is non-nil and the pod asks for
\* one.
AllocRes(p) ==
    /\ pc[p] = "a_res"
    /\ LET t == PrimaryType(rq[p].type) IN
       \/ /\ AllocFails(p, t)
          /\ Finish(p)
          /\ UNCHANGED <<owner, lost>>
       \/ \E i \in MgrAllocate(p, t, PriorID(store[p], t)) :
          /\ Acquire(p, i)
          /\ Goto(p, IF t # Veth /\ EIP \in MgrTypes /\ rq[p].eip
                     THEN "a_eip" ELSE "a_put")
          /\ UNCHANGED pending
    /\ UNCHANGED <<k8s, store, gc, eipPool, info, mode>>

\* allocateEIP.  On error the deferred rollback runs over the item taken.
AllocEIP(p) ==
    /\ pc[p] = "a_eip"
    /\ \/ /\ AllocFails(p, EIP)
          /\ Goto(p, "a_rollback")
          /\ UNCHANGED <<pending, rq, owner, lost>>
       \/ \E i \in MgrAllocate(p, EIP, PriorID(store[p], EIP)) :
          /\ Acquire(p, i)
          /\ Goto(p, "a_put")
          /\ UNCHANGED pending
    /\ UNCHANGED <<k8s, store, gc, eipPool, info, mode>>

\* resourceDB.Put of the new record, defaultForNetConf (which accepts the
\* single default NetConf), and the ctx.Err() check of step 4.
\* newRes: the record AllocIP builds from the request and the snapshot.
NewRecord(p) == [cid |-> rq[p].cid, sticky |-> rq[p].sticky, res |-> rq[p].items]

AllocPut(p) ==
    /\ pc[p] = "a_put"
    /\ \E putErr \in Fails("store"), cancelled \in Fails("cancel") :
          /\ store' = IF putErr THEN store
                      ELSE [store EXCEPT ![p] = NewRecord(p)]
          /\ IF putErr \/ cancelled
             THEN Goto(p, "a_rollback") /\ UNCHANGED <<pending, rq>>
             ELSE Finish(p)
    /\ UNCHANGED <<k8s, owner, gc, lost, eipPool, info, mode>>

\* Mutant: the rollback deletes the record but never calls Release.
AllocRollbackNoRelease(p) ==
    /\ pc[p] = "a_rollback"
    /\ \E delErr \in Fails("store") :
          /\ store' = IF delErr THEN store ELSE [store EXCEPT ![p] = None]
          /\ NextItem(p)
    /\ UNCHANGED <<k8s, gc, owner, lost, eipPool, info, mode>>

\* One iteration of the deferred rollback: delete the pod's record, then
\* Release the item; both errors are only logged.
AllocRollback(p) ==
    /\ pc[p] = "a_rollback"
    /\ LET i == Head(rq[p].items) IN
       \E delErr \in Fails("store"), relErr \in Fails("release") :
          /\ store' = IF delErr THEN store ELSE [store EXCEPT ![p] = None]
          /\ owner' = IF relErr THEN owner ELSE [owner EXCEPT ![i] = Free]
          /\ lost' = IF relErr THEN lost \cup {i} ELSE lost
          /\ NextItem(p)
    /\ UNCHANGED <<k8s, gc, eipPool, info, mode>>
-----------------------------------------------------------------------------
(* ReleaseIP *)

\* Pod info, old record, verifyPodNetworkType.  The call changes nothing,
\* and is no step of the model, when the pod has no record, when the record
\* belongs to another sandbox (a stale CNI DEL), or when the pod is sticky:
\* then the loop below releases and deletes nothing.
ReleaseStart(p, c) ==
    /\ Enter(p, c, "r_loop")
    /\ Present(p)
    /\ store[p].cid = c
    /\ ~k8s[p].sticky
    /\ rq' = [rq EXCEPT ![p] = [Snapshot(p, c) EXCEPT !.items = store[p].res]]
    /\ UNCHANGED <<k8s, store, owner, gc, lost, eipPool, info, mode>>

\* One iteration over oldRes.Resources.  An item whose type has no manager
\* (an EIP while eipResMgr is nil) is skipped: neither released nor its
\* record deleted.  Otherwise Release the item (an item already free gives
\* ErrInvalidState, which is tolerated), then delete the pod's record.  Any
\* other error of either call ends the handler with it.
ReleaseLoop(p) ==
    /\ pc[p] = "r_loop"
    /\ LET i == Head(rq[p].items) IN
       \/ /\ i[1] \notin MgrTypes
          /\ NextItem(p)
          /\ UNCHANGED <<store, owner>>
       \/ /\ i[1] \in MgrTypes
          /\ \E relErr \in Fails("release"), delErr \in Fails("store") :
                IF relErr /\ owner[i] # Free
                THEN Finish(p) /\ UNCHANGED <<store, owner>>
                ELSE /\ owner' = [owner EXCEPT ![i] = Free]
                     /\ IF delErr
                        THEN Finish(p) /\ UNCHANGED store
                        ELSE store' = [store EXCEPT ![p] = None] /\ NextItem(p)
    /\ UNCHANGED <<k8s, gc, lost, eipPool, info, mode>>

-----------------------------------------------------------------------------
(* GetIPInfo *)

\* GetPod and verifyPodNetworkType, then getPodResource between RLock and
\* RUnlock.  No pendingPods gate: it runs beside an AllocIP or ReleaseIP
\* of the same pod.  A call that finds no record or another sandbox's
\* returns before it reads anything further and is no step of the model.
\* Without the CRD IPAM or trunking, multiIPFromCRD gives no NetConf and
\* an ENIMultiIP pod's call goes on to Stat the record's first ENIIP; a
\* VPCENI pod's call Stats its first ENI; a VPCIP pod's reply is built
\* from the node CIDR alone.
InfoRead(p, c) ==
    /\ InfoCalls
    /\ info[p] = None
    /\ k8s[p].phase # "none"
    /\ k8s[p].type \in Accepts(mode) \ {"VPCIP"}
    /\ gc = "idle"
    /\ Present(p)
    /\ store[p].cid = c
    /\ LET t     == PrimaryType(k8s[p].type)
           items == SelectSeq(store[p].res, LAMBDA i : i[1] = t)
       IN  /\ items # <<>>
           /\ info' = [info EXCEPT ![p] = items[1]]
    /\ UNCHANGED <<k8s, store, owner, pending, pc, rq, gc, lost, eipPool, mode>>

\* eniIPResMgr.Stat or eniResMgr.Stat of resItems[0].ID, after RUnlock:
\* the manager answers for the id as it stands now, and the reply's
\* default NetConf is built from it.  The process must still be alive.
InfoStat(p) ==
    /\ info[p] # None
    /\ gc # "down"
    /\ info' = [info EXCEPT ![p] = None]
    /\ UNCHANGED <<k8s, store, owner, pending, pc, rq, gc, lost, eipPool, mode>>

GetIPInfo(p) ==
    \/ \E c \in ContainerIDs : InfoRead(p, c)
    \/ InfoStat(p)

-----------------------------------------------------------------------------
(* Daemon start after a crash *)

\* The manager newNetworkService builds from localResource: the ENIIP
\* pool in ENIMultiIP mode, the ENI manager in the other two.
RestoredType == IF mode = "ENIMultiIP" THEN ENIIP ELSE ENI

\* Every handler and the GC pass are gone; the DB survives.  On start,
\* with EnableEIPPool = pool, the records are listed into localResource,
\* from which the mode's ENIIP or ENI manager restores the items in use
\* (the last record naming an id wins) and frees the rest.  The VPC
\* manager is built empty and keeps no veth; the EIP manager, when there
\* is one, is built without localResource, and the cloud keeps the EIPs
\* bound.
Holders(i) == {p \in Pods : i \in ResOf(p)}

Restore(pool) ==
    /\ LET restored == {i \in Items : i[1] = RestoredType}
           shared   == {i \in restored : Cardinality(Holders(i)) > 1}
       IN  \E last \in [shared -> Pods] :
              /\ \A i \in shared : last[i] \in Holders(i)
              /\ owner' = [i \in Items |->
                    CASE i \in shared                         -> last[i]
                      [] i \in restored /\ Holders(i) # {}    -> CHOOSE p \in Holders(i) : TRUE
                      [] i \in restored \/ i[1] = Veth        -> Free
                      [] OTHER                                -> owner[i]]
    /\ pending' = {}
    /\ pc' = [p \in Pods |-> "idle"]
    /\ rq' = [p \in Pods |-> NoReq]
    /\ gc' = "idle"
    /\ lost' = {}
    /\ eipPool' = (pool /\ mode # "VPC")
    /\ info' = [p \in Pods |-> None]

\* The running daemon crashes at any step and is started again; the new
\* process reads EnableEIPPool from the configuration (L1503), which may
\* have been edited meanwhile.
Restart ==
    /\ "crash" \in Failures
    /\ gc # "down"
    /\ \E pool \in IF "reconfig" \in Failures THEN BOOLEAN ELSE {eipPool} :
          Restore(pool)
    /\ UNCHANGED <<k8s, store, mode>>

-----------------------------------------------------------------------------
(* Garbage-collection loop *)

\* Mutant: the pass runs without waiting for the readers to leave.
WriteLockIgnoresReaders == TRUE

\* n.Lock() is granted: no handler holds the read lock.
WriteLockFree == Readers = {}

\* The GC ticker fires and the loop calls n.Lock(), which waits for the
\* readers to leave and holds back new ones.
GCTick ==
    /\ gc = "idle"
    /\ gc' = "waiting"
    /\ UNCHANGED <<k8s, store, owner, pending, pc, rq, lost, eipPool, info, mode>>

\* One resource of one listed record: an item already in use stays so; an
\* item of a present pod is in use and leaves the expired set; an item of
\* an absent pod is expired.
\* Mutant: an item of a present pod is marked in use but, listed first
\* under a stale record of a missing pod, stays in the expired set.
GCStepKeepExpired(acc, e) ==
    LET i == e[1]  podExist == e[2] IN
    IF i \in acc.inUse THEN acc
    ELSE IF podExist
         THEN [acc EXCEPT !.inUse = @ \cup {i}]
         ELSE [acc EXCEPT !.expired = @ \cup {i}]

GCStep(acc, e) ==
    LET i == e[1]  podExist == e[2] IN
    IF i \in acc.inUse THEN acc
    ELSE IF podExist
         THEN [inUse |-> acc.inUse \cup {i}, expired |-> acc.expired \ {i}]
         ELSE [acc EXCEPT !.expired = @ \cup {i}]

\* Mutant: podExist taken from the running pods only, without the
\* "podExist = true" that keeps a sticky record's items for one period.
GCScanLiveOnly(order, exists) ==
    LET entries == FlattenSeq([k \in DOMAIN order |->
                     [j \in DOMAIN store[order[k]].res |->
                        <<store[order[k]].res[j],
                          k8s[order[k]].phase = "running">>]])
    IN  FoldLeft(GCStep, [inUse |-> {}, expired |-> {}], entries)

\* The scan over the records in the order resourceDB.List() returned them.
GCScan(order, exists) ==
    LET entries == FlattenSeq([k \in DOMAIN order |->
                     [j \in DOMAIN store[order[k]].res |->
                        <<store[order[k]].res[j], order[k] \in exists>>]])
    IN  FoldLeft(GCStep, [inUse |-> {}, expired |-> {}], entries)

\* Mutant: the sticky record of a missing pod is left as it is.
DowngradeKeepSticky(r) == r

\* The record a sticky pod's grace period rewrites: IPStickTime set to 0,
\* so that the next pass treats the pod as an ordinary missing one.
Downgrade(r) == [r EXCEPT !.sticky = FALSE]

\* One pass of the loop body, entirely under the write lock: list the
\* running pods and the records, give a sticky record of a missing pod one
\* more period (rewritten with IPStickTime 0), call GarbageCollection of
\* the manager of every type that occurs and is a key of mgrForResource,
\* and only if all of them succeeded delete the records of the missing
\* non-sticky pods.
GCRun ==
    /\ gc = "waiting"
    /\ WriteLockFree
    /\ gc' = "idle"
    /\ LET live     == {p \in Pods : k8s[p].phase = "running"}
           recs     == {p \in Pods : Present(p)}
           deferred == {p \in recs \ live : store[p].sticky}
           expire   == recs \ (live \cup deferred)
           types    == {i[1] : i \in UNION {ResOf(p) : p \in recs}} \cap MapTypes
       IN
       /\ types \subseteq MgrTypes
       /\ \E order \in SetToSeqs(recs),
          putErr \in [deferred -> Fails("store")],
          mgrErr \in [types -> Fails("gc")],
          delErr \in [expire -> Fails("store")] :
          LET scan   == GCScan(order, live \cup deferred)
              gcDone == \A t \in types : ~mgrErr[t]
          IN
          /\ owner' = [i \in Items |->
                         IF i \in scan.expired /\ i[1] \in types /\ ~mgrErr[i[1]]
                         THEN Free ELSE owner[i]]
          /\ store' = [p \in Pods |->
                         IF p \in deferred /\ ~putErr[p]
                           THEN Downgrade(store[p])
                         ELSE IF p \in expire /\ gcDone /\ ~delErr[p]
                           THEN None
                         ELSE store[p]]
    /\ UNCHANGED <<k8s, pending, pc, rq, lost, eipPool, info, mode>>

\* The same pass when a type in the records has a nil manager (an EIP in
\* a record, eipResMgr nil): the sticky records are rewritten while
\* listing, then mgr.GarbageCollection on the nil interface panics and the
\* daemon process dies with the write lock held.  (The ENIIP manager's
\* GC, if map order ran it first, is undone by the restore that follows.)
GCPanic ==
    /\ gc = "waiting"
    /\ WriteLockFree
    /\ LET live     == {p \in Pods : k8s[p].phase = "running"}
           recs     == {p \in Pods : Present(p)}
           deferred == {p \in recs \ live : store[p].sticky}
           types    == {i[1] : i \in UNION {ResOf(p) : p \in recs}} \cap MapTypes
       IN
       /\ ~(types \subseteq MgrTypes)
       /\ \E putErr \in [deferred -> Fails("store")] :
             store' = [p \in Pods |->
                         IF p \in deferred /\ ~putErr[p]
                         THEN Downgrade(store[p]) ELSE store[p]]
    /\ gc' = "down"
    /\ UNCHANGED <<k8s, owner, pending, pc, rq, lost, eipPool, info, mode>>

\* The kubelet starts the dead daemon container again, with the same
\* configuration.
Reboot ==
    /\ gc = "down"
    /\ Restore(eipPool)
    /\ UNCHANGED <<k8s, store, mode>>

-----------------------------------------------------------------------------
(* Kubernetes *)

\* A pod of this name is created, or created again after a deletion.
PodCreate(p) ==
    /\ k8s[p].phase \in {"none", "deleted"}
    /\ \E sticky \in StickyModes, eip \in BOOLEAN,
          type \in IF mode = "VPC" THEN VPCPodTypes ELSE Accepts(mode) :
          k8s' = [k8s EXCEPT ![p] = [phase |-> "running", sticky |-> sticky,
                                     eip |-> eip /\ EnableEIP, type |-> type]]
    /\ UNCHANGED <<store, owner, pending, pc, rq, gc, lost, eipPool, info, mode>>

\* The sandbox exits or is started again (SandboxExited in GetLocalPods).
SandboxToggle(p) ==
    /\ k8s[p].phase \in {"running", "exited"}
    /\ k8s' = [k8s EXCEPT ![p].phase =
                  IF @ = "running" THEN "exited" ELSE "running"]
    /\ UNCHANGED <<store, owner, pending, pc, rq, gc, lost, eipPool, info, mode>>

\* The pod is deleted: GetLocalPods no longer lists it.
PodDelete(p) ==
    /\ k8s[p].phase \in {"running", "exited"}
    /\ k8s' = [k8s EXCEPT ![p].phase = "deleted"]
    /\ UNCHANGED <<store, owner, pending, pc, rq, gc, lost, eipPool, info, mode>>

-----------------------------------------------------------------------------

Init ==
    /\ mode \in Modes
    /\ k8s = [p \in Pods |-> Unseen]
    /\ store = [p \in Pods |-> None]
    /\ owner = [i \in Items |-> Free]
    /\ pending = {}
    /\ pc = [p \in Pods |-> "idle"]
    /\ rq = [p \in Pods |-> NoReq]
    /\ gc = "idle"
    /\ lost = {}
    /\ eipPool = (EnableEIP /\ mode # "VPC")
    /\ info = [p \in Pods |-> None]

AllocIP(p) ==
    \/ \E c \in ContainerIDs : AllocStart(p, c)
    \/ AllocRes(p) \/ AllocEIP(p) \/ AllocPut(p) \/ AllocRollback(p)

ReleaseIP(p) ==
    \/ \E c \in ContainerIDs : ReleaseStart(p, c)
    \/ ReleaseLoop(p)

Next ==
    \/ \E p \in Pods : AllocIP(p) \/ ReleaseIP(p) \/ GetIPInfo(p)
    \/ GCTick \/ GCRun \/ GCPanic \/ Reboot
    \/ Restart
    \/ \E p \in Pods : PodCreate(p) \/ SandboxToggle(p) \/ PodDelete(p)

Spec == Init /\ [][Next]_vars

\* The steps of a handler that has passed its gate: the goroutine serving
\* the gRPC call runs on to its return.
HandlerStep(p) ==
    AllocRes(p) \/ AllocEIP(p) \/ AllocPut(p) \/ AllocRollback(p) \/ ReleaseLoop(p)

\* The GC ticker fires every five minutes and the pass runs once Lock()
\* is granted; a started handler runs to its return.  Nothing obliges the
\* CNI plugin or Kubernetes to act.
Fairness ==
    /\ WF_vars(GCTick)
    /\ WF_vars(GCRun)
    /\ WF_vars(GCPanic)
    /\ WF_vars(Reboot)
    /\ \A p \in Pods : WF_vars(HandlerStep(p))

LiveSpec == Spec /\ Fairness

-----------------------------------------------------------------------------
(* Properties *)

Referenced == UNION {ResOf(p) : p \in Pods}
InFlight   == UNION {ToSet(rq[p].items) : p \in Pods}

\* No leak: every resource a manager has handed to a pod is named by a DB
\* record, or is held by a running AllocIP/ReleaseIP, or is one whose
\* rollback Release failed (AllocIP logs that and gives up).  An item
\* nobody names is never in the GC's expired set, so nothing reclaims it.
NoLeak ==
    \A i \in Items : owner[i] # Free => i \in Referenced \cup InFlight \cup lost

\* A GC pass never frees a resource named by the record of a pod it treats
\* as present: one whose sandbox runs, or a sticky one in its grace
\* period.  The scan must keep such an item in use however the records are
\* ordered and whatever stale record also names it.
GCKeepsInUse ==
    [][GCRun =>
         \A p \in Pods :
            Present(p) /\ (k8s[p].phase = "running" \/ store[p].sticky) =>
               \A i \in ResOf(p) : owner'[i] = owner[i]]_vars

\* ReleaseIP only frees what the manager has assigned to the pod being
\* released (or what is already free): it never takes a resource away from
\* another pod.
ReleaseOnlyOwn ==
    [][\A p \in Pods :
          ReleaseLoop(p) =>
             \A i \in Items : owner'[i] # owner[i] => owner[i] \in {p, Free}]_vars

\* A ReleaseIP that returns an error leaves every item it has not released
\* in the pod's record, so that the CNI plugin's retry of the DEL finds it
\* and releases it.
FailedReleaseRetryable ==
    [][\A p \in Pods :
          ReleaseLoop(p) /\ pc'[p] = "idle" =>
             \A i \in ToSet(rq[p].items) :
                owner'[i] = p => store'[p] # None /\ i \in ToSet(store'[p].res)]_vars

\* Once the daemon stops crashing of outside causes, a deleted pod's
\* record is eventually removed from the DB by the GC loop, unless the pod
\* is created again or a new AllocIP for it has begun.
DeletedPodRecordRemoved ==
    <>[][~Restart]_vars =>
        \A p \in Pods :
            (k8s[p].phase = "deleted" /\ Present(p))
              ~> (~Present(p) \/ k8s[p].phase # "deleted" \/ pc[p] = "a_res")

\* A deleted pod's record is eventually removed from the DB and the
\* managers get back every resource handed to the pod, after one GC pass,
\* or two for a sticky pod (the first only rewrites its record), unless
\* the pod is created again or a new AllocIP for it has begun (the cache
\* still answers GetPod for it).
DeletedPodReclaimed ==
    \A p \in Pods :
        (k8s[p].phase = "deleted" /\ Present(p))
          ~> (\/ ~Present(p) /\ \A i \in Items : owner[i] # p
              \/ k8s[p].phase # "deleted"
              \/ pc[p] = "a_res")

(***************************************************************************)
(* GetIPInfo answers for the pod's own address (spec section 4.2: "a      *)
(* strict read path"): the ENIIP whose Stat builds the reply is still the  *)
(* pod's, or at most freed, never handed to another pod meanwhile.  The    *)
(* pending-pod gate (spec section 5, code L210) covers only AllocIP and    *)
(* ReleaseIP, so nothing keeps the pod's ReleaseIP and another pod's       *)
(* AllocIP, both read-lock holders, from running between GetIPInfo's       *)
(* record lookup (L608-610) and its Stat (L647).                           *)
(***************************************************************************)
StatOwnIP ==
    [][\A p \in Pods : InfoStat(p) => owner[info[p]] \in {p, Free}]_vars

\* Once AllocIP has committed its record to the DB it returns that
\* allocation: a cancellation noticed after the commit does not release
\* committed resources (the next ReleaseIP or the GC reclaims them).
CommittedAllocKept ==
    [][\A p \in Pods :
          pc[p] = "a_put" /\ store[p] # NewRecord(p) /\ store'[p] = NewRecord(p)
             => pc'[p] = "idle"]_vars
====
