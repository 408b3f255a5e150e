# TLA+ models of the terway per-node daemon

This directory holds TLA+ models of the network-resource coordinator in
`src/daemon/daemon.go`, and the TLC configurations that check them. The
configuration types are in `src/types/daemon/config.go`. `PROJECT.json` lists
the components, the runs, the mutants, the map from definitions to source
lines, the findings and the hazards.

## 1. Inventory of the system

| Component | State it keeps | Operations | Interacts with |
|---|---|---|---|
| Request coordinator (`AllocIP`, `ReleaseIP`, `GetIPInfo`, `RecordEvent`) | Per call: the pod snapshot, the old record, and `networkContext.resources` (the items taken so far) | gRPC handlers called by the CNI plugin | The gate, the lock, the DB, the managers, the k8s cache, the CRDs |
| Pending-pod gate (`pendingPods`) | The set of pod keys with a handler running | `LoadOrStore` on entry, `Delete` in a defer | Both mutating handlers |
| Process RW lock (`networkService.RWMutex`) | Readers, and a waiting or holding writer | Handlers `RLock`; the GC loop `Lock`s | Handlers against the GC |
| Resource DB (`resourceDB`) | pod key → `PodResources{PodInfo, Resources, NetNs, ContainerID}` | `Get`, `Put`, `Delete`, `List`; each may fail | Handlers, GC, restart |
| Resource managers (ENIIP pool, EIP, ENI, Veth; not under `src/`) | Which ids are handed out | `Allocate(prior)`, `Release`, `GarbageCollection(inUse, expired)`, `Stat` | Coordinator through `mgrForResource` |
| GC loop (`startGarbageCollectionLoop`) | None kept across passes | Every 5 minutes: list pods and records, downgrade sticky records, scan, call each manager's GC, delete expired records | DB, managers, k8s, kernel rules |
| Period check (`startPeriodCheck`) | None | Three-way mapping (`toResMapping`) and events; CNI CHECK per record | Managers, DB, CNI binary |
| NetConf policy (`defaultForNetConf`, `defaultIf`) | None (edits the reply list) | Checks and fixes the default route | AllocIP, GetIPInfo |
| Start-up (`newNetworkService`) | `localResource` from the DB | Builds the managers and restores them from the records | DB, managers |
| Configuration (`Config`, merge, `setDefault`, `validateConfig`, `getPoolConfig`) | The daemon's configuration | Load, merge, default and validate | Start-up |

### How the parts interact

- Requests for different pods run concurrently. Two requests for the same pod cannot run together: a second call fails fast with "resource processing".
- Request handlers hold the read lock for their whole run. The GC takes the write lock. Go's `RWMutex` gives the writer preference: once the GC waits, new handlers wait too.
- A handler's items are in no record until its `Put`. While the handler runs, they are named only by `networkContext.resources`.

### What makes it hard

- Store and manager calls fail one at a time. A `Release` may succeed and the record delete after it fail, or the reverse.
- One manager's GC may succeed while another's fails.
- The GC scans records in `List` order. A stale record and a live record may name the same id.
- The sticky two-phase retention spans two GC passes.
- A request context may be cancelled after the commit.
- The daemon may crash at any step. After a restart the ENIIP pool is rebuilt from the records; the EIP manager is rebuilt without them.

### What makes it correct

- **No leak.** Every item a manager has handed out is named by a record, by a running handler, or by a logged rollback failure.
- **GC safety.** GC never reclaims what a live or sticky record names.
- **Release safety.** `ReleaseIP` frees only what belongs to the pod it releases.
- **Retryability.** A failed `ReleaseIP` leaves what it did not release in the record.
- **Commit stability.** Once `AllocIP` has committed its record, it does not roll that allocation back.
- **Reply freshness.** The IP a `GetIPInfo` reply names is the pod's own, not one handed to another pod since the record was read.
- **NetConf policy.** Defined by the spec, section 4.5.
- **GC cleanup.** Before the GC deletes an expired ENIIP record, it has tried to delete that IP's kernel rules and routes; malformed ids are skipped (spec sections 4.6 and 8).
- **Configuration overlay.** The loaded config is the file with the node's dynamic config applied as an RFC-7396 merge patch (spec section 6).

`PROJECT.json` "hazards" lists each hazard at the line where it bites.

## 2. Plan

The modules are listed in order of importance; all are built.

1. **`Coordinator`** (done): AllocIP and ReleaseIP in ENIMultiIP mode, the gate, the lock, the DB, the GC loop, crash and restart with reconfiguration, the GC's nil-manager panic, liveness, and the manager contract.
2. **`NetConf`** (done): the default-route policy, as a pure operator.
3. **`IPInfo`** (done): GetIPInfo, requestCRD, multiIPFromCRD, exclusiveENIFromCRD, verifyPodNetworkType, and AllocIP's reply for every mode.
4. **`ResMapping`** (done): `toResMapping` and `GetResourceMapping`, checked against the spec's `Valid` and sort order.
5. **`DaemonConfig`** (done): loading and merging the config, `validateConfig`, `setDefault`, `getPoolConfig`, the IPv6 downgrade and the `Config` accessors.
6. **`AbstractAlloc`** (done): the abstract allocation discipline, refined by `Coordinator` without crashes.
7. `GetIPInfo` against the handlers (done): the record read and the unlocked `Stat` as `Coordinator` actions.
8. The VPC and ENIOnly modes (done, in `Coordinator`): `allocateVeth` and `allocateENI`, each mode's manager map and restore, and `verifyPodNetworkType`.
9. **`GCRules`** (done): the GC pass's kernel rule and route cleanup and the record deletion after it.

## 3. The modules

### `Coordinator.tla`

State:
- `k8s`: what `GetPod` and `GetLocalPods` show for each pod. The pod is never seen, running, exited or deleted. A deleted pod is still answered from the cache with its last `PodInfo`. The flags are `IPStickTime > 0` and `EipInfo.PodEip`.
- `store`: the resource DB. A record is the container id, the sticky flag, and the sequence of `ResourceItem`s.
- `owner`: for each ENIIP, ENI, veth or EIP id, the pod the managers handed it to, or `Free`. A veth id is derived from its pod, so the VPC manager can only hand a pod its own veth.
- `pending`: `pendingPods`.
- `pc` and `rq`: the step and the locals of the one handler per pod.
- `gc`: `"idle"`, `"waiting"` for the write lock, or `"down"` after the pass panicked.
- `lost`: items whose rollback `Release` failed and was only logged.
- `eipPool`: whether `eipResMgr` is non-nil: `EnableEIPPool` of the running daemon, and never in VPC mode. It decides whether `mgrForResource[EIP]` is a manager or nil.
- `mode`: the daemon mode (`VPC`, `ENIMultiIP` or `ENIOnly`), chosen in `Init` from `Modes`. Its keys of `mgrForResource` are `MapTypes`; the keys with a non-nil manager are `MgrTypes`. A pod's `PodNetworkType` is part of `k8s` and is one that `verifyPodNetworkType` (`Accepts`) allows in the mode.
- `info`: for each pod, the ENIIP id a `GetIPInfo` call read from the record under the read lock and has yet to `Stat`, or `None`. Only runs with `InfoCalls = TRUE` make these calls.

Actions, with the code they model:

| Action | Code |
|---|---|
| `AllocStart` | `AllocIP` L202-308: the gate and `RLock` (`Enter`), `GetPod`, the old record, `verifyPodNetworkType`, `multiIPFromCRD` |
| `AllocRes`, `AllocEIP` | `allocateENIMultiIP`, `allocateENI` or `allocateVeth` by pod type, then `allocateEIP`, each with the prior id (L122-200, L309-337, L380-399, L436-440); the EIP only when `eipResMgr` is non-nil and never for a VPCIP pod |
| `AllocPut` | `resourceDB.Put` (L338), `defaultForNetConf`, and the `ctx.Err()` check (L478) |
| `AllocRollback` | One iteration of the deferred rollback (L243-259) |
| `ReleaseStart`, `ReleaseLoop` | `ReleaseIP` L490-572: the container-id check, then for each item `Release` and delete; an item whose type has a nil manager (an EIP with `eipResMgr` nil) is skipped (L559-562) |
| `InfoRead`, `InfoStat` | `GetIPInfo` L582-676: `GetPod`, the record lookup between `RLock` and `RUnlock` (L608-610), then `eniIPResMgr.Stat` of the record's first ENIIP (L647) with no lock and no `pendingPods` gate |
| `GCTick`, `GCRun` | The GC loop L787-906. `GCScan` and `GCStep` are the inUse/expired scan in `List` order; `Downgrade` the sticky rewrite |
| `GCPanic` | The same pass when a record holds an EIP and `mgrForResource[EIP]` is nil (L859-862): the sticky rewrites are done, then the call panics |
| `Reboot` | The daemon container started again after the panic, with the same configuration: `Restore` (L1453-1525), where the mode's ENIIP or ENI manager is rebuilt from the records, the VPC manager starts empty, and the EIP manager is rebuilt without them |
| `Restart` | A crash at any step, then `Restore`, with `EnableEIPPool` possibly changed (fault `"reconfig"`) |
| `PodCreate`, `SandboxToggle`, `PodDelete` | Kubernetes, the environment |

Abstractions:
- A call that changes nothing is not a step. This covers a failed `GetPod` or DB read, a container-id mismatch, a sticky release, and a release with no record.
- The gate, the lock and the reads that open a handler are one step, because no other step can observe them apart.
- Collaborator failures are chosen with `\E` where the code checks an error, restricted to the faults in `Failures`.
- The managers' `Allocate` returns the prior item when it is free or already the pod's, and any free item otherwise. This is the spec's contract, plus the pool's per-pod idempotence key.
- The CRD IPAM and trunking are off, so `AllocIP` always goes through the managers. The CRD paths call no manager and are in `IPInfo`. Trunking in ENIOnly mode only makes `eipResMgr` nil, which the model covers as `eipPool` FALSE.
- Map order of `mgrForResource` is left out of `GCPanic`: if the ENIIP manager's GC ran before the panic, the `Restore` that follows recomputes the ENIIP pool from the records anyway.

`MC_Coordinator.tla` also instantiates `AbstractAlloc` with `holder <- owner` and `busy <- pending` (the refinement mapping) and defines `AllocRefined == Alloc!Spec`.

### `AbstractAlloc.tla`

The discipline the coordinator promises, from spec sections 4.1, 4.2 and 5: an item is granted only while free; a handler serving pod `p` (a member of `busy`) grants items to `p` and revokes only `p`'s; the GC revokes any items, but only while no handler runs.

### `NetConf.tla`

- `defaultForNetConf` is modelled as an operator. `ScanNetConf` is the first loop and `MarkFirstDefaultIf` the second.
- It is checked against the spec's statement of the policy (`SpecAccepts`, `SpecResult`), which is written independently of the code.
- `MC_IPInfo` checks it over every list of up to 3 entries with names `""`, `eth0` and `eth1`, and both values of `DefaultRoute`.

### `IPInfo.tla` and `MC_IPInfo.tla`

- Operators for `verifyPodNetworkType`, `requestCRD`, `multiIPFromCRD`, `exclusiveENIFromCRD` (with its `defaultForNetConf`), AllocIP's reply (`AllocReply`, for every mode and pod type, when the allocations and the `Put` succeed) and `GetIPInfo`.
- A NetConf is abstracted to what tells two replies apart: interface name, `DefaultRoute`, where its IP came from, the trunk flag, the trunk MAC and the VLAN id.
- A PodENI is its state (absent, unavailable, present), its trunk parent and up to two allocations, each with the CIDR/gateway check, the status entry, an interface name and `DefaultRoute`.
- `MC_IPInfo` has the PodENI and the node's trunk ENI as state and quantifies the daemon configuration, the pod, the stored record, `Stat` and the ENI's trunk flag inside the properties.

### `ResMapping.tla`

- `toResMapping`'s three loops are folds (`AddLocal`, `AddRemote`, `AddPod`/`AddPodRes`/`RebindEntry`), `MarkIdle` the collection loop, and `SortedBy` the comparison given to `sort.Slice`. Because `sort.Slice` is not stable, the operator returns the set of lists it may produce.
- Ids and pod names are numbers so that the comparisons can be written.
- `MC_IPInfo` checks it too, in a third group of initial states. Every pure-operator check shares the one run `read_paths`, which keeps the project at twelve runs.

### `DaemonConfig.tla`

- `LoadConfig` is `newNetworkService`'s two reads of the config file (L1349-1369): first the file alone, then the file merged with the node's dynamic config. A dynamic config that cannot be fetched falls back to no overlay.
- `GetConfigFromFileWithMerge` and `MergeConfigAndUnmarshal` are operators. `MergePatch` is RFC 7396 written as a RECURSIVE operator: the library `jsonpatch` is not under `src/`, and the spec names the RFC.
- A JSON value is a record tagged with its kind. `Unmarshal` reads `ip_stack`, `security_groups` and `vswitches` into a `Config` whose other fields keep their zero value. A member that is null or absent leaves its field at zero.
- `StartConfig` is `newNetworkService` from the mode check to `getPoolConfig`, in the code's order. The clients it builds in between are left out.
- `GetSecurityGroups` returns the sorted set (`sets.String.List`). `GetVSwitchIDs` returns one list per order Go may iterate the zone map in. `GetExtraRoutes` is modelled as written: it returns vSwitch ids.
- The spec's description (sections 6 and 8) is written separately as `SpecAccepts`, `SpecIPFamily`, `SpecSGs`, `SpecVSwitches` and `SpecConfig`. `SpecConfig` states the overlay option by option, without recursion.
- `MC_IPInfo` instantiates it (`DC`), and has the input `Config`, the file and the overlay as variables in two more groups of initial states.

### `GCRules.tla` and `MC_GCRules.tla`

- The closure at L869-897 of `startGarbageCollectionLoop` and the record deletion after it (L899-904). Each step of `CleanStep` is one iteration of the range over `expireSet[ENIIP]`, taken in any order, as Go's map order may be.
- Steps: `Tick` is a pass with `gcDone` reaching the closure. `CleanStep` skips an id without a ".", returns at an IP that does not parse, and otherwise records that the rule and route deletes were made. `CleanEnd` is the end of the range, and `DeleteRecords` deletes the records, each of which may fail.
- The delete calls only log their errors, so the kernel is reduced to the set `attempted` of ids they were made for.
- Everything before the closure is `Coordinator`'s `GCRun`. Kernel state is kept apart from `Coordinator` because nothing else in the daemon reads it.
- `MC_GCRules` has four expired ids: two well formed, one with an unparsable IP and one without a separator.

## 4. Runs

| Run | Result | What it shows |
|---|---|---|
| `coordinator_gc` | pass | With EIP on and store, GC, allocation, crash and reconfiguration faults, `GCKeepsInUse` holds: no pass frees an item named by a running pod's record, also across restarts that turn `EnableEIPPool` off and the GC panics and reboots that follow, in ENIMultiIP and ENIOnly mode (about 940k states) |
| `coordinator_noleak` | pass | `NoLeak` and `GCKeepsInUse` hold with sticky pods and two IPs, without EIP and without store faults, across rollbacks, cancellations, GC failures and restarts, in all three modes, with `GetIPInfo` calls running beside the handlers (about 230k states) |
| `coordinator_live` | pass | Under the fairness below, with allocation failures and cancellations: `DeletedPodReclaimed` (a deleted pod's record is removed and its IPs freed, a sticky pod's after its grace pass) and `AllocRefined` (the coordinator implements `AbstractAlloc`), in all three modes |
| `eip_leak_on_recreate` | violation | `NoLeak` fails with no fault at all. A pod re-created without the EIP flag is re-allocated over its old record, and the EIP is lost. |
| `release_steal` | violation | `ReleaseOnlyOwn` fails. A delete error after `Release`, then another pod's allocation, then the retried DEL frees the other pod's IP. |
| `release_retry` | violation | `FailedReleaseRetryable` fails. The record is deleted after the first item, then the EIP `Release` fails. |
| `cancel_after_commit` | violation | `CommittedAllocKept` fails. A cancellation after `Put` rolls the committed allocation back. |
| `gc_nil_manager` | violation | `DeletedPodRecordRemoved` fails. An EIP pod is deleted, the daemon restarts with `EnableEIPPool` off, and from then on every GC pass panics on the nil EIP manager, so the record stays forever. |
| `stale_stat` | violation | `StatOwnIP` fails with no fault at all. `GetIPInfo` for pod 1 reads its record, pod 1's DEL releases the IP, pod 2's `AllocIP` takes it, and `GetIPInfo`'s `Stat` answers pod 1 with pod 2's IP. Both handlers hold only the read lock, so keeping `RLock` across the `Stat` would not prevent this. The cause is that `GetIPInfo` takes no pending-pod gate, and the spec's gate (section 5) covers only `AllocIP` and `ReleaseIP`: a gap in the spec that the code inherits, against its "strict read path" (section 4.2). |
| `read_paths` | pass | `DefaultForNetConfMatchesSpec`: the default-route policy equals the spec's on all 259 lists of up to three entries. `GetIPInfoMatchesAlloc`: `GetIPInfo` returns the NetConfs `AllocIP` returned, for every mode, pod type, PodENI and trunk ENI. `ResMappingMatchesSpec`: `toResMapping` agrees with the spec's entries, `Valid` flags and order. `StartConfigMatchesSpec`: the start-up configuration path agrees with the spec for the stacks `""`, ipv4, dual and an invalid one, every daemon mode and IPv6 limit. `ConfigOverlayMatchesSpec`: the loaded config equals the spec's option-by-option overlay for 28 files and 48 overlays. In total about 25,600 states. |
| `ipinfo_multiip_notfound` | violation | `CRDNotFoundReported` fails for ENIMultiIP: the code tests `err`, not `err2` (L629), the open question of spec section 9 |
| `gc_rule_abort` | violation | `ExpiredIPRulesCleaned` fails in four steps. The unparsable id comes first in the map's order, so the closure returns; then the records of both well-formed ids are deleted, and no later pass sees them. Spec sections 4.6 and 8 say malformed ids are skipped. |

`coordinator_noleak` passes only because it has no store faults. With them, `NoLeak` also fails, through the same stale record that `release_steal` shows. The refinement is checked without crashes: a restart ends two handlers in one step, which `AbstractAlloc`'s one-handler `Serve` does not allow; that is a limit of the abstraction, not a bug. Release faults are left out of `coordinator_live` because a rollback whose `Release` fails leaks the item for good, which the code accepts (it logs and gives up) and `NoLeak` allows through `lost`. Between them the passing Coordinator runs fire every action; `GCPanic` and `Reboot` fire in `coordinator_gc`.

Divergences seen while modelling that no run checks (the project keeps twelve runs):
- `validateConfig` (L1564-1572) rejects the ipv6 stack that spec section 6 lists; `read_paths` leaves ipv6 out of its stacks for that reason.
- `requestCRD` (L1010-1011) makes a PodENI with zero allocations a generic error; spec section 8, scenario 6 expects `ErrCRDNotFound` from `GetIPInfo`. `CRDNotFoundReported` states the spec's version.
- `Config.GetExtraRoutes` (config.go L68-74) returns the vSwitch ids; it is not called by the daemon.
- An overlay that is not JSON stops the daemon at L1366-1369. An overlay that cannot be fetched falls back to the file (L1361-1364). The spec does not say which should happen.

### Bounds

- Two pods, because every finding needs one pod's stale record and another pod's allocation.
- One sandbox id. The id is compared only with the pod's own record, so a second id adds only the no-op mismatch, which is not a step.
- One or two secondary IPs, and one EIP. One IP with two pods reaches pool exhaustion and reuse; two IPs let both pods hold one at once.
- Records have at most two items: one ENIIP and one EIP.
- `Modes` and `VPCPodTypes`: `coordinator_noleak` and `coordinator_live` run every mode. The EIP run `coordinator_gc` runs ENIMultiIP and ENIOnly; VPC mode has no EIP manager. In VPC mode `coordinator_noleak` uses only VPCENI pods and `coordinator_live` only VPCIP pods. A pod re-created under the same name as the other type has its record overwritten by `AllocIP`'s `Put` (L407, L451) with the old ENI or veth still allocated. This is the same overwrite that `eip_leak_on_recreate` shows, and it breaks `NoLeak` and `DeletedPodReclaimed` the same way.
- `InfoCalls` is TRUE in `coordinator_noleak` and `stale_stat` only. In `coordinator_noleak` it multiplies the states by about nine (191k), and the EIP runs would pass five minutes with it. One `GetIPInfo` per pod at a time is enough: the reply depends only on what happens between its read and its `Stat`.
- Pods and IPs are symmetric: the managers pick any free item, and the handlers treat pods alike. Symmetry is not used in the liveness runs.
- `StickyModes` limits the sticky flag to `{FALSE}` in the EIP runs, to keep them within minutes. The sticky paths are checked in `coordinator_noleak` and `coordinator_live`, which have EIP off.
- `MC_IPInfo`: up to two allocations per PodENI (enough for one default and one extra interface), interface names `""` and `eth1`, two trunk ids.
- `MC_IPInfo`, third group of initial states (GetResourceMapping): three ids, two pods, records with up to two resources including an EIP; this reaches ids known to only one of the three sources and a stale record sharing an id.
- `MC_IPInfo`, fourth group (the `Config` path): up to five security groups plus a sixth and a duplicate, so the limit is met, exceeded and hidden by de-duplication.
- `MC_IPInfo`, fifth group (the overlay): each of `ip_stack`, `security_groups` and `vswitches` is absent, null or set in the file and in the overlay. The overlay's `vswitches` also deletes a zone, replaces a zone or adds one. This reaches every branch of `MergePatch` at both depths. Overlays that are JSON but not objects are left out: `jsonpatch`'s answer to them is library behaviour the spec does not define.
- `MC_GCRules`: one malformed id of each kind and two well-formed ones. The abort needs a well-formed id after the unparsable one, and the skip needs the id without a separator.

### Fairness

`LiveSpec` adds weak fairness of `GCTick`, `GCRun`, `GCPanic` and `Reboot`, and of each pod's handler steps after its gate (`HandlerStep`).
- The GC ticker fires every five minutes, and `Lock` is granted once the readers leave (the writer blocks new readers).
- The kubelet restarts a crashed daemon container.
- A gRPC handler, once started, runs to its return. `AllocStart` and `ReleaseStart` are not fair: nothing obliges the CNI plugin to call.
- Faults are not made fair. `coordinator_live` has only allocation failures and cancellations, which end the handler; `gc_nil_manager` assumes only that outside crashes stop (`<>[][~Restart]_vars`), and still finds the GC's own crash loop.

## 5. Not modelled

- Tracing, events and metrics (pure I/O), and the period check (`startPeriodCheck`), which only logs the mapping and execs the CNI CHECK.
- The kernel's rules and routes themselves: `GCRules` keeps only which ids the GC tried to clean.
- The period check's timing. `POOL_CHECK_PERIOD_SECONDS` is taken as any integer `Atoi` accepts (L1529-1534). A value of 0 or below makes `JitterUntil` run the check back to back, but the check changes no state the daemon keeps.
- `parseExtraRoute`, which copies route strings.
- Config options that no code path under `src/` reads, and YAML.
- The cloud APIs behind the managers.
- A change of daemon mode between restarts (spec section 4.3). Once the mode changes, the old mode's items have no manager. Which pod holds them is then a property of the cloud, not of any manager. `ReleaseIP` and the GC skip their types (L559-562, L860), and that is all the code does with them.
- Crashes in the refinement run (see section 4).
