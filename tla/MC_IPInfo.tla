----------------------------- MODULE MC_IPInfo ------------------------------
(***************************************************************************)
(* Each PodENI resource of a bounded domain, with the node's trunk ENI, is *)
(* an initial state; the daemon configuration, the pod, the stored record *)
(* and the manager's Stat are quantified in the properties.  PodTypes     *)
(* selects the pod network types a run asks about.  The NetConf list the  *)
(* default-route policy is checked on is a variable too: one group of     *)
(* initial states varies the PodENI and trunk ENI with the list empty,    *)
(* another varies the list with a fixed PodENI.  A third group varies the *)
(* inputs of the other read-only path, GetResourceMapping: local and      *)
(* remote id lists over ids 1..3, and up to two pod records whose          *)
(* resources are ENIIPs, or an ENIIP and an EIP.  The last two groups     *)
(* vary the inputs of newNetworkService's configuration path: a Config    *)
(* of a bounded domain (the daemon mode and the instance's IPv6 limits    *)
(* are quantified in the property), and a config file with the node's     *)
(* dynamic overlay.  IPStacks leaves out ipv6, which validateConfig        *)
(* rejects although the specification lists it (see the README).          *)
(***************************************************************************)
EXTENDS IPInfo, ResMapping

CONSTANTS PodTypes

Alloc == [ifName : {"", "eth1"}, defaultRoute : BOOLEAN,
          cidrOk : BOOLEAN, statusOk : BOOLEAN]
PodENIs == [state : {"absent", "unavailable"}, trunkENIID : {"t1"}, allocs : {<<>>}]
             \cup [state : {"present"}, trunkENIID : {"t1", "t2"},
                   allocs : BoundedSeq(Alloc, 2)]

DaemonCfgs == [mode : {"VPC", "ENIMultiIP", "ENIOnly"}, ipamType : {"", "crd"},
               enableTrunk : BOOLEAN]
Pods == [type : PodTypes, podENI : BOOLEAN]
Records == [dbErr : BOOLEAN, cid : {"match", "other", "none"},
            items : SUBSET {"eniip", "eni"}]

Ids == 1..3
EIPId == 9
PodNames == 1..2

IdLists == {SetToSortSeq(s, LAMBDA a, b : a < b) : s \in SUBSET Ids}
ResLists == {<<>>} \cup {<<[type |-> "ENIIP", id |-> i]>> : i \in Ids}
              \cup {<<[type |-> "ENIIP", id |-> 1], [type |-> "EIP", id |-> EIPId]>>}
PodLists == {<<>>}
              \cup {<<[name |-> n, res |-> r]>> : n \in PodNames, r \in ResLists}
              \cup {<<[name |-> 1, res |-> r1], [name |-> 2, res |-> r2]>> :
                      r1, r2 \in ResLists}
              \cup {<<[name |-> 2, res |-> r1], [name |-> 1, res |-> r2]>> :
                      r1, r2 \in ResLists}

DC == INSTANCE DaemonConfig WITH InstanceZone <- "z1", InstanceVSwitch <- "vsw-ins"

\* Security groups of a config: the single SecurityGroup (none, one also
\* in the list, or a sixth id) and a sorted list of distinct ids, plus one
\* list with a duplicate whose length exceeds its number of ids.
SGIds == 1..5
SGLists == {SetToSortSeq(s, LAMBDA a, b : a < b) : s \in SUBSET SGIds}
             \cup {<<1, 1, 2, 3, 4>>}

\* VSwitches: no map, a zone with an empty list, a zone with a list.
Zones == {"z1", "z2"}
VSwitchMaps ==
    {[z \in {} |-> <<>>]}
    \cup {[z \in {zz} |-> l] : zz \in Zones, l \in {<<>>, <<"vsw-a">>}}
    \cup {[z \in Zones |-> <<"vsw-a">>]}

Configs ==
    [securityGroup : {DC!NoSG, 1, 6}, securityGroups : SGLists,
     vSwitches : VSwitchMaps, ipStack : {"", "ipv4", "dual", "vxlan"},
     ipamType : {"", "crd"}, eniCapRatio : {0, 2},
     vSwitchSelectionPolicy : {"", "ordered"},
     maxPoolSize : {5}, minPoolSize : {1}, maxENI : {3}, minENI : {1}]

Limits == [ipv6 : BOOLEAN, multiIPv6 : BOOLEAN]

\* Config files and dynamic overlays as JSON objects over three options,
\* each absent, null or set; an overlay may also be unfetchable, empty or
\* not JSON.
JStr(x) == [t |-> "str", v |-> x]
JArr(x) == [t |-> "arr", v |-> x]
Absent  == [t |-> "absent", v |-> "absent"]
Doc(opts) == DC!JObj([k \in {k \in DOMAIN opts : opts[k].t # "absent"} |-> opts[k]])
Files == {Doc(o) : o \in
            [ip_stack : {Absent, DC!JNull, JStr("ipv4")},
             security_groups : {Absent, JArr(<<1>>), JArr(<<1, 2>>)},
             vswitches : {Absent, DC!JObj([z1 |-> JArr(<<"vsw-a">>)]),
                          DC!JObj([z1 |-> JArr(<<"vsw-a">>), z2 |-> JArr(<<"vsw-b">>)])}]}
         \cup {[t |-> "missing", v |-> "missing"]}
Overlays == {Doc(o) : o \in
               [ip_stack : {Absent, DC!JNull, JStr("dual")},
                security_groups : {Absent, DC!JNull, JArr(<<2>>)},
                vswitches : {Absent, DC!JNull, DC!JObj([z1 |-> DC!JNull]),
                             DC!JObj([z1 |-> JArr(<<"vsw-c">>)]),
                             DC!JObj([z2 |-> JArr(<<"vsw-c">>)])}]}
            \cup {DC!NoText, [t |-> "fetchErr", v |-> "fetchErr"],
                  [t |-> "invalid", v |-> "invalid"]}

VARIABLES crd, nodeTrunk, nc, local, remote, pods, cfg, file, dynamic

NoPodENI == [state |-> "absent", trunkENIID |-> "t1", allocs |-> <<>>]

NoConfig == CHOOSE c \in Configs : TRUE

\* The inputs no group varies.
Rest(vs) ==
    /\ "crd" \notin vs => crd = NoPodENI
    /\ "trunk" \notin vs => nodeTrunk = "none"
    /\ "nc" \notin vs => nc = <<>>
    /\ "map" \notin vs => local = <<>> /\ remote = <<>> /\ pods = <<>>
    /\ "cfg" \notin vs => cfg = NoConfig
    /\ "load" \notin vs => file = DC!JObj([k \in {} |-> DC!JNull]) /\ dynamic = DC!NoText

Init == \/ crd \in PodENIs /\ nodeTrunk \in {"none", "t1"} /\ Rest({"crd", "trunk"})
        \/ nc \in SeqOf(NetConfEntry, 3) /\ Rest({"nc"})
        \/ /\ local \in IdLists /\ remote \in IdLists /\ pods \in PodLists
           /\ Rest({"map"})
        \/ cfg \in Configs /\ Rest({"cfg"})
        \/ file \in Files /\ dynamic \in Overlays /\ Rest({"load"})
Next == UNCHANGED <<crd, nodeTrunk, nc, local, remote, pods, cfg, file, dynamic>>

(***************************************************************************)
(* GetIPInfo composes its NetConfs identically to allocation (spec        *)
(* section 4.2): after an AllocIP that succeeded, a GetIPInfo for the same *)
(* sandbox, with the record AllocIP stored, the same PodENI and trunk ENI, *)
(* and the manager's Stat finding the resource, returns no error, no      *)
(* ErrCRDNotFound, and the NetConfs AllocIP returned, DefaultRoute flags  *)
(* included.  The ENI Stat returns is taken not to be a trunk ENI.         *)
(***************************************************************************)
GetIPInfoMatchesAlloc ==
    \A d \in DaemonCfgs, pod \in Pods :
        LET a == AllocReply(d, pod, crd, nodeTrunk)
        IN  a.err = NoErr =>
              GetIPInfo(d, pod, [dbErr |-> FALSE, cid |-> "match", items |-> a.val.items],
                        crd, nodeTrunk, TRUE, FALSE)
                = Reply(FALSE, FALSE, a.val.netConfs)

(***************************************************************************)
(* defaultForNetConf, which both replies end with, accepts a NetConf list *)
(* exactly when the specification's policy (section 4.5) does, and then   *)
(* leaves it with exactly the default route the policy assigns: the CRD-  *)
(* supplied route kept, or the first default interface marked.            *)
(***************************************************************************)
DefaultForNetConfMatchesSpec ==
    LET r == defaultForNetConf(nc)
    IN  /\ (r.err = "none") <=> SpecAccepts(nc)
        /\ r.err = "none" => r.netConf = SpecResult(nc)
        /\ r.err = "none" /\ nc # <<>> => OneDefaultRoute(r.netConf)

\* GetIPInfo reads the PodENI for this pod.
ReadsPodENI(d, pod) ==
    \/ pod.type = "ENIMultiIP" /\ CRDServed(d, pod)
    \/ pod.type = "VPCENI" /\ d.ipamType = "crd"

(***************************************************************************)
(* When the PodENI of a pod GetIPInfo reads it for is not there (NotFound) *)
(* or not ready (no allocations), GetIPInfo answers Error =               *)
(* ErrCRDNotFound with an empty NetConfs list (spec section 4.2 and       *)
(* section 8, scenario 6), whatever record the DB holds for the sandbox.  *)
(***************************************************************************)
CRDNotFoundReported ==
    (crd.state = "absent" \/ (crd.state = "present" /\ crd.allocs = <<>>))
    => \A d \in DaemonCfgs, pod \in Pods, statOk \in BOOLEAN,
          rec \in Records :
          (verifyPodNetworkType(d.mode, pod.type) /\ ReadsPodENI(d, pod)
           /\ ~rec.dbErr /\ rec.cid # "other")
          => LET r == GetIPInfo(d, pod, rec, crd, nodeTrunk, statOk, FALSE)
             IN  r.crdNotFound /\ r.netConfs = <<>>
(***************************************************************************)
(* GetResourceMapping in ENIMultiIP and ENIOnly modes, when neither the   *)
(* manager nor the DB fails, returns the specification's three-way        *)
(* mapping (section 4.8) whatever order sort.Slice leaves equal entries   *)
(* in: every id of local, remote and the non-EIP pod bindings once, with  *)
(* the spec's Valid flag, sorted by Name descending then RemoteResID      *)
(* ascending.  In VPC mode it returns no mapping.                          *)
(***************************************************************************)
ResMappingMatchesSpec ==
    /\ GetResourceMapping("VPC", local, remote, pods, FALSE, FALSE)
         = {[err |-> FALSE, val |-> <<>>]}
    /\ \A mode \in {"ENIMultiIP", "ENIOnly"} :
         LET rs == GetResourceMapping(mode, local, remote, pods, FALSE, FALSE)
         IN  /\ rs # {}
             /\ \A r \in rs :
                  /\ ~r.err
                  /\ Len(r.val) = Cardinality(SpecIds(local, remote, pods))
                  /\ \A i \in 1..Len(r.val) :
                       SpecEntryOk(r.val[i], local, remote, pods)
                  /\ \A i \in 1..Len(r.val) - 1 :
                       LET a == r.val[i]
                           b == r.val[i + 1]
                       IN  a.name > b.name \/ (a.name = b.name /\ a.remote <= b.remote)

(***************************************************************************)
(* newNetworkService accepts exactly the configurations the specification *)
(* accepts (section 6), and the IP family and pool configuration it       *)
(* derives from them are the specification's: the stack default and the  *)
(* IPv6 downgrade, at most five distinct security groups, the zone's      *)
(* vSwitches or the instance's own, the ratio and policy defaults, and    *)
(* no pool sizes under the CRD IPAM type.                                  *)
(***************************************************************************)
StartConfigMatchesSpec ==
    \A mode \in DC!DaemonModes \cup {"bogus"}, limit \in Limits :
        LET r == DC!StartConfig(mode, cfg, limit)
            p == r.val.pool
            crdIPAM == cfg.ipamType = "crd"
        IN  /\ r.err = ~DC!SpecAccepts(mode, cfg)
            /\ ~r.err =>
                 /\ r.val.ipFamily = DC!SpecIPFamily(mode, cfg, limit)
                 /\ ToSet(p.securityGroups) = DC!SpecSGs(cfg)
                 /\ IsSorted(p.securityGroups, LAMBDA a, b : a < b)
                 /\ p.vSwitch = DC!SpecVSwitches(cfg)
                 /\ p.eniCapRatio = IF cfg.eniCapRatio = 0 THEN 1 ELSE cfg.eniCapRatio
                 /\ p.vSwitchSelectionPolicy =
                      IF cfg.vSwitchSelectionPolicy = ""
                      THEN "random" ELSE cfg.vSwitchSelectionPolicy
                 /\ p.maxPoolSize = IF crdIPAM THEN 0 ELSE cfg.maxPoolSize
                 /\ p.minENI = IF crdIPAM THEN 0 ELSE cfg.minENI

(***************************************************************************)
(* The Config newNetworkService goes on with is the config file overlaid  *)
(* by the node's dynamic config as a merge patch (section 6): an option   *)
(* the overlay sets wins, one it sets to null is reset, vSwitches are     *)
(* overlaid zone by zone, and an overlay that cannot be fetched leaves    *)
(* the file alone.  An unreadable file, or an overlay that is not JSON,   *)
(* stops the daemon.                                                       *)
(***************************************************************************)
ConfigOverlayMatchesSpec ==
    LET r == DC!LoadConfig(file, dynamic)
    IN  /\ r.err = (file.t = "missing" \/ dynamic.t = "invalid")
        /\ ~r.err => r.val = DC!SpecConfig(file, dynamic)
=============================================================================
