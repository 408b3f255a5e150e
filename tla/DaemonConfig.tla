----------------------------- MODULE DaemonConfig -----------------------------
(***************************************************************************)
(* The start-up configuration path of newNetworkService in                *)
(* src/daemon/daemon.go: the daemon-mode check, validateConfig,           *)
(* setDefault, the IP family and its downgrade on instances without IPv6, *)
(* and getPoolConfig with the Config accessor GetSecurityGroups of        *)
(* src/types/daemon/config.go.  A Config is abstracted to the fields this *)
(* path reads.  Security-group ids are numbers (0 stands for the empty    *)
(* string) so that the sorted list sets.List returns can be written; the  *)
(* pool sizes are kept as numbers; vSwitch ids are strings.               *)
(***************************************************************************)
EXTENDS Naturals, Sequences, FiniteSets, SequencesExt

CONSTANTS
    InstanceZone,     \* aliyun.GetInstanceMeta().ZoneID
    InstanceVSwitch   \* aliyun.GetInstanceMeta().VSwitchID

DaemonModes == {"VPC", "ENIMultiIP", "ENIOnly"}
NoSG        == 0       \* Config.SecurityGroup = ""
MaxSGs      == 5       \* the limit getPoolConfig enforces

Ok(v)  == [err |-> FALSE, val |-> v]
Fail   == [err |-> TRUE, val |-> <<>>]

\* GetSecurityGroups: SecurityGroup (when set) and SecurityGroups put in a
\* string set, returned sorted and without duplicates.
GetSecurityGroups(c) ==
    SetToSortSeq((IF c.securityGroup # NoSG THEN {c.securityGroup} ELSE {})
                   \cup ToSet(c.securityGroups),
                 LAMBDA a, b : a < b)

\* GetVSwitchIDs: the vSwitch lists of all zones appended in the order Go
\* iterates the map, which is any order.
GetVSwitchIDs(c) ==
    {FlattenSeq([i \in DOMAIN o |-> c.vSwitches[o[i]]]) :
        o \in SetToSeqs(DOMAIN c.vSwitches)}

\* GetExtraRoutes runs the same loop over VSwitches: it returns vSwitch
\* ids, never the configured ExtraRoutes.
GetExtraRoutes(c) == GetVSwitchIDs(c)

\* validateConfig: only "", ipv4 and dual are accepted IP stacks.
validateConfig(c) == c.ipStack \in {"", "ipv4", "dual"}

\* setDefault: EniCapRatio 0 becomes 1, the vSwitch selection policy
\* defaults to random and the IP stack to ipv4.
setDefault(c) ==
    [c EXCEPT !.eniCapRatio = IF @ = 0 THEN 1 ELSE @,
              !.vSwitchSelectionPolicy = IF @ = "" THEN "random" ELSE @,
              !.ipStack = IF @ = "" THEN "ipv4" ELSE @]

\* types.NewIPFamilyFromIPStack (not under src/).
IPFamilyOf(stack) == [ipv4 |-> stack \in {"ipv4", "dual"},
                      ipv6 |-> stack \in {"ipv6", "dual"}]

\* The IPv6 downgrade of newNetworkService: IPv6 is dropped when the
\* instance type lacks it, or lacks it for multi-IP ENIs in ENIMultiIP mode.
DowngradeIPFamily(fam, mode, limit) ==
    [fam EXCEPT !.ipv6 = @ /\ limit.ipv6
                          /\ (mode = "ENIMultiIP" => limit.multiIPv6)]

\* The security-group limit, with the bound taken as inclusive.
TooManySGsAtLimit(sgs) == Len(sgs) >= MaxSGs

\* The security-group limit of getPoolConfig.
TooManySGs(sgs) == Len(sgs) > MaxSGs

\* getPoolConfig: at most five security groups; the vSwitches configured
\* for the instance's zone when there are any, else the instance's own;
\* pool and ENI sizes zeroed under the CRD IPAM type.
getPoolConfig(c, ipamType) ==
    LET sgs   == GetSecurityGroups(c)
        zone  == IF InstanceZone \in DOMAIN c.vSwitches
                 THEN c.vSwitches[InstanceZone] ELSE <<>>
        crd   == ipamType = "crd"
        size(n) == IF crd THEN 0 ELSE n
    IN  IF TooManySGs(sgs) THEN Fail
        ELSE Ok([maxPoolSize |-> size(c.maxPoolSize),
                 minPoolSize |-> size(c.minPoolSize),
                 maxENI      |-> size(c.maxENI),
                 minENI      |-> size(c.minENI),
                 eniCapRatio |-> c.eniCapRatio,
                 securityGroups |-> sgs,
                 vSwitchSelectionPolicy |-> c.vSwitchSelectionPolicy,
                 vSwitch     |-> IF zone # <<>> THEN zone ELSE <<InstanceVSwitch>>])

\* newNetworkService up to the pool configuration, in the code's order:
\* the daemon mode, validateConfig, setDefault, the IP family and its
\* downgrade, getPoolConfig.  The cloud and Kubernetes clients it builds
\* in between are left out.
StartConfig(mode, c, limit) ==
    IF mode \notin DaemonModes \/ ~validateConfig(c) THEN Fail
    ELSE LET d    == setDefault(c)
             pool == getPoolConfig(d, d.ipamType)
         IN  IF pool.err THEN Fail
             ELSE Ok([ipFamily |-> DowngradeIPFamily(IPFamilyOf(d.ipStack),
                                                     mode, limit),
                      ipamType |-> d.ipamType,
                      pool     |-> pool.val])

-----------------------------------------------------------------------------
(***************************************************************************)
(* Loading the configuration (config.go GetConfigFromFileWithMerge and    *)
(* MergeConfigAndUnmarshal, called twice by newNetworkService).  A JSON   *)
(* value is a record tagged with its kind; arrays are kept whole as       *)
(* tuples of scalars, since a merge patch replaces an array as a whole.   *)
(* "empty" is a zero-length overlay, "invalid" text no JSON parser takes, *)
(* "missing" a file os.ReadFile cannot read.                              *)
(***************************************************************************)
JNull     == [t |-> "null", v |-> "null"]
JObj(f)   == [t |-> "obj", v |-> f]
NoText    == [t |-> "empty", v |-> "empty"]

\* jsonpatch.MergePatch (RFC 7396, not under src/): a patch that is not an
\* object replaces the target; an object patch removes the members it sets
\* to null and merges the others member by member into the target, which
\* is taken as {} when it is not an object.
RECURSIVE MergePatch(_, _)
MergePatch(target, patch) ==
    IF patch.t # "obj" THEN patch
    ELSE LET t    == IF target.t = "obj" THEN target.v ELSE [k \in {} |-> JNull]
             set  == {k \in DOMAIN patch.v : patch.v[k].t # "null"}
             keep == DOMAIN t \ DOMAIN patch.v
         IN  JObj([k \in keep \cup set |->
                     IF k \in set
                     THEN MergePatch(IF k \in DOMAIN t THEN t[k] ELSE JNull,
                                     patch.v[k])
                     ELSE t[k]])

\* json.Unmarshal of a JSON document into a fresh Config: a member that is
\* absent or null leaves the field at its zero value; vswitches becomes a
\* map from zone to its vSwitch list.  Only the fields of the model are
\* read; the others keep their zero value.
ZeroConfig ==
    [securityGroup |-> NoSG, securityGroups |-> <<>>,
     vSwitches |-> [z \in {} |-> <<>>], ipStack |-> "", ipamType |-> "",
     eniCapRatio |-> 0, vSwitchSelectionPolicy |-> "",
     maxPoolSize |-> 0, minPoolSize |-> 0, maxENI |-> 0, minENI |-> 0]

Member(doc, k) == doc.t = "obj" /\ k \in DOMAIN doc.v /\ doc.v[k].t # "null"

Unmarshal(doc) ==
    LET zones == doc.v["vswitches"].v
    IN  [ZeroConfig EXCEPT
           !.ipStack = IF Member(doc, "ip_stack") THEN doc.v["ip_stack"].v ELSE @,
           !.securityGroups = IF Member(doc, "security_groups")
                              THEN doc.v["security_groups"].v ELSE @,
           !.vSwitches = IF Member(doc, "vswitches")
                         THEN [z \in DOMAIN zones |-> zones[z].v] ELSE @]

\* The merge with the file patched onto the overlay.
MergeConfigAndUnmarshalSwapped(top, base) ==
    IF top.t = "empty" THEN Ok(Unmarshal(base))
    ELSE IF top.t = "invalid" THEN Fail
    ELSE Ok(Unmarshal(MergePatch(top, base)))

\* MergeConfigAndUnmarshal(topCfg, baseCfg): no overlay unmarshals the
\* file alone; otherwise the overlay is merged into the file as a merge
\* patch, which fails on text that is not JSON, and the result unmarshalled.
MergeConfigAndUnmarshal(top, base) ==
    IF top.t = "empty" THEN Ok(Unmarshal(base))
    ELSE IF top.t = "invalid" THEN Fail
    ELSE Ok(Unmarshal(MergePatch(base, top)))

\* GetConfigFromFileWithMerge: read the file, then merge.
GetConfigFromFileWithMerge(file, top) ==
    IF file.t = "missing" THEN Fail ELSE MergeConfigAndUnmarshal(top, file)

\* newNetworkService: the file alone (globalConfig, for the Kubernetes
\* client), then the dynamic config of the node, which falls back to no
\* overlay when it cannot be fetched, merged into the file.
LoadConfig(file, dynamic) ==
    LET top == IF dynamic.t = "fetchErr" THEN NoText ELSE dynamic
    IN  IF GetConfigFromFileWithMerge(file, NoText).err THEN Fail
        ELSE GetConfigFromFileWithMerge(file, top)

-----------------------------------------------------------------------------
(***************************************************************************)
(* The configuration as the specification describes it (sections 6 and   *)
(* 8): the three daemon modes; IP stack ipv4, ipv6 or dual, ipv4 by      *)
(* default; at most five security groups; vSwitches per zone; EniCapRatio *)
(* and the random selection policy as defaults; dual stack downgraded to  *)
(* IPv4 on instances that do not support IPv6.                            *)
(***************************************************************************)
SpecSGs(c) == {g \in ToSet(c.securityGroups) \cup {c.securityGroup} : g # NoSG}

SpecAccepts(mode, c) ==
    /\ mode \in DaemonModes
    /\ c.ipStack \in {"", "ipv4", "ipv6", "dual"}
    /\ Cardinality(SpecSGs(c)) <= MaxSGs

SpecStack(c) == IF c.ipStack = "" THEN "ipv4" ELSE c.ipStack

SpecIPFamily(mode, c, limit) ==
    [ipv4 |-> SpecStack(c) # "ipv6",
     ipv6 |-> SpecStack(c) # "ipv4" /\ limit.ipv6
              /\ (mode = "ENIMultiIP" => limit.multiIPv6)]

SpecVSwitches(c) ==
    IF InstanceZone \in DOMAIN c.vSwitches /\ c.vSwitches[InstanceZone] # <<>>
    THEN c.vSwitches[InstanceZone] ELSE <<InstanceVSwitch>>

\* The overlay of section 6 option by option: an option the dynamic
\* config names (null included) is decided by it, any other by the file;
\* vSwitches, a map from zone to list, is overlaid zone by zone.
Decides(ov, k) == ov.t = "obj" /\ k \in DOMAIN ov.v

SpecOption(file, ov, k, zero) ==
    LET j == IF Decides(ov, k) THEN ov.v[k]
             ELSE IF file.t = "obj" /\ k \in DOMAIN file.v THEN file.v[k]
             ELSE JNull
    IN  IF j.t = "null" THEN zero ELSE j.v

SpecZones(file, ov) ==
    LET none == [z \in {} |-> JNull]
        fz == IF Member(file, "vswitches") THEN file.v["vswitches"].v ELSE none
        oz == IF Member(ov, "vswitches") THEN ov.v["vswitches"].v ELSE none
        zs == {z \in DOMAIN fz : z \notin DOMAIN oz}
                \cup {z \in DOMAIN oz : oz[z].t # "null"}
    IN  IF Decides(ov, "vswitches") /\ ov.v["vswitches"].t = "null"
        THEN [z \in {} |-> <<>>]
        ELSE [z \in zs |-> IF z \in DOMAIN oz THEN oz[z].v ELSE fz[z].v]

SpecConfig(file, ov) ==
    [ZeroConfig EXCEPT
       !.ipStack = SpecOption(file, ov, "ip_stack", ""),
       !.securityGroups = SpecOption(file, ov, "security_groups", <<>>),
       !.vSwitches = SpecZones(file, ov)]
=============================================================================
