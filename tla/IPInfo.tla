------------------------------- MODULE IPInfo -------------------------------
(***************************************************************************)
(* The NetConf lists the daemon returns, in src/daemon/daemon.go: the     *)
(* replies AllocIP composes once its allocations and its Put succeed, and *)
(* GetIPInfo's read path; with requestCRD, multiIPFromCRD,                *)
(* exclusiveENIFromCRD and verifyPodNetworkType.  A NetConf is kept to    *)
(* what tells two replies apart: the interface name, the DefaultRoute     *)
(* flag, where its IP came from (an allocation of the PodENI, the ENIIP,  *)
(* the ENI or the node's veth), the trunk flag, whether its MAC is the    *)
(* trunk ENI's, and whether a VLAN id was set.                             *)
(*                                                                         *)
(* The daemon configuration d is [mode, ipamType, enableTrunk].  A pod is *)
(* [type, podENI].  The PodENI custom resource is [state, trunkENIID,    *)
(* allocs], its state "absent" (NotFound), "unavailable" (any other API  *)
(* error) or "present"; an                                                *)
(* allocation is [ifName, defaultRoute, cidrOk, statusOk]: cidrOk says     *)
(* the CIDR is set and DeriveGatewayIP gives a gateway for it, statusOk   *)
(* that Status.ENIInfos has an entry for its ENI.                         *)
(***************************************************************************)
EXTENDS NetConf

NoErr == "none"
\* k8sErr.IsNotFound holds of the error (fmt.Errorf's %w keeps it).
NotFound == "notfound"
OtherErr == "other"

Res(e, v) == [err |-> e, val |-> v]

\* verifyPodNetworkType: the pod network types each daemon mode serves.
verifyPodNetworkType(mode, t) ==
    \/ mode = "VPC" /\ t \in {"VPCENI", "VPCIP"}
    \/ mode = "ENIMultiIP" /\ t = "ENIMultiIP"
    \/ mode = "ENIOnly" /\ t = "VPCENI"

\* Whether requestCRD reads the PodENI at all.
CRDServed(d, pod) == d.ipamType = "crd" \/ (pod.podENI /\ d.enableTrunk)

\* The nil *PodENI requestCRD returns with no error or with one.
NilPodENI == [state |-> "nil", trunkENIID |-> "none", allocs |-> <<>>]

\* requestCRD: nothing when the pod is not CRD-served; the API's error as
\* is; a PodENI without allocations is a plain error.
requestCRD(d, pod, crd) ==
    IF ~CRDServed(d, pod) THEN Res(NoErr, NilPodENI)
    ELSE IF crd.state = "absent" THEN Res(NotFound, NilPodENI)
    ELSE IF crd.state = "unavailable" THEN Res(OtherErr, NilPodENI)
    ELSE IF Len(crd.allocs) <= 0 THEN Res(OtherErr, NilPodENI)
    ELSE Res(NoErr, crd)

\* The NetConf of allocation i of the PodENI, in the loop of
\* multiIPFromCRD (trunk TRUE) and of exclusiveENIFromCRD (trunk =
\* enableTrunk): the CIDR and gateway checks, then the status lookup,
\* which exclusiveENIFromCRD makes only with trunking.
CRDConf(alloc, i, trunk) ==
    IF ~alloc.cidrOk THEN Res(OtherErr, <<>>)
    ELSE IF trunk /\ ~alloc.statusOk THEN Res(OtherErr, <<>>)
    ELSE Res(NoErr, [ifName |-> alloc.ifName, defaultRoute |-> alloc.defaultRoute,
                     ip |-> i, trunk |-> trunk, trunkMAC |-> trunk, vid |-> trunk])

\* The allocation loop: one NetConf per allocation, in order, until the
\* first error.
CRDConfs(allocs, trunk) ==
    FoldLeft(LAMBDA acc, i :
                 IF acc.err # NoErr THEN acc
                 ELSE LET c == CRDConf(allocs[i], i, trunk)
                      IN  IF c.err # NoErr THEN c
                          ELSE Res(NoErr, Append(acc.val, c.val)),
             Res(NoErr, <<>>), [i \in 1..Len(allocs) |-> i])

\* The node's trunk ENI is missing or is not the PodENI's parent.
TrunkMismatch(crd, nodeTrunk) == nodeTrunk = "none" \/ nodeTrunk # crd.trunkENIID

\* multiIPFromCRD: requestCRD's error wrapped, nothing for a pod that is
\* not CRD-served, the trunk check, then the allocation loop.
multiIPFromCRD(d, pod, crd, nodeTrunk) ==
    LET r == requestCRD(d, pod, crd)
    IN  IF r.err # NoErr THEN Res(r.err, <<>>)
        ELSE IF r.val = NilPodENI THEN Res(NoErr, <<>>)
        ELSE IF TrunkMismatch(r.val, nodeTrunk) THEN Res(OtherErr, <<>>)
        ELSE CRDConfs(r.val.allocs, TRUE)

\* exclusiveENIFromCRD: the same, with the trunk check only under
\* enableTrunk, and defaultForNetConf applied to the list.
exclusiveENIFromCRD(d, pod, crd, nodeTrunk) ==
    LET r == requestCRD(d, pod, crd)
    IN  IF r.err # NoErr THEN Res(r.err, <<>>)
        ELSE IF d.enableTrunk /\ TrunkMismatch(r.val, nodeTrunk)
             THEN Res(OtherErr, <<>>)
        ELSE LET c == CRDConfs(r.val.allocs, d.enableTrunk)
                 p == defaultForNetConf(c.val)
             IN  IF c.err # NoErr THEN c
                 ELSE IF p.err # "none" THEN Res(OtherErr, <<>>)
                 ELSE Res(NoErr, p.netConf)

\* The NetConf built from an ENIIP, ENI or veth the daemon holds itself.
OwnConf(src, route, trunk) ==
    [ifName |-> "", defaultRoute |-> route, ip |-> src,
     trunk |-> trunk, trunkMAC |-> FALSE, vid |-> FALSE]

\* The NetConfs hold a default interface.
HasDefaultIf(nc) == \E i \in 1..Len(nc) : defaultIf(nc[i].ifName)

(***************************************************************************)
(* AllocIP, from its record lookup to its reply, when every allocation     *)
(* and the Put succeed (Coordinator models their failures): the reply's   *)
(* NetConfs, or an error.  items are the resource types the new record    *)
(* holds ({} when nothing is Put).                                          *)
(***************************************************************************)
AllocReply(d, pod, crd, nodeTrunk) ==
    IF ~verifyPodNetworkType(d.mode, pod.type) THEN Res(OtherErr, <<>>)
    ELSE CASE pod.type = "ENIMultiIP" ->
              LET m == multiIPFromCRD(d, pod, crd, nodeTrunk)
                  own == ~HasDefaultIf(m.val)
                  nc == IF own THEN Append(m.val, OwnConf("eniip", TRUE, FALSE))
                        ELSE m.val
                  p == defaultForNetConf(nc)
              IN  IF m.err # NoErr THEN Res(m.err, <<>>)
                  ELSE IF p.err # "none" THEN Res(OtherErr, <<>>)
                  ELSE Res(NoErr, [netConfs |-> p.netConf,
                                   items |-> IF own THEN {"eniip"} ELSE {}])
           [] pod.type = "VPCENI" /\ d.ipamType = "crd" ->
              LET x == exclusiveENIFromCRD(d, pod, crd, nodeTrunk)
              IN  IF x.err # NoErr THEN Res(x.err, <<>>)
                  ELSE Res(NoErr, [netConfs |-> x.val, items |-> {}])
           [] pod.type = "VPCENI" ->
              Res(NoErr, [netConfs |-> <<OwnConf("eni", TRUE, FALSE)>>,
                          items |-> {"eni"}])
           [] OTHER ->
              Res(NoErr, [netConfs |-> <<OwnConf("veth", TRUE, FALSE)>>,
                          items |-> {"veth"}])

(***************************************************************************)
(* GetIPInfo after GetPod.  rec is what getPodResource returns:          *)
(* [dbErr, cid, items], where cid is "match", "other" (a different sandbox) or *)
(* "none" (no container id stored).  statOk is the manager's Stat.  eniTrunk *)
(* is the Trunk flag of the ENI Stat returns.  The reply is its error,     *)
(* the ErrCRDNotFound flag and the NetConfs.                               *)
(***************************************************************************)
Reply(e, notFound, nc) == [err |-> e, crdNotFound |-> notFound, netConfs |-> nc]

\* The ENIMultiIP branch of GetIPInfo, with the list left as built.
MultiIPInfoUnchecked(d, pod, rec, crd, nodeTrunk, statOk) ==
    LET m == multiIPFromCRD(d, pod, crd, nodeTrunk)
        own == ~HasDefaultIf(m.val) /\ "eniip" \in rec.items /\ statOk
    IN  Reply(FALSE, FALSE,
              IF own THEN Append(m.val, OwnConf("eniip", FALSE, FALSE)) ELSE m.val)

\* The ENIMultiIP branch of GetIPInfo: multiIPFromCRD, whose error is
\* dropped because the code tests err (always nil here) instead of err2;
\* the record's ENIIP (when Stat finds it) as the default interface when
\* the PodENI gives none; then defaultForNetConf.
MultiIPInfo(d, pod, rec, crd, nodeTrunk, statOk) ==
    LET m == multiIPFromCRD(d, pod, crd, nodeTrunk)
        own == ~HasDefaultIf(m.val) /\ "eniip" \in rec.items /\ statOk
        nc == IF own THEN Append(m.val, OwnConf("eniip", FALSE, FALSE)) ELSE m.val
        p == defaultForNetConf(nc)
    IN  IF p.err # "none" THEN Reply(TRUE, FALSE, <<>>)
        ELSE Reply(FALSE, FALSE, p.netConf)

GetIPInfo(d, pod, rec, crd, nodeTrunk, statOk, eniTrunk) ==
    IF ~verifyPodNetworkType(d.mode, pod.type) THEN Reply(TRUE, FALSE, <<>>)
    ELSE IF rec.dbErr THEN Reply(TRUE, FALSE, <<>>)
    ELSE IF rec.cid = "other" THEN Reply(FALSE, FALSE, <<>>)
    ELSE CASE pod.type = "ENIMultiIP" ->
              MultiIPInfo(d, pod, rec, crd, nodeTrunk, statOk)
           [] pod.type = "VPCIP" ->
              Reply(FALSE, FALSE, <<OwnConf("veth", TRUE, FALSE)>>)
           [] d.ipamType = "crd" ->
              LET x == exclusiveENIFromCRD(d, pod, crd, nodeTrunk)
              IN  IF x.err # NoErr THEN Reply(FALSE, x.err = NotFound, <<>>)
                  ELSE Reply(FALSE, FALSE, x.val)
           [] OTHER ->
              Reply(FALSE, FALSE,
                    IF "eni" \in rec.items /\ statOk
                    THEN <<OwnConf("eni", TRUE, pod.podENI /\ d.enableTrunk /\ eniTrunk)>>
                    ELSE <<>>)
=============================================================================
