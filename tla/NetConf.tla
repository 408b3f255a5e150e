------------------------------ MODULE NetConf ------------------------------
(***************************************************************************)
(* The default-route policy applied to the NetConf list of a reply:       *)
(* defaultForNetConf and defaultIf of src/daemon/daemon.go.  A NetConf is *)
(* abstracted to the two fields the policy reads and writes: the interface *)
(* name and the DefaultRoute flag.                                         *)
(***************************************************************************)
EXTENDS Naturals, Sequences, SequencesExt

CONSTANTS IfNames   \* interface names a NetConf may carry, "" and "eth0" included

IfEth0 == "eth0"

ASSUME {"", IfEth0} \subseteq IfNames

NetConfEntry == [ifName : IfNames, defaultRoute : BOOLEAN]

\* Mutant: only "eth0" taken for the default interface.
defaultIfEth0Only(name) == name = IfEth0

\* defaultIf: the empty name and eth0 both denote the pod's default interface.
defaultIf(name) == name \in {"", IfEth0}

\* The outcome of defaultForNetConf: the error it returns, or the list it
\* leaves behind (the function edits the slice in place).
Ok(nc)   == [err |-> "none", netConf |-> nc]
Err(e, nc) == [err |-> e, netConf |-> nc]

\* The first loop of defaultForNetConf: it stops at the first entry that
\* sets DefaultRoute when an earlier one already did, and otherwise
\* accumulates defaultRouteSet and defaultIfSet.
RECURSIVE ScanNetConf(_, _, _, _)
ScanNetConf(nc, i, defaultRouteSet, defaultIfSet) ==
    IF i > Len(nc)
    THEN [dup |-> FALSE, routeSet |-> defaultRouteSet, ifSet |-> defaultIfSet]
    ELSE IF nc[i].defaultRoute /\ defaultRouteSet
         THEN [dup |-> TRUE, routeSet |-> TRUE, ifSet |-> defaultIfSet]
         ELSE ScanNetConf(nc, i + 1,
                          defaultRouteSet \/ nc[i].defaultRoute,
                          defaultIfSet \/ defaultIf(nc[i].ifName))

\* The second loop: the first entry named "" or eth0 (tested inline, not
\* through defaultIf) gets the default route.
MarkFirstDefaultIf(nc) ==
    LET i == SelectInSeq(nc, LAMBDA c : c.ifName = "" \/ c.ifName = IfEth0)
    IN  [nc EXCEPT ![i].defaultRoute = TRUE]

defaultForNetConf(nc) ==
    IF nc = <<>> THEN Ok(nc)
    ELSE LET s == ScanNetConf(nc, 1, FALSE, FALSE)
         IN  IF s.dup THEN Err("default route is dumplicated", nc)
             ELSE IF ~s.ifSet THEN Err("default interface is not set", nc)
             ELSE IF ~s.routeSet THEN Ok(MarkFirstDefaultIf(nc))
             ELSE Ok(nc)

-----------------------------------------------------------------------------
(***************************************************************************)
(* The policy as the specification states it (section 4.5): at most one   *)
(* entry with the default route, at least one default interface, and the  *)
(* first default interface made the default route when none is.  An empty *)
(* list is accepted unchanged.                                             *)
(***************************************************************************)
RouteIdx(nc) == {i \in DOMAIN nc : nc[i].defaultRoute}
IfIdx(nc)    == {i \in DOMAIN nc : nc[i].ifName \in {"", IfEth0}}

SpecAccepts(nc) ==
    \/ nc = <<>>
    \/ /\ \A i, j \in RouteIdx(nc) : i = j
       /\ IfIdx(nc) # {}

SpecResult(nc) ==
    IF nc # <<>> /\ RouteIdx(nc) = {}
    THEN [i \in DOMAIN nc |->
            [nc[i] EXCEPT !.defaultRoute =
                i \in IfIdx(nc) /\ \A j \in IfIdx(nc) : i <= j]]
    ELSE nc

\* A list the policy accepts ends with exactly one default route.
OneDefaultRoute(nc) == \E i \in DOMAIN nc : RouteIdx(nc) = {i}
=============================================================================
