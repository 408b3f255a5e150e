------------------------------ MODULE MC_GCRules ------------------------------
(***************************************************************************)
(* Four expired ENIIP records: two with well-formed ids, one whose IP    *)
(* part does not parse and one without a separator, so that the map's    *)
(* iteration order can put either malformed id before a well-formed one.  *)
(***************************************************************************)
EXTENDS GCRules

CONSTANTS ip1, ip2, badip, nodot

MCIds == {ip1, ip2, badip, nodot}
MCKind == [i \in MCIds |-> CASE i = badip -> "badIP"
                             [] i = nodot -> "noDot"
                             [] OTHER     -> "ipv4"]
=============================================================================
