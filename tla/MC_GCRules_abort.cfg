CONSTANTS
    ip1 = ip1
    ip2 = ip2
    badip = badip
    nodot = nodot
    Ids <- MCIds
    Kind <- MCKind
SPECIFICATION Spec
INVARIANT ExpiredIPRulesCleaned
