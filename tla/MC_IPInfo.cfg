CONSTANTS
    IfNames = {"", "eth0", "eth1"}
    PodTypes = {"ENIMultiIP", "VPCENI", "VPCIP"}
INIT Init
NEXT Next
INVARIANT DefaultForNetConfMatchesSpec
INVARIANT GetIPInfoMatchesAlloc
INVARIANT ResMappingMatchesSpec
INVARIANT StartConfigMatchesSpec
INVARIANT ConfigOverlayMatchesSpec
