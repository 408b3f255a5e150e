CONSTANTS
    IfNames = {"", "eth0", "eth1"}
    PodTypes = {"ENIMultiIP"}
INIT Init
NEXT Next
INVARIANT CRDNotFoundReported
