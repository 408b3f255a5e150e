CONSTANTS
    Pods <- MCPods
    ContainerIDs <- MCContainerIDs
    ENIIPIds <- MCOneIP
    EIPIds <- MCEIPIds
    ENIIds <- MCENIIds
    Modes = {"ENIMultiIP"}
    None = None
    Free = Free
    p1 = p1
    p2 = p2
    c1 = c1
    ip1 = ip1
    ip2 = ip2
    eni1 = eni1
    eip1 = eip1
    EnableEIP = TRUE
    StickyModes = {FALSE}
    VPCPodTypes = {"VPCENI", "VPCIP"}
    Failures = {"crash", "reconfig"}
    InfoCalls = FALSE
SPECIFICATION LiveSpec
PROPERTY DeletedPodRecordRemoved
