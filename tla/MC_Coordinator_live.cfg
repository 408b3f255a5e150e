CONSTANTS
    Pods <- MCPods
    ContainerIDs <- MCContainerIDs
    ENIIPIds <- MCTwoIPs
    EIPIds <- MCEIPIds
    ENIIds <- MCENIIds
    Modes = {"VPC", "ENIMultiIP", "ENIOnly"}
    None = None
    Free = Free
    p1 = p1
    p2 = p2
    c1 = c1
    ip1 = ip1
    ip2 = ip2
    eni1 = eni1
    eip1 = eip1
    EnableEIP = FALSE
    StickyModes = {FALSE, TRUE}
    VPCPodTypes = {"VPCIP"}
    Failures = {"alloc", "cancel"}
    InfoCalls = FALSE
SPECIFICATION LiveSpec
PROPERTY DeletedPodReclaimed
PROPERTY AllocRefined
