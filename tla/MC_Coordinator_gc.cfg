CONSTANTS
  p1 = p1  p2 = p2  c1 = c1  ip1 = ip1  ip2 = ip2  eni1 = eni1  eip1 = eip1
  None = None  Free = Free
  Pods <- MCPods
  ContainerIDs <- MCContainerIDs
  ENIIPIds <- MCOneIP
  EIPIds <- MCEIPIds
  ENIIds <- MCENIIds
  Modes = {"ENIMultiIP", "ENIOnly"}
  EnableEIP = TRUE
  StickyModes = {FALSE}
  VPCPodTypes = {"VPCENI", "VPCIP"}
  Failures = {"store", "gc", "alloc", "crash", "reconfig"}
  InfoCalls = FALSE
SPECIFICATION Spec
SYMMETRY Symmetry
INVARIANT TypeOK
PROPERTY GCKeepsInUse
