CONSTANTS
  p1 = p1  p2 = p2  c1 = c1  ip1 = ip1  ip2 = ip2  eni1 = eni1  eip1 = eip1
  None = None  Free = Free
  Pods <- MCPods
  ContainerIDs <- MCContainerIDs
  ENIIPIds <- MCTwoIPs
  EIPIds <- MCEIPIds
  ENIIds <- MCENIIds
  Modes = {"VPC", "ENIMultiIP", "ENIOnly"}
  EnableEIP = FALSE
  StickyModes = {FALSE, TRUE}
  VPCPodTypes = {"VPCENI"}
  Failures = {"gc", "alloc", "release", "cancel", "crash"}
  InfoCalls = TRUE
SPECIFICATION Spec
SYMMETRY Symmetry
INVARIANT NoLeak
PROPERTY GCKeepsInUse
