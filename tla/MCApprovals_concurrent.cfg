SPECIFICATION SpecApprovals
CONSTANTS
  Session = {s1, s2}
  Cleaner = {s1, s2}
  Null = Null
  s1 = s1
  s2 = s2
  t1 = t1
  t2 = t2
  v1 = v1
  n1 = n1
  n2 = n2
  o1 = o1
  keepalived = keepalived
  Tenant = {t1, t2}
  Vrf = {v1}
  Subnet = {n1, n2}
  Owner = {o1}
  VipType = {keepalived}
  Status = {"available", "allocated", "reserved", "unused"}
  Text <- MCText
  Parsed <- MCParsed
  Canon <- MCCanon
  Network <- MCNetwork
  Hosts <- MCHosts
  Gateway <- GatewayOne
  TenantOf <- MCTenantOf
  Creates <- ConcurrentCreates
  Bulks = {}
  AllocSubnets = {}
  Updates <- ConcurrentUpdates
  Requests <- ConcurrentRequests
  MaxRows = 2
  MaxClock = 1
  MaxApprovals = 1
INVARIANT ReferencesResolve
INVARIANT ApprovalsResolve
PROPERTY UpdateKeepsOtherColumns
PROPERTY DeletedStaysDeleted
PROPERTY ApprovalKeepsOtherColumns
SYMMETRY Alike
