SPECIFICATION SpecApprovals
CONSTANTS
  Session = {s1, s2}
  Cleaner = {}
  Null = Null
  s1 = s1
  s2 = s2
  t1 = t1
  t2 = t2
  v1 = v1
  n1 = n1
  n2 = n2
  o1 = o1
  keepalived = keepalived
  Tenant = {t1, t2}
  Vrf = {v1}
  Subnet = {n1, n2}
  Owner = {o1}
  VipType = {keepalived}
  Status = {"available", "allocated", "reserved", "unused"}
  Text <- MCText
  Parsed <- MCParsed
  Canon <- MCCanon
  Network <- MCNetwork
  Hosts <- MCHosts
  Gateway <- GatewayNull
  TenantOf <- MCTenantOf
  Creates <- OneCreate
  Bulks = {}
  AllocSubnets = {}
  Updates <- DecisionUpdates
  Requests <- ConcurrentRequests
  MaxRows = 1
  MaxClock = 0
  MaxApprovals = 2
PROPERTY DecidedOnce
