SPECIFICATION Spec
CONSTANTS
  Session = {s1, s2}
  Cleaner = {c1}
  Null = Null
  t1 = t1
  t2 = t2
  v1 = v1
  n1 = n1
  n2 = n2
  o1 = o1
  keepalived = keepalived
  Tenant = {t1, t2}
  Vrf = {v1}
  Subnet = {n1, n2}
  Owner = {o1}
  VipType = {keepalived}
  Status = {"available", "allocated", "reserved", "unused"}
  Text <- MCText
  Parsed <- MCParsed
  Canon <- MCCanon
  Network <- MCNetwork
  Hosts <- MCHosts
  Gateway <- GatewayOne
  TenantOf <- MCTenantOf
  Creates <- ConcurrentCreates
  Bulks <- ConcurrentBulks
  AllocSubnets = {n1}
  Updates <- ConcurrentUpdates
  MaxRows = 2
  MaxClock = 0
PROPERTY AllocateTakesFreeHost
