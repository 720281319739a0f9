SPECIFICATION Spec
CONSTANTS
  Addrs = {"a1", "a2"}
  Masks = {"m24", "m16"}
  ClassB = "m16"
  Gateways = {"g1", "g2"}
  Lans = {"l1", "l2"}
  None = "none"
  Overlaps <- MCOverlaps
INVARIANTS TypeOK LeaseOnInterface RouteToRouter IptvRouteIfSpecified
