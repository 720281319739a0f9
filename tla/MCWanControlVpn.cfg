SPECIFICATION Spec
CONSTANTS
  ProtoSets = {{"dhcp"}}
  Requests = {"restart_wan"}
  LostRequests = {}
  Timings = {TRUE}
INVARIANT VpnFollowsWan
CHECK_DEADLOCK FALSE
