SPECIFICATION Spec
CONSTANTS
  Events = {"restart_wan", "stop_vpn_client"}
  Stoppers = {}
  Posters = {p1, p2}
  Limit = 4
  Dots = 2
PROPERTY IncompleteKeptForNewRequest
CHECK_DEADLOCK FALSE
