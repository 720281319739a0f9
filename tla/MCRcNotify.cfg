SPECIFICATION Spec
CONSTANTS
  Events = {"restart_wan", "stop_vpn_client", "flash_firmware"}
  Stoppers = {"flash_firmware"}
  Posters = {p1, p2}
  Limit = 4
  Dots = 2
INVARIANTS TypeOK NoLostRequest StrandedOnlyByFullPass WaiterCovered
PROPERTY ImplementsBox
CHECK_DEADLOCK FALSE
