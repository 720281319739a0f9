SPECIFICATION Spec
CONSTANTS
  ProtoSets = {{"dhcp", "static", "ppp"}, {"static"}}
  Requests = {"auto_wan_reconnect_pause", "manual_wan_disconnect", "flash_firmware"}
  LostRequests = {"auto_wan_reconnect_pause"}
  Timings = {TRUE, FALSE}
INVARIANTS
  TypeOK DeferredOnlyWhenStopped L2tpServerRestored
  StoppedIsDown UpIsConfigured 
PROPERTIES OneClient ImplementsLink
CHECK_DEADLOCK FALSE
