SPECIFICATION FairSpec
CONSTANTS
  ProtoSets = {{"dhcp", "static", "ppp"}}
  Requests = {"restart_wan", "flash_firmware"}
  LostRequests = {"auto_wan_reconnect_pause"}
  Timings = {TRUE}
INVARIANT StoppedIsWatched
PROPERTIES WanComesBack PauseEnds
CHECK_DEADLOCK FALSE
