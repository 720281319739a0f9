SPECIFICATION Spec
CONSTANTS
  RasTypes = {0, 1}
  Usbnet = 3
INVARIANTS TypeOK ModemFollowsSettings FailoverSwitches
PROPERTIES ModulesFreeWhenChanged DisconnectStops
