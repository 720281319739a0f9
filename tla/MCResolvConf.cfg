SPECIFICATION FairSpec
CONSTANTS
  Scripts = {s1}
  Rc = rc
  Servers = {d1}
  Manual = manual
  Google = google
  None = none
INVARIANTS TypeOK  DnsmasqInformed
PROPERTIES RenamesOwnFile UpdatesEnd
