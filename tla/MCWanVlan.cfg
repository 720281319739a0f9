SPECIFICATION Spec
CONSTANTS
  Vids = {1, 10, 20}
  Pvid = 1
INVARIANTS TypeOK NoVlanLeak NamedIfacesExist InetAndIptvAgree
CHECK_DEADLOCK FALSE
