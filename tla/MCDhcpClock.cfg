\* recv() failures, interrupted and fatal, among well-formed traffic.
CONSTANTS
  Macs = {m1, m2}
  NoMac = NoMac
  NumLeases <- MCNumLeases
  StartIp <- MCStartIp
  InUse = {}
  OFFERTIME = 1
  DECLINETIME = 1
  MINLEASETIME = 2
  LEASETIME = 3
  MAXLEASETIME = 4
  ServerIp <- MCServerIp
  LittleEndian = TRUE
  Netmask <- MCNetmask
  GwAddr <- MCGwAddr
  DnsAddrs <- MCDnsAddrs
  Traffic <- MCTrafficSmall
  SendOutcomes = {TRUE}
  Errnos = {}
  MaxTime = 4
SPECIFICATION SpecClock
INVARIANTS
  NoDoubleGrant
VIEW WellFormedView
