\* Clients without an address that ask for broadcast replies.
CONSTANTS
  Macs = {m1, m2}
  NoMac = NoMac
  NumLeases <- MCNumLeases
  StartIp <- MCStartIp
  InUse = {}
  OFFERTIME = 1
  DECLINETIME = 1
  MINLEASETIME = 2
  LEASETIME = 3
  MAXLEASETIME = 4
  ServerIp <- MCServerIp
  LittleEndian = TRUE
  Netmask <- MCNetmask
  GwAddr <- MCGwAddr
  DnsAddrs <- MCDnsAddrs
  Traffic <- MCTrafficBroadcast
  SendOutcomes = {TRUE}
  Errnos = {}
  MaxTime = 4
SPECIFICATION Spec
PROPERTIES
  BroadcastFlagHonoured
VIEW ForwardView
