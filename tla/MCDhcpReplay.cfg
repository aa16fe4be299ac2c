\* recv() failures and failed sends among a small well-formed exchange.
CONSTANTS
  Macs = {m1, m2}
  NoMac = NoMac
  NumLeases <- MCNumLeases
  StartIp <- MCStartIp
  InUse = {}
  OFFERTIME = 1
  DECLINETIME = 1
  MINLEASETIME = 2
  LEASETIME = 3
  MAXLEASETIME = 4
  ServerIp <- MCServerIp
  LittleEndian = TRUE
  Netmask <- MCNetmask
  GwAddr <- MCGwAddr
  DnsAddrs <- MCDnsAddrs
  Traffic <- MCTrafficSmall
  SendOutcomes = {TRUE, FALSE}
  Errnos = {"EINTR", "EIO"}
  MaxTime = 4
SPECIFICATION Spec
INVARIANTS
  NoDoubleGrant
  OfferWindowExclusive
PROPERTIES
  AllocatorRefined
VIEW ReplayView
