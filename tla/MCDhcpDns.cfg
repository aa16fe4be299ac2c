\* The small exchange on a little-endian target with a DNS server configured.
CONSTANTS
  Macs = {m1, m2}
  NoMac = NoMac
  NumLeases <- MCNumLeases
  StartIp <- MCStartIp
  InUse = {}
  OFFERTIME = 1
  DECLINETIME = 1
  MINLEASETIME = 2
  LEASETIME = 3
  MAXLEASETIME = 4
  ServerIp <- MCServerIp
  LittleEndian = TRUE
  Netmask <- MCNetmask
  GwAddr <- MCGwAddr
  DnsAddrs <- MCDnsAddrs
  Traffic <- MCTrafficSmall
  SendOutcomes = {TRUE}
  Errnos = {}
  MaxTime = 4
SPECIFICATION Spec
INVARIANT
  ReplyCarriesConfig
