---------------------------- MODULE DhcpBuilder ----------------------------
(***************************************************************************)
(* The outgoing message of the DHCP server (netutils/dhcpd/dhcpd.c):      *)
(* g_state.ds_outpacket and the ds_optend cursor, filled by               *)
(* dhcpd_initpacket and the dhcpd_addoption* helpers and handed to         *)
(* dhcpd_sendpacket by dhcpd_sendoffer, dhcpd_sendack and dhcpd_sendnak.   *)
(*                                                                         *)
(* A packet is a record of the header fields the server writes and the    *)
(* bytes of its options array up to and including the END byte that       *)
(* ds_optend points at.  A 32-bit word is kept as the four bytes it has in *)
(* memory, so htonl and the memcpy of a word into an option are modelled   *)
(* by what they do to those bytes on a host of either byte order.          *)
(***************************************************************************)
EXTENDS Integers, Sequences

CONSTANTS
  LittleEndian,   \* the byte order of the target (TRUE on the ARM boards)
  ServerIp,       \* ntohl(g_state.ds_serverip), host order
  Netmask,        \* the configured netmask, a dotted quad
  GwAddr,         \* the configured gateway, a dotted quad
  DnsAddrs        \* the configured DNS servers, dotted quads; <<>>: empty string

ASSUME LittleEndian \in BOOLEAN
Quad == [1 .. 4 -> 0 .. 255]
ASSUME Netmask \in Quad /\ GwAddr \in Quad
ASSUME DnsAddrs \in Seq(Quad \cup {<<>>})

DHCPDISCOVER == 1
DHCPOFFER    == 2
DHCPREQUEST  == 3
DHCPDECLINE  == 4
DHCPACK      == 5
DHCPNAK      == 6
DHCPRELEASE  == 7

DHCPD_OPTIONS_SIZE     == 312
DHCPD_HEADER_SIZE      == 236    \* op .. file of struct dhcpmsg_s
DHCP_REPLY             == 2
DHCP_OPTION_SUBNET_MASK == 1
DHCP_OPTION_ROUTER     == 3
DHCP_OPTION_DNS_SERVER == 6
DHCP_OPTION_LEASE_TIME == 51
DHCP_OPTION_MSG_TYPE   == 53
DHCP_OPTION_SERVER_ID  == 54
DHCP_OPTION_END        == 255
OUT_MAGIC_COOKIE       == <<99, 130, 83, 99>>
ANY_ADDR               == <<0, 0, 0, 0>>
Broadcast              == -1     \* INADDR_BROADCAST as a signed 32-bit value

\* The bytes of a value in network order, most significant first.
NetBytes(v) == <<(v \div 16777216) % 256, (v \div 65536) % 256,
                 (v \div 256) % 256, v % 256>>

\* The value of four bytes in network order, read as a signed 32-bit value.
FromNet(b) == (IF b[1] >= 128 THEN b[1] - 256 ELSE b[1]) * 16777216
              + b[2] * 65536 + b[3] * 256 + b[4]

\* The four bytes of a word in the opposite order.
ByteSwap(w) == <<w[4], w[3], w[2], w[1]>>

\* The memory of a uint32_t/in_addr_t variable that holds v.
HostWord(v) == IF LittleEndian THEN ByteSwap(NetBytes(v)) ELSE NetBytes(v)

\* htonl/ntohl on the memory of a word: a byte swap on a little-endian host.
htonl(w) == IF LittleEndian THEN ByteSwap(w) ELSE w

\* inet_addr: a dotted quad parsed into its bytes, network order whatever
\* the host.
inet_addr(q) == <<q[1], q[2], q[3], q[4]>>

\* dhcpd_start: an empty DNS entry is INADDR_ANY, any other goes through
\* inet_addr.
ConfigDns == [i \in DOMAIN DnsAddrs |->
                IF DnsAddrs[i] = <<>> THEN ANY_ADDR ELSE inet_addr(DnsAddrs[i])]

-----------------------------------------------------------------------------
(* dhcpd_addoption: len = option[1] + 2, and the fit test uses             *)
(* offset = options - optend, which is minus the bytes already used.  When *)
(* the test passes the option overwrites the END byte and a new END is     *)
(* written after it.                                                       *)
dhcpd_addoption(p, option) ==
  LET used   == Len(p.options) - 1
      offset == 0 - used
      len    == option[2] + 2
  IN IF offset + len + 1 < DHCPD_OPTIONS_SIZE
       THEN [p EXCEPT !.options = SubSeq(p.options, 1, used)
                                    \o SubSeq(option, 1, len) \o <<DHCP_OPTION_END>>]
       ELSE p

\* dhcpd_addoption8: code, length 1, the value byte.
dhcpd_addoption8(p, code, value) == dhcpd_addoption(p, <<code, 1, value>>)

\* dhcpd_addoption32 and dhcp_addoption32p: code, length 4, and the four
\* bytes of the word as they lie in memory.
dhcpd_addoption32(p, code, w) == dhcpd_addoption(p, <<code, 4>> \o w)

\* The DNS loop of dhcpd_sendoffer/dhcpd_sendack: one option per entry that
\* is not INADDR_ANY, of the words in dnsaddr.
RECURSIVE AddDns(_, _)
AddDns(p, dnsaddr) ==
  IF dnsaddr = <<>> THEN p
  ELSE AddDns(IF Head(dnsaddr) = ANY_ADDR THEN p
              ELSE dhcpd_addoption32(p, DHCP_OPTION_DNS_SERVER, Head(dnsaddr)),
              Tail(dnsaddr))

\* dhcpd_initpacket: after the memset the packet is a reply to chaddr; the
\* flags are copied only when giaddr is non-zero, and giaddr was just
\* cleared; the options are the magic cookie, END, the message type and the
\* server identifier (g_state.ds_serverip, already in network order).
dhcpd_initpacket(mtype, pkt) ==
  LET giaddr == ANY_ADDR
      p0 == [op |-> DHCP_REPLY, chaddr |-> pkt.mac,
             bcast |-> IF giaddr # ANY_ADDR THEN pkt.bcast ELSE FALSE,
             ciaddr |-> ANY_ADDR, yiaddr |-> ANY_ADDR,
             options |-> OUT_MAGIC_COOKIE \o <<DHCP_OPTION_END>>]
      p1 == dhcpd_addoption8(p0, DHCP_OPTION_MSG_TYPE, mtype)
  IN dhcpd_addoption32(p1, DHCP_OPTION_SERVER_ID, NetBytes(ServerIp))

\* The options every OFFER and ACK adds after its lease time: netmask and
\* gateway, already in network order, then the DNS servers.
AddConfig(p, dnsaddr) ==
  AddDns(dhcpd_addoption32(
           dhcpd_addoption32(p, DHCP_OPTION_SUBNET_MASK, inet_addr(Netmask)),
           DHCP_OPTION_ROUTER, inet_addr(GwAddr)),
         dnsaddr)

\* dhcpd_sendoffer: yiaddr = htonl(ipaddr), the lease time as
\* htonl(leasetime), and dnsaddr[i] = htonl(dns_addr[i]).
dhcpd_sendoffer(pkt, ipaddr, leasetime) ==
  LET p == [dhcpd_initpacket(DHCPOFFER, pkt) EXCEPT !.yiaddr = htonl(HostWord(ipaddr))]
  IN AddConfig(dhcpd_addoption32(p, DHCP_OPTION_LEASE_TIME,
                                 htonl(HostWord(leasetime))),
               [i \in DOMAIN ConfigDns |-> htonl(ConfigDns[i])])

\* dhcpd_sendnak: the client's ciaddr is copied in.
dhcpd_sendnak(pkt) ==
  [dhcpd_initpacket(DHCPNAK, pkt) EXCEPT !.ciaddr = NetBytes(pkt.ciaddr)]

\* Variant: the lease time written without htonl.
AckPacketNoHtonl(pkt, ipaddr, leasetime) ==
  LET p == [dhcpd_initpacket(DHCPACK, pkt) EXCEPT !.ciaddr = NetBytes(pkt.ciaddr),
                                            !.yiaddr = htonl(HostWord(ipaddr))]
  IN AddConfig(dhcpd_addoption32(p, DHCP_OPTION_LEASE_TIME, HostWord(leasetime)),
               ConfigDns)

\* The packet dhcpd_sendack builds: ciaddr copied, yiaddr = htonl(ipaddr),
\* the lease time as htonl(leasetime), and dnsaddr[i] = dns_addr[i].
AckPacket(pkt, ipaddr, leasetime) ==
  LET p == [dhcpd_initpacket(DHCPACK, pkt) EXCEPT !.ciaddr = NetBytes(pkt.ciaddr),
                                            !.yiaddr = htonl(HostWord(ipaddr))]
  IN AddConfig(dhcpd_addoption32(p, DHCP_OPTION_LEASE_TIME,
                                 htonl(HostWord(leasetime))),
               ConfigDns)

\* dhcpd_sendpacket: where the reply goes, and the length sent (the header
\* and the options up to and including END).
dhcpd_sendpacket(bbroadcast, p) ==
  [dest |-> CASE bbroadcast           -> Broadcast
              [] p.ciaddr # ANY_ADDR  -> FromNet(p.ciaddr)
              [] p.bcast              -> Broadcast
              [] OTHER                -> FromNet(p.yiaddr),
   len  |-> DHCPD_HEADER_SIZE + Len(p.options)]

-----------------------------------------------------------------------------
(* How a client reads a reply (RFC 2132): the options after the cookie,    *)
(* PAD skipped, up to END.  OptionValues is the data of every option with  *)
(* the given code, in order; OptionValue the first.                        *)
RECURSIVE ScanFrom(_, _, _)
ScanFrom(o, code, i) ==
  IF i > Len(o) \/ o[i] = DHCP_OPTION_END THEN <<>>
  ELSE IF o[i] = 0 THEN ScanFrom(o, code, i + 1)
  ELSE LET next == i + 2 + o[i + 1]
           rest == ScanFrom(o, code, next)
       IN IF o[i] = code THEN <<SubSeq(o, i + 2, next - 1)>> \o rest ELSE rest

OptionValues(p, code) == ScanFrom(p.options, code, Len(OUT_MAGIC_COOKIE) + 1)
OptionValue(p, code) ==
  IF OptionValues(p, code) = <<>> THEN <<>> ELSE Head(OptionValues(p, code))

\* The lease time a client reads from the reply.
ToldLeaseTime(p) == FromNet(OptionValue(p, DHCP_OPTION_LEASE_TIME))
=============================================================================
