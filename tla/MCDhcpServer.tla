--------------------------- MODULE MCDhcpServer ---------------------------
(***************************************************************************)
(* Model-checking instance of DhcpServer.                                  *)
(*                                                                         *)
(* Pool: four slots from x.x.0.254 (254) to x.x.1.1 (257), so the pool     *)
(* crosses a byte boundary: 255 and 256 have low byte 255 and 0 and the    *)
(* allocator passes over them, while 254 and 257 (the last address) are    *)
(* handed out.  Two clients compete for them.  Durations keep the order of *)
(* the defaults (offer = decline < min < lease < max).                     *)
(***************************************************************************)
EXTENDS DhcpServer

MCNumLeases == 4
MCStartIp   == 254
MCOutOfPool == 300      \* a requested address outside the pool
MCServerIp  == 1
MCOtherIp   == 2        \* another DHCP server's identifier
MCNetmask   == <<255, 255, 255, 0>>
MCGwAddr    == <<192, 168, 1, 1>>
\* Two DNS entries, the second left empty in the configuration.
MCDnsAddrs  == <<<<192, 168, 1, 53>>, <<>>>>

\* A datagram of msgtype from mac; the header and options not given are 0.
Dgram(mac, type, reqip, sid, lt, ciaddr) ==
  [mac |-> mac, ciaddr |-> ciaddr, bcast |-> FALSE, cookie |-> TRUE,
   msgtype |-> type, reqip |-> reqip, serverid |-> sid, leasetime |-> lt,
   short |-> FALSE]

\* Well-formed traffic.  DISCOVER may ask for a lease time and for 255, an
\* address the allocator itself never hands out;
\* REQUEST comes in the SELECTING form (server id and requested address),
\* the INIT-REBOOT form (requested address only) and the RENEWING form
\* (ciaddr only), each also with values the lease does not match.
\* DECLINE, RELEASE and INFORM (8) carry nothing the server reads.
MCTraffic ==
  LET M == Macs IN
     {Dgram(m, DHCPDISCOVER, r, 0, lt, 0) : m \in M, r \in {0, 255}, lt \in {0, 9}}
  \cup {Dgram(m, DHCPREQUEST, r, s, 0, 0) :
          m \in M, r \in {254, 257, MCOutOfPool}, s \in {0, MCServerIp, MCOtherIp}}
  \cup {Dgram(m, DHCPREQUEST, r, MCServerIp, 9, 0) : m \in M, r \in {254, 257}}
  \cup {Dgram(m, DHCPREQUEST, 0, 0, 0, c) : m \in M, c \in {0, 254, 257}}
  \cup {Dgram(m, t, 0, 0, 0, 0) : m \in M, t \in {DHCPDECLINE, DHCPRELEASE, 8}}

\* The same traffic plus, from each client, a datagram without the magic
\* cookie (a BOOTP or corrupted packet) whose option bytes would say nothing.
MCTrafficBadCookie ==
  MCTraffic \cup {[Dgram(m, 0, 0, 0, 0, 0) EXCEPT !.cookie = FALSE] : m \in Macs}

\* The same traffic plus, from each client, a BOOTP header without the
\* cookie and options.  Restricting it to the datagrams without a cookie,
\* or to the short ones, shows each path on its own.
MCTrafficStale ==
  MCTrafficBadCookie
  \cup {[Dgram(m, 0, 0, 0, 0, 0) EXCEPT !.cookie = FALSE, !.short = TRUE] : m \in Macs}

\* A client without an address that asks for a broadcast reply, in the
\* DISCOVER and SELECTING REQUEST of its first exchange.
MCTrafficBroadcast ==
  {[Dgram(m, DHCPDISCOVER, 0, 0, 0, 0) EXCEPT !.bcast = TRUE] : m \in Macs}
  \cup {[Dgram(m, DHCPREQUEST, r, MCServerIp, 0, 0) EXCEPT !.bcast = TRUE] :
          m \in Macs, r \in {254, 257}}

\* A smaller well-formed exchange for the runs that keep the last datagram:
\* DISCOVER, the SELECTING REQUEST for either address, the RENEWING
\* REQUEST, DECLINE and RELEASE.
MCTrafficSmall ==
  {Dgram(m, DHCPDISCOVER, 0, 0, 0, 0) : m \in Macs}
  \cup {Dgram(m, DHCPREQUEST, r, MCServerIp, 0, 0) : m \in Macs, r \in {254, 257}}
  \cup {Dgram(m, DHCPREQUEST, 0, 0, 0, 254) : m \in Macs}
  \cup {Dgram(m, t, 0, 0, 0, 0) : m \in Macs, t \in {DHCPDECLINE, DHCPRELEASE}}

\* The small exchange plus a DISCOVER and an INIT-REBOOT REQUEST whose
\* chaddr is all zero, as a misconfigured or hostile client can send.
MCTrafficZeroMac ==
  MCTrafficSmall
  \cup {Dgram(NoMac, DHCPDISCOVER, 0, 0, 0, 0), Dgram(NoMac, DHCPREQUEST, 254, 0, 0, 0)}

\* When every datagram carries the cookie and recv never fails, nothing reads
\* inpacket, opts or reply: they only record the last step.  States that
\* differ only there have the same successors, so the runs of that traffic
\* identify them.
WellFormedView == <<leases, now, sockopen, claims, granted, declined>>

\* granted and declined are read only against now.  While the clock only
\* moves forward (Spec) a reservation or penalty that has run out stays
\* run out, so every such entry is one and the same.
OpenGranted == [m \in Macs |-> IF granted[m].until > now THEN granted[m]
                                ELSE [addr |-> 0, until |-> 0]]
OpenDeclined == [a \in Pool |-> IF declined[a] > now THEN declined[a] ELSE 0]

\* WellFormedView for the runs whose clock only moves forward.
ForwardView == <<leases, now, sockopen, claims, OpenGranted, OpenDeclined>>

\* Without recv errors only a short datagram reads inpacket, and only its
\* cookie and options; opts is still read when a datagram lacks the cookie.
NoRecvErrorView == <<leases, now, sockopen, claims, OpenGranted, OpenDeclined, opts,
                     inpacket.cookie, OptionsOf(inpacket)>>

\* With recv errors the last datagram is read again, and whether its reply
\* went out decides whether the client takes the reply to the replay; only
\* the record of the last step and the rest of the reply are left out.
ReplayView == <<leases, now, sockopen, claims, OpenGranted, OpenDeclined, opts, inpacket, reply.sent>>
=============================================================================
