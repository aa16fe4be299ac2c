---------------------------- MODULE DhcpServer ----------------------------
(***************************************************************************)
(* The DHCP server's datagram handler (netutils/dhcpd/dhcpd.c).            *)
(*                                                                         *)
(* One thread runs loop_handler whenever the event loop reports the        *)
(* listening socket; each call runs to completion, so a step of this spec *)
(* is one whole call: recv into g_state.ds_inpacket, dhcpd_parseoptions    *)
(* into the ds_opt* fields, and the handler of the message type, which     *)
(* updates the lease table and sends at most one reply.                    *)
(*                                                                         *)
(* Both buffers live in the static g_state and outlive a call: a failed    *)
(* recv leaves the previous datagram in ds_inpacket, and a datagram with a *)
(* bad magic cookie leaves the previous ds_opt* values in place.  The spec *)
(* keeps both as variables for that reason.                                *)
(*                                                                         *)
(* claims is a history variable for the clients' side: the address each   *)
(* client was last offered or acknowledged and until when, as the server   *)
(* told it.  A client drops its claim when it sends DISCOVER, DECLINE or   *)
(* RELEASE, or receives a NAK.  Two more history variables record the     *)
(* server's side: granted, the address the server last reserved for each   *)
(* client (an OFFER, or an ACK that went out) and until when, kept until   *)
(* that client releases or declines; and declined, for each address, when  *)
(* the penalty of the last DECLINE that reached its slot runs out.         *)
(***************************************************************************)
EXTENDS DhcpLeases, DhcpBuilder

CONSTANTS
  Traffic,        \* the datagrams clients send (a subset of Datagram)
  SendOutcomes,   \* TRUE: dhcpd_sendpacket succeeds
  Errnos,         \* errno values of a failing recv()
  MaxTime         \* last second the clock reaches

NoClaim   == [kind |-> "none", addr |-> 0, until |-> 0]
NoPacket  == [op |-> 0, chaddr |-> NoMac, bcast |-> FALSE, ciaddr |-> ANY_ADDR,
              yiaddr |-> ANY_ADDR, options |-> <<>>]
NoReply   == [type |-> 0, to |-> NoMac, yiaddr |-> 0, leasetime |-> 0,
              dest |-> 0, out |-> NoPacket, sent |-> FALSE]

\* A received datagram: the header fields the server reads (chaddr, ciaddr,
\* the broadcast flag), whether the options start with the magic cookie, and
\* the four options it understands (0: absent).  chaddr may be all zero.
\* short: the datagram ends before the magic cookie (a BOOTP header alone).
Datagram == [mac : Macs \cup {NoMac}, ciaddr : Nat, bcast : BOOLEAN, cookie : BOOLEAN,
             msgtype : Nat, reqip : Nat, serverid : Nat, leasetime : Nat,
             short : BOOLEAN]

ASSUME Traffic \subseteq Datagram

\* g_state.ds_opt*: the options dhcpd_parseoptions stored.
OptionsOf(pkt) == [msgtype |-> pkt.msgtype, reqip |-> pkt.reqip,
                   serverid |-> pkt.serverid, leasetime |-> pkt.leasetime]
ZeroOptions == [msgtype |-> 0, reqip |-> 0, serverid |-> 0, leasetime |-> 0]

\* memset(&g_state, 0, ...) in dhcpd_start: an all-zero ds_inpacket.
ZeroPacket == [mac |-> NoMac, ciaddr |-> 0, bcast |-> FALSE, cookie |-> FALSE,
               msgtype |-> 0, reqip |-> 0, serverid |-> 0, leasetime |-> 0,
               short |-> FALSE]

\* recv into g_state.ds_inpacket writes only the bytes that arrived and
\* nbytes is never looked at: a short datagram replaces the header and
\* leaves the cookie and options of the datagram before it.
RecvInto(pkt, buf) ==
  IF pkt.short THEN [buf EXCEPT !.mac = pkt.mac, !.ciaddr = pkt.ciaddr, !.bcast = pkt.bcast]
  ELSE pkt

MaxExpiry == MaxTime + MAXLEASETIME

VARIABLES
  leases,     \* g_state.ds_leases
  now,        \* dhcpd_time()
  inpacket,   \* g_state.ds_inpacket
  opts,       \* g_state.ds_optmsgtype, ds_optreqip, ds_optserverip, ds_optleasetime
  sockopen,   \* server->sockfd is still open
  reply,      \* the reply the last handled datagram produced (NoReply: none)
  claims,     \* history: what each client holds, as the server told it
  granted,    \* history: what the server reserved for each client
  declined,   \* history: end of the DECLINE penalty of each address
  step        \* history: the kind of the last step

vars == <<leases, now, inpacket, opts, sockopen, reply, claims, granted, declined, step>>

-----------------------------------------------------------------------------
(* dhcpd_parseoptions, at the level of this spec: a bad magic cookie       *)
(* returns before the ds_opt* fields are reset, so they keep the previous  *)
(* datagram's values; otherwise they hold this datagram's options.  The    *)
(* byte-level scan is the subject of DhcpOptions.                          *)
dhcpd_parseoptions(pkt, prev) ==
  IF pkt.cookie THEN OptionsOf(pkt) ELSE prev

\* A reply built by one of dhcpd_sendoffer/sendack/sendnak and handed to
\* dhcpd_sendpacket; sent is the outcome of dhcpd_openresponder and sendto.
\* The type, address and lease time are what the client reads from the
\* packet's bytes.
Reply(pkt, out, bbroadcast, sent) ==
  LET lt == OptionValue(out, DHCP_OPTION_LEASE_TIME) IN
  [type |-> OptionValue(out, DHCP_OPTION_MSG_TYPE)[1], to |-> pkt.mac,
   yiaddr |-> FromNet(out.yiaddr),
   leasetime |-> IF lt = <<>> THEN 0 ELSE FromNet(lt),
   dest |-> dhcpd_sendpacket(bbroadcast, out).dest, out |-> out, sent |-> sent]

\* The replies the three send helpers can build for the datagrams of the
\* model, tabulated once (they depend on constants only); Sent records the
\* outcome of dhcpd_sendpacket.
Whole   == {p \in Traffic : ~p.short} \cup {ZeroPacket}
Packets == Whole \cup {RecvInto(h, b) : h \in Traffic \ Whole, b \in Whole}
LeaseTimes == (0 .. MaxExpiry) \cup {p.leasetime : p \in Packets}
OfferReplies == [p \in Packets, ip \in Pool, lt \in LeaseTimes |->
                   Reply(p, dhcpd_sendoffer(p, ip, lt), TRUE, TRUE)]
AckReplies   == [p \in Packets, ip \in Pool, lt \in LeaseTimes |->
                   Reply(p, AckPacket(p, ip, lt), FALSE, TRUE)]
NakReplies   == [p \in Packets |-> Reply(p, dhcpd_sendnak(p), TRUE, TRUE)]
Sent(r, sent) == [r EXCEPT !.sent = sent]

\* A handler's result: the new table and the reply it built (NoReply: none).
Result(t, r) == [table |-> t, reply |-> r]

\* dhcpd_discover with dhcpd_sendoffer.  The address comes from the
\* client's own slot, else its requested address, else the allocator; it is
\* reserved for OFFERTIME before the OFFER is sent.
dhcpd_discover(t, pkt, o, sent) ==
  LET own   == dhcpd_findbymac(t, pkt.mac)
      ownex == dhcpd_leaseexpired(t, own, now)
      req   == dhcpd_verifyreqip(t, o.reqip, now)
      alloc == dhcpd_allocipaddr(t, now)
      pick  == IF own # NoSlot
                 THEN [ipaddr |-> dhcp_leaseipaddr(own), table |-> ownex.table,
                       lt |-> IF ownex.expired THEN LEASETIME
                              ELSE IF t[own].expiry - now < MINLEASETIME
                                   THEN MINLEASETIME
                                   ELSE t[own].expiry - now]
               ELSE IF req.ok
                 THEN [ipaddr |-> o.reqip, table |-> req.table, lt |-> LEASETIME]
               ELSE [ipaddr |-> alloc.ipaddr, table |-> alloc.table,
                     lt |-> LEASETIME]
      set   == dhcpd_setlease(pick.table, pkt.mac, pick.ipaddr, OFFERTIME, now)
      lt    == dhcpd_verifyreqleasetime(o.leasetime, pick.lt)
  IN IF pick.ipaddr = 0 \/ ~set.ok THEN Result(pick.table, NoReply)
     ELSE Result(set.table, Sent(OfferReplies[pkt, pick.ipaddr, lt], sent))

\* The ACK/NAK/silence decision of dhcpd_request, with the table as
\* dhcpd_findbyipaddr/dhcpd_leaseexpired leave it.
RequestDecision(t, pkt, o) ==
  LET own == dhcpd_findbymac(t, pkt.mac)
      ip  == IF own # NoSlot THEN dhcp_leaseipaddr(own) ELSE 0
      byip == dhcpd_findbyipaddr(t, o.reqip)
      ex  == dhcpd_leaseexpired(t, byip, now)
  IN IF own # NoSlot THEN
       [ipaddr |-> ip, table |-> t, response |->
         IF o.serverid # 0
           THEN IF o.serverid = ServerIp /\ (o.reqip # 0 \/ o.reqip = ip)
                  THEN DHCPACK ELSE DHCPNAK
         ELSE IF o.reqip # 0
           THEN IF ip = o.reqip THEN DHCPACK ELSE DHCPNAK
         ELSE IF pkt.ciaddr = ip THEN DHCPACK ELSE DHCPNAK]
     ELSE IF o.reqip # 0 /\ o.serverid = 0 THEN
       IF byip # NoSlot
         THEN [ipaddr |-> 0, table |-> ex.table,
               response |-> IF ex.expired THEN 0 ELSE DHCPNAK]
         ELSE [ipaddr |-> 0, table |-> t,
               response |-> IF o.reqip \notin Pool THEN DHCPNAK ELSE 0]
     ELSE [ipaddr |-> 0, table |-> t, response |-> 0]

\* dhcpd_sendack: the lease time is LEASETIME unless the client asked for
\* one; the lease is bound for it only after the ACK was sent.
dhcpd_sendack(t, pkt, o, ipaddr, sent) ==
  LET lt  == dhcpd_verifyreqleasetime(o.leasetime, LEASETIME)
      set == dhcpd_setlease(t, pkt.mac, ipaddr, lt, now)
  IN Result(IF sent THEN set.table ELSE t,
            Sent(AckReplies[pkt, ipaddr, lt], sent))

\* dhcpd_request: ACK, NAK or silence as RequestDecision says.
dhcpd_request(t, pkt, o, sent) ==
  LET d == RequestDecision(t, pkt, o) IN
  CASE d.response = DHCPACK -> dhcpd_sendack(d.table, pkt, o, d.ipaddr, sent)
    [] d.response = DHCPNAK ->
         Result(d.table, Sent(NakReplies[pkt], sent))
    [] OTHER -> Result(d.table, NoReply)

\* dhcpd_decline: unbind the client's slot but keep it allocated for
\* DECLINETIME.
dhcpd_decline(t, pkt) ==
  LET i == dhcpd_findbymac(t, pkt.mac) IN
  Result(IF i = NoSlot THEN t
         ELSE [t EXCEPT ![i].mac = NoMac, ![i].expiry = now + DECLINETIME],
         NoReply)

\* Mutant: forget the client but keep the slot reserved until its lease ends.
ReleaseKeepsSlot(t, pkt) ==
  LET i == dhcpd_findbymac(t, pkt.mac) IN
  Result(IF i = NoSlot THEN t ELSE [t EXCEPT ![i].mac = NoMac], NoReply)

\* dhcpd_release: zero the client's slot.
dhcpd_release(t, pkt) ==
  LET i == dhcpd_findbymac(t, pkt.mac) IN
  Result(IF i = NoSlot THEN t ELSE [t EXCEPT ![i] = ZeroLease], NoReply)

\* The switch of loop_handler on ds_optmsgtype; INFORM and unknown types
\* are logged only.  The hardware address is the datagram's, the options
\* are whatever dhcpd_parseoptions left.
Dispatch(pkt, o, sent) ==
  CASE o.msgtype = DHCPDISCOVER -> dhcpd_discover(leases, pkt, o, sent)
    [] o.msgtype = DHCPREQUEST  -> dhcpd_request(leases, pkt, o, sent)
    [] o.msgtype = DHCPDECLINE  -> dhcpd_decline(leases, pkt)
    [] o.msgtype = DHCPRELEASE  -> dhcpd_release(leases, pkt)
    [] OTHER                    -> Result(leases, NoReply)

-----------------------------------------------------------------------------
(* The clients' side.  A client that sends DISCOVER, DECLINE or RELEASE    *)
(* gives up what it held; an OFFER, ACK or NAK that reaches it replaces    *)
(* its claim.  A datagram without the magic cookie is not a DHCP message   *)
(* of its sender.  A reply to a replayed datagram answers the client only  *)
(* if the last reply to that datagram (reply, since every handled          *)
(* datagram sets it) did not go out: the client still waits for an answer  *)
(* to that transaction, and takes a duplicate of one it has as finished.   *)
ClaimsAfter(pkt, fresh, r) ==
  LET m == pkt.mac
      gaveUp == fresh /\ pkt.cookie /\ ~pkt.short
                /\ pkt.msgtype \in {DHCPDISCOVER, DHCPDECLINE, DHCPRELEASE}
      waiting == fresh \/ ~reply.sent
      c0 == IF gaveUp THEN [claims EXCEPT ![m] = NoClaim] ELSE claims
  IN IF ~waiting \/ ~r.sent THEN c0
     ELSE [c0 EXCEPT ![m] =
            CASE r.type = DHCPOFFER ->
                   [kind |-> "offer", addr |-> r.yiaddr, until |-> now + OFFERTIME]
              [] r.type = DHCPACK ->
                   [kind |-> "ack", addr |-> r.yiaddr, until |-> now + r.leasetime]
              [] OTHER -> NoClaim]

\* The penalty record after a datagram dispatched on options o: a DECLINE
\* that dhcpd_decline applies to a slot starts that address's penalty.
DeclinedAfter(buf, o) ==
  LET i == dhcpd_findbymac(leases, buf.mac) IN
  IF o.msgtype = DHCPDECLINE /\ i # NoSlot
    THEN [declined EXCEPT ![dhcp_leaseipaddr(i)] = now + DECLINETIME]
    ELSE declined

\* The reservation record after the server acted on buf with options o and
\* built reply r: an OFFER reserves for OFFERTIME whether or not it went
\* out, an ACK binds for its lease time once sent, and the sender's RELEASE
\* or DECLINE ends what it had.
GrantedAfter(buf, o, r) ==
  LET m == buf.mac IN
  CASE m \notin Macs -> granted
    [] r.type = DHCPOFFER ->
         [granted EXCEPT ![m] = [addr |-> r.yiaddr, until |-> now + OFFERTIME]]
    [] r.type = DHCPACK /\ r.sent ->
         [granted EXCEPT ![m] = [addr |-> r.yiaddr, until |-> now + r.leasetime]]
    [] o.msgtype \in {DHCPRELEASE, DHCPDECLINE} ->
         [granted EXCEPT ![m] = [addr |-> 0, until |-> 0]]
    [] OTHER -> granted

\* One whole loop_handler call on what ds_inpacket holds, buf; pkt is what
\* its sender sent, fresh whether it was just sent.
Handle(buf, pkt, fresh, sent) ==
  LET o   == dhcpd_parseoptions(buf, opts)
      res == Dispatch(buf, o, sent)
  IN /\ opts'   = o
     /\ declined' = DeclinedAfter(buf, o)
     /\ granted' = GrantedAfter(buf, o, res.reply)
     /\ leases' = res.table
     /\ reply'  = res.reply
     /\ claims' = IF pkt.mac \in Macs THEN ClaimsAfter(pkt, fresh, res.reply)
                  ELSE claims

-----------------------------------------------------------------------------
Init ==
  /\ leases   = [i \in Slots |-> ZeroLease]
  /\ now      = 0
  /\ inpacket = ZeroPacket
  /\ opts     = ZeroOptions
  /\ sockopen = TRUE
  /\ reply    = NoReply
  /\ claims   = [m \in Macs |-> NoClaim]
  /\ granted  = [m \in Macs |-> [addr |-> 0, until |-> 0]]
  /\ declined = [a \in Pool |-> 0]
  /\ step     = "init"

\* loop_handler: recv() returns a datagram.
Receive ==
  /\ sockopen
  /\ \E pkt \in Traffic, sent \in SendOutcomes :
       /\ inpacket' = RecvInto(pkt, inpacket)
       /\ Handle(RecvInto(pkt, inpacket), pkt, TRUE, sent)
  /\ step' = "recv"
  /\ UNCHANGED <<now, sockopen>>

\* loop_handler: recv() fails.  Any errno but EINTR closes the socket; the
\* handler then goes on to parse and dispatch what ds_inpacket still holds.
\* On a closed descriptor the event loop keeps invoking the handler.
RecvError ==
  /\ \E e \in Errnos, sent \in SendOutcomes :
       /\ sockopen' = (sockopen /\ e = "EINTR")
       /\ Handle(inpacket, inpacket, FALSE, sent)
  /\ step' = "recv_error"
  /\ UNCHANGED <<now, inpacket>>

\* The clock advances one second.
Tick ==
  /\ now < MaxTime
  /\ now' = now + 1
  /\ step' = "tick"
  /\ UNCHANGED <<leases, inpacket, opts, sockopen, reply, claims, granted, declined>>

Next == Receive \/ RecvError \/ Tick

Spec == Init /\ [][Next]_vars

\* dhcpd_time reads CLOCK_REALTIME, which an administrator or an NTP client
\* may set to any time.  Every expiry in the table is an absolute time of
\* that clock, so it moves with the clock; a client counts its lease on its
\* own timer, so what it was told keeps its remaining time.
ClockStep ==
  /\ \E t \in (0 .. MaxTime) \ {now} :
       /\ now' = t
       /\ claims' = [m \in Macs |->
                      IF claims[m].kind = "none" THEN claims[m]
                      ELSE [claims[m] EXCEPT !.until = @ + t - now]]
  /\ step' = "clock_step"
  /\ UNCHANGED <<leases, inpacket, opts, sockopen, reply, granted, declined>>

\* The server on a host whose wall clock can be set.
SpecClock == Init /\ [][Next \/ ClockStep]_vars

-----------------------------------------------------------------------------
TypeOK ==
  /\ leases \in [Slots -> Lease(MaxExpiry)]
  /\ now \in 0 .. MaxTime
  /\ inpacket \in Packets
  /\ opts \in {OptionsOf(p) : p \in Packets}
  /\ sockopen \in BOOLEAN
  /\ reply \in {NoReply} \cup
       [type : {DHCPOFFER, DHCPACK, DHCPNAK}, to : Macs \cup {NoMac}, yiaddr : Pool \cup {0},
        leasetime : 0 .. MAXLEASETIME, dest : {Broadcast} \cup {p.ciaddr : p \in Traffic} \cup Pool,
        out : [op : {DHCP_REPLY}, chaddr : Macs \cup {NoMac}, bcast : BOOLEAN,
               ciaddr : Seq(0 .. 255), yiaddr : Seq(0 .. 255),
               options : Seq(0 .. 255)],
        sent : BOOLEAN]
  /\ claims \in [Macs -> {NoClaim} \cup
       [kind : {"offer", "ack"}, addr : Pool, until : 0 .. MaxExpiry]]
  /\ granted \in [Macs -> [addr : Pool \cup {0}, until : 0 .. MaxExpiry]]
  /\ declined \in [Pool -> 0 .. MaxExpiry]
  /\ step \in {"init", "recv", "recv_error", "tick", "clock_step"}

\* A claim the server's word still covers.
Live(m) == claims[m].kind # "none" /\ claims[m].until > now

(* No double lease.  Two clients never both hold a live ACK for the same   *)
(* address.  This is what the lease table, dhcpd_findbymac and the expiry *)
(* checks of dhcpd_verifyreqip/dhcpd_allocipaddr exist to guarantee; it   *)
(* takes a binding, an expiry or rebinding, and a second client's          *)
(* DISCOVER/REQUEST to break.                                              *)
NoDoubleGrant ==
  \A m1, m2 \in Macs :
    (m1 # m2 /\ Live(m1) /\ Live(m2)
       /\ claims[m1].kind = "ack" /\ claims[m2].kind = "ack")
      => claims[m1].addr # claims[m2].addr

(* Offer window.  While the OFFERTIME reservation of an offer is open, no  *)
(* other client is offered or acknowledged the same address (the reason    *)
(* dhcpd_discover reserves the address before sending the OFFER).          *)
OfferWindowExclusive ==
  \A m1, m2 \in Macs :
    (m1 # m2 /\ Live(m1) /\ Live(m2) /\ claims[m1].kind = "offer")
      => claims[m1].addr # claims[m2].addr

(* Every address comes back.  A DISCOVER is left unanswered only when each *)
(* address the allocator may hand out (not in use on the network, low byte *)
(* neither 0 nor 255) is still reserved for another client (an OFFER whose *)
(* window is open, or an ACK whose lease runs, not since released or       *)
(* declined by it), or is serving a DECLINE penalty.  Any other address    *)
(* must be reclaimable: by RELEASE, by the lazy expiry of                  *)
(* dhcpd_leaseexpired at the second the reservation ends, and by the      *)
(* allocator's scan reaching it.  A slot that stays allocated after its    *)
(* holder let go makes a client go without.                                *)
ExhaustionOnlyWhenHeld ==
  [][ (step' = "recv" /\ inpacket'.cookie /\ opts'.msgtype = DHCPDISCOVER
       /\ reply' = NoReply)
      => \A a \in Pool \ InUse :
           \/ a % 256 \in {0, 255}
           \/ declined[a] > now
           \/ \E m \in Macs \ {inpacket'.mac} :
                granted[m].addr = a /\ granted[m].until > now
    ]_vars

(* A REQUEST that names an address is acknowledged only for that address: *)
(* the SELECTING REQUEST (server id and requested address) of a client     *)
(* whose requested address differs from the one offered is NAKed.  This is *)
(* what the comment in dhcpd_request says ("ACK if the serverip is correct *)
(* and the requested IP address is the one already offered").             *)
AckMatchesRequestedIp ==
  [][ (step' = "recv" /\ inpacket'.msgtype = DHCPREQUEST /\ inpacket'.reqip # 0
       /\ reply'.type = DHCPACK)
      => reply'.yiaddr = inpacket'.reqip ]_vars

(* A client that has no address yet and sets the BOOTP broadcast flag      *)
(* cannot take a unicast reply: every reply to it goes to the broadcast    *)
(* address (the comment of dhcpd_sendpacket, case 3).                      *)
BroadcastFlagHonoured ==
  [][ (step' = "recv" /\ inpacket'.bcast /\ inpacket'.ciaddr = 0 /\ reply'.type # 0)
      => reply'.dest = Broadcast ]_vars

-----------------------------------------------------------------------------
(* Refinement mapping to AddressAllocator.  An address is owned by the     *)
(* client whose hardware address its slot holds while the slot is          *)
(* allocated and unexpired; such a slot with the cleared address is held   *)
(* back from every client, Blocked: a declined slot, or the reservation of *)
(* a sender whose chaddr is zero, which is no client of the allocator.  An expired slot counts as Free before           *)
(* dhcpd_leaseexpired zeroes it.  The actor is the sender of the datagram  *)
(* in ds_inpacket, the one the handler just acted on.                      *)
OwnerOf(a) ==
  LET l == leases[a - StartIp] IN
  IF l.allocated /\ l.expiry > now
    THEN IF l.mac = NoMac THEN "blocked" ELSE l.mac
    ELSE "free"

Alloc == INSTANCE AddressAllocator WITH
           Addrs <- Pool, Clients <- Macs, Free <- "free", Blocked <- "blocked",
           Nobody <- NoMac, owner <- [a \in Pool |-> OwnerOf(a)],
           actor <- inpacket.mac, clock <- now

(* The lease table keeps the allocator's promise.  Every loop_handler call *)
(* and every tick is a step of AddressAllocator: a client is only given an *)
(* address that is free or its own, never a second one, never one another  *)
(* client's unexpired lease or a DECLINE's penalty still holds; only the   *)
(* sender's own slot is released or declined.                              *)
AllocatorRefined == Alloc!Spec

(* The DECLINE penalty box.  An address a DECLINE put in the penalty box   *)
(* is not offered or acknowledged to anyone until the penalty runs out     *)
(* (spec: dhcpd_decline keeps the slot "so the same address is not         *)
(* immediately re-offered").  dhcpd_findbymac compares chaddr with the     *)
(* cleared slot's hardware address, so it is about what a zero chaddr      *)
(* reaches.                                                                *)
DeclinePenaltyHonoured ==
  [][ (step' = "recv" /\ reply'.type \in {DHCPOFFER, DHCPACK}
       /\ reply'.yiaddr \in Pool)
      => declined[reply'.yiaddr] <= now ]_vars

(* The lease a client is told is the lease the table keeps.  After an ACK  *)
(* goes out, the slot of the address the client reads from yiaddr is bound *)
(* to that client until now plus the lease time the client reads from the *)
(* ACK's option 51.  dhcpd_sendack computes the lease time once, writes it *)
(* into the packet through htonl and passes it to dhcpd_setlease after the *)
(* send; a conversion slip or a second computation breaks the agreement,   *)
(* and the client then renews too late or too early for the table.         *)
AckLeaseMatchesTable ==
  [][ (step' # "tick" /\ reply'.sent /\ reply'.type = DHCPACK)
      => LET a == reply'.yiaddr IN
         /\ a \in Pool
         /\ leases'[a - StartIp].mac = reply'.to
         /\ leases'[a - StartIp].expiry = now + reply'.leasetime ]_vars

(* Every OFFER and ACK tells the client the server's configuration as the  *)
(* operator gave it: the server identifier, the netmask, the gateway and   *)
(* the non-empty DNS servers, each in network byte order, the DNS servers  *)
(* in the configured order (RFC 2132; dhcpd_start keeps them as inet_addr  *)
(* left them).  dhcpd_sendoffer and dhcpd_sendack build this part of the   *)
(* packet separately.                                                      *)
ReplyCarriesConfig ==
  (reply.sent /\ reply.type \in {DHCPOFFER, DHCPACK})
    => /\ OptionValue(reply.out, DHCP_OPTION_SERVER_ID) = NetBytes(ServerIp)
       /\ OptionValue(reply.out, DHCP_OPTION_SUBNET_MASK) = inet_addr(Netmask)
       /\ OptionValue(reply.out, DHCP_OPTION_ROUTER) = inet_addr(GwAddr)
       /\ OptionValues(reply.out, DHCP_OPTION_DNS_SERVER)
            = SelectSeq(ConfigDns, LAMBDA w : w # ANY_ADDR)
=============================================================================
