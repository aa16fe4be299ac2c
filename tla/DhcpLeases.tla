---------------------------- MODULE DhcpLeases ----------------------------
(***************************************************************************)
(* The lease table of the DHCP server (netutils/dhcpd/dhcpd.c).            *)
(*                                                                         *)
(* g_state.ds_leases is an array of num_leases records; slot i stands for  *)
(* the address startip + i.  The helpers below are the C functions that   *)
(* read or write that array, written as operators over a table value t.    *)
(* A helper that both answers and mutates (dhcpd_leaseexpired, the         *)
(* allocator) returns a record holding the answer and the new table.       *)
(*                                                                         *)
(* Addresses are host-order integers; the low byte is a % 256.  Time is    *)
(* the integer second of dhcpd_time(), read once per handled datagram.     *)
(***************************************************************************)
EXTENDS Integers, FiniteSets

CONSTANTS
  Macs,           \* client hardware addresses (model values)
  NoMac,          \* the all-zero hardware address of a cleared slot
  NumLeases,      \* server->num_leases
  StartIp,        \* server->startip (host order)
  InUse,          \* addresses verify_ipv4addr_in_used() reports as taken
  OFFERTIME,      \* CONFIG_NETUTILS_DHCPD_OFFERTIME
  DECLINETIME,    \* CONFIG_NETUTILS_DHCPD_DECLINETIME
  MINLEASETIME,   \* CONFIG_NETUTILS_DHCPD_MINLEASETIME
  LEASETIME,      \* CONFIG_NETUTILS_DHCPD_LEASETIME
  MAXLEASETIME    \* CONFIG_NETUTILS_DHCPD_MAXLEASETIME

ASSUME NoMac \notin Macs
ASSUME NumLeases \in Nat \ {0} /\ StartIp \in Nat \ {0}
ASSUME 0 < OFFERTIME /\ 0 < DECLINETIME
ASSUME 0 < MINLEASETIME /\ MINLEASETIME <= LEASETIME /\ LEASETIME <= MAXLEASETIME

Slots  == 0 .. NumLeases - 1
NoSlot == -1

\* dhcpd_start: endip = startip + num_leases - 1
EndIp == StartIp + NumLeases - 1
Pool  == StartIp .. EndIp

\* struct lease_s, and the value memset(lease, 0, ...) leaves in it.
Lease(maxTime) == [mac : Macs \cup {NoMac}, allocated : BOOLEAN,
                   expiry : 0 .. maxTime]
ZeroLease == [mac |-> NoMac, allocated |-> FALSE, expiry |-> 0]

\* dhcp_leaseipaddr: the address a slot stands for.
dhcp_leaseipaddr(i) == StartIp + i

\* dhcpd_leaseexpired: true when expiry <= now, and then the slot is zeroed.
dhcpd_leaseexpired(t, i, now) ==
  IF t[i].expiry > now
    THEN [expired |-> FALSE, table |-> t]
    ELSE [expired |-> TRUE, table |-> [t EXCEPT ![i] = ZeroLease]]

\* Variant: the expiry stored without dhcpd_time() added.
SetLeaseNoClock(t, mac, ipaddr, duration, now) ==
  LET ndx == ipaddr - StartIp IN
  IF ndx \in Slots
    THEN [ok |-> TRUE, table |-> [t EXCEPT ![ndx] =
            [mac |-> mac, allocated |-> TRUE, expiry |-> duration]]]
    ELSE [ok |-> FALSE, table |-> t]

\* dhcpd_setlease: bind slot ipaddr - startip when it is in range; the
\* caller only learns whether the offset was in range.
dhcpd_setlease(t, mac, ipaddr, duration, now) ==
  LET ndx == ipaddr - StartIp IN
  IF ndx \in Slots
    THEN [ok |-> TRUE, table |-> [t EXCEPT ![ndx] =
            [mac |-> mac, allocated |-> TRUE, expiry |-> now + duration]]]
    ELSE [ok |-> FALSE, table |-> t]

\* dhcpd_findbymac: the first slot whose hardware address equals mac,
\* whatever its allocated flag and expiry.
dhcpd_findbymac(t, mac) ==
  LET hits == {i \in Slots : t[i].mac = mac} IN
  IF hits = {} THEN NoSlot
  ELSE CHOOSE i \in hits : \A j \in hits : i <= j

\* Variant: the range test written ipaddr < endip.
FindByIpaddrShortRange(t, ipaddr) ==
  IF ipaddr \in StartIp .. EndIp - 1 /\ t[ipaddr - StartIp].allocated
    THEN ipaddr - StartIp ELSE NoSlot

\* dhcpd_findbyipaddr: the slot of ipaddr when it is in the pool and allocated.
dhcpd_findbyipaddr(t, ipaddr) ==
  IF ipaddr \in Pool /\ t[ipaddr - StartIp].allocated
    THEN ipaddr - StartIp ELSE NoSlot

\* The two reasons dhcpd_allocipaddr passes over an address before it looks
\* at the table: the network says it is in use, or its low byte is 0 or 255.
Skipped(ipaddr) == ipaddr \in InUse \/ ipaddr % 256 \in {0, 255}

\* Variant: the scan's lease check dropped.
ReclaimableNoLease(t, ipaddr, now) == ~Skipped(ipaddr)

\* An address the allocator may hand out: not skipped, and its slot free or
\* expired.  Expired slots are zeroed by dhcpd_leaseexpired when reached.
Reclaimable(t, ipaddr, now) ==
  /\ ~Skipped(ipaddr)
  /\ \/ dhcpd_findbyipaddr(t, ipaddr) = NoSlot
     \/ t[ipaddr - StartIp].expiry <= now

\* Variant: the scan loop bound written ipaddr < endip.
AllocIpaddrShortScan(t, now) ==
  LET cands == {a \in StartIp .. EndIp - 1 : Reclaimable(t, a, now)} IN
  IF cands = {} THEN [ipaddr |-> 0, table |-> t]
  ELSE LET a == CHOOSE x \in cands : \A y \in cands : x <= y IN
       [ipaddr |-> a,
        table  |-> [t EXCEPT ![a - StartIp] =
                      [mac |-> NoMac, allocated |-> TRUE,
                       expiry |-> now + OFFERTIME]]]

\* dhcpd_allocipaddr: scan startip..endip upwards; the first reclaimable
\* address is reserved (cleared MAC, allocated, now + OFFERTIME) and
\* returned.  0 means no address.  Only the returned slot is ever written:
\* the scan stops at the first expired lease it zeroes.
dhcpd_allocipaddr(t, now) ==
  LET cands == {a \in Pool : Reclaimable(t, a, now)} IN
  IF cands = {} THEN [ipaddr |-> 0, table |-> t]
  ELSE LET a == CHOOSE x \in cands : \A y \in cands : x <= y IN
       [ipaddr |-> a,
        table  |-> [t EXCEPT ![a - StartIp] =
                      [mac |-> NoMac, allocated |-> TRUE,
                       expiry |-> now + OFFERTIME]]]

\* Variant: any requested address in range is honoured, taken or not.
VerifyReqIpNoLookup(t, reqip, now) ==
  [ok |-> reqip \in Pool, table |-> t]

\* dhcpd_verifyreqip: a requested address in the pool whose slot is free,
\* or expired (and then zeroed).
dhcpd_verifyreqip(t, reqip, now) ==
  IF reqip \in Pool
    THEN LET i == dhcpd_findbyipaddr(t, reqip) IN
         IF i = NoSlot THEN [ok |-> TRUE, table |-> t]
         ELSE LET e == dhcpd_leaseexpired(t, i, now) IN
              [ok |-> e.expired, table |-> e.table]
    ELSE [ok |-> FALSE, table |-> t]

\* Variant: the upper clip dropped.
VerifyReqLeaseTimeNoMax(req, dflt) ==
  IF req = 0 THEN dflt
  ELSE IF req < MINLEASETIME THEN MINLEASETIME
  ELSE req

\* dhcpd_verifyreqleasetime: a requested lease time (0 = none) clipped to
\* [MINLEASETIME, MAXLEASETIME]; otherwise the caller's default stands.
dhcpd_verifyreqleasetime(req, dflt) ==
  IF req = 0 THEN dflt
  ELSE IF req > MAXLEASETIME THEN MAXLEASETIME
  ELSE IF req < MINLEASETIME THEN MINLEASETIME
  ELSE req
=============================================================================
