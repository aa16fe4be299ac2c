# TLA+ models of the ARTIK SDK DHCP server

The system under study is the DHCP server in
`src/src/modules/connectivity/network/linux/netutils/dhcpd.c`. The
repository also holds some Bluetooth and security wrappers and some test
programs. Of these, only the A2DP source endpoint in
`src/src/modules/bluetooth/linux/a2dp.c` keeps state of its own. It is
modelled in A2dpEndpoint (see the end of the Modules section). The rest
are listed at the end, under what is not modelled.

## The system

`dhcpd_start` zeroes the static `g_state`, allocates the lease table and
opens the listening socket. It then registers `loop_handler` with the
ARTIK event loop. From then on one thread calls `loop_handler` each time
the socket is reported. Each call runs to completion, and every call does
the same three things:

1. It calls `recv` into `g_state.ds_inpacket`.
2. It calls `dhcpd_parseoptions`, which fills `ds_optmsgtype`,
   `ds_optreqip`, `ds_optserverip` and `ds_optleasetime` from the
   datagram's options.
3. It switches on `ds_optmsgtype` to one of the handlers below. A handler
   updates the lease table and sends at most one reply through
   `dhcpd_initpacket`, `dhcpd_addoption*` and `dhcpd_sendpacket`.

| Part (spec.md name) | Code | State | Operations |
|---|---|---|---|
| Lease Table | `struct lease_s`, lines 166-173, 322-469, 612-664 | `ds_leases[num_leases]`: mac, allocated, expiry | leaseexpired (check and zero), setlease, findbymac, findbyipaddr, allocipaddr, verifyreqip, verifyreqleasetime |
| Protocol State Machine | `loop_handler`, `dhcpd_discover/request/decline/release`, lines 1077-1305, 1364-1426 | the lease table; `ds_inpacket` and `ds_opt*`, which persist between calls | one handler per message type |
| Option Codec | `dhcpd_parseoptions`, lines 475-606 | `ds_opt*` | TLV scan with the overload fields |
| Message Builder | `dhcpd_initpacket`, `dhcpd_addoption*`, `dhcpd_send{offer,ack,nak}` | `ds_outpacket`, `ds_optend` | init, append, send |
| Transport Adapter | `dhcpd_sendpacket`, `dhcpd_socket`, `dhcpd_openresponder`, `dhcpd_openlistener` | the socket fd | pick the destination, send |

The code has no threads and no locks, so the only concurrency is the order
in which datagrams arrive. What makes the server hard to get right is:

- state that outlives a call (`ds_inpacket` and `ds_opt*`);
- expiry, which is checked only lazily, when a lookup reaches a slot, and
  where checking a slot also zeroes it;
- the OFFERTIME reservation between OFFER and REQUEST;
- failure paths: recv errors, failed sends, malformed datagrams.

## Modules

- **DhcpLeases** is the lease table. The table is a function from slot
  to `[mac, allocated, expiry]`. Each C helper is an operator over a table
  value. A helper that also mutates the table (`dhcpd_leaseexpired`, the
  allocator, `dhcpd_verifyreqip`) returns both the answer and the new
  table, so a handler threads the table through its calls in the code's
  order.
- **DhcpServer** is the protocol state machine. One step is one whole
  `loop_handler` call.
  - Variables: `leases`, `now` (`dhcpd_time`), `inpacket` (`ds_inpacket`),
    `opts` (`ds_opt*`), `sockopen`, and `reply` (the reply built and
    whether its send succeeded).
  - History variables: `claims` holds what each client was told (offer or
    ack, address, until when). `step` holds the kind of the last step.
    A reply to a fresh datagram replaces the sender's claim when it is
    sent. A reply to a replayed datagram replaces it only if the reply
    to that datagram's first dispatch was never sent. If that reply was
    sent, the client took it and stopped waiting, so it ignores the
    duplicate. `ReplayView` therefore keeps `reply.sent`.
    `granted` is the server's side of the same story: what it last
    reserved for each client (an OFFER, or an ACK that went out) and until
    when. Only that client's RELEASE or DECLINE ends it, because after a
    NAK the server still holds the client's slot for its next DISCOVER.
    `declined` holds, for each address, when the penalty of the last
    DECLINE that reached its slot runs out. Both are read only against
    `now`. The runs whose clock only moves forward therefore use views
    (`ForwardView`, `NoRecvErrorView`, `ReplayView`) that identify all
    entries that have run out.
  - Actions:
    - `Receive`: a datagram from `Traffic`. recv writes only the bytes
      that arrived (`RecvInto`). A short datagram, a BOOTP header without
      cookie or options, replaces only the header and leaves the previous
      datagram's cookie and options in `ds_inpacket`.
    - `RecvError`: recv fails. The socket closes unless the errno is
      EINTR, and the handler re-dispatches the old `ds_inpacket`, as the
      code does.
    - `Tick`: the clock advances.
    - `ClockStep`: the wall clock is set to any time in `0..MaxTime`.
      `dhcpd_time` reads `CLOCK_REALTIME`, and reads 0 when
      `clock_gettime` fails. Expiries in the table are absolute, so they
      move with the clock. A client times its lease on its own timer,
      so its claim keeps its remaining time. This action is only in
      `SpecClock`, the specification the clock_step run checks. `Spec`
      is the server on a host whose clock only runs forward.
  - `dhcpd_parseoptions` is modelled by its effect. With a good cookie the
    datagram's options are stored. With a bad cookie the previous options
    are kept, because the function returns before its reset.
  - The handlers `dhcpd_discover`, `dhcpd_request`/`RequestDecision`,
    `dhcpd_decline` and `dhcpd_release` follow the code branch by branch,
    with the send helpers folded in:
    - `dhcpd_sendack` binds the lease only after a successful send;
    - the reply is the packet DhcpBuilder builds, and what a client reads
      from it (type, `yiaddr`, lease time, destination) is read from its
      bytes.
  - The replies depend only on constants and the datagram, so they are
    tabulated once (`OfferReplies`, `AckReplies`, `NakReplies`).
- **DhcpBuilder** is the Message Builder and the destination choice of
  the Transport Adapter. It models `ds_outpacket` and the `ds_optend`
  cursor.
  - A packet is the header fields the server writes plus the bytes of its
    options area, up to and including END.
  - A 32-bit word is kept as its four bytes in memory. So `htonl`, and
    the `memcpy` of a word into an option, are modelled by what they do
    on a little- or big-endian host (`LittleEndian`).
  - The configured addresses are dotted quads, and `inet_addr` gives
    their bytes in network order.
  - `dhcpd_addoption` keeps the capacity test as written, with
    `offset = options - optend`, which is minus the bytes used.
  - `dhcpd_initpacket`, `dhcpd_addoption8/32/32p`, `dhcpd_sendoffer`,
    the ACK packet of `dhcpd_sendack`, `dhcpd_sendnak` and
    `dhcpd_sendpacket` are one operator each.
  - `OptionValues` reads a packet the way a client does (RFC 2132). It
    is used only by the properties.
- **AddressAllocator** is the abstract specification of what the lease
  table promises. Each address has an owner: a client, `Free` or
  `Blocked`. A step is the act of one client, the actor. It may:
  - take an address that is free or its own, while it owns no other;
  - give up its own address, to Free or to Blocked;
  - block a free address.
  Only time returns an owned or blocked address to Free. DhcpServer
  refines it through `Alloc == INSTANCE AddressAllocator WITH ...`:
  - an allocated, unexpired slot is owned by its hardware address;
  - such a slot with the cleared address is `Blocked`. That is a
    declined slot, or the reservation of a sender whose `chaddr` is all
    zero, which no client of the allocator can take;
  - any other slot is `Free`;
  - the actor is the sender of the datagram in `ds_inpacket`;
  - the clock is `now`.
- **DhcpOptions** is `dhcpd_parseoptions` at byte level. One action is
  one pass of its do-while loop, one action per `switch` case.
  - Memory is the struct's `sname`, `file` and `options` fields laid out
    in that order, so a read past one field lands in the next, as in C. A
    read past the end of the struct yields a `JunkBytes` value.
  - Variables: `ptr`, `remaining`, `optlen`, `overloaded`, `currfield`
    and the four `ds_opt*` results (`opt`). `last` is a history variable
    that records the field and bytes read by the last option.
  - The actions are: the cookie check (`BadCookie`, `GoodCookie`), `Pad`,
    `Overload`, END (`EndToFile`, `EndToSname`, `EndReturn`), the four
    value options, and `Skip`, the default case.
  - A reference encoder and decoder (`Encode`, `Expected`) say what a
    well-formed datagram means: options first, then file, then sname,
    when the overload option names them.
- **MCDhcpOptions** instantiates DhcpOptions. Field sizes are sname 6,
  file 8 and options 18, which is room for the cookie and three options.
- **MCDhcpServer** is the instance that TLC checks.
  - Two clients and a pool of 4 addresses, 254..257, so the pool crosses
    a byte boundary. The allocator must skip 255 (low byte 255) and 256
    (low byte 0), which leaves 2 allocatable addresses for 2 clients: the
    pool can run out.
  - Durations keep the order of the defaults: OFFER = DECLINE (1) < MIN
    (2) < LEASE (3) < MAX (4). The clock runs 0..4, so offers, leases and
    declines all expire inside a behaviour.
  - Traffic holds DISCOVERs with and without a requested address and lease
    time, and the SELECTING, INIT-REBOOT and RENEWING forms of REQUEST,
    with matching and mismatching values. It also holds DECLINE, RELEASE
    and INFORM.
  - The VIEWs leave out variables that no later step reads, such as the
    last reply and, when recv never fails, the last datagram.
    The refinement reads the datagram only for the actor, and only after
    a step (`actor'`), where the step itself sets it. A tick leaves it as
    it was, so merging states that differ only in the last datagram
    loses no step of the check.

- **A2dpEndpoint** is the A2DP source endpoint of `a2dp.c`, with the
  part of BlueZ it talks to as an environment.
  - Variables: `endpoint` (`_endpoint`: NULL, or its codec, transport
    path and whether callbacks are set), `exported` (the
    MediaEndpoint1 object is on the connection), `regid` (whether
    `registration_id` names that object), `bluez` (BlueZ's copy of the
    endpoint, its transport and the transport's state, and a pending
    SelectConfiguration), `queue` (BlueZ's calls to the object that are
    waiting in the main loop), `a2dppath` (the transport path
    `a2dp_path` that get_state caches), and `ub`, a history of the
    undefined behaviour performed.
  - Application actions, one per API call, each a whole synchronous
    call: `Register` (with `bt_a2dp_source_create`), `Unregister` (with
    destroy), `Acquire`, `Release`, `GetProperties`, `SetCallback` and
    `GetState`. `GetState` fills `a2dppath` from BlueZ's transport on
    its first success (`TransportFound`, `CachedPath`) and keeps it
    after that. Its errors are checked, so it adds no undefined
    behaviour. No run states what it must report, because nothing says
    what get_state answers once the transport changes. D-Bus refusals are `BusOutcomes`, and malloc failure is
    `MallocOutcomes`.
  - BlueZ actions: `Connect` sends SelectConfiguration. `Disconnect`
    removes the transport and sends ClearConfiguration. `Stream` marks
    the transport pending. `SelectTimeout` gives up on an unanswered
    select. `Forget` stands for bluetoothd restarting or the adapter
    going away: BlueZ drops the endpoint and sends ClearConfiguration and
    Release.
  - `Dispatch` is `handle_method_call` on the first queued call. It
    fails at BlueZ when the object is not exported. Every handler but
    Release reads `_endpoint`.
  - The application calls unregister, acquire, release and
    get_properties only while an endpoint exists. These functions
    dereference `_endpoint` without testing it, so this is their
    unwritten precondition.

## Runs

| Run | Cfg | Expect | Checks |
|---|---|---|---|
| core | MCDhcpServer.cfg | pass | TypeOK, NoDoubleGrant, OfferWindowExclusive, ExhaustionOnlyWhenHeld, AllocatorRefined, AckLeaseMatchesTable |
| replay | MCDhcpReplay.cfg | pass | NoDoubleGrant, OfferWindowExclusive, AllocatorRefined, with recv errors (EINTR, EIO) and failed sends |
| stale_options | MCDhcpStale.cfg | violation | NoDoubleGrant, with cookie-less and short datagrams |
| clock_step | MCDhcpClock.cfg | violation | NoDoubleGrant, under `SpecClock` with the small exchange |
| selecting | MCDhcpSelecting.cfg | violation | AckMatchesRequestedIp |
| broadcast | MCDhcpBroadcast.cfg | violation | BroadcastFlagHonoured |
| zero_mac | MCDhcpZeroMac.cfg | violation | DeclinePenaltyHonoured, with an all-zero chaddr |
| dns_order | MCDhcpDns.cfg | violation | ReplyCarriesConfig, little-endian, one DNS server configured |
| a2dp_endpoint | MCA2dp.cfg | violation | NoUndefinedBehaviour |
| options | MCDhcpOptions.cfg | pass | TypeOK, DecodesAsEncoded, ReadsInBounds, Terminates |
| options_overload | MCDhcpOptOverload.cfg | violation | DecodesAsEncoded, with overload into file and overload value 2 |
| options_bounds | MCDhcpOptBounds.cfg | violation | ReadsInBounds, with truncated options and a 2-byte address option |

The properties:

- **NoDoubleGrant**: no two clients ever hold a live ACK for the same
  address. Breaking it takes a binding, an expiry or rebinding, and a
  second client's exchange.
- **OfferWindowExclusive**: while an offer's reservation is open, no other
  client is offered or ACKed that address.
- **ExhaustionOnlyWhenHeld** (an action property): a DISCOVER goes
  unanswered only if every pool address is in use on the network, is a
  .0/.255 address, is still reserved for another client (by `granted`), or
  is serving a DECLINE penalty (by `declined`). The property is stated
  from the history, not from the table, so it catches a slot that stays
  allocated after its client released it. It also catches a scan that
  misses `endip`, or a lazy expiry that comes a second late.

- **AllocatorRefined**: every handler call and every tick is a step of
  AddressAllocator. No client is given an address that another client's
  unexpired lease or a DECLINE's penalty holds. No client gets a second
  address. A release or decline only touches the sender's own slot.
- **AckLeaseMatchesTable** (an action property): after an ACK goes
  out, the slot of the address the client reads from `yiaddr` is bound
  to that client until now plus the lease time it reads from option 51.
- **ReplyCarriesConfig**: every OFFER and ACK sent carries the server id,
  netmask, gateway and non-empty DNS servers, in network order, and the
  DNS servers in the configured order.
- **DeclinePenaltyHonoured** (an action property): no address whose
  DECLINE penalty still runs (by `declined`) is offered or ACKed.
- **DecodesAsEncoded**: when the scan ends, the four results are what
  the reference decoder reads from the datagram the encoder built.
- **ReadsInBounds**: no option reads a byte outside its own TLV or
  outside the field it is in.
- **Terminates**: every scan ends.

What the runs show:

- **core** passes. With well-formed traffic the lease discipline holds.
- **replay** passes. Replays after a recv error and failed sends do not
  break exclusivity.
- **stale_options** fails, and this is a real bug with two causes.
  - The cookie check returns before the options are reset.
  - `loop_handler` never looks at how many bytes recv returned, so a
    short datagram keeps the previous datagram's cookie and options.

  Either way, a datagram from client A that arrives after client B's
  RELEASE is handled as A's RELEASE. The address is then ACKed to B
  while A still holds its ACK. Each trace has 7 states. Restricting
  `Traffic` to `MCTrafficBadCookie`, or to the short datagrams alone,
  shows each cause on its own.
- **clock_step** fails, and this is a real bug. m1 is ACKed 254 for
  3 s. The wall clock is then set 3 s forward, as NTP does on a board
  that boots without a real-time clock. The table now sees m1's lease
  as expired, so m2 is offered and ACKed 254 while m1's lease has 3 s
  left. The trace has 6 states.
- **a2dp_endpoint** fails, and this is a real bug. The trace is:
  register, then a device connects (SelectConfiguration is queued),
  then bluetoothd forgets the endpoint, then register again. The
  second `RegisterEndpoint` succeeds. `g_dbus_connection_register_object`
  then fails, because the path is still exported, and line 338 stores
  0 in `registration_id`. `unregister` frees `_endpoint` and
  unregisters object 0, so the object stays exported. The queued
  SelectConfiguration then reaches `_handle_select_configuration`,
  which reads `_endpoint->select_callback` through NULL (line 68).
  The model also reaches the other kind of undefined behaviour. After
  a disconnect, `transport_path` names a removed transport.
  ClearConfiguration does not clear it, and a disconnect can also come
  before that call is dispatched. `acquire` then reads the NULL reply
  of its failed Get (line 400). TLC reports the shorter trace, the
  first one.
- **selecting** fails. Lines 1179-1182 test
  `optreqip != 0 || optreqip == ipaddr`, so a mismatching SELECTING
  REQUEST is ACKed with the held address instead of being NAKed.
- **broadcast** fails. `dhcpd_initpacket` tests `giaddr` right after the
  memset, so the broadcast flag is never echoed and the ACK is unicast to
  an address the client cannot yet use.
- **zero_mac** fails. `dhcpd_decline` clears the slot's hardware
  address but keeps it allocated, and `dhcpd_findbymac` (line 389)
  compares `chaddr` with it. A DISCOVER whose `chaddr` is all zero
  therefore finds the declined slot. It is offered that address one step
  after the DECLINE. The 4-state trace is: m1's DISCOVER (offered 254),
  m1's DECLINE (penalty on 254 until second 1), then at second 0 the
  zero-`chaddr` DISCOVER, offered 254.
- **dns_order** fails, and this is a real bug. `dhcpd_start` keeps
  each DNS server as `inet_addr` returned it, which is network order
  (line 1454). `dhcpd_sendack` copies it unchanged, but
  `dhcpd_sendoffer` passes it through `htonl` (line 962). On a
  little-endian board a configured 192.168.1.53 is offered as
  53.1.168.192 and then ACKed as 192.168.1.53. The first OFFER already
  shows it (2 states). On a big-endian host (`LittleEndian = FALSE`) the
  run would pass.
- **options** passes. All lists of up to three options that fit, including
  padded overload into both fields, decode as encoded. The scan always
  ends, and the results are reset when the cookie is good.
- **options_overload** fails, and it holds one input of each overload
  bug. Restricting `Inputs` to `MCOverloadFile` or `MCOverloadSname`
  shows each alone.
  - Overload into file: on END the code moves to `file` at
    `ptr = file + optlen`, with `optlen` still the END option's 1
    (line 601), so the first byte of `file` is skipped and the option
    there is misread.
  - Overload value 2: the END case only moves to `sname` from `file`
    (line 553), so an overload value of 2 (sname only) is never parsed.
- **options_bounds** fails, and it holds inputs of two bugs.
  Restricting `Inputs` to `MCTruncated` or `MCShortOption` shows each
  alone.
  - A code byte at the end of a field makes the code read `ptr[1]` past
    it, and at the end of `options` past the struct (line 595).
  - The test is `optlen >= 4` on `ptr[1] + 2`, which counts the code and
    length bytes. A length-2 option passes it, and four bytes are read
    (line 564).

Every property of a passing run has a mutant in PROJECT.json: a plausible
slip in a mapped helper that TLC catches. The slips are:

- an upper lease-time clip dropped;
- the allocator's lease check dropped;
- a requested address honoured without a table lookup;
- `< endip` instead of `<= endip` in the lookup or the scan;
- an expiry stored without the current time;
- the loop's `remaining -= optlen` written `+=`;
- the option reset dropped after a good cookie;
- a PAD advancing by 0;
- the ACK's lease time written without `htonl`;
- the message type read from the length byte.

**Fairness.** DhcpServer has no liveness property and assumes no
fairness. The code gives no progress guarantee to assume, because the
server only reacts to datagrams. DhcpOptions assumes weak fairness of
its `Next`: the parse is one call that runs to completion, without
blocking, so its loop keeps stepping until it returns. Its cfgs turn off
the deadlock check, because a returned parse really stops.

**Bounds.** Two clients are the fewest that can collide. Four slots give
one byte-boundary pair to skip and two addresses to compete for. The configuration has one DNS server and one empty entry, so the
skip of `INADDR_ANY` entries and the byte order both show. Clock
values 0..4 let every duration run out at least once, even the maximum
lease of a datagram taken at time 0. Lease time 9 in a datagram exercises
the upper clip, and the requested addresses include 255 and one outside
the pool.

For DhcpOptions, three fields of 6, 8 and 18 bytes hold every catalogue
option (PAD, overload, message type, requested address, server id, lease
time, and one unknown code) in lists of up to three. They also hold the
overload cases with PAD before END, and the truncated tails. Bytes past
the struct are 0 or 255, so a read past the end can look like PAD or END.

For A2dpEndpoint, one codec and two transport paths are enough: a
reconnect gets a new path while the old one can still be stored. A queue
of three calls holds the calls BlueZ makes when it forgets an endpoint
with a transport (ClearConfiguration, Release) plus one more. Malloc
always succeeds in the run, so traces do not stop at the first failed
allocation. The whole space is about 1,500 states, and TLC finds the
violation at depth 7.

## Plan

The order follows how much of the server's correctness each step covers.

1. Done: the lease table and protocol handler (DhcpLeases, DhcpServer),
   with the runs above.
2. Done: DhcpOptions, the byte-level scanner of `dhcpd_parseoptions`,
   checked against a reference decoder. One question is still open: the
   test `optlen < remaining` refuses an option that ends exactly at the
   end of the field.
3. Done: DhcpBuilder, composed into DhcpServer. The capacity test
   `offset + len + 1 < DHCPD_OPTIONS_SIZE` with a negative `offset`
   never refuses an option. An OFFER or ACK writes 31 bytes of options
   before the DNS entries, and 6 per entry. So the 312-byte area
   overflows only with 47 or more DNS servers. `MAX_DNS_ADDRESSES` is
   defined outside this repository, and no run configures that many.
4. Done: AddressAllocator and the refinement, checked in core and replay.
5. More runs on DhcpServer (done: the zero `chaddr`, short datagrams,
   and wall-clock steps between calls):
   - a clock step between the two reads inside `dhcpd_discover`;
   - that a closed socket ends service (liveness);
   - the server lifecycle, which needs descriptors and the heap in the
     model (see Not modelled).
6. Done: A2dpEndpoint, the lifecycle of the A2DP endpoint, including
   `bt_a2dp_source_get_state` and its cached `a2dp_path`.

## Not modelled

- **Socket creation, setsockopt, the ARP update and interface queries**:
  pure I/O.
- **Option bytes in DhcpServer**: the server abstracts a datagram to the
  fields the handlers read. DhcpOptions models the bytes on their own.
  The outgoing packet is modelled byte by byte in DhcpBuilder, except
  for `xid`, `htype`, `hlen`, `secs`, `siaddr`, `sname` and `file`,
  which the server copies or leaves zero and no property reads.
- **`dhcpd_stop`, a second `dhcpd_start`, and a failed start**: the
  model has one server, started once and successfully (Init). What
  can go wrong in these calls concerns descriptor numbers and heap
  memory, which the model does not represent:
  - `dhcpd_stop` closes `server->sockfd` again after a recv error has
    already closed it;
  - a second `dhcpd_start` zeroes the global `g_state` that the first
    server's watch still uses;
  - the three mallocs of `dhcpd_start` are not checked.

  PROJECT.json lists each of these as a hazard that no property covers.
- **32-bit wrap of addresses and times**: TLC integers are signed 32-bit,
  so `INADDR_BROADCAST` is written -1.
- **Bluetooth `device.c`**: its only state is `hci.state` (idle,
  pairing, connecting). `hci` and the device helpers are in `core.c`,
  which is not in this repository. So are the BlueZ signal handlers that
  end a pairing or a connection. Without them, the way `hci.state`
  leaves pairing and connecting cannot be taken from the code.
- **`avrcp.h` and security `artik_security.c`**: `avrcp.h` only declares
  functions. `artik_security.c` forwards calls to the OS library and
  keeps no state of its own.
- **In `a2dp.c`**: the contents of the callbacks' arguments, and
  transports of other endpoints. `_get_media_transport_path` would also
  find those.
- **The programs under `src/test/`**: they are tests, not part of the
  system.
