---------------------------- MODULE DhcpOptions ----------------------------
(***************************************************************************)
(* dhcpd_parseoptions (netutils/dhcpd/dhcpd.c), byte by byte.              *)
(*                                                                         *)
(* The scanner walks the options area of g_state.ds_inpacket and, when an  *)
(* overload option asks for it, the file and sname fields.  In struct      *)
(* dhcpmsg_s the three fields follow each other (sname, file, options), so *)
(* the spec keeps them as one byte sequence mem and ptr as an offset into *)
(* it; a read at or past the end of the struct returns a byte of whatever *)
(* follows ds_inpacket in g_state (one of JunkBytes).                      *)
(*                                                                         *)
(* One step is one pass of the do-while body: the case of the switch on   *)
(* ptr[0], then ptr += optlen; remaining -= optlen; and the loop test.    *)
(* last records which bytes the pass read, for the properties.             *)
(***************************************************************************)
EXTENDS Integers, Sequences, SequencesExt

CONSTANTS
  SnameSize,      \* sizeof(ds_inpacket.sname)   (64)
  FileSize,       \* sizeof(ds_inpacket.file)    (128)
  OptSize,        \* DHCPD_OPTIONS_SIZE          (312)
  Inputs,         \* the received datagrams
  PrevOptions,    \* ds_opt* as the previous datagram left them
  JunkBytes       \* bytes that follow ds_inpacket in memory

DHCP_OPTION_PAD        == 0
DHCP_OPTION_REQ_IPADDR == 50
DHCP_OPTION_LEASE_TIME == 51
DHCP_OPTION_OVERLOAD   == 52
DHCP_OPTION_MSG_TYPE   == 53
DHCP_OPTION_SERVER_ID  == 54
DHCP_OPTION_END        == 255

DHCPD_OPTION_LENGTH == 1
DHCPD_OPTION_DATA   == 2

DHCPD_OPTION_FIELD == 0
DHCPD_FILE_FIELD   == 1
DHCPD_SNAME_FIELD  == 2

Byte == 0 .. 255
g_magiccookie == <<99, 130, 83, 99>>

\* Offsets of the three fields in struct dhcpmsg_s, counted from sname.
FieldAt(f) == CASE f = DHCPD_SNAME_FIELD -> 0
                [] f = DHCPD_FILE_FIELD  -> SnameSize
                [] f = DHCPD_OPTION_FIELD -> SnameSize + FileSize
FieldSize(f) == CASE f = DHCPD_SNAME_FIELD -> SnameSize
                  [] f = DHCPD_FILE_FIELD  -> FileSize
                  [] f = DHCPD_OPTION_FIELD -> OptSize
FieldBytes(f) == FieldAt(f) .. FieldAt(f) + FieldSize(f) - 1
Total == SnameSize + FileSize + OptSize

\* ntohl of four bytes in network order.  The uint32 result is kept as its
\* 32-bit pattern read as a signed integer, the width TLC computes in.
Ntohl(b1, b2, b3, b4) ==
  (IF b1 >= 128 THEN b1 - 256 ELSE b1) * 16777216 + b2 * 65536 + b3 * 256 + b4

\* g_state.ds_optmsgtype, ds_optreqip, ds_optserverip, ds_optleasetime.
Options == [msgtype : Byte, reqip : Int, serverid : Int, leasetime : Int]
ZeroOptions == [msgtype |-> 0, reqip |-> 0, serverid |-> 0, leasetime |-> 0]

\* A datagram: the three fields as byte sequences, and the option lists it
\* was encoded from, when it was (spec is {} for a datagram built byte by
\* byte, and {s} otherwise).
ASSUME \A in \in Inputs :
         /\ Len(in.sname) = SnameSize /\ Len(in.file) = FileSize
         /\ Len(in.options) = OptSize
ASSUME PrevOptions \subseteq Options /\ JunkBytes \subseteq Byte

VARIABLES
  input,        \* the datagram in ds_inpacket
  mem,          \* its sname, file and options bytes
  ptr,          \* ptr, as an offset from sname
  remaining,    \* remaining
  optlen,       \* optlen
  overloaded,   \* overloaded
  currfield,    \* currfield
  opt,          \* g_state.ds_opt*
  pc,           \* "cookie": before the magic check; "scan": at the switch;
                \* "done": returned
  result,       \* the return value once pc = "done"
  last          \* history: the bytes the last pass read

vars == <<input, mem, ptr, remaining, optlen, overloaded, currfield, opt, pc,
          result, last>>

\* ptr[k]: a byte of the datagram, or of what follows it in memory.
Rd(i, junk) == IF i < Total THEN mem[i + 1] ELSE junk

\* What a pass read: the field it scanned, the bytes it read, and the bytes
\* the option at ptr declares (its code, length byte and data).
Reads(rd, ext) == last' = [field |-> currfield, reads |-> rd, extent |-> ext]
Extent(junk) == ptr .. ptr + 1 + Rd(ptr + DHCPD_OPTION_LENGTH, junk)

\* The tail of the loop body with ptr and remaining already moved: the
\* do-while test remaining > 0; leaving the loop returns false.
LoopTail(p, r) ==
  /\ ptr' = p
  /\ remaining' = r
  /\ pc' = IF r > 0 THEN "scan" ELSE "done"
  /\ result' = IF r > 0 THEN result ELSE FALSE

\* Variant: remaining += optlen.
AdvanceSignSlip(ol) == LoopTail(ptr + ol, remaining + ol)

\* ptr += optlen; remaining -= optlen; } while (remaining > 0);
Advance(ol) == LoopTail(ptr + ol, remaining - ol)

-----------------------------------------------------------------------------
Init ==
  /\ input \in Inputs
  /\ mem = input.sname \o input.file \o input.options
  /\ ptr = FieldAt(DHCPD_OPTION_FIELD)
  /\ remaining = 0
  /\ optlen = 0
  /\ overloaded = 0
  /\ currfield = DHCPD_OPTION_FIELD
  /\ opt \in PrevOptions
  /\ pc = "cookie"
  /\ result = FALSE
  /\ last = [field |-> DHCPD_OPTION_FIELD, reads |-> {}, extent |-> {}]

CookieBytes == FieldAt(DHCPD_OPTION_FIELD) .. FieldAt(DHCPD_OPTION_FIELD) + 3
HasCookie == SubSeq(input.options, 1, 4) = g_magiccookie

\* A bad magic number returns false before anything is reset.
BadCookie ==
  /\ pc = "cookie" /\ ~HasCookie
  /\ pc' = "done" /\ result' = FALSE
  /\ Reads(CookieBytes, CookieBytes)
  /\ UNCHANGED <<input, mem, ptr, remaining, optlen, overloaded, currfield, opt>>

\* Variant: the block that resets ds_opt* left out.
GoodCookieNoReset ==
  /\ pc = "cookie" /\ HasCookie
  /\ ptr' = FieldAt(DHCPD_OPTION_FIELD) + 4
  /\ remaining' = OptSize - 4
  /\ overloaded' = DHCPD_OPTION_FIELD
  /\ currfield' = DHCPD_OPTION_FIELD
  /\ pc' = "scan"
  /\ Reads(CookieBytes, CookieBytes)
  /\ UNCHANGED <<input, mem, optlen, result, opt>>

\* Past the magic number: set up the scan and reset every option.
GoodCookie ==
  /\ pc = "cookie" /\ HasCookie
  /\ ptr' = FieldAt(DHCPD_OPTION_FIELD) + 4
  /\ remaining' = OptSize - 4
  /\ overloaded' = DHCPD_OPTION_FIELD
  /\ currfield' = DHCPD_OPTION_FIELD
  /\ opt' = ZeroOptions
  /\ pc' = "scan"
  /\ Reads(CookieBytes, CookieBytes)
  /\ UNCHANGED <<input, mem, optlen, result>>

\* Variant: PAD taken to have length 0, as its data length is.
PadZeroLen ==
  \E j \in JunkBytes :
    /\ pc = "scan" /\ Rd(ptr, j) = DHCP_OPTION_PAD
    /\ optlen' = 0
    /\ Advance(0)
    /\ Reads({ptr}, {ptr})
    /\ UNCHANGED <<input, mem, overloaded, currfield, opt>>

\* case DHCP_OPTION_PAD: optlen = 1.
Pad ==
  \E j \in JunkBytes :
    /\ pc = "scan" /\ Rd(ptr, j) = DHCP_OPTION_PAD
    /\ optlen' = 1
    /\ Advance(1)
    /\ Reads({ptr}, {ptr})
    /\ UNCHANGED <<input, mem, overloaded, currfield, opt>>

\* case DHCP_OPTION_OVERLOAD: remember the data byte if the option fits.
Overload ==
  \E j \in JunkBytes :
    LET ol == Rd(ptr + DHCPD_OPTION_LENGTH, j) + 2
        ok == ol >= 1 /\ ol < remaining
    IN /\ pc = "scan" /\ Rd(ptr, j) = DHCP_OPTION_OVERLOAD
       /\ optlen' = ol
       /\ overloaded' = IF ok THEN Rd(ptr + DHCPD_OPTION_DATA, j) ELSE overloaded
       /\ Advance(ol)
       /\ Reads({ptr, ptr + 1} \cup (IF ok THEN {ptr + 2} ELSE {}), Extent(j))
       /\ UNCHANGED <<input, mem, currfield, opt>>

\* case DHCP_OPTION_END, first branch: go on in the file field.  optlen is
\* not set, so the loop tail then adds the previous option's length.
EndToFile ==
  \E j \in JunkBytes :
    /\ pc = "scan" /\ Rd(ptr, j) = DHCP_OPTION_END
    /\ currfield = DHCPD_OPTION_FIELD
    /\ overloaded % 2 = 1
    /\ currfield' = DHCPD_FILE_FIELD
    /\ LoopTail(FieldAt(DHCPD_FILE_FIELD) + optlen, FileSize - optlen)
    /\ Reads({ptr}, {ptr})
    /\ UNCHANGED <<input, mem, optlen, overloaded, opt>>

\* case DHCP_OPTION_END, second branch: go on in the sname field.
EndToSname ==
  \E j \in JunkBytes :
    /\ pc = "scan" /\ Rd(ptr, j) = DHCP_OPTION_END
    /\ currfield = DHCPD_FILE_FIELD
    /\ (overloaded \div 2) % 2 = 1
    /\ currfield' = DHCPD_SNAME_FIELD
    /\ LoopTail(FieldAt(DHCPD_SNAME_FIELD) + optlen, SnameSize - optlen)
    /\ Reads({ptr}, {ptr})
    /\ UNCHANGED <<input, mem, optlen, overloaded, opt>>

\* case DHCP_OPTION_END, otherwise: return true.
EndReturn ==
  \E j \in JunkBytes :
    /\ pc = "scan" /\ Rd(ptr, j) = DHCP_OPTION_END
    /\ ~(currfield = DHCPD_OPTION_FIELD /\ overloaded % 2 = 1)
    /\ ~(currfield = DHCPD_FILE_FIELD /\ (overloaded \div 2) % 2 = 1)
    /\ pc' = "done" /\ result' = TRUE
    /\ Reads({ptr}, {ptr})
    /\ UNCHANGED <<input, mem, ptr, remaining, optlen, overloaded, currfield, opt>>

\* The three four-byte options: memcpy four data bytes and ntohl them into
\* field fld of ds_opt* when optlen >= 4 && optlen < remaining.
WordOption(code, fld) ==
  \E j \in JunkBytes :
    LET ol == Rd(ptr + DHCPD_OPTION_LENGTH, j) + 2
        ok == ol >= 4 /\ ol < remaining
        d  == ptr + DHCPD_OPTION_DATA
    IN /\ pc = "scan" /\ Rd(ptr, j) = code
       /\ optlen' = ol
       /\ opt' = IF ok THEN [opt EXCEPT ![fld] =
                   Ntohl(Rd(d, j), Rd(d + 1, j), Rd(d + 2, j), Rd(d + 3, j))]
                 ELSE opt
       /\ Advance(ol)
       /\ Reads({ptr, ptr + 1} \cup (IF ok THEN d .. d + 3 ELSE {}), Extent(j))
       /\ UNCHANGED <<input, mem, overloaded, currfield>>

\* case DHCP_OPTION_REQ_IPADDR
ReqIp == WordOption(DHCP_OPTION_REQ_IPADDR, "reqip")

\* case DHCP_OPTION_LEASE_TIME
LeaseTime == WordOption(DHCP_OPTION_LEASE_TIME, "leasetime")

\* case DHCP_OPTION_SERVER_ID
ServerId == WordOption(DHCP_OPTION_SERVER_ID, "serverid")

\* Variant: the data byte taken from ptr[DHCPD_OPTION_DATA + 1].
MsgTypeDataSlip ==
  \E j \in JunkBytes :
    LET ol == Rd(ptr + DHCPD_OPTION_LENGTH, j) + 2
        ok == ol >= 1 /\ ol < remaining
    IN /\ pc = "scan" /\ Rd(ptr, j) = DHCP_OPTION_MSG_TYPE
       /\ optlen' = ol
       /\ opt' = IF ok THEN [opt EXCEPT !.msgtype = Rd(ptr + DHCPD_OPTION_DATA + 1, j)]
                 ELSE opt
       /\ Advance(ol)
       /\ Reads({ptr, ptr + 1} \cup (IF ok THEN {ptr + 3} ELSE {}), Extent(j))
       /\ UNCHANGED <<input, mem, overloaded, currfield>>

\* case DHCP_OPTION_MSG_TYPE: one data byte when optlen >= 1 (always).
MsgType ==
  \E j \in JunkBytes :
    LET ol == Rd(ptr + DHCPD_OPTION_LENGTH, j) + 2
        ok == ol >= 1 /\ ol < remaining
    IN /\ pc = "scan" /\ Rd(ptr, j) = DHCP_OPTION_MSG_TYPE
       /\ optlen' = ol
       /\ opt' = IF ok THEN [opt EXCEPT !.msgtype = Rd(ptr + DHCPD_OPTION_DATA, j)]
                 ELSE opt
       /\ Advance(ol)
       /\ Reads({ptr, ptr + 1} \cup (IF ok THEN {ptr + 2} ELSE {}), Extent(j))
       /\ UNCHANGED <<input, mem, overloaded, currfield>>

Known == {DHCP_OPTION_PAD, DHCP_OPTION_REQ_IPADDR, DHCP_OPTION_LEASE_TIME,
          DHCP_OPTION_OVERLOAD, DHCP_OPTION_MSG_TYPE, DHCP_OPTION_SERVER_ID,
          DHCP_OPTION_END}

\* default: skip the option by its declared length, unchecked.
Skip ==
  \E j \in JunkBytes :
    LET ol == Rd(ptr + DHCPD_OPTION_LENGTH, j) + 2
    IN /\ pc = "scan" /\ Rd(ptr, j) \notin Known
       /\ optlen' = ol
       /\ Advance(ol)
       /\ Reads({ptr, ptr + 1}, Extent(j))
       /\ UNCHANGED <<input, mem, overloaded, currfield, opt>>

Next ==
  \/ BadCookie \/ GoodCookie
  \/ Pad \/ Overload \/ EndToFile \/ EndToSname \/ EndReturn
  \/ ReqIp \/ LeaseTime \/ ServerId \/ MsgType \/ Skip

\* The scan is one call that runs to completion: it keeps taking steps.
Spec == Init /\ [][Next]_vars /\ WF_vars(Next)
-----------------------------------------------------------------------------
(* The reference: spec.md 4.1.  An option is [code, data]; PAD and END    *)
(* are one byte, every other code is code, length, data.  A datagram is   *)
(* encoded from three option lists, each closed by END and padded with 0;  *)
(* the file and sname fields carry options only when the options list     *)
(* holds an overload option saying so.                                     *)
EncodeOpt(o) ==
  IF o.code \in {DHCP_OPTION_PAD, DHCP_OPTION_END} THEN <<o.code>>
  ELSE <<o.code, Len(o.data)>> \o o.data

Zeros(n) == [i \in 1 .. n |-> 0]

EncodeField(list, size) ==
  LET b == FlattenSeq([i \in 1 .. Len(list) |-> EncodeOpt(list[i])])
           \o <<DHCP_OPTION_END>>
  IN b \o Zeros(size - Len(b))

\* The overload value the options list asks for; 0 when none or malformed.
OverloadOf(list) ==
  LET v == FoldLeft(LAMBDA ov, o : IF o.code = DHCP_OPTION_OVERLOAD /\ Len(o.data) = 1
                                     THEN o.data[1] ELSE ov,
                    0, list)
  IN IF v \in 1 .. 3 THEN v ELSE 0

Encode(s) ==
  LET ov == OverloadOf(s.options) IN
  [sname   |-> IF ov >= 2 THEN EncodeField(s.sname, SnameSize) ELSE Zeros(SnameSize),
   file    |-> IF ov % 2 = 1 THEN EncodeField(s.file, FileSize) ELSE Zeros(FileSize),
   options |-> g_magiccookie \o EncodeField(s.options, OptSize - 4),
   spec    |-> {s}]

\* Decoding one option into the option set: a recognised code with the
\* data length the spec gives it sets its field, in host order.
Word(d) == Ntohl(d[1], d[2], d[3], d[4])
Decode1(o, x) ==
  CASE x.code = DHCP_OPTION_MSG_TYPE /\ Len(x.data) = 1 ->
         [o EXCEPT !.msgtype = x.data[1]]
    [] x.code = DHCP_OPTION_REQ_IPADDR /\ Len(x.data) = 4 ->
         [o EXCEPT !.reqip = Word(x.data)]
    [] x.code = DHCP_OPTION_LEASE_TIME /\ Len(x.data) = 4 ->
         [o EXCEPT !.leasetime = Word(x.data)]
    [] x.code = DHCP_OPTION_SERVER_ID /\ Len(x.data) = 4 ->
         [o EXCEPT !.serverid = Word(x.data)]
    [] OTHER -> o

\* The options field first, then file, then sname, as overloaded.
Expected(s) ==
  LET ov == OverloadOf(s.options)
      o1 == FoldLeft(Decode1, ZeroOptions, s.options)
      o2 == IF ov % 2 = 1 THEN FoldLeft(Decode1, o1, s.file) ELSE o1
  IN IF ov >= 2 THEN FoldLeft(Decode1, o2, s.sname) ELSE o2

-----------------------------------------------------------------------------
Done == pc = "done"

TypeOK ==
  /\ mem \in Seq(Byte)
  /\ ptr \in 0 .. Total + 256
  /\ remaining \in -256 .. OptSize
  /\ optlen \in 0 .. 257
  /\ overloaded \in Byte
  /\ currfield \in {DHCPD_OPTION_FIELD, DHCPD_FILE_FIELD, DHCPD_SNAME_FIELD}
  /\ opt \in Options
  /\ pc \in {"cookie", "scan", "done"}
  /\ result \in BOOLEAN

(* Decoding recovers what was encoded (spec.md 8).  When the scan of a     *)
(* datagram encoded from option lists returns, ds_opt* hold exactly the    *)
(* message type, requested address, server id and lease time the lists    *)
(* carry, in host order, read from the options field and then the file and *)
(* sname fields the overload option names; nothing is left of the previous *)
(* datagram.                                                               *)
DecodesAsEncoded ==
  Done => \A s \in input.spec : opt = Expected(s)

(* Reads stay in bounds.  Each pass reads the code and length of the      *)
(* option at ptr and then only the data bytes that length declares, and    *)
(* never a byte outside the field it is scanning: an option whose declared *)
(* length runs past the remaining bytes stops the scan safely (spec.md      *)
(* 4.1, "a correctness-critical bounds check").                            *)
ReadsInBounds == last.reads \subseteq last.extent \cap FieldBytes(last.field)

(* The do-while loop of dhcpd_parseoptions ends on every datagram: each    *)
(* pass moves ptr forward or switches field, and the handler returns.      *)
Terminates == <>Done
=============================================================================
