--------------------------- MODULE MCDhcpOptions ---------------------------
(***************************************************************************)
(* Model-checking instance of DhcpOptions.                                 *)
(*                                                                         *)
(* The fields are shrunk from 64/128/312 bytes to 6/8/18: the options      *)
(* area holds the cookie and up to three options with END, and the file  *)
(* and sname fields one option each with room to spare.  The values keep  *)
(* bytes >= 128 where the 32-bit conversion can go wrong.                  *)
(***************************************************************************)
EXTENDS DhcpOptions, FiniteSets

MCSnameSize == 6
MCFileSize  == 8
MCOptSize   == 18

Opt(c, d) == [code |-> c, data |-> d]
MsgOpt(t) == Opt(DHCP_OPTION_MSG_TYPE, <<t>>)
ReqIpOpt  == Opt(DHCP_OPTION_REQ_IPADDR, <<192, 168, 0, 10>>)
SidOpt    == Opt(DHCP_OPTION_SERVER_ID, <<10, 0, 0, 1>>)
LeaseOpt  == Opt(DHCP_OPTION_LEASE_TIME, <<0, 1, 81, 128>>)
PadOpt    == Opt(DHCP_OPTION_PAD, <<>>)
OvlOpt(v) == Opt(DHCP_OPTION_OVERLOAD, <<v>>)
\* An option this server does not know (code 12, host name).
OtherOpt(d) == Opt(12, d)

Catalogue == {MsgOpt(1), MsgOpt(3), ReqIpOpt, SidOpt, LeaseOpt, PadOpt,
              OtherOpt(<<>>), OtherOpt(<<7>>)}

EncodedLen(list) ==
  Len(FlattenSeq([i \in 1 .. Len(list) |-> EncodeOpt(list[i])]))

NoLists == [options |-> <<>>, file |-> <<>>, sname |-> <<>>]

\* Options areas of up to three known or unknown options, no overload.
PlainLists ==
  {[NoLists EXCEPT !.options = l] :
     l \in {l \in SeqOf(Catalogue, 3) : EncodedLen(l) + 1 <= MCOptSize - 4}}

\* Overloaded fields that carry only padding before their END, as many pad
\* bytes as the option before the first END is long.
PaddedOverload ==
  { [options |-> <<MsgOpt(1), OvlOpt(v)>>,
     file    |-> <<PadOpt, PadOpt, PadOpt>>,
     sname   |-> <<PadOpt, PadOpt, PadOpt>>] : v \in {1, 3} }

\* Overloaded fields that carry an option of their own.
FileOverload  == { [options |-> <<OvlOpt(1)>>, file |-> <<MsgOpt(1)>>,
                    sname |-> <<>>] }
SnameOverload == { [options |-> <<OvlOpt(2)>>, file |-> <<>>,
                    sname |-> <<MsgOpt(1)>>] }

\* A datagram without the magic cookie.
BadCookieInput ==
  [sname |-> Zeros(MCSnameSize), file |-> Zeros(MCFileSize),
   options |-> <<1, 2, 3, 4>> \o EncodeField(<<MsgOpt(3)>>, MCOptSize - 4),
   spec |-> {}]

\* Stale options from a previous datagram, to be reset by the parse.
MCPrevOptions ==
  {ZeroOptions, [msgtype |-> 7, reqip |-> 5, serverid |-> 6, leasetime |-> 9]}

MCWellFormed ==
  {Encode(s) : s \in PlainLists \cup PaddedOverload} \cup {BadCookieInput}

MCOverloadFile  == {Encode(s) : s \in FileOverload}
MCOverloadSname == {Encode(s) : s \in SnameOverload}
\* Both overloads; restrict Inputs to one set to see that one alone.
MCOverload == MCOverloadFile \cup MCOverloadSname

\* Options areas that end in the middle of an option: after the cookie,
\* PADs up to a code byte (unknown, or requested address) at the last byte,
\* or an unknown option whose length runs past the end.
MCTruncated ==
  LET body(tail) == g_magiccookie \o Zeros(MCOptSize - 4 - Len(tail)) \o tail
  IN {[sname |-> Zeros(MCSnameSize), file |-> Zeros(MCFileSize),
       options |-> body(t), spec |-> {}] :
        t \in {<<12>>, <<DHCP_OPTION_REQ_IPADDR>>, <<12, 40, 0>>}}

\* A requested address option that declares two data bytes, then a message
\* type and END.
MCShortOption ==
  {[sname |-> Zeros(MCSnameSize), file |-> Zeros(MCFileSize),
    options |-> g_magiccookie \o
                <<DHCP_OPTION_REQ_IPADDR, 2, 192, 168,
                  DHCP_OPTION_MSG_TYPE, 1, 1, DHCP_OPTION_END>>
                \o Zeros(MCOptSize - 12),
    spec |-> {}]}

\* Both kinds of out-of-bounds input; restrict Inputs to one set to see
\* that one alone.
MCOutOfBounds == MCTruncated \cup MCShortOption
=============================================================================
