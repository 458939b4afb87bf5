------------------------------ MODULE FipFrame ------------------------------
(***************************************************************************)
(* What a processor does with one frame (process_packet): it reads an      *)
(* Ethernet header, a tunnel header, a second Ethernet header and the FIP  *)
(* control header, each at the position where the one before it ended, and *)
(* gives the descriptors to the handler of the opcode (decide_packet) or   *)
(* the FC frame to the FC side; and the frames it builds in return         *)
(* (create_packet, send_packet, process_fc_els_req, process_fc_els_res).   *)
(*                                                                         *)
(* A frame is a sequence of segments.  Lengths and positions count double  *)
(* words, the unit of every header and descriptor; a test of bytes against *)
(* a whole number of them is the same test of double words.  What is read  *)
(* at a position where no segment of that kind starts is Junk, and Junk    *)
(* compares as anything.                                                   *)
(***************************************************************************)
EXTENDS Integers, Sequences, FiniteSets

CONSTANTS Macs,         \* MAC addresses of hosts
          Multicast,    \* the multicast address of decide_packet
          Names,        \* values of the other descriptors
          FcLens,       \* lengths of FC frames, header included
          CutUpTo,      \* frames are received whole, or cut off up to here
          g_fcoe_t11,   \* of the configuration file, 0 or 1
          Junk          \* what is read where nothing was written

(* Sizes of the structures, and of the buffers frames are in. *)
SIZEOF_eth_hdr == 5
SIZEOF_tunnel_hdr == 6
SIZEOF_ctrl_hdr == 2
SIZEOF_fc_hdr == 6
MAX_PK_LEN == 375
FLOGI_SIZE == 35

ASSUME T11Assumption == g_fcoe_t11 \in {0, 1}
ASSUME FcLenAssumption ==
    /\ FcLens \subseteq {len \in Nat : len >= SIZEOF_fc_hdr}
    /\ CutUpTo \in Nat
ASSUME MulticastAssumption == Multicast \notin Macs
ASSUME JunkAssumption == Junk \notin Macs \cup Names \cup Nat

(* Segments. *)
Seg(what, len) == [what |-> what, len |-> len]
EtherHdr(tagged, type) ==
    <<Seg("macs", 3)>>
    \o (IF tagged THEN <<Seg("vlan", 1)>> ELSE <<>>)
    \o <<[what |-> "type", len |-> 1, type |-> type]>>

(* length is a byte; external is the E flag, the top bit of port_num. *)
TunnelHdr(length, external) ==
    [what |-> "tunnel", len |-> SIZEOF_tunnel_hdr, length |-> length % 256,
     external |-> external]
CtrlHdr(opcode, subcode, list) ==
    [what |-> "ctrl", len |-> SIZEOF_ctrl_hdr, opcode |-> opcode,
     subcode |-> subcode, list |-> list]
Tlv(type, length, value) ==
    [what |-> "tlv", len |-> length, type |-> type, value |-> value]
Fc(len) == Seg("fc", len)

(* Where each segment starts, and the frame ends. *)
Start(segs) ==
    LET at[i \in 1..(Len(segs) + 1)] ==
            IF i = 1 THEN 0 ELSE at[i - 1] + segs[i - 1].len
    IN  at
Length(segs) == Start(segs)[Len(segs) + 1]

Frame(segs, size) == [segs |-> segs, size |-> size]

(* The segment of that kind at a position, if all of it was received.      *)
Found(f, what, pos) ==
    {i \in DOMAIN f.segs : /\ f.segs[i].what = what
                           /\ Start(f.segs)[i] = pos
                           /\ pos + f.segs[i].len <= f.size}
Is(f, what, pos) == Found(f, what, pos) # {}
At(f, what, pos) == f.segs[CHOOSE i \in Found(f, what, pos) : TRUE]

VARIABLES
    frame,      \* task->data, task->size
    pos,        \* ret_pos
    pc,
    tunnel,     \* tunnel_hdr
    ether_type, \* fip_eth_hdr_fw.ether_type
    ctrl,       \* fip_ctrl_hdr
    high,       \* how far into the frame anything was read
    outcome,    \* the handler of the frame and what it was given
    sent        \* the frames sent for it

vars == <<frame, pos, pc, tunnel, ether_type, ctrl, high, outcome, sent>>

Result(handler, values) == [handler |-> handler, values |-> values]
None == Result("none", <<>>)
NoFrame == Frame(<<>>, 0)
NoTunnel == TunnelHdr(0, FALSE)
NoCtrl == CtrlHdr(0, 0, 0)

Init ==
    /\ frame = NoFrame /\ pos = 0 /\ pc = "get"
    /\ tunnel = NoTunnel /\ ether_type = 0 /\ ctrl = NoCtrl
    /\ high = 0 /\ outcome = None /\ sent = {}

FIP_ETH_TYPE == 35092
FCOE_ETH_TYPE == 35078
VLAN_TAG == 33024

-----------------------------------------------------------------------------
(* recv_size - ret_pos, of unsigned 32-bit counts of bytes. *)
Remaining == (frame.size - pos) % (2^30)

Further(p) == high' = IF p > high THEN p ELSE high

(* The handling of the frame is over. *)
Out(result, frames) ==
    /\ pc' = "out"
    /\ outcome' = result
    /\ sent' = frames
    /\ UNCHANGED <<frame, pos, tunnel, ether_type, ctrl>>
Ignore == Out(Result("ignored", <<>>), {}) /\ UNCHANGED high

(* read_eth_hdr copies a header with a tag.  If the frame has no tag in    *)
(* its first header the position goes back, and the type is read again.    *)
TagInFrame == Is(frame, "vlan", 3)

(* Seeded fault: the position does not go back.                            *)
read_eth_hdr_NoStepBack == pos + SIZEOF_eth_hdr

read_eth_hdr == pos + (IF TagInFrame THEN SIZEOF_eth_hdr ELSE SIZEOF_eth_hdr - 2 + 1)

EthRead ==
    /\ pos' = read_eth_hdr
    /\ pc' = "tunnel"
    /\ Further(pos + SIZEOF_eth_hdr)
    /\ UNCHANGED <<frame, tunnel, ether_type, ctrl, outcome, sent>>

(* Seeded fault: a short frame is read all the same. *)
ReadEth_NoTest == pc = "eth" /\ EthRead

ReadEth ==
    /\ pc = "eth"
    /\ \/ Remaining < SIZEOF_eth_hdr /\ Ignore
       \/ Remaining >= SIZEOF_eth_hdr /\ EthRead

(* read_tunnel_hdr: an error, no tunnel, or the header. *)
ReadTunnel ==
    /\ pc = "tunnel"
    /\ \/ Remaining < SIZEOF_tunnel_hdr /\ Ignore
       \/ Remaining >= SIZEOF_tunnel_hdr /\ ~Is(frame, "tunnel", pos) /\ Ignore
       \/ /\ Remaining >= SIZEOF_tunnel_hdr
          /\ Is(frame, "tunnel", pos)
          /\ tunnel' = At(frame, "tunnel", pos)
          /\ pos' = pos + SIZEOF_tunnel_hdr
          /\ pc' = IF tunnel'.external THEN "fc" ELSE "inner"
          /\ Further(pos + SIZEOF_tunnel_hdr)
          /\ UNCHANGED <<frame, ether_type, ctrl, outcome, sent>>

(* The Ethernet header of the forwarded frame; its type is what is there   *)
(* at the end of the header.                                               *)
TypesAt(p) ==
    IF Is(frame, "type", p) THEN {At(frame, "type", p).type}
    ELSE IF Is(frame, "vlan", p) THEN {VLAN_TAG}
    ELSE {FIP_ETH_TYPE, FCOE_ETH_TYPE}

ReadInner ==
    /\ pc = "inner"
    /\ \/ Remaining < SIZEOF_eth_hdr /\ Ignore
       \/ /\ Remaining >= SIZEOF_eth_hdr
          /\ ether_type' \in TypesAt(read_eth_hdr - 1)
          /\ pos' = read_eth_hdr
          /\ pc' = IF ether_type' = FCOE_ETH_TYPE THEN "els" ELSE "ctrl"
          /\ Further(pos + SIZEOF_eth_hdr)
          /\ UNCHANGED <<frame, tunnel, ctrl, outcome, sent>>

(* What is read as a control header: where there is none, the list may be  *)
(* announced with any length.                                              *)
CtrlHdrs ==
    IF Is(frame, "ctrl", pos) THEN {At(frame, "ctrl", pos)}
    ELSE {CtrlHdr(Junk, Junk, list) : list \in {0, 65535}}

CtrlRead(hdr) ==
    /\ ctrl' = hdr
    /\ pos' = pos + SIZEOF_ctrl_hdr
    /\ pc' = "decide"
    /\ Further(pos + SIZEOF_ctrl_hdr)
    /\ UNCHANGED <<frame, tunnel, ether_type, outcome, sent>>

(* Seeded fault: the length of the list is not tested. *)
ReadCtrl_NoListTest ==
    /\ pc = "ctrl"
    /\ \/ Remaining < SIZEOF_ctrl_hdr /\ Ignore
       \/ Remaining >= SIZEOF_ctrl_hdr /\ \E hdr \in CtrlHdrs : CtrlRead(hdr)

(* read_ctrl_hdr, and the test that the descriptors have been received. *)
ReadCtrl ==
    /\ pc = "ctrl"
    /\ \/ Remaining < SIZEOF_ctrl_hdr /\ Ignore
       \/ /\ Remaining >= SIZEOF_ctrl_hdr
          /\ \E hdr \in CtrlHdrs :
                IF Remaining - SIZEOF_ctrl_hdr < hdr.list THEN Ignore ELSE CtrlRead(hdr)

-----------------------------------------------------------------------------
(* get_tlv and get_tlv_value: the descriptor at p is copied as its own     *)
(* type says, whatever the caller expects there.  Where there is none, a   *)
(* type and a length are read all the same, and more if that length says   *)
(* so.                                                                     *)
get_tlv(p) == IF Is(frame, "tlv", p) THEN At(frame, "tlv", p) ELSE Tlv(Junk, 1, Junk)
get_tlv_value(tlv, type) == IF tlv.type = type THEN tlv.value ELSE Junk

(* The descriptors one after the other, for the fields of the given types. *)
Decoded(types) ==
    LET tlv[i \in 1..Len(types)] ==
            IF i = 1 THEN [tlv |-> get_tlv(pos), at |-> pos]
            ELSE LET p == tlv[i - 1].at + tlv[i - 1].tlv.len
                 IN  [tlv |-> get_tlv(p), at |-> p]
    IN [values |-> [i \in 1..Len(types) |-> get_tlv_value(tlv[i].tlv, types[i])],
        end |-> tlv[Len(types)].at + tlv[Len(types)].tlv.len]

fcoe_conx_discovery  == <<2, 4, 6>>
fcoe_vHBA_keep_alive == <<2>>
fcoe_vHBA_deregister == <<2, 4, 11>>

(* The gateway advertisement (fcoe_vHBA_advertisement) and, as a seeded    *)
(* fault, the descriptors of a build without OPEN_FCOE.                    *)
fcoe_vHBA_advertisement_NoOpenFcoe ==
    <<Tlv(1, 1, Junk), Tlv(2, 2, Junk), Tlv(3, 2, Junk), Tlv(4, 3, Junk),
      Tlv(5, 3, Junk), Tlv(12, 2, Junk)>>
fcoe_vHBA_advertisement ==
    <<Tlv(1, 1, Junk), Tlv(2, 2, Junk), Tlv(4, 3, Junk), Tlv(5, 4, Junk),
      Tlv(12, 2, Junk)>>

(* send_packet: the descriptors are sent in a list of the length announced *)
(* in the control header; a footer follows that no length counts.          *)
send_packet(to, flags, hdr, descriptors) ==
    [to |-> to, flags |-> flags,
     segs |-> EtherHdr(FALSE, FIP_ETH_TYPE)
              \o <<TunnelHdr(SIZEOF_tunnel_hdr + 4 + SIZEOF_ctrl_hdr + hdr.list, FALSE)>>
              \o EtherHdr(FALSE, FIP_ETH_TYPE)
              \o <<hdr>> \o descriptors \o <<Seg("footer", 1)>>]

(* create_packet: A and S mark an answer to a host. *)
create_packet(op, to) ==
    send_packet(to,
                {"FP", "SP", "F"} \cup (IF to = Multicast THEN {}
                                        ELSE IF op = 1 THEN {"A", "S"} ELSE {"S"}),
                CtrlHdr(1, 2, 12), fcoe_vHBA_advertisement)

(* prepare_fdisc_res: the whole FC frame in one descriptor, and a MAC. *)
prepare_fdisc_res(payload_len) ==
    send_packet("host", {"F"}, CtrlHdr(2, 2, payload_len),
                <<Tlv(7, payload_len - 2, Junk), Tlv(2, 2, Junk)>>)

send_fc_packet(external, segs) ==
    [to |-> "bridge", flags |-> {},
     segs |-> EtherHdr(FALSE, FIP_ETH_TYPE)
              \o <<TunnelHdr(SIZEOF_tunnel_hdr + Length(segs), external)>> \o segs]

(* A frame that does not fit the buffer of send_fc_packet runs past its    *)
(* end; nothing is said of what happens then.                              *)
Forward(handler, values, sending) ==
    IF Length(sending.segs) <= MAX_PK_LEN
      THEN Out(Result(handler, values), {sending})
      ELSE Out(Result("overrun", values), {})

-----------------------------------------------------------------------------
(* decide_packet.  After the handler two footers are copied; the position  *)
(* is still that of the descriptors.  Neither asks how long the announced  *)
(* list is: of a list too short for them they read what is behind it.      *)
Decide(opcode, subcode) ==
    pc = "decide" /\ ctrl.opcode \in {opcode, Junk} /\ ctrl.subcode \in {subcode, Junk}

Handle(handler, values, end, frames) ==
    /\ Out(Result(handler, values), frames)
    /\ Further(IF end > pos + 2 THEN end ELSE pos + 2)

(* What becomes of a solicitation is in ResourceDb, of a login in FcLogin. *)
Solicitation ==
    LET d == Decoded(fcoe_conx_discovery)
    IN  Decide(1, 1) /\ Handle("solicitation", d.values, d.end, {})
BridgeDiscovery ==
    Decide(65530, 2) /\ Handle("announce", <<>>, pos, {create_packet(1, Multicast)})
Login ==
    /\ Decide(2, 1)
    /\ Handle("login", <<>>, pos + 3 + FLOGI_SIZE,
              {send_fc_packet(TRUE, <<Fc(FLOGI_SIZE)>>)})
KeepAlive ==
    LET d == Decoded(fcoe_vHBA_keep_alive)
    IN /\ Decide(3, 1)
       /\ Handle("keep_alive", d.values, d.end, {create_packet(3, d.values[1])})
ClearLink ==
    LET d == Decoded(fcoe_vHBA_deregister)
    IN  Decide(3, 2) /\ Handle("clear_link", d.values, d.end, {})
OtherOpcode ==
    /\ pc = "decide"
    /\ <<ctrl.opcode, ctrl.subcode>> \notin
          {<<1, 1>>, <<65530, 2>>, <<2, 1>>, <<3, 1>>, <<3, 2>>}
    /\ Handle("none", <<>>, pos, {})

decide_packet ==
    \/ Solicitation \/ BridgeDiscovery \/ Login \/ KeepAlive \/ ClearLink
    \/ OtherOpcode

(* Seeded fault: the FCoE header is counted as part of the FC frame. *)
fc_pk_len_WithHeader == (tunnel.length - SIZEOF_tunnel_hdr) % (2^30)

(* process_fc_els_req: the length of the FC frame is what the tunnel       *)
(* header says, less the headers without a tag.                            *)
fc_pk_len == (tunnel.length - SIZEOF_tunnel_hdr - 4) % (2^30)
process_fc_els_req ==
    /\ pc = "els"
    /\ Forward("els_req", <<fc_pk_len>>, send_fc_packet(TRUE, <<Fc(fc_pk_len)>>))
    /\ Further(pos + fc_pk_len)

(* process_fc_els_res: an FCoE frame around the FC frame; without T11 its  *)
(* last byte, the EOF, is not a whole double word and no length counts it. *)
process_fc_els_res(len) ==
    Forward("els_res", <<len>>,
            send_fc_packet(FALSE, IF g_fcoe_t11 = 1
                                    THEN <<Seg("fcoe", 7), Fc(len), Seg("crc", 2)>>
                                    ELSE <<Seg("fcoe", 4), Fc(len), Seg("crc", 1)>>))

(* process_fc_response.  The error of read_fc_hdr is ignored: if the frame *)
(* is too short, the header is what is on the stack and the position stays *)
(* where it is.  Which exchange a response is of, is in FcLogin.           *)
process_fc_response ==
    LET whole == Remaining >= SIZEOF_fc_hdr
        ret_pos == IF whole THEN pos + SIZEOF_fc_hdr ELSE pos
    IN /\ pc = "fc"
       /\ \/ /\ Out(Result("reject_els", <<>>), {send_fc_packet(TRUE, <<Fc(8)>>)})
             /\ Further(ret_pos)
          \/ /\ process_fc_els_res(SIZEOF_fc_hdr + frame.size - ret_pos)
             /\ Further(frame.size)
          \/ /\ Out(Result("vfm_response", <<>>), {})
             /\ Further(ret_pos + 1)
          \/ /\ Out(Result("fdisc_acc", <<>>), {prepare_fdisc_res(38)})
             /\ Further(ret_pos - SIZEOF_fc_hdr + 36)
          \/ /\ Out(Result("fdisc_rjt", <<>>), {prepare_fdisc_res(11)})
             /\ Further(ret_pos - SIZEOF_fc_hdr + 9)

(* The frame is freed and the next one taken. *)
Free ==
    /\ pc = "out"
    /\ frame' = NoFrame /\ pos' = 0 /\ pc' = "get"
    /\ tunnel' = NoTunnel /\ ether_type' = 0 /\ ctrl' = NoCtrl
    /\ high' = 0 /\ outcome' = None /\ sent' = {}

-----------------------------------------------------------------------------
(* The frames that arrive: of a host or the bridge, tunneled by the bridge *)
(* or not, with or without tags, cut off anywhere.  A list that is not in  *)
(* the order its handler expects is among them, and lists that announce    *)
(* and have only the first of the descriptors, or none.                    *)
Message(opcode, subcode, tlvs) ==
    <<CtrlHdr(opcode, subcode, Length(tlvs))>> \o tlvs

List(opcode, subcode, tlvs) == [opcode |-> opcode, subcode |-> subcode, tlvs |-> tlvs]
Lists(m, n) ==
    {List(1, 1, <<Tlv(2, 2, m), Tlv(4, 3, n), Tlv(6, 1, n)>>),
     List(1, 1, <<Tlv(4, 3, n), Tlv(2, 2, m), Tlv(6, 1, n)>>),
     List(65530, 2, <<Tlv(2, 2, m), Tlv(4, 3, n)>>),
     List(2, 1, <<Tlv(7, 36, n), Tlv(2, 2, m)>>),
     List(3, 1, <<Tlv(2, 2, m), Tlv(11, 5, n)>>),
     List(3, 2, <<Tlv(2, 2, m), Tlv(4, 3, n), Tlv(11, 5, n)>>),
     List(1, 2, fcoe_vHBA_advertisement)}
Messages(m, n) ==
    UNION {{Message(l.opcode, l.subcode, SubSeq(l.tlvs, 1, k)) : k \in 0..Len(l.tlvs)} :
              l \in Lists(m, n)}

Bodies(tagged) ==
    {EtherHdr(tagged, FIP_ETH_TYPE) \o message :
        message \in UNION {Messages(m, n) : m \in Macs, n \in Names}}
    \cup {EtherHdr(tagged, FCOE_ETH_TYPE) \o <<Fc(len)>> : len \in FcLens}

Tunneled(body, external) ==
    <<TunnelHdr(SIZEOF_tunnel_hdr + Length(body), external)>> \o body

Payloads ==
    (UNION {{body, Tunneled(body, FALSE)} : body \in Bodies(TRUE) \cup Bodies(FALSE)})
    \cup {Tunneled(<<Fc(len)>>, TRUE) : len \in FcLens}

(* recv gives at most MAX_PK_LEN of a frame.  start_sniffer adds it as a   *)
(* task of type REMOTE_VFM, so the test for LOCAL_VFM never succeeds.      *)
Shorter(a, b) == IF a < b THEN a ELSE b

Receive(segs, size) ==
    /\ pc = "get"
    /\ frame' = Frame(segs, size)
    /\ pc' = "eth"
    /\ UNCHANGED <<pos, tunnel, ether_type, ctrl, high, outcome, sent>>

Arrive ==
    \E tagged \in BOOLEAN, payload \in Payloads :
        LET segs == EtherHdr(tagged, FIP_ETH_TYPE) \o payload
            size == Shorter(Length(segs), MAX_PK_LEN)
        IN \E cut \in 1..Shorter(size, CutUpTo) \cup {size} : Receive(segs, cut)

process_packet ==
    \/ ReadEth \/ ReadTunnel \/ ReadInner \/ ReadCtrl
    \/ decide_packet \/ process_fc_els_req \/ process_fc_response
    \/ Free

Next == Arrive \/ process_packet

Spec == Init /\ [][Next]_vars

-----------------------------------------------------------------------------
Segments(what) == {i \in DOMAIN frame.segs : frame.segs[i].what = what}
Only(what) == frame.segs[CHOOSE i \in Segments(what) : TRUE]
Tags == Segments("vlan")

(* A tunneled frame whose Ethernet headers both have a tag or both none.   *)
Aligned ==
    /\ Segments("tunnel") # {}
    /\ Tags = {} \/ Tags = {2, 6} \/ (Tags = {2} /\ Only("tunnel").external)
Whole == frame.size = Length(frame.segs)

(* The descriptor of a type, wherever it is in the list. *)
Value(type) ==
    frame.segs[CHOOSE i \in Segments("tlv") : frame.segs[i].type = type].value

(* The descriptors are in the order of these types. *)
InOrder(types) ==
    \E first \in Segments("tlv") :
        /\ first - 1 \in Segments("ctrl")
        /\ \A i \in DOMAIN types : /\ first + i - 1 \in Segments("tlv")
                                   /\ frame.segs[first + i - 1].type = types[i]

ValuesOf(types) == [i \in DOMAIN types |-> Value(types[i])]

(* The lengths of the tunnel headers, read or sent, are bytes. *)
TypeOK ==
    /\ pc \in {"get", "eth", "tunnel", "fc", "inner", "els", "ctrl", "decide", "out"}
    /\ frame.size \in 0..MAX_PK_LEN
    /\ tunnel.length \in 0..255
    /\ \A f \in sent : f.segs[3].what = "tunnel" /\ f.segs[3].length \in 0..255

(* The position stays inside the frame, however short it is, so that       *)
(* recv_size - ret_pos, which is unsigned, never wraps around and every    *)
(* test of process_packet compares what is really left.                    *)
PositionInside == pos \in 0..frame.size

(* A whole frame with consistent tags reaches the handler of its opcode,   *)
(* and descriptors that are in the expected order reach it with their own  *)
(* values; a keep-alive is answered to the host that sent it.  The         *)
(* positions of four headers, with and without tags, have to add up.       *)
RightHandler ==
    (pc = "out" /\ Aligned /\ Whole /\ Segments("ctrl") # {}) =>
        LET code == <<Only("ctrl").opcode, Only("ctrl").subcode>>
            Given(handler, types) ==
                /\ outcome.handler = handler
                /\ InOrder(types) => outcome.values = ValuesOf(types)
        IN CASE code = <<1, 1>> -> Given("solicitation", <<2, 4, 6>>)
             [] code = <<65530, 2>> -> Given("announce", <<>>)
             [] code = <<2, 1>> -> Given("login", <<>>)
             [] code = <<3, 1>> ->
                   /\ Given("keep_alive", <<2>>)
                   /\ sent # {}
                   /\ InOrder(<<2>>) => \A f \in sent : f.to = Value(2) /\ "S" \in f.flags
             [] code = <<3, 2>> -> Given("clear_link", <<2, 4, 11>>)
             [] OTHER -> Given("none", <<>>) /\ sent = {}

(* The list of a frame has all that is read of it: the descriptors its     *)
(* handler asks for, the FC frame and the MAC of a login, and in any case  *)
(* the two double words that are taken for footers.                        *)
Complete ==
    LET code == <<Only("ctrl").opcode, Only("ctrl").subcode>>
    IN /\ Only("ctrl").list >= (IF code = <<2, 1>> THEN 3 + FLOGI_SIZE ELSE 2)
       /\ code \in {<<1, 1>>, <<3, 2>>} => Cardinality(Segments("tlv")) >= 3

(* Nothing is read behind the end of a FIP frame with consistent tags      *)
(* whose list is complete, wherever the frame was cut off: process_packet  *)
(* has tested that the announced list was received.  It tests no more than *)
(* that: of a list too short for its handler, or for the two footers, more *)
(* is read than was received.  (The handlers trust the length of each      *)
(* descriptor.)                                                            *)
ReadsInside == (Aligned /\ Segments("ctrl") # {} /\ Complete) => high <= frame.size

(* An untagged FC frame that is received whole leaves with its length, as  *)
(* long as it is short enough: the length of the tunnel header, a byte, of *)
(* a host's frame counts ten double words of headers, and the frame of the *)
(* fabric gets nine more than it had.                                      *)
LongestElsReq == 255 - SIZEOF_tunnel_hdr - 4
LongestElsRes == MAX_PK_LEN - 4 - SIZEOF_tunnel_hdr - 9
ElsWhole ==
    (pc = "out" /\ Aligned /\ Whole /\ Tags = {} /\ Segments("fc") # {}) =>
        LET len == Only("fc").len
            Leaves == \E f \in sent : \E i \in DOMAIN f.segs : f.segs[i] = Fc(len)
        IN IF Only("tunnel").external
             THEN (outcome.handler \in {"els_res", "overrun"} /\ len <= LongestElsRes) => Leaves
             ELSE len <= LongestElsReq => Leaves

(* A frame that is sent can be read back: its tunnel header announces all  *)
(* that follows but the footer, and its descriptors fill the announced     *)
(* list exactly.  The lengths are written down apart from the descriptors: *)
(* 12 in create_packet, 38 or 11 in prepare_fdisc_res.                     *)
Readable(f) ==
    LET Of(what) == {i \in DOMAIN f.segs : f.segs[i].what = what}
        Rest(a) == Length(SubSeq(f.segs, a, Len(f.segs))) - Cardinality(Of("footer"))
    IN /\ Rest(3) <= 255 => f.segs[3].length = Rest(3)
       /\ \A i \in Of("ctrl") : f.segs[i].list = Rest(i + 1)
SentReadable == \A f \in sent : Readable(f)
=============================================================================
