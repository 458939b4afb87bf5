-------------------------- MODULE FipFrame_proofs ---------------------------
(***************************************************************************)
(* Proofs about the parser and the builder of frames, in this order:       *)
(*   - Start and Length of a sequence of segments, which are sums, and how *)
(*     they behave under concatenation;                                    *)
(*   - the frames that are sent (SentOk);                                  *)
(*   - Basic, an invariant of every frame: positions stay inside;          *)
(*   - the shapes of the frames that arrive: in the tunnel with FIP or FC  *)
(*     in it (Fip, HostFc, FabricFc), or one no property speaks of (Off);  *)
(*   - what process_packet reads at each position of such a frame          *)
(*     (FipRead, HostFcRead, FabricFcRead) and so where it is after each   *)
(*     step (FipAt, HostFcAt, FabricFcAt);                                 *)
(*   - Route, the invariant that every frame goes one of these ways.       *)
(***************************************************************************)
EXTENDS FipFrame, SequenceTheorems, FiniteSetTheorems, WellFoundedInduction, TLAPS

-----------------------------------------------------------------------------
(* Positions in a sequence of segments. *)

LEMMA SetInduction ==
    ASSUME NEW S, 0 \in S, \A n \in Nat : n \in S => n + 1 \in S
    PROVE  Nat \subseteq S
  <1> SUFFICES ASSUME Nat \ S # {} PROVE FALSE
    OBVIOUS
  <1>1. PICK n \in Nat \ S : \A m \in Nat \ S : ~(<<m, n>> \in OpToRel(<, Nat))
    <2>1. Nat \ S \subseteq Nat
      OBVIOUS
    <2> QED
      BY <2>1, WFMin, NatLessThanWellFounded
  <1>2. \A m \in Nat \ S : ~(m < n)
    BY <1>1 DEF OpToRel
  <1>3. n # 0 /\ n - 1 \in Nat
    OBVIOUS
  <1>4. n - 1 \in S
    BY <1>2, <1>3
  <1>5. (n - 1) + 1 \in S
    BY <1>3, <1>4
  <1> QED
    BY <1>5

(* The recursive function of Start is well defined. *)
LEMMA SumsExist ==
    ASSUME NEW n \in Nat, NEW len \in [1..n -> Nat]
    PROVE  \E g \in [1..(n + 1) -> Nat] :
              g = [i \in 1..(n + 1) |-> IF i = 1 THEN 0 ELSE g[i - 1] + len[i - 1]]
  <1> DEFINE Sums(g, m) ==
                g = [i \in 1..(m + 1) |-> IF i = 1 THEN 0 ELSE g[i - 1] + len[i - 1]]
             S == {m \in Nat : m <= n => \E g \in [1..(m + 1) -> Nat] : Sums(g, m)}
  <1>1. 0 \in S
    <2> DEFINE g == [i \in 1..1 |-> 0]
    <2>1. g \in [1..(0 + 1) -> Nat] /\ Sums(g, 0)
      OBVIOUS
    <2> QED
      BY <2>1
  <1>2. ASSUME NEW m \in Nat, m \in S PROVE m + 1 \in S
    <2> SUFFICES ASSUME m + 1 <= n
                 PROVE  \E g \in [1..(m + 1 + 1) -> Nat] : Sums(g, m + 1)
      OBVIOUS
    <2>0. \E g \in [1..(m + 1) -> Nat] : Sums(g, m)
      <3> HIDE DEF Sums
      <3> QED
        BY <1>2
    <2>1. PICK g \in [1..(m + 1) -> Nat] : Sums(g, m)
      BY <2>0
    <2> DEFINE h == [i \in 1..(m + 1 + 1) |->
                        IF i <= m + 1 THEN g[i] ELSE g[m + 1] + len[m + 1]]
    <2>2. h \in [1..(m + 1 + 1) -> Nat]
      OBVIOUS
    <2>3. ASSUME NEW i \in 1..(m + 1 + 1)
          PROVE  h[i] = IF i = 1 THEN 0 ELSE h[i - 1] + len[i - 1]
      <3>1. CASE i <= m + 1
        <4>1. g[i] = IF i = 1 THEN 0 ELSE g[i - 1] + len[i - 1]
          BY <2>1, <3>1
        <4> QED
          BY <3>1, <4>1
      <3>2. CASE i = m + 1 + 1
        BY <3>2
      <3> QED
        BY <3>1, <3>2
    <2>4. Sums(h, m + 1)
      BY <2>3
    <2> QED
      BY <2>2, <2>4
  <1> HIDE DEF S
  <1>3. n \in S
    BY <1>1, <1>2, SetInduction
  <1> QED
    BY <1>3 DEF S

(* What a segment is: its length is a number of double words. *)
Segment ==
    [what : {"macs", "vlan", "fc", "fcoe", "crc", "footer"}, len : Nat]
    \cup [what : {"type"}, len : Nat, type : Nat]
    \cup [what : {"tunnel"}, len : Nat, length : 0..255, external : BOOLEAN]
    \cup [what : {"ctrl"}, len : Nat, opcode : Nat, subcode : Nat, list : Nat]
    \cup [what : {"tlv"}, len : Nat, type : Nat, value : Macs \cup Names \cup {Junk}]

LEMMA SegmentFacts == \A s \in Segment : s.len \in Nat
  BY DEF Segment

LEMMA StartFacts ==
    ASSUME NEW segs \in Seq(Segment)
    PROVE  /\ Len(segs) \in Nat
           /\ Start(segs) \in [1..(Len(segs) + 1) -> Nat]
           /\ Start(segs)[1] = 0
           /\ \A i \in 1..Len(segs) : Start(segs)[i + 1] = Start(segs)[i] + segs[i].len
  <1>1. PICK n \in Nat : n = Len(segs) /\ DOMAIN segs = 1..n
    BY LenProperties
  <1>2. PICK len \in [1..n -> Nat] : len = [i \in 1..n |-> segs[i].len]
    <2>1. \A i \in 1..n : segs[i].len \in Nat
      BY <1>1, ElementOfSeq, SegmentFacts
    <2> QED
      BY <2>1
  <1> DEFINE Sums(g, l) ==
                g = [i \in 1..(n + 1) |-> IF i = 1 THEN 0 ELSE g[i - 1] + l[i - 1]]
  <1>3. Start(segs) = CHOOSE at : at = [i \in 1..(n + 1) |->
                          IF i = 1 THEN 0 ELSE at[i - 1] + segs[i - 1].len]
    BY <1>1 DEF Start
  <1>4. ASSUME NEW g
        PROVE  [i \in 1..(n + 1) |-> IF i = 1 THEN 0 ELSE g[i - 1] + segs[i - 1].len]
             = [i \in 1..(n + 1) |-> IF i = 1 THEN 0 ELSE g[i - 1] + len[i - 1]]
    <2>1. \A i \in 1..(n + 1) : i # 1 => segs[i - 1].len = len[i - 1]
      BY <1>2
    <2> QED
      BY <2>1
  <1>5. PICK g \in [1..(n + 1) -> Nat] : Sums(g, len)
    BY SumsExist
  <1>6. PICK s : s = Start(segs)
    OBVIOUS
  <1>7. Sums(s, len)
    <2>1. g = [i \in 1..(n + 1) |-> IF i = 1 THEN 0 ELSE g[i - 1] + segs[i - 1].len]
      BY <1>4, <1>5
    <2>2. s = [i \in 1..(n + 1) |-> IF i = 1 THEN 0 ELSE s[i - 1] + segs[i - 1].len]
      BY <1>3, <1>6, <2>1
    <2> QED
      BY <1>4, <2>2
  <1>8. s[1] = 0 /\ \A i \in 1..n : s[i + 1] = s[i] + len[i]
    BY <1>7
  <1>9. \A i \in 1..(n + 1) : s[i] \in Nat
    <2> DEFINE S == {i \in Nat : i + 1 \in 1..(n + 1) => s[i + 1] \in Nat}
    <2>1. 0 \in S
      BY <1>8
    <2>2. ASSUME NEW i \in Nat, i \in S PROVE i + 1 \in S
      BY SMTT(30), <1>8, <2>2
    <2> HIDE DEF S
    <2>3. Nat \subseteq S
      BY <2>1, <2>2, SetInduction
    <2> SUFFICES ASSUME NEW i \in 1..(n + 1) PROVE s[i] \in Nat
      OBVIOUS
    <2>4. i - 1 \in S /\ (i - 1) + 1 = i
      BY <2>3
    <2> QED
      BY <2>4 DEF S
  <1>10. s \in [1..(n + 1) -> Nat]
    BY <1>7, <1>9
  <1>11. \A i \in 1..n : segs[i].len = len[i]
    BY <1>2
  <1> QED
    BY <1>1, <1>6, <1>8, <1>10, <1>11

LEMMA StartStep ==
    ASSUME NEW segs \in Seq(Segment), NEW i \in 1..Len(segs)
    PROVE  /\ segs[i] \in Segment /\ segs[i].len \in Nat
           /\ Start(segs)[i] \in Nat
           /\ Start(segs)[i + 1] = Start(segs)[i] + segs[i].len
  <1>1. PICK n \in Nat : n = Len(segs)
    BY LenProperties
  <1>2. segs[i] \in Segment
    BY ElementOfSeq
  <1>3. segs[i].len \in Nat
    BY <1>2, SegmentFacts
  <1>4. i \in 1..(n + 1) /\ Start(segs) \in [1..(n + 1) -> Nat]
    BY <1>1, StartFacts
  <1>5. Start(segs)[i] \in Nat
    BY <1>4
  <1> QED
    BY <1>2, <1>3, <1>5, StartFacts

LEMMA LengthNat ==
    ASSUME NEW segs \in Seq(Segment)
    PROVE  Length(segs) \in Nat
  <1>1. Len(segs) + 1 \in 1..(Len(segs) + 1)
    BY StartFacts
  <1>2. Start(segs)[Len(segs) + 1] \in Nat
    BY <1>1, StartFacts
  <1> QED
    BY <1>2 DEF Length

-----------------------------------------------------------------------------
(* The frames that arrive. *)

LEMMA Concat ==
    ASSUME NEW s \in Seq(Segment), NEW t \in Seq(Segment)
    PROVE  s \o t \in Seq(Segment)
  BY ConcatProperties

LEMMA Singleton ==
    ASSUME NEW x \in Segment
    PROVE  <<x>> \in Seq(Segment)
  OBVIOUS

LEMMA EtherHdrType ==
    ASSUME NEW tagged \in BOOLEAN, NEW type \in Nat
    PROVE  EtherHdr(tagged, type) \in Seq(Segment)
  <1> DEFINE last == [what |-> "type", len |-> 1, type |-> type]
             vlan == IF tagged THEN <<Seg("vlan", 1)>> ELSE << >>
  <1>1. Seg("macs", 3) \in Segment /\ Seg("vlan", 1) \in Segment /\ last \in Segment
    BY DEF Segment, Seg
  <1>2. /\ <<Seg("macs", 3)>> \in Seq(Segment) /\ <<Seg("vlan", 1)>> \in Seq(Segment)
        /\ <<last>> \in Seq(Segment) /\ << >> \in Seq(Segment)
    BY <1>1, Singleton
  <1>3. vlan \in Seq(Segment)
    BY <1>2
  <1>4. EtherHdr(tagged, type) = <<Seg("macs", 3)>> \o vlan \o <<last>>
    BY DEF EtherHdr
  <1> HIDE DEF last, vlan
  <1> QED
    BY <1>2, <1>3, <1>4, Concat

LEMMA TlvType ==
    ASSUME NEW type \in Nat, NEW len \in Nat, NEW value \in Macs \cup Names \cup {Junk}
    PROVE  Tlv(type, len, value) \in Segment
  BY DEF Tlv, Segment

LEMMA MessageType ==
    ASSUME NEW opcode \in Nat, NEW subcode \in Nat, NEW tlvs \in Seq(Segment)
    PROVE  Message(opcode, subcode, tlvs) \in Seq(Segment)
  <1>1. CtrlHdr(opcode, subcode, Length(tlvs)) \in Segment
    BY LengthNat DEF CtrlHdr, Segment, SIZEOF_ctrl_hdr
  <1> QED
    BY <1>1, Singleton, Concat DEF Message

(* The first descriptors of a list. *)
LEMMA FirstTlvs ==
    ASSUME NEW tlvs \in Seq(Segment), NEW k \in 0..Len(tlvs)
    PROVE  /\ SubSeq(tlvs, 1, k) \in Seq(Segment)
           /\ Len(SubSeq(tlvs, 1, k)) = k
           /\ \A i \in 1..k : SubSeq(tlvs, 1, k)[i] = tlvs[i]
  <1>1. Len(tlvs) \in Nat /\ \A i \in 1..Len(tlvs) : tlvs[i] \in Segment
    BY LenProperties, ElementOfSeq
  <1>2. k \in Nat /\ 1 \in Int /\ \A i \in 1..k : tlvs[i] \in Segment
    BY <1>1
  <1>3. /\ SubSeq(tlvs, 1, k) \in Seq(Segment)
        /\ Len(SubSeq(tlvs, 1, k)) = IF 1 <= k THEN k - 1 + 1 ELSE 0
        /\ \A i \in 1..(k - 1 + 1) : SubSeq(tlvs, 1, k)[i] = tlvs[1 + i - 1]
    <2>1. PICK a, b : a = 1 /\ b = k
      OBVIOUS
    <2>2. a \in Int /\ b \in Int /\ \A i \in a..b : tlvs[i] \in Segment
      BY <1>2, <2>1
    <2>3. /\ SubSeq(tlvs, a, b) \in Seq(Segment)
          /\ Len(SubSeq(tlvs, a, b)) = IF a <= b THEN b - a + 1 ELSE 0
          /\ \A i \in 1..(b - a + 1) : SubSeq(tlvs, a, b)[i] = tlvs[a + i - 1]
      BY <2>2, SubSeqProperties
    <2> QED
      BY <2>1, <2>3
  <1>4. \A i \in 1..k : i \in 1..(k - 1 + 1) /\ 1 + i - 1 = i
    BY <1>2
  <1>5. \A i \in 1..k : SubSeq(tlvs, 1, k)[i] = tlvs[i]
    BY <1>3, <1>4
  <1>6. Len(SubSeq(tlvs, 1, k)) = k
    BY <1>2, <1>3
  <1> QED
    BY <1>3, <1>5, <1>6

LEMMA ListsType ==
    ASSUME NEW m \in Macs, NEW n \in Names, NEW l \in Lists(m, n)
    PROVE  l.opcode \in Nat /\ l.subcode \in Nat /\ l.tlvs \in Seq(Segment)
  <1>1. /\ Tlv(2, 2, m) \in Segment /\ Tlv(4, 3, n) \in Segment
        /\ Tlv(6, 1, n) \in Segment /\ Tlv(7, 36, n) \in Segment
        /\ Tlv(11, 5, n) \in Segment
        /\ Tlv(1, 1, Junk) \in Segment /\ Tlv(2, 2, Junk) \in Segment
        /\ Tlv(4, 3, Junk) \in Segment /\ Tlv(5, 4, Junk) \in Segment
        /\ Tlv(12, 2, Junk) \in Segment
    BY TlvType
  <1>2. /\ <<Tlv(2, 2, m), Tlv(4, 3, n), Tlv(6, 1, n)>> \in Seq(Segment)
        /\ <<Tlv(4, 3, n), Tlv(2, 2, m), Tlv(6, 1, n)>> \in Seq(Segment)
        /\ <<Tlv(2, 2, m), Tlv(4, 3, n)>> \in Seq(Segment)
        /\ <<Tlv(7, 36, n), Tlv(2, 2, m)>> \in Seq(Segment)
        /\ <<Tlv(2, 2, m), Tlv(11, 5, n)>> \in Seq(Segment)
        /\ <<Tlv(2, 2, m), Tlv(4, 3, n), Tlv(11, 5, n)>> \in Seq(Segment)
    BY <1>1
  <1>3. fcoe_vHBA_advertisement \in Seq(Segment)
    BY <1>1 DEF fcoe_vHBA_advertisement
  <1>4. ASSUME NEW opcode \in Nat, NEW subcode \in Nat, NEW tlvs \in Seq(Segment),
               l = List(opcode, subcode, tlvs)
        PROVE  l.opcode \in Nat /\ l.subcode \in Nat /\ l.tlvs \in Seq(Segment)
    BY <1>4 DEF List
  <1>5. 1 \in Nat /\ 2 \in Nat /\ 3 \in Nat /\ 65530 \in Nat
    OBVIOUS
  <1>6. PICK a \in Seq(Segment), b \in Seq(Segment), c \in Seq(Segment), d \in Seq(Segment),
             e \in Seq(Segment), f \in Seq(Segment), g \in Seq(Segment) :
           /\ a = <<Tlv(2, 2, m), Tlv(4, 3, n), Tlv(6, 1, n)>>
           /\ b = <<Tlv(4, 3, n), Tlv(2, 2, m), Tlv(6, 1, n)>>
           /\ c = <<Tlv(2, 2, m), Tlv(4, 3, n)>>
           /\ d = <<Tlv(7, 36, n), Tlv(2, 2, m)>>
           /\ e = <<Tlv(2, 2, m), Tlv(11, 5, n)>>
           /\ f = <<Tlv(2, 2, m), Tlv(4, 3, n), Tlv(11, 5, n)>>
           /\ g = fcoe_vHBA_advertisement
    BY <1>2, <1>3
  <1>7. PICK discovery \in Nat : discovery = 65530
    OBVIOUS
  <1>8. \/ l = List(1, 1, a) \/ l = List(1, 1, b) \/ l = List(discovery, 2, c)
        \/ l = List(2, 1, d) \/ l = List(3, 1, e) \/ l = List(3, 2, f)
        \/ l = List(1, 2, g)
    BY <1>6, <1>7 DEF Lists
  <1> QED
    BY <1>4, <1>5, <1>8

LEMMA MessagesType ==
    ASSUME NEW m \in Macs, NEW n \in Names
    PROVE  Messages(m, n) \subseteq Seq(Segment)
  <1>1. ASSUME NEW msg \in Messages(m, n) PROVE msg \in Seq(Segment)
    <2>0. PICK l \in Lists(m, n) : \E k \in 0..Len(l.tlvs) :
             msg = Message(l.opcode, l.subcode, SubSeq(l.tlvs, 1, k))
      BY DEF Messages
    <2>1. PICK k \in 0..Len(l.tlvs) :
             msg = Message(l.opcode, l.subcode, SubSeq(l.tlvs, 1, k))
      BY <2>0
    <2>2. l.opcode \in Nat /\ l.subcode \in Nat /\ l.tlvs \in Seq(Segment)
      BY ListsType
    <2>3. SubSeq(l.tlvs, 1, k) \in Seq(Segment)
      BY <2>2, FirstTlvs
    <2> QED
      BY <2>1, <2>2, <2>3, MessageType
  <1> QED
    BY <1>1

LEMMA BodiesType ==
    ASSUME NEW tagged \in BOOLEAN
    PROVE  Bodies(tagged) \subseteq Seq(Segment)
  <1>1. /\ EtherHdr(tagged, FIP_ETH_TYPE) \in Seq(Segment)
        /\ EtherHdr(tagged, FCOE_ETH_TYPE) \in Seq(Segment)
    BY EtherHdrType DEF FIP_ETH_TYPE, FCOE_ETH_TYPE
  <1>2. \A len \in FcLens : <<Fc(len)>> \in Seq(Segment)
    <2>1. \A len \in FcLens : Fc(len) \in Segment
      BY FcLenAssumption DEF Fc, Seg, Segment
    <2> QED
      BY <2>1, Singleton
  <1>3. UNION {Messages(m, n) : m \in Macs, n \in Names} \subseteq Seq(Segment)
    BY MessagesType
  <1> QED
    <2> SUFFICES ASSUME NEW body \in Bodies(tagged) PROVE body \in Seq(Segment)
      OBVIOUS
    <2>1. CASE \E msg \in UNION {Messages(m, n) : m \in Macs, n \in Names} :
                  body = EtherHdr(tagged, FIP_ETH_TYPE) \o msg
      BY <1>1, <1>3, <2>1, Concat
    <2>2. CASE \E len \in FcLens :
                  body = EtherHdr(tagged, FCOE_ETH_TYPE) \o <<Fc(len)>>
      BY <1>1, <1>2, <2>2, Concat
    <2> DEFINE Fips == {EtherHdr(tagged, FIP_ETH_TYPE) \o message :
                           message \in UNION {Messages(m, n) : m \in Macs, n \in Names}}
               Fcoes == {EtherHdr(tagged, FCOE_ETH_TYPE) \o <<Fc(len)>> : len \in FcLens}
    <2>3. body \in Fips \/ body \in Fcoes
      BY SMTT(30) DEF Bodies
    <2>4. body \in Fips => \E msg \in UNION {Messages(m, n) : m \in Macs, n \in Names} :
                              body = EtherHdr(tagged, FIP_ETH_TYPE) \o msg
      OBVIOUS
    <2>5. body \in Fcoes => \E len \in FcLens :
                               body = EtherHdr(tagged, FCOE_ETH_TYPE) \o <<Fc(len)>>
      OBVIOUS
    <2> HIDE DEF Fips, Fcoes
    <2> QED
      BY <2>1, <2>2, <2>3, <2>4, <2>5

LEMMA TunneledType ==
    ASSUME NEW body \in Seq(Segment), NEW external \in BOOLEAN
    PROVE  Tunneled(body, external) \in Seq(Segment)
  <1>1. (SIZEOF_tunnel_hdr + Length(body)) % 256 \in 0..255
    <2>1. PICK n \in Nat : n = Length(body)
      BY LengthNat
    <2>2. (6 + n) % 256 \in 0..255
      OBVIOUS
    <2> QED
      BY <2>1, <2>2 DEF SIZEOF_tunnel_hdr
  <1>2. TunnelHdr(SIZEOF_tunnel_hdr + Length(body), external) \in Segment
    BY <1>1 DEF TunnelHdr, SIZEOF_tunnel_hdr, Segment
  <1> QED
    BY <1>2, Singleton, Concat DEF Tunneled

LEMMA PayloadsType == Payloads \subseteq Seq(Segment)
  <1>1. \A len \in FcLens : <<Fc(len)>> \in Seq(Segment)
    <2>1. \A len \in FcLens : Fc(len) \in Segment
      BY FcLenAssumption DEF Fc, Seg, Segment
    <2> QED
      BY <2>1, Singleton
  <1> QED
    <2> SUFFICES ASSUME NEW payload \in Payloads PROVE payload \in Seq(Segment)
      OBVIOUS
    <2>1. CASE payload \in Bodies(TRUE) \cup Bodies(FALSE)
      BY <2>1, BodiesType
    <2>2. CASE \E body \in Bodies(TRUE) \cup Bodies(FALSE) :
                  payload = Tunneled(body, FALSE)
      <3>1. PICK body \in Seq(Segment) : payload = Tunneled(body, FALSE)
        BY <2>2, BodiesType
      <3> QED
        BY <3>1, TunneledType
    <2>3. CASE \E len \in FcLens : payload = Tunneled(<<Fc(len)>>, TRUE)
      <3>1. PICK body \in Seq(Segment) : payload = Tunneled(body, TRUE)
        BY <1>1, <2>3
      <3> QED
        BY <3>1, TunneledType
    <2>4. ASSUME NEW pair \in {{body, Tunneled(body, FALSE)} :
                                  body \in Bodies(TRUE) \cup Bodies(FALSE)},
                 payload \in pair
          PROVE  payload \in Seq(Segment)
      <3>1. PICK body \in Bodies(TRUE) \cup Bodies(FALSE) :
               pair = {body, Tunneled(body, FALSE)}
        BY <2>4
      <3>2. payload = body \/ payload = Tunneled(body, FALSE)
        BY <2>4, <3>1
      <3> QED
        BY <2>1, <2>2, <3>2
    <2> DEFINE Pairs == {{body, Tunneled(body, FALSE)} :
                            body \in Bodies(TRUE) \cup Bodies(FALSE)}
               Externals == {Tunneled(<<Fc(len)>>, TRUE) : len \in FcLens}
    <2>5. payload \in UNION Pairs \/ payload \in Externals
      BY DEF Payloads
    <2>6. CASE payload \in Externals
      BY <2>3, <2>6
    <2>7. CASE payload \in UNION Pairs
      <3>1. PICK pair \in Pairs : payload \in pair
        BY <2>7
      <3> QED
        BY <2>4, <3>1
    <2> QED
      BY <2>5, <2>6, <2>7

(* A frame is received whole or cut off, in a buffer of MAX_PK_LEN. *)
LEMMA ArriveFacts ==
    ASSUME Arrive
    PROVE  \E segs \in Seq(Segment), cut \in 0..MAX_PK_LEN : Receive(segs, cut)
  <1>1. PICK tagged \in BOOLEAN, payload \in Payloads :
           LET segs == EtherHdr(tagged, FIP_ETH_TYPE) \o payload
               size == Shorter(Length(segs), MAX_PK_LEN)
           IN \E cut \in 1..Shorter(size, CutUpTo) \cup {size} : Receive(segs, cut)
    BY DEF Arrive
  <1> DEFINE segs == EtherHdr(tagged, FIP_ETH_TYPE) \o payload
             size == Shorter(Length(segs), MAX_PK_LEN)
  <1>2. PICK cut \in 1..Shorter(size, CutUpTo) \cup {size} : Receive(segs, cut)
    BY <1>1
  <1>3. segs \in Seq(Segment)
    BY EtherHdrType, PayloadsType, Concat DEF FIP_ETH_TYPE
  <1>4. Length(segs) \in Nat
    BY <1>3, LengthNat
  <1>5. size \in 0..MAX_PK_LEN
    BY <1>4 DEF Shorter, MAX_PK_LEN
  <1>6. 1..Shorter(size, CutUpTo) \subseteq 1..size
    BY <1>5, FcLenAssumption DEF Shorter
  <1>7. cut \in 0..MAX_PK_LEN
    BY <1>2, <1>5, <1>6 DEF MAX_PK_LEN
  <1> QED
    BY <1>2, <1>3, <1>7

-----------------------------------------------------------------------------
(* Positions in frames put together of parts. *)

LEMMA StartPrefix ==
    ASSUME NEW s \in Seq(Segment), NEW t \in Seq(Segment),
           NEW k \in 0..Len(s)
    PROVE  Start(s \o t)[k + 1] = Start(s)[k + 1]
  <1>1. PICK n \in Nat, m \in Nat : n = Len(s) /\ m = Len(t)
    BY LenProperties
  <1>2. s \o t \in Seq(Segment) /\ Len(s \o t) = n + m
    BY <1>1, ConcatProperties
  <1>3. \A i \in 1..n : (s \o t)[i] = s[i]
    BY <1>1, ConcatProperties
  <1>4. /\ Start(s \o t)[1] = 0
        /\ \A i \in 1..(n + m) : Start(s \o t)[i + 1] = Start(s \o t)[i] + (s \o t)[i].len
    BY <1>2, StartFacts
  <1>5. /\ Start(s)[1] = 0
        /\ \A i \in 1..n : Start(s)[i + 1] = Start(s)[i] + s[i].len
    BY <1>1, StartFacts
  <1> DEFINE S == {i \in Nat : i <= n => Start(s \o t)[i + 1] = Start(s)[i + 1]}
  <1>6. 0 \in S
    BY <1>4, <1>5
  <1>7. ASSUME NEW i \in Nat, i \in S PROVE i + 1 \in S
    <2> SUFFICES ASSUME i + 1 <= n PROVE Start(s \o t)[i + 1 + 1] = Start(s)[i + 1 + 1]
      OBVIOUS
    <2>1. i + 1 \in 1..n /\ i + 1 \in 1..(n + m)
      OBVIOUS
    <2>2. Start(s \o t)[i + 1] = Start(s)[i + 1]
      BY <1>7
    <2> QED
      BY <1>3, <1>4, <1>5, <2>1, <2>2
  <1> HIDE DEF S
  <1>8. k \in S
    BY <1>1, <1>6, <1>7, SetInduction
  <1> QED
    BY <1>1, <1>8 DEF S

LEMMA StartSuffix ==
    ASSUME NEW s \in Seq(Segment), NEW t \in Seq(Segment),
           NEW k \in 0..Len(t)
    PROVE  Start(s \o t)[Len(s) + k + 1] = Length(s) + Start(t)[k + 1]
  <1>1. PICK n \in Nat, m \in Nat : n = Len(s) /\ m = Len(t)
    BY LenProperties
  <1>2. s \o t \in Seq(Segment) /\ Len(s \o t) = n + m
    BY <1>1, ConcatProperties
  <1>3. \A i \in 1..m : (s \o t)[n + i] = t[i]
    <2> SUFFICES ASSUME NEW i \in 1..m PROVE (s \o t)[n + i] = t[i]
      OBVIOUS
    <2>1. (s \o t)[n + i] = t[(n + i) - n]
      BY <1>1, ConcatProperties
    <2> QED
      BY <2>1
  <1>4. \A i \in 1..(n + m) : Start(s \o t)[i + 1] = Start(s \o t)[i] + (s \o t)[i].len
    BY <1>2, StartFacts
  <1>5. /\ Start(t)[1] = 0
        /\ \A i \in 1..m : /\ Start(t)[i] \in Nat
                           /\ Start(t)[i + 1] = Start(t)[i] + t[i].len
                           /\ t[i].len \in Nat
    BY <1>1, StartFacts, StartStep
  <1>6. Start(s \o t)[n + 1] = Length(s) /\ Length(s) \in Nat
    BY <1>1, StartPrefix, LengthNat DEF Length
  <1>7. PICK l \in Nat : l = Length(s)
    BY <1>6
  <1> DEFINE S == {i \in Nat : i <= m => Start(s \o t)[n + i + 1] = l + Start(t)[i + 1]}
  <1>8. 0 \in S
    BY <1>5, <1>6, <1>7
  <1>9. ASSUME NEW i \in Nat, i \in S PROVE i + 1 \in S
    <2> SUFFICES ASSUME i + 1 <= m
                 PROVE  Start(s \o t)[n + (i + 1) + 1] = l + Start(t)[i + 1 + 1]
      OBVIOUS
    <2>1. i + 1 \in 1..m /\ n + (i + 1) \in 1..(n + m)
      OBVIOUS
    <2>2. Start(s \o t)[n + (i + 1)] = l + Start(t)[i + 1]
      BY <1>9
    <2>3. Start(s \o t)[n + (i + 1) + 1] = Start(s \o t)[n + (i + 1)] + t[i + 1].len
      BY <1>3, <1>4, <2>1
    <2>4. /\ Start(t)[i + 1 + 1] = Start(t)[i + 1] + t[i + 1].len
          /\ Start(t)[i + 1] \in Nat /\ t[i + 1].len \in Nat
      BY <1>5, <2>1
    <2> QED
      BY <2>2, <2>3, <2>4
  <1> HIDE DEF S
  <1>10. k \in S
    BY SMTT(30), <1>1, <1>8, <1>9, SetInduction
  <1> QED
    BY <1>1, <1>7, <1>10 DEF S

LEMMA LengthConcat ==
    ASSUME NEW s \in Seq(Segment), NEW t \in Seq(Segment)
    PROVE  Length(s \o t) = Length(s) + Length(t)
  <1>1. PICK n \in Nat, m \in Nat : n = Len(s) /\ m = Len(t)
    BY LenProperties
  <1>2. Len(s \o t) = n + m
    BY <1>1, ConcatProperties
  <1>3. Start(s \o t)[n + m + 1] = Length(s) + Start(t)[m + 1]
    <2>1. m \in 0..Len(t)
      BY <1>1
    <2> QED
      BY <1>1, <2>1, StartSuffix
  <1> QED
    BY <1>1, <1>2, <1>3 DEF Length

(* Two segments that are not empty start at different positions. *)
LEMMA StartGrows ==
    ASSUME NEW segs \in Seq(Segment), \A i \in 1..Len(segs) : segs[i].len > 0,
           NEW i \in 1..Len(segs), NEW j \in 1..Len(segs), i < j
    PROVE  Start(segs)[i] < Start(segs)[j]
  <1>1. PICK n \in Nat : n = Len(segs)
    BY LenProperties
  <1>2. \A k \in 1..n : /\ Start(segs)[k] \in Nat
                        /\ segs[k].len \in Nat /\ segs[k].len > 0
                        /\ Start(segs)[k + 1] = Start(segs)[k] + segs[k].len
    BY <1>1, StartStep
  <1> DEFINE S == {k \in Nat : i + k + 1 <= n => Start(segs)[i] < Start(segs)[i + k + 1]}
  <1>3. 0 \in S
    BY <1>1, <1>2
  <1>4. ASSUME NEW k \in Nat, k \in S PROVE k + 1 \in S
    <2> SUFFICES ASSUME i + (k + 1) + 1 <= n
                 PROVE  Start(segs)[i] < Start(segs)[i + (k + 1) + 1]
      OBVIOUS
    <2>1. i + k + 1 \in 1..n /\ i + (k + 1) + 1 \in 1..n /\ i \in 1..n
      BY <1>1
    <2>2. Start(segs)[i] < Start(segs)[i + k + 1]
      BY <1>4, <2>1
    <2>4. PICK a \in Nat, b \in Nat :
             /\ a = i + k + 1 /\ b = i + (k + 1) + 1 /\ a + 1 = b
             /\ a \in 1..n /\ b \in 1..n
      BY <1>1, <2>1
    <2>5. /\ Start(segs)[b] = Start(segs)[a] + segs[a].len
          /\ segs[a].len > 0 /\ segs[a].len \in Nat
          /\ Start(segs)[a] \in Nat /\ Start(segs)[i] \in Nat
      BY <1>2, <2>1, <2>4
    <2>6. Start(segs)[i] < Start(segs)[a]
      BY <2>2, <2>4
    <2>7. Start(segs)[i] < Start(segs)[b]
      BY <2>5, <2>6
    <2> QED
      BY <2>4, <2>7
  <1> HIDE DEF S
  <1>5. j - i - 1 \in S /\ i + (j - i - 1) + 1 = j
    <2>1. Nat \subseteq S
      BY <1>3, <1>4, SetInduction
    <2>2. i \in 1..n /\ j \in 1..n
      BY <1>1
    <2>3. j - i - 1 \in Nat /\ i + (j - i - 1) + 1 = j
      BY <2>2
    <2> QED
      BY <2>1, <2>3
  <1> QED
    BY <1>1, <1>5 DEF S

LEMMA LengthRest ==
    ASSUME NEW segs \in Seq(Segment), NEW a \in 1..(Len(segs) + 1)
    PROVE  Length(SubSeq(segs, a, Len(segs))) = Length(segs) - Start(segs)[a]
  <1>1. PICK n \in Nat : n = Len(segs)
    BY LenProperties
  <1> DEFINE s == SubSeq(segs, 1, a - 1)
             t == SubSeq(segs, a, n)
  <1>2. /\ s \in Seq(Segment) /\ Len(s) = a - 1
        /\ \A i \in 1..(a - 1) : s[i] = segs[i]
    <2>1. \A i \in 1..(a - 1) : segs[i] \in Segment
      BY <1>1, ElementOfSeq
    <2> QED
      BY <1>1, <2>1, SubSeqProperties
  <1>3. /\ t \in Seq(Segment) /\ Len(t) = n - a + 1
        /\ \A i \in 1..(n - a + 1) : t[i] = segs[a + i - 1]
    <2>1. \A i \in a..n : segs[i] \in Segment
      BY <1>1, ElementOfSeq
    <2> QED
      BY <1>1, <2>1, SubSeqProperties
  <1> HIDE DEF s, t
  <1>4. segs = s \o t
    <2>1. 1 \in 1..(Len(segs) + 1) /\ a - 1 \in (1 - 1)..Len(segs) /\ n \in (a - 1)..Len(segs)
      BY <1>1
    <2>2. s \o SubSeq(segs, (a - 1) + 1, n) = SubSeq(segs, 1, n)
      BY <2>1, ConcatAdjacentSubSeq DEF s
    <2>3. (a - 1) + 1 = a
      BY <1>1
    <2> QED
      BY <1>1, <2>2, <2>3, SubSeqFull DEF t
  <1>5. Length(segs) = Length(s) + Length(t)
    BY <1>2, <1>3, <1>4, LengthConcat
  <1>6. Start(segs)[a] = Length(s)
    <2>1. Len(s) \in 0..Len(s) /\ Len(s) + 1 = a
      BY <1>2
    <2>2. Start(s \o t)[a] = Start(s)[a]
      BY <1>2, <1>3, <2>1, StartPrefix
    <2> QED
      BY <1>4, <2>1, <2>2 DEF Length
  <1>7. Length(s) \in Nat /\ Length(t) \in Nat
    BY <1>2, <1>3, LengthNat
  <1> QED
    BY <1>1, <1>5, <1>6, <1>7 DEF t

LEMMA LengthOne ==
    ASSUME NEW x \in Segment
    PROVE  <<x>> \in Seq(Segment) /\ Length(<<x>>) = x.len
  <1>1. <<x>> \in Seq(Segment) /\ Len(<<x>>) = 1 /\ <<x>>[1] = x
    BY Singleton
  <1>2. Start(<<x>>)[1] = 0 /\ Start(<<x>>)[1 + 1] = Start(<<x>>)[1] + x.len
    <2>1. PICK s \in Seq(Segment) : s = <<x>> /\ Len(s) = 1 /\ s[1] = x
      BY <1>1
    <2>2. 1 \in 1..Len(s)
      BY <2>1
    <2> QED
      BY <2>1, <2>2, StartFacts
  <1>3. x.len \in Nat
    BY SegmentFacts
  <1> QED
    BY <1>1, <1>2, <1>3 DEF Length

-----------------------------------------------------------------------------
(* The frames that are sent. *)

(* A sequence of segments that two make up, one behind the other. *)
Joined(r, s, t) ==
    /\ r \in Seq(Segment) /\ Len(r) = Len(s) + Len(t)
    /\ Length(r) = Length(s) + Length(t)
    /\ \A i \in 1..Len(s) : r[i] = s[i]
    /\ \A i \in 1..Len(t) : r[Len(s) + i] = t[i]

LEMMA Parts ==
    ASSUME NEW s \in Seq(Segment), NEW t \in Seq(Segment)
    PROVE  Joined(s \o t, s, t)
  <1>1. ASSUME NEW i \in 1..Len(t) PROVE (s \o t)[Len(s) + i] = t[i]
    <2>1. PICK n \in Nat, m \in Nat : n = Len(s) /\ m = Len(t)
      BY LenProperties
    <2>2. (s \o t)[n + i] = t[(n + i) - n]
      BY <2>1, ConcatProperties
    <2>3. (n + i) - n = i
      BY <2>1
    <2> QED
      BY <2>1, <2>2, <2>3
  <1> QED
    BY <1>1, ConcatProperties, LenProperties, LengthConcat DEF Joined

LEMMA OnePart ==
    ASSUME NEW x \in Segment
    PROVE  \E t \in Seq(Segment) : /\ t = <<x>> /\ Len(t) = 1 /\ t[1] = x
                                   /\ Length(t) = x.len
  <1>1. <<x>> \in Seq(Segment) /\ Len(<<x>>) = 1 /\ <<x>>[1] = x
    OBVIOUS
  <1> QED
    BY <1>1, LengthOne

(* The types of frames, as numbers; their values do not matter. *)
LEMMA EtherTypes == FIP_ETH_TYPE \in Nat /\ FCOE_ETH_TYPE \in Nat
  BY DEF FIP_ETH_TYPE, FCOE_ETH_TYPE

LEMMA EtherHdrUntagged ==
    ASSUME NEW type \in Nat
    PROVE  /\ EtherHdr(FALSE, type) \in Seq(Segment)
           /\ Len(EtherHdr(FALSE, type)) = 2
           /\ EtherHdr(FALSE, type)[1] = Seg("macs", 3)
           /\ EtherHdr(FALSE, type)[2] = [what |-> "type", len |-> 1, type |-> type]
           /\ Length(EtherHdr(FALSE, type)) = 4
  <1> DEFINE last == [what |-> "type", len |-> 1, type |-> type]
             macs == Seg("macs", 3)
  <1>1. EtherHdr(FALSE, type) = <<macs>> \o << >> \o <<last>>
    BY DEF EtherHdr
  <1>2. macs \in Segment /\ last \in Segment /\ macs.len = 3 /\ last.len = 1
    BY DEF Segment, Seg
  <1> HIDE DEF last, macs
  <1>3. PICK s \in Seq(Segment) :
           s = <<macs>> /\ Len(s) = 1 /\ s[1] = macs /\ Length(s) = 3
    BY <1>2, OnePart
  <1>4. PICK t \in Seq(Segment) :
           t = <<last>> /\ Len(t) = 1 /\ t[1] = last /\ Length(t) = 1
    BY <1>2, OnePart
  <1>5. s \o << >> = s
    BY <1>3, ConcatEmptySeq
  <1>6. EtherHdr(FALSE, type) = s \o t
    BY <1>1, <1>3, <1>4, <1>5
  <1>7. /\ Len(s) = 1 /\ s[1] = macs /\ Length(s) = 3
        /\ Len(t) = 1 /\ t[1] = last /\ Length(t) = 1
    BY <1>3, <1>4
  <1>8. PICK r : r = s \o t
    OBVIOUS
  <1>9. /\ r \in Seq(Segment) /\ Len(r) = 2 /\ Length(r) = 4
        /\ r[1] = s[1] /\ r[1 + 1] = t[1]
    <2>1. Joined(r, s, t)
      BY <1>8, Parts
    <2> QED
      BY <1>7, <2>1 DEF Joined
  <1>10. /\ r \in Seq(Segment) /\ Len(r) = 2 /\ Length(r) = 4
         /\ r[1] = macs /\ r[2] = last
    BY <1>7, <1>9
  <1>11. EtherHdr(FALSE, type) = r
    BY <1>6, <1>8
  <1> QED
    BY <1>10, <1>11 DEF last, macs

(* The control header and the descriptors of a message that is sent. *)
Ctrl == [what : {"ctrl"}, len : {SIZEOF_ctrl_hdr}, opcode : Nat, subcode : Nat, list : Nat]
Descriptor == [what : {"tlv"}, len : Nat, type : Nat, value : Macs \cup Names \cup {Junk}]

LEMMA CtrlIsSegment == Ctrl \subseteq Segment /\ Descriptor \subseteq Segment
  BY DEF Ctrl, Descriptor, Segment, SIZEOF_ctrl_hdr

SentOk(f) ==
    /\ f.segs \in Seq(Segment)
    /\ f.segs[3].what = "tunnel" /\ f.segs[3].length \in 0..255
    /\ Readable(f)

(* The header of a frame that goes out through the tunnel. *)
LEMMA OuterHdr ==
    ASSUME NEW tun \in Segment, tun.len = 6
    PROVE  LET O == EtherHdr(FALSE, FIP_ETH_TYPE) \o <<tun>>
           IN /\ O \in Seq(Segment) /\ Len(O) = 3 /\ Length(O) = 10
              /\ O[1] = Seg("macs", 3)
              /\ O[2] = [what |-> "type", len |-> 1, type |-> FIP_ETH_TYPE]
              /\ O[3] = tun
  <1> DEFINE macs == Seg("macs", 3)
             last == [what |-> "type", len |-> 1, type |-> FIP_ETH_TYPE]
             E == EtherHdr(FALSE, FIP_ETH_TYPE)
             O == E \o <<tun>>
  <1>1. /\ E \in Seq(Segment) /\ Len(E) = 2 /\ Length(E) = 4
        /\ E[1] = macs /\ E[2] = last
    BY EtherTypes, EtherHdrUntagged
  <1> HIDE DEF macs, last, E
  <1>2. PICK t \in Seq(Segment) :
           t = <<tun>> /\ Len(t) = 1 /\ t[1] = tun /\ Length(t) = 6
    BY OnePart
  <1>3. Len(t) = 1 /\ t[1] = tun /\ Length(t) = 6
    BY <1>2
  <1>4. O = E \o t
    BY <1>2
  <1> HIDE DEF O
  <1>5. /\ O \in Seq(Segment) /\ Len(O) = 3 /\ Length(O) = 10
        /\ O[1] = E[1] /\ O[2] = E[2] /\ O[2 + 1] = t[1]
    <2>1. Joined(O, E, t)
      BY <1>1, <1>4, Parts
    <2> QED
      BY <1>1, <1>3, <2>1 DEF Joined
  <1>6. /\ O \in Seq(Segment) /\ Len(O) = 3 /\ Length(O) = 10
        /\ O[1] = macs /\ O[2] = last /\ O[3] = tun
    BY <1>1, <1>3, <1>5
  <1> QED
    BY <1>6 DEF macs, last, E, O

LEMMA TunnelIsSegment ==
    ASSUME NEW n \in Nat, NEW external \in BOOLEAN
    PROVE  LET tun == TunnelHdr(n, external)
           IN /\ tun \in Segment /\ tun.what = "tunnel" /\ tun.len = 6
              /\ tun.length = n % 256 /\ tun.length \in 0..255
              /\ tun.external = external
              /\ n <= 255 => tun.length = n
  <1>1. n % 256 \in 0..255 /\ (n <= 255 => n % 256 = n)
    OBVIOUS
  <1> QED
    BY <1>1 DEF TunnelHdr, SIZEOF_tunnel_hdr, Segment

(* A tunnel header in front of l double words less its own six. *)
TunnelOf(tun, external, l) ==
    /\ tun \in Segment /\ tun.what = "tunnel" /\ tun.len = 6
    /\ tun.external = external /\ (l <= 255 => tun.length = l)

LEMMA TunnelHdrIs ==
    ASSUME NEW l \in Nat, NEW external \in BOOLEAN, NEW tun, tun = TunnelHdr(l, external)
    PROVE  TunnelOf(tun, external, l) /\ tun.length \in 0..255
  <1>1. l % 256 \in 0..255 /\ (l <= 255 => l % 256 = l)
    OBVIOUS
  <1>2. PICK length \in 0..255 : length = l % 256
    BY <1>1
  <1>3. tun = [what |-> "tunnel", len |-> 6, length |-> length, external |-> external]
    BY <1>2 DEF TunnelHdr, SIZEOF_tunnel_hdr
  <1>4. tun \in Segment
    BY <1>3 DEF Segment
  <1> QED
    BY <1>1, <1>2, <1>3, <1>4 DEF TunnelOf

LEMMA SendPacketOk ==
    ASSUME NEW to, NEW flags, NEW hdr \in Ctrl, NEW descriptors \in Seq(Descriptor),
           Length(descriptors) = hdr.list
    PROVE  SentOk(send_packet(to, flags, hdr, descriptors))
  <1> DEFINE last == [what |-> "type", len |-> 1, type |-> FIP_ETH_TYPE]
             macs == Seg("macs", 3)
             tun == TunnelHdr(SIZEOF_tunnel_hdr + 4 + SIZEOF_ctrl_hdr + hdr.list, FALSE)
             foot == Seg("footer", 1)
             E == EtherHdr(FALSE, FIP_ETH_TYPE)
             f == send_packet(to, flags, hdr, descriptors)
  <1>1. hdr.list \in Nat /\ hdr.len = 2 /\ hdr.what = "ctrl" /\ hdr \in Segment
    BY CtrlIsSegment DEF Ctrl, SIZEOF_ctrl_hdr
  <1>2. /\ macs \in Segment /\ last \in Segment /\ foot \in Segment
        /\ macs.len = 3 /\ last.len = 1 /\ foot.len = 1
        /\ macs.what = "macs" /\ last.what = "type" /\ foot.what = "footer"
    BY EtherTypes DEF Segment, Seg
  <1>3. /\ tun \in Segment /\ tun.len = 6 /\ tun.what = "tunnel"
        /\ tun.length \in 0..255
        /\ 12 + hdr.list <= 255 => tun.length = 12 + hdr.list
    <2>1. PICK n \in Nat : n = 12 + hdr.list
      BY <1>1
    <2>2. SIZEOF_tunnel_hdr + 4 + SIZEOF_ctrl_hdr + hdr.list = n
      BY <1>1, <2>1 DEF SIZEOF_tunnel_hdr, SIZEOF_ctrl_hdr
    <2>3. tun = TunnelHdr(n, FALSE)
      BY <2>2, Zenon
    <2> HIDE DEF tun
    <2>4. TunnelOf(tun, FALSE, n) /\ tun.length \in 0..255
      BY <2>3, TunnelHdrIs
    <2> QED
      BY <2>1, <2>4 DEF TunnelOf
  <1>4. f.segs = E \o <<tun>> \o E \o <<hdr>> \o descriptors \o <<foot>>
    BY DEF send_packet
  <1>5. /\ E \in Seq(Segment) /\ Len(E) = 2 /\ Length(E) = 4
        /\ E[1] = macs /\ E[2] = last
    BY EtherTypes, EtherHdrUntagged
  <1> HIDE DEF last, macs, tun, foot, E, f
  <1>6a. PICK O \in Seq(Segment) :
           /\ O = E \o <<tun>> /\ Len(O) = 3 /\ Length(O) = 10
           /\ O[1] = macs /\ O[2] = last /\ O[3] = tun
    BY <1>3, OuterHdr DEF E, macs, last
  <1>6. /\ Len(O) = 3 /\ Length(O) = 10
        /\ O[1] = macs /\ O[2] = last /\ O[3] = tun
    BY <1>6a
  <1>7a. PICK H \in Seq(Segment) :
           /\ H = O \o E \o <<hdr>> /\ Len(H) = 6 /\ Length(H) = 16
           /\ H[1] = macs /\ H[2] = last /\ H[3] = tun
           /\ H[4] = macs /\ H[5] = last /\ H[6] = hdr
    <2>1. PICK t \in Seq(Segment) :
             t = <<hdr>> /\ Len(t) = 1 /\ t[1] = hdr /\ Length(t) = 2
      BY <1>1, OnePart
    <2>2. Len(t) = 1 /\ t[1] = hdr /\ Length(t) = 2
      BY <2>1
    <2>3. PICK G : G = O \o E
      OBVIOUS
    <2>4. /\ G \in Seq(Segment) /\ Len(G) = 5 /\ Length(G) = 14
          /\ G[1] = O[1] /\ G[2] = O[2] /\ G[3] = O[3]
          /\ G[3 + 1] = E[1] /\ G[3 + 2] = E[2]
      <3>1. Joined(G, O, E)
        BY <1>5, <2>3, Parts
      <3> QED
        BY <1>5, <1>6, <3>1 DEF Joined
    <2>5. PICK K : K = G \o t
      OBVIOUS
    <2>6. /\ K \in Seq(Segment) /\ Len(K) = 6 /\ Length(K) = 16
          /\ K[1] = G[1] /\ K[2] = G[2] /\ K[3] = G[3] /\ K[4] = G[4] /\ K[5] = G[5]
          /\ K[5 + 1] = t[1]
      <3>1. Joined(K, G, t)
        BY <2>4, <2>5, Parts
      <3> QED
        BY <2>2, <2>4, <3>1 DEF Joined
    <2>7. /\ K[1] = macs /\ K[2] = last /\ K[3] = tun
          /\ K[4] = macs /\ K[5] = last /\ K[6] = hdr
      BY <1>5, <1>6, <2>2, <2>4, <2>6
    <2>8. K = O \o E \o <<hdr>>
      BY <2>1, <2>3, <2>5
    <2> QED
      BY <2>6, <2>7, <2>8
  <1>7. /\ Len(H) = 6 /\ Length(H) = 16
        /\ H[1] = macs /\ H[2] = last /\ H[3] = tun
        /\ H[4] = macs /\ H[5] = last /\ H[6] = hdr
    BY <1>7a
  <1>8. descriptors \in Seq(Segment)
    BY CtrlIsSegment
  <1>9. PICK d \in Nat : d = Len(descriptors)
    BY LenProperties
  <1>10a. PICK K : K = H \o descriptors
    OBVIOUS
  <1>10. /\ K \in Seq(Segment) /\ Len(K) = d + 6 /\ Length(K) = 16 + hdr.list
         /\ \A i \in 1..6 : K[i] = H[i]
         /\ \A i \in 1..d : K[6 + i] = descriptors[i]
    <2>1. PICK D \in Seq(Segment) : D = descriptors
      BY <1>8
    <2>2. Len(D) = d /\ Length(D) = hdr.list
      BY <1>9, <2>1
    <2>3. K = H \o D
      BY <1>10a, <2>1
    <2>4. Joined(K, H, D)
      BY <2>3, Parts
    <2>5. PICK l \in Nat : l = hdr.list
      BY <1>1
    <2>6. K \in Seq(Segment) /\ Len(K) = d + 6 /\ Length(K) = 16 + l
      BY <1>7, <1>9, <2>2, <2>4, <2>5 DEF Joined
    <2>7. \A i \in 1..6 : K[i] = H[i]
      BY <1>7, <2>4 DEF Joined
    <2>8. \A i \in 1..d : K[6 + i] = D[i]
      BY <1>7, <2>2, <2>4 DEF Joined
    <2> QED
      BY <2>1, <2>5, <2>6, <2>7, <2>8
  <1>12. /\ f.segs \in Seq(Segment) /\ Length(f.segs) = 17 + hdr.list
         /\ Len(f.segs) = d + 7
         /\ \A i \in 1..6 : f.segs[i] = H[i]
         /\ \A i \in 1..d : f.segs[6 + i] = descriptors[i]
         /\ f.segs[d + 7] = foot
    <2>1. PICK t \in Seq(Segment) :
             t = <<foot>> /\ Len(t) = 1 /\ t[1] = foot /\ Length(t) = 1
      BY <1>2, OnePart
    <2>2. Len(t) = 1 /\ t[1] = foot /\ Length(t) = 1
      BY <2>1
    <2>3. PICK F : F = K \o t
      OBVIOUS
    <2>3a. Joined(F, K, t)
      BY <1>10, <2>3, Parts
    <2>4. F \in Seq(Segment) /\ Len(F) = d + 7 /\ Length(F) = 17 + hdr.list
      <3>1. PICK l \in Nat : l = hdr.list
        BY <1>1
      <3>2. F \in Seq(Segment) /\ Len(F) = (d + 6) + 1 /\ Length(F) = (16 + l) + 1
        BY <1>9, <1>10, <2>2, <2>3a, <3>1 DEF Joined
      <3> QED
        BY <1>9, <3>1, <3>2
    <2>5. /\ \A i \in 1..6 : F[i] = H[i]
          /\ \A i \in 1..d : F[6 + i] = descriptors[i]
          /\ F[d + 7] = foot
      <3>1. \A i \in 1..(d + 6) : F[i] = K[i]
        BY <1>9, <1>10, <2>3a DEF Joined
      <3>2. \A i \in 1..1 : F[(d + 6) + i] = t[i]
        BY <1>9, <1>10, <2>2, <2>3a DEF Joined
      <3>3. \A i \in 1..6 : F[i] = H[i]
        <4>1. \A i \in 1..6 : i \in 1..(d + 6)
          BY <1>9
        <4> QED
          BY <1>10, <3>1, <4>1
      <3>4. \A i \in 1..d : F[6 + i] = descriptors[i]
        <4>1. \A i \in 1..d : 6 + i \in 1..(d + 6)
          BY <1>9
        <4> QED
          BY <1>10, <3>1, <4>1
      <3>5. F[d + 7] = foot
        BY <1>9, <2>2, <3>2
      <3> QED
        BY <3>3, <3>4, <3>5
    <2>6. f.segs = F
      BY <1>4, <1>6a, <1>7a, <1>10a, <2>1, <2>3
    <2> QED
      BY <2>4, <2>5, <2>6
  <1>13. f.segs[3] = tun /\ f.segs[6] = hdr
    BY <1>7, <1>12
  <1>14. \A i \in 1..6 : Start(f.segs)[i + 1] = Start(f.segs)[i] + H[i].len
    <2>1. \A i \in 1..6 : i \in 1..Len(f.segs)
      BY <1>12
    <2> QED
      BY <1>12, <2>1, StartFacts
  <1>15. Start(f.segs)[3] = 4 /\ Start(f.segs)[7] = 16
    <2>1. Start(f.segs)[1] = 0
      BY <1>12, StartFacts
    <2>2. Start(f.segs)[2] = 3
      BY <1>2, <1>7, <1>14, <2>1
    <2>3. Start(f.segs)[3] = 4
      BY <1>2, <1>7, <1>14, <2>2
    <2>4. Start(f.segs)[4] = 10
      BY <1>3, <1>7, <1>14, <2>3
    <2>5. Start(f.segs)[5] = 13
      BY <1>2, <1>7, <1>14, <2>4
    <2>6. Start(f.segs)[6] = 14
      BY <1>2, <1>7, <1>14, <2>5
    <2> QED
      BY <1>1, <1>7, <1>14, <2>3, <2>6
  <1> DEFINE Of(what) == {i \in DOMAIN f.segs : f.segs[i].what = what}
             Rest(a) == Length(SubSeq(f.segs, a, Len(f.segs))) - Cardinality(Of("footer"))
  <1>16. DOMAIN f.segs = 1..(d + 7)
    BY <1>12, LenProperties
  <1>17. ASSUME NEW i \in 1..d PROVE f.segs[6 + i].what = "tlv"
    <2>1. descriptors[i] \in Descriptor
      BY <1>9, ElementOfSeq
    <2> QED
      BY <1>12, <2>1 DEF Descriptor
  <1>18. ASSUME NEW i \in 1..(d + 7)
         PROVE  /\ f.segs[i].what = "footer" <=> i = d + 7
                /\ f.segs[i].what = "ctrl" <=> i = 6
    <2>1. CASE i \in 1..6
      <3>1. f.segs[i] = H[i]
        BY <1>12, <2>1
      <3>2. i # d + 7
        BY <2>1
      <3> QED
        BY <1>1, <1>2, <1>3, <1>7, <2>1, <3>1, <3>2
    <2>2. CASE i \in 7..(d + 6)
      <3>1. i - 6 \in 1..d /\ 6 + (i - 6) = i
        BY <2>2
      <3>2. f.segs[i].what = "tlv"
        BY <1>17, <3>1
      <3> QED
        BY <1>9, <2>2, <3>2
    <2>3. CASE i = d + 7
      BY <1>2, <1>12, <2>3
    <2> QED
      BY <2>1, <2>2, <2>3
  <1>19. Of("footer") = {d + 7} /\ Of("ctrl") = {6}
    BY <1>16, <1>18
  <1>20. Cardinality(Of("footer")) = 1
    <2> HIDE DEF Of
    <2> QED
      BY <1>19, FS_Singleton
  <1>21. Rest(3) = 12 + hdr.list /\ Rest(7) = hdr.list
    <2>1. 3 \in 1..(Len(f.segs) + 1) /\ 7 \in 1..(Len(f.segs) + 1)
      BY <1>12
    <2>2. Length(SubSeq(f.segs, 3, Len(f.segs))) = Length(f.segs) - Start(f.segs)[3]
      BY <1>12, <2>1, LengthRest
    <2>3. Length(SubSeq(f.segs, 7, Len(f.segs))) = Length(f.segs) - Start(f.segs)[7]
      BY <1>12, <2>1, LengthRest
    <2>4. PICK l \in Nat : l = hdr.list
      BY <1>1
    <2> HIDE DEF Of
    <2>5. Rest(3) = (17 + l) - 4 - 1
      BY <1>12, <1>15, <1>20, <2>2, <2>4
    <2>6. Rest(7) = (17 + l) - 16 - 1
      BY <1>12, <1>15, <1>20, <2>3, <2>4
    <2> HIDE DEF Rest
    <2> QED
      BY SMTT(30), <2>4, <2>5, <2>6
  <1>22. Readable(f)
    <2>1. Rest(3) <= 255 => f.segs[3].length = Rest(3)
      <3> HIDE DEF Rest
      <3> QED
        BY <1>3, <1>13, <1>21
    <2>2. \A i \in Of("ctrl") : f.segs[i].list = Rest(i + 1)
      <3> HIDE DEF Rest
      <3>1. \A i \in Of("ctrl") : i = 6 /\ i + 1 = 7
        BY <1>19
      <3> HIDE DEF Of
      <3> QED
        BY <1>13, <1>21, <3>1
    <2> QED
      BY <2>1, <2>2 DEF Readable
  <1> QED
    BY <1>3, <1>12, <1>13, <1>22 DEF SentOk, f

LEMMA SendFcOk ==
    ASSUME NEW external \in BOOLEAN, NEW segs \in Seq(Segment),
           \A i \in 1..Len(segs) : segs[i].what \notin {"footer", "ctrl"}
    PROVE  SentOk(send_fc_packet(external, segs))
  <1> DEFINE last == [what |-> "type", len |-> 1, type |-> FIP_ETH_TYPE]
             macs == Seg("macs", 3)
             tun == TunnelHdr(SIZEOF_tunnel_hdr + Length(segs), external)
             O == EtherHdr(FALSE, FIP_ETH_TYPE) \o <<tun>>
             f == send_fc_packet(external, segs)
             Of(what) == {i \in DOMAIN f.segs : f.segs[i].what = what}
             Rest(a) == Length(SubSeq(f.segs, a, Len(f.segs))) - Cardinality(Of("footer"))
  <1>1. PICK l \in Nat, n \in Nat : l = Length(segs) /\ n = Len(segs)
    BY LengthNat, LenProperties
  <1>2. macs.what = "macs" /\ macs.len = 3 /\ last.what = "type" /\ last.len = 1
    BY DEF Seg
  <1>3. /\ tun \in Segment /\ tun.len = 6 /\ tun.what = "tunnel"
        /\ tun.length \in 0..255
        /\ 6 + l <= 255 => tun.length = 6 + l
    <2>1. SIZEOF_tunnel_hdr + Length(segs) = 6 + l
      BY <1>1 DEF SIZEOF_tunnel_hdr
    <2>2. 6 + l \in Nat
      OBVIOUS
    <2> QED
      BY <2>1, <2>2, TunnelIsSegment
  <1>4. f.segs = O \o segs
    BY DEF send_fc_packet
  <1> HIDE DEF tun
  <1>5. /\ O \in Seq(Segment) /\ Len(O) = 3 /\ Length(O) = 10
        /\ O[1] = macs /\ O[2] = last /\ O[3] = tun
    BY <1>3, OuterHdr
  <1> HIDE DEF last, macs, O, f
  <1>6. Joined(f.segs, O, segs)
    BY <1>4, <1>5, Parts
  <1>7. /\ f.segs \in Seq(Segment) /\ Len(f.segs) = 3 + n /\ Length(f.segs) = 10 + l
        /\ DOMAIN f.segs = 1..(3 + n)
        /\ f.segs[1] = macs /\ f.segs[2] = last /\ f.segs[3] = tun
    <2>1. f.segs \in Seq(Segment) /\ Len(f.segs) = 3 + n /\ Length(f.segs) = 10 + l
      BY <1>1, <1>5, <1>6 DEF Joined
    <2>2. f.segs[1] = macs /\ f.segs[2] = last /\ f.segs[3] = tun
      BY <1>5, <1>6 DEF Joined
    <2>3. DOMAIN f.segs = 1..(3 + n)
      BY <2>1, LenProperties
    <2> QED
      BY <2>1, <2>2, <2>3
  <1>8. \A i \in 1..(3 + n) : f.segs[i].what \notin {"footer", "ctrl"}
    <2>1. \A i \in 1..n : f.segs[3 + i] = segs[i]
      BY <1>1, <1>5, <1>6 DEF Joined
    <2>2. \A i \in 4..(3 + n) : i - 3 \in 1..n /\ 3 + (i - 3) = i
      OBVIOUS
    <2>3. \A i \in 4..(3 + n) : f.segs[i] = segs[i - 3]
      BY <2>1, <2>2
    <2>4. \A i \in 4..(3 + n) : f.segs[i].what \notin {"footer", "ctrl"}
      BY <1>1, <2>2, <2>3
    <2>5. \A i \in 1..3 : f.segs[i].what \notin {"footer", "ctrl"}
      BY <1>2, <1>3, <1>7
    <2> QED
      BY <2>4, <2>5
  <1>9. Of("footer") = {} /\ Of("ctrl") = {}
    BY <1>7, <1>8
  <1>10. Cardinality(Of("footer")) = 0
    <2> HIDE DEF Of
    <2> QED
      BY <1>9, FS_EmptySet
  <1>11. Start(f.segs)[3] = 4
    <2>1. 1 \in 1..Len(f.segs) /\ 2 \in 1..Len(f.segs)
      BY <1>7
    <2>2. Start(f.segs)[1] = 0
      BY <1>7, StartFacts
    <2>3. Start(f.segs)[1 + 1] = Start(f.segs)[1] + f.segs[1].len
      BY <1>7, <2>1, StartFacts
    <2>4. Start(f.segs)[2 + 1] = Start(f.segs)[2] + f.segs[2].len
      BY <1>7, <2>1, StartFacts
    <2> QED
      BY <1>2, <1>7, <2>2, <2>3, <2>4
  <1>12. Rest(3) = 6 + l
    <2>1. 3 \in 1..(Len(f.segs) + 1)
      BY <1>7
    <2>2. Length(SubSeq(f.segs, 3, Len(f.segs))) = Length(f.segs) - Start(f.segs)[3]
      BY <1>7, <2>1, LengthRest
    <2> HIDE DEF Of
    <2>3. Rest(3) = (10 + l) - 4 - 0
      BY <1>7, <1>10, <1>11, <2>2
    <2> HIDE DEF Rest
    <2> QED
      BY <2>3
  <1>13. Readable(f)
    <2>1. Rest(3) <= 255 => f.segs[3].length = Rest(3)
      <3> HIDE DEF Rest
      <3> QED
        BY <1>3, <1>7, <1>12
    <2>2. \A i \in Of("ctrl") : f.segs[i].list = Rest(i + 1)
      <3> HIDE DEF Rest, Of
      <3> QED
        BY <1>9
    <2> QED
      BY <2>1, <2>2 DEF Readable
  <1> QED
    BY <1>3, <1>7, <1>13 DEF SentOk, f

LEMMA DescriptorType ==
    ASSUME NEW type \in Nat, NEW len \in Nat, NEW value \in Macs \cup Names \cup {Junk}
    PROVE  Tlv(type, len, value) \in Descriptor /\ Tlv(type, len, value).len = len
  BY DEF Tlv, Descriptor

(* The lengths announced in create_packet and prepare_fdisc_res are those  *)
(* of the descriptors.                                                     *)
LEMMA LengthOfTwo ==
    ASSUME NEW a \in Segment, NEW b \in Segment
    PROVE  Length(<<a, b>>) = a.len + b.len
  <1>1. PICK s \in Seq(Segment) : s = <<a, b>> /\ Len(s) = 2 /\ s[1] = a /\ s[2] = b
    <2>1. <<a, b>> \in Seq(Segment)
      OBVIOUS
    <2>2. Len(<<a, b>>) = 2 /\ <<a, b>>[1] = a /\ <<a, b>>[2] = b
      OBVIOUS
    <2> QED
      BY <2>1, <2>2
  <1>2. Len(s) = 2 /\ s[1] = a /\ s[2] = b
    BY <1>1
  <1>3. \A i \in 1..Len(s) : Start(s)[i + 1] = Start(s)[i] + s[i].len
    BY StartFacts
  <1>4. Start(s)[1] = 0
    BY StartFacts
  <1>5. a.len \in Nat /\ b.len \in Nat
    BY SegmentFacts
  <1>6. Start(s)[1 + 1] = 0 + a.len
    BY <1>2, <1>3, <1>4
  <1>7. Start(s)[2 + 1] = (0 + a.len) + b.len
    BY <1>2, <1>3, <1>6
  <1>8. Length(s) = a.len + b.len
    BY <1>2, <1>5, <1>7 DEF Length
  <1> QED
    BY <1>1, <1>8

LEMMA LengthOfFive ==
    ASSUME NEW a \in Segment, NEW b \in Segment, NEW c \in Segment,
           NEW d \in Segment, NEW e \in Segment
    PROVE  Length(<<a, b, c, d, e>>) = a.len + b.len + c.len + d.len + e.len
  <1>1. PICK s \in Seq(Segment) : /\ s = <<a, b, c, d, e>> /\ Len(s) = 5
                                  /\ s[1] = a /\ s[2] = b /\ s[3] = c /\ s[4] = d /\ s[5] = e
    <2> DEFINE t == <<a, b, c, d, e>>
    <2>1. t \in Seq(Segment)
      OBVIOUS
    <2>2. Len(t) = 5 /\ t[1] = a /\ t[2] = b /\ t[3] = c /\ t[4] = d /\ t[5] = e
      OBVIOUS
    <2> HIDE DEF t
    <2>3. \E s \in Seq(Segment) : /\ s = t /\ Len(s) = 5
                                  /\ s[1] = a /\ s[2] = b /\ s[3] = c /\ s[4] = d /\ s[5] = e
      BY <2>1, <2>2
    <2> QED
      BY <2>3 DEF t
  <1>2. Len(s) = 5 /\ s[1] = a /\ s[2] = b /\ s[3] = c /\ s[4] = d /\ s[5] = e
    BY <1>1
  <1>3. \A i \in 1..Len(s) : Start(s)[i + 1] = Start(s)[i] + s[i].len
    BY StartFacts
  <1>4. Start(s)[1] = 0
    BY StartFacts
  <1>5. a.len \in Nat /\ b.len \in Nat /\ c.len \in Nat /\ d.len \in Nat /\ e.len \in Nat
    BY SegmentFacts
  <1>6. Start(s)[2 + 1] = 0 + a.len + b.len
    BY <1>2, <1>3, <1>4
  <1>7. Start(s)[4 + 1] = 0 + a.len + b.len + c.len + d.len
    BY <1>2, <1>3, <1>6
  <1>8. Start(s)[5 + 1] = 0 + a.len + b.len + c.len + d.len + e.len
    BY <1>2, <1>3, <1>7
  <1>9. Length(s) = a.len + b.len + c.len + d.len + e.len
    BY <1>2, <1>5, <1>8 DEF Length
  <1> QED
    BY <1>1, <1>9

LEMMA CreatePacketOk ==
    ASSUME NEW op, NEW to
    PROVE  SentOk(create_packet(op, to))
  <1> DEFINE flags == {"FP", "SP", "F"} \cup (IF to = Multicast THEN {}
                                              ELSE IF op = 1 THEN {"A", "S"} ELSE {"S"})
  <1>1. PICK a \in Descriptor, b \in Descriptor, c \in Descriptor,
             d \in Descriptor, e \in Descriptor :
           /\ fcoe_vHBA_advertisement = <<a, b, c, d, e>>
           /\ a.len = 1 /\ b.len = 2 /\ c.len = 3 /\ d.len = 4 /\ e.len = 2
    BY DescriptorType DEF fcoe_vHBA_advertisement
  <1>2. fcoe_vHBA_advertisement \in Seq(Descriptor)
    BY <1>1
  <1>3. Length(fcoe_vHBA_advertisement) = 12
    <2>1. /\ a \in Segment /\ b \in Segment /\ c \in Segment
          /\ d \in Segment /\ e \in Segment
      BY CtrlIsSegment
    <2>2. Length(<<a, b, c, d, e>>) = a.len + b.len + c.len + d.len + e.len
      BY <2>1, LengthOfFive
    <2> QED
      BY <1>1, <2>2
  <1>4. CtrlHdr(1, 2, 12) \in Ctrl /\ CtrlHdr(1, 2, 12).list = 12
    BY DEF CtrlHdr, Ctrl
  <1>5. SentOk(send_packet(to, flags, CtrlHdr(1, 2, 12), fcoe_vHBA_advertisement))
    BY <1>2, <1>3, <1>4, SendPacketOk
  <1> QED
    BY <1>5 DEF create_packet

LEMMA FdiscOk ==
    ASSUME NEW n \in Nat, n >= 2
    PROVE  SentOk(prepare_fdisc_res(n))
  <1>1. /\ Tlv(7, n - 2, Junk) \in Descriptor /\ Tlv(7, n - 2, Junk).len = n - 2
        /\ Tlv(2, 2, Junk) \in Descriptor /\ Tlv(2, 2, Junk).len = 2
    BY DescriptorType
  <1>2. PICK a \in Descriptor, b \in Descriptor :
           a = Tlv(7, n - 2, Junk) /\ b = Tlv(2, 2, Junk) /\ a.len = n - 2 /\ b.len = 2
    BY <1>1
  <1>3. <<a, b>> \in Seq(Descriptor)
    OBVIOUS
  <1>4. Length(<<a, b>>) = n
    <2>1. a \in Segment /\ b \in Segment
      BY CtrlIsSegment
    <2>2. Length(<<a, b>>) = a.len + b.len
      BY <2>1, LengthOfTwo
    <2> QED
      BY <1>2, <2>2
  <1>5. CtrlHdr(2, 2, n) \in Ctrl /\ CtrlHdr(2, 2, n).list = n
    BY DEF CtrlHdr, Ctrl
  <1>6. SentOk(send_packet("host", {"F"}, CtrlHdr(2, 2, n), <<a, b>>))
    BY <1>3, <1>4, <1>5, SendPacketOk
  <1> QED
    BY <1>2, <1>6 DEF prepare_fdisc_res

-----------------------------------------------------------------------------
(* The position is inside the frame, and what is sent is well-formed.      *)

Labels == {"get", "eth", "tunnel", "fc", "inner", "els", "ctrl", "decide", "out"}

Basic ==
    /\ pc \in Labels
    /\ frame.segs \in Seq(Segment) /\ frame.size \in 0..MAX_PK_LEN
    /\ PositionInside
    /\ pc = "get" => pos = 0
    /\ tunnel.length \in 0..255
    /\ \A f \in sent : SentOk(f)

LEMMA NoTunnelLength == NoTunnel.length = 0
  BY DEF NoTunnel, TunnelHdr

LEMMA BasicInit == Init => Basic
  <1> SUFFICES ASSUME Init PROVE Basic
    OBVIOUS
  <1>1. frame.segs = << >> /\ frame.size = 0
    BY DEF Init, NoFrame, Frame
  <1>2. tunnel.length = 0
    BY NoTunnelLength DEF Init
  <1> QED
    BY <1>1, <1>2 DEF Init, Basic, Labels, PositionInside, MAX_PK_LEN

LEMMA RemainingIs ==
    ASSUME Basic
    PROVE  Remaining = frame.size - pos /\ frame.size \in Nat /\ pos \in Nat /\ pos <= frame.size
  <1>1. PICK n \in 0..375 : n = frame.size
    BY DEF Basic, MAX_PK_LEN
  <1>2. PICK p \in 0..n : p = pos
    BY <1>1 DEF Basic, PositionInside
  <1>3. n - p \in 0..375 /\ n \in Nat /\ p \in Nat /\ p <= n
    OBVIOUS
  <1>4. (n - p) % (2^30) = n - p
    <2>1. 2^30 \in Nat /\ 375 < 2^30
      OBVIOUS
    <2>2. PICK m \in Nat : m = 2^30 /\ 375 < m
      BY <2>1
    <2>3. (n - p) % m = n - p
      BY <1>3, <2>2
    <2> QED
      BY <2>2, <2>3
  <1> QED
    BY <1>1, <1>2, <1>3, <1>4 DEF Remaining

LEMMA OutKeeps ==
    ASSUME Basic, NEW result, NEW frames, Out(result, frames),
           \A f \in frames : SentOk(f)
    PROVE  Basic'
  BY DEF Basic, Out, Labels, PositionInside

LEMMA IgnoreKeeps ==
    ASSUME Basic, Ignore
    PROVE  Basic'
  <1>1. Out(Result("ignored", << >>), {})
    BY DEF Ignore
  <1> QED
    BY <1>1, OutKeeps

LEMMA AdvanceKeeps ==
    ASSUME Basic, UNCHANGED <<frame, sent>>, pc' \in Labels \ {"get"},
           pos' \in Nat, pos' <= frame.size, tunnel'.length \in 0..255
    PROVE  Basic'
  BY DEF Basic, PositionInside, Labels

LEMMA EthHdrSize ==
    ASSUME Basic
    PROVE  /\ read_eth_hdr = pos + (IF TagInFrame THEN 5 ELSE 4)
           /\ read_eth_hdr \in Nat /\ read_eth_hdr <= pos + 5
  BY RemainingIs DEF read_eth_hdr, SIZEOF_eth_hdr

LEMMA ReadEthKeeps ==
    ASSUME Basic, ReadEth
    PROVE  Basic'
  <1>1. CASE Ignore
    BY <1>1, IgnoreKeeps
  <1>2. CASE Remaining >= SIZEOF_eth_hdr /\ EthRead
    <2>1. frame.size - pos >= 5
      BY <1>2, RemainingIs DEF SIZEOF_eth_hdr
    <2>2. /\ pos' = read_eth_hdr /\ pc' = "tunnel"
          /\ UNCHANGED <<frame, sent>> /\ tunnel' = tunnel
      BY <1>2 DEF EthRead
    <2>3. pos' \in Nat /\ pos' <= frame.size
      BY <2>1, <2>2, EthHdrSize, RemainingIs
    <2>4. tunnel'.length \in 0..255
      BY <2>2 DEF Basic
    <2> QED
      BY <2>2, <2>3, <2>4, AdvanceKeeps DEF Labels
  <1> QED
    BY <1>1, <1>2 DEF ReadEth

LEMMA FoundFacts ==
    ASSUME Basic, NEW what, NEW p, Is(frame, what, p)
    PROVE  At(frame, what, p) \in Segment /\ At(frame, what, p).what = what
  <1>1. PICK i \in Found(frame, what, p) : At(frame, what, p) = frame.segs[i]
    BY DEF Is, At
  <1>2. i \in DOMAIN frame.segs /\ frame.segs[i].what = what
    BY <1>1 DEF Found
  <1>3. frame.segs[i] \in Segment
    BY <1>2, LenProperties, ElementOfSeq DEF Basic
  <1> QED
    BY <1>1, <1>2, <1>3

LEMMA ReadTunnelKeeps ==
    ASSUME Basic, ReadTunnel
    PROVE  Basic'
  <1>1. CASE Ignore
    BY <1>1, IgnoreKeeps
  <1>2. CASE /\ Remaining >= SIZEOF_tunnel_hdr
             /\ Is(frame, "tunnel", pos)
             /\ tunnel' = At(frame, "tunnel", pos)
             /\ pos' = pos + SIZEOF_tunnel_hdr
             /\ pc' = (IF tunnel'.external THEN "fc" ELSE "inner")
             /\ UNCHANGED <<frame, sent>>
    <2>1. tunnel'.length \in 0..255
      <3>1. tunnel' \in Segment /\ tunnel'.what = "tunnel"
        BY <1>2, FoundFacts
      <3> QED
        BY <3>1 DEF Segment
    <2>2. pos' \in Nat /\ pos' <= frame.size
      BY <1>2, RemainingIs DEF SIZEOF_tunnel_hdr
    <2>3. pc' \in Labels \ {"get"}
      BY <1>2 DEF Labels
    <2> QED
      BY <1>2, <2>1, <2>2, <2>3, AdvanceKeeps
  <1> QED
    BY <1>1, <1>2 DEF ReadTunnel

LEMMA ReadInnerKeeps ==
    ASSUME Basic, ReadInner
    PROVE  Basic'
  <1>1. CASE Ignore
    BY <1>1, IgnoreKeeps
  <1>2. CASE /\ Remaining >= SIZEOF_eth_hdr
             /\ pos' = read_eth_hdr
             /\ pc' = (IF ether_type' = FCOE_ETH_TYPE THEN "els" ELSE "ctrl")
             /\ UNCHANGED <<frame, tunnel, sent>>
    <2>1. frame.size - pos >= 5
      BY <1>2, RemainingIs DEF SIZEOF_eth_hdr
    <2>2. pos' \in Nat /\ pos' <= frame.size
      BY <1>2, <2>1, EthHdrSize, RemainingIs
    <2>3. pc' \in Labels \ {"get"}
      BY <1>2 DEF Labels
    <2>4. tunnel'.length \in 0..255
      BY <1>2 DEF Basic
    <2> QED
      BY <1>2, <2>2, <2>3, <2>4, AdvanceKeeps
  <1> QED
    BY <1>1, <1>2 DEF ReadInner

LEMMA ReadCtrlKeeps ==
    ASSUME Basic, ReadCtrl
    PROVE  Basic'
  <1>1. CASE Ignore
    BY <1>1, IgnoreKeeps
  <1>2. CASE /\ Remaining >= SIZEOF_ctrl_hdr
             /\ \E hdr \in CtrlHdrs : CtrlRead(hdr)
    <2>1. /\ pos' = pos + SIZEOF_ctrl_hdr /\ pc' = "decide"
          /\ UNCHANGED <<frame, tunnel, sent>>
      BY <1>2 DEF CtrlRead
    <2>2. pos' \in Nat /\ pos' <= frame.size
      BY <1>2, <2>1, RemainingIs DEF SIZEOF_ctrl_hdr
    <2>3. tunnel'.length \in 0..255
      BY <2>1 DEF Basic
    <2> QED
      BY <2>1, <2>2, <2>3, AdvanceKeeps DEF Labels
  <1> QED
    BY <1>1, <1>2 DEF ReadCtrl

LEMMA FcSent ==
    ASSUME NEW external \in BOOLEAN, NEW len \in Nat
    PROVE  SentOk(send_fc_packet(external, <<Fc(len)>>))
  <1>1. Fc(len) \in Segment /\ Fc(len).what = "fc"
    BY DEF Fc, Seg, Segment
  <1>2. PICK s \in Seq(Segment) : s = <<Fc(len)>> /\ Len(s) = 1 /\ s[1] = Fc(len)
    BY <1>1, OnePart
  <1>3. \A i \in 1..Len(s) : s[i].what \notin {"footer", "ctrl"}
    BY <1>1, <1>2
  <1>4. SentOk(send_fc_packet(external, s))
    BY <1>3, SendFcOk
  <1> QED
    BY <1>2, <1>4

LEMMA DecideKeeps ==
    ASSUME Basic, decide_packet
    PROVE  Basic'
  <1>1. CASE Solicitation
    <2>1. PICK values : Out(Result("solicitation", values), {})
      BY <1>1 DEF Solicitation, Handle
    <2> QED
      BY <2>1, OutKeeps
  <1>2. CASE BridgeDiscovery
    <2>1. Out(Result("announce", << >>), {create_packet(1, Multicast)})
      BY <1>2 DEF BridgeDiscovery, Handle
    <2> QED
      BY <2>1, OutKeeps, CreatePacketOk
  <1>3. CASE Login
    <2>1. Out(Result("login", << >>), {send_fc_packet(TRUE, <<Fc(FLOGI_SIZE)>>)})
      BY <1>3 DEF Login, Handle
    <2>2. SentOk(send_fc_packet(TRUE, <<Fc(FLOGI_SIZE)>>))
      BY FcSent DEF FLOGI_SIZE
    <2> QED
      BY <2>1, <2>2, OutKeeps
  <1>4. CASE KeepAlive
    <2>1. PICK values, to : Out(Result("keep_alive", values), {create_packet(3, to)})
      BY <1>4 DEF KeepAlive, Handle
    <2> QED
      BY <2>1, OutKeeps, CreatePacketOk
  <1>5. CASE ClearLink
    <2>1. PICK values : Out(Result("clear_link", values), {})
      BY <1>5 DEF ClearLink, Handle
    <2> QED
      BY <2>1, OutKeeps
  <1>6. CASE OtherOpcode
    <2>1. Out(Result("none", << >>), {})
      BY <1>6 DEF OtherOpcode, Handle
    <2> QED
      BY <2>1, OutKeeps
  <1> QED
    BY <1>1, <1>2, <1>3, <1>4, <1>5, <1>6 DEF decide_packet

LEMMA FcPkLenNat ==
    ASSUME tunnel.length \in 0..255
    PROVE  fc_pk_len \in Nat
  <1>1. PICK l \in 0..255 : l = tunnel.length
    OBVIOUS
  <1>2. 2^30 \in Nat /\ 0 < 2^30
    OBVIOUS
  <1>3. PICK m \in Nat : m = 2^30 /\ 0 < m
    BY <1>2
  <1>4. (l - 6 - 4) % m \in Nat
    BY <1>3
  <1> QED
    BY <1>1, <1>3, <1>4 DEF fc_pk_len, SIZEOF_tunnel_hdr

LEMMA ForwardKeeps ==
    ASSUME Basic, NEW handler, NEW values, NEW sending, SentOk(sending),
           Forward(handler, values, sending)
    PROVE  Basic'
  <1>1. PICK result, frames : Out(result, frames) /\ frames \subseteq {sending}
    BY DEF Forward
  <1> QED
    BY <1>1, OutKeeps

LEMMA ElsReqKeeps ==
    ASSUME Basic, process_fc_els_req
    PROVE  Basic'
  <1>1. Forward("els_req", <<fc_pk_len>>, send_fc_packet(TRUE, <<Fc(fc_pk_len)>>))
    BY DEF process_fc_els_req
  <1>2. fc_pk_len \in Nat
    BY FcPkLenNat DEF Basic
  <1> QED
    BY <1>1, <1>2, FcSent, ForwardKeeps

LEMMA ElsResSent ==
    ASSUME NEW a \in Nat, NEW len \in Nat, NEW b \in Nat
    PROVE  SentOk(send_fc_packet(FALSE, <<Seg("fcoe", a), Fc(len), Seg("crc", b)>>))
  <1> DEFINE x == Seg("fcoe", a)
             y == Fc(len)
             z == Seg("crc", b)
             t == <<x, y, z>>
  <1>1. /\ x \in Segment /\ y \in Segment /\ z \in Segment
        /\ x.what = "fcoe" /\ y.what = "fc" /\ z.what = "crc"
    BY DEF Fc, Seg, Segment
  <1> HIDE DEF x, y, z
  <1>2. t \in Seq(Segment)
    BY <1>1
  <1>3. Len(t) = 3 /\ t[1] = x /\ t[2] = y /\ t[3] = z
    OBVIOUS
  <1> HIDE DEF t
  <1>4. \A i \in 1..Len(t) : t[i].what \notin {"footer", "ctrl"}
    BY <1>1, <1>3
  <1>5. SentOk(send_fc_packet(FALSE, t))
    BY <1>2, <1>4, SendFcOk
  <1> QED
    BY <1>5 DEF t, x, y, z

LEMMA ElsResKeeps ==
    ASSUME Basic, NEW len \in Nat, process_fc_els_res(len)
    PROVE  Basic'
  <1>1. CASE g_fcoe_t11 = 1
    BY <1>1, ElsResSent, ForwardKeeps DEF process_fc_els_res
  <1>2. CASE g_fcoe_t11 # 1
    BY <1>2, ElsResSent, ForwardKeeps DEF process_fc_els_res
  <1> QED
    BY <1>1, <1>2

LEMMA ResponseKeeps ==
    ASSUME Basic, process_fc_response
    PROVE  Basic'
  <1> DEFINE ret_pos == IF Remaining >= SIZEOF_fc_hdr THEN pos + SIZEOF_fc_hdr ELSE pos
  <1>1. SIZEOF_fc_hdr + frame.size - ret_pos \in Nat
    <2>1. PICK n \in Nat, p \in Nat : n = frame.size /\ p = pos /\ p <= n /\ Remaining = n - p
      BY RemainingIs
    <2>2. ret_pos = (IF n - p >= 6 THEN p + 6 ELSE p)
      BY <2>1 DEF SIZEOF_fc_hdr
    <2> QED
      BY <2>1, <2>2 DEF SIZEOF_fc_hdr
  <1>2. \/ Out(Result("reject_els", << >>), {send_fc_packet(TRUE, <<Fc(8)>>)})
        \/ process_fc_els_res(SIZEOF_fc_hdr + frame.size - ret_pos)
        \/ Out(Result("vfm_response", << >>), {})
        \/ Out(Result("fdisc_acc", << >>), {prepare_fdisc_res(38)})
        \/ Out(Result("fdisc_rjt", << >>), {prepare_fdisc_res(11)})
    BY DEF process_fc_response
  <1> HIDE DEF ret_pos
  <1>3. CASE Out(Result("reject_els", << >>), {send_fc_packet(TRUE, <<Fc(8)>>)})
    BY <1>3, FcSent, OutKeeps
  <1>4. CASE process_fc_els_res(SIZEOF_fc_hdr + frame.size - ret_pos)
    BY <1>1, <1>4, ElsResKeeps
  <1>5. CASE Out(Result("vfm_response", << >>), {})
    BY <1>5, OutKeeps
  <1>6. CASE Out(Result("fdisc_acc", << >>), {prepare_fdisc_res(38)})
    BY <1>6, FdiscOk, OutKeeps
  <1>7. CASE Out(Result("fdisc_rjt", << >>), {prepare_fdisc_res(11)})
    BY <1>7, FdiscOk, OutKeeps
  <1> QED
    BY <1>2, <1>3, <1>4, <1>5, <1>6, <1>7

LEMMA FreeKeeps ==
    ASSUME Basic, Free
    PROVE  Basic'
  <1>1. frame'.segs = << >> /\ frame'.size = 0 /\ pos' = 0 /\ pc' = "get" /\ sent' = {}
    BY DEF Free, NoFrame, Frame
  <1>2. tunnel'.length = 0
    BY NoTunnelLength DEF Free
  <1> QED
    BY <1>1, <1>2 DEF Basic, Labels, PositionInside, MAX_PK_LEN

LEMMA ArriveKeeps ==
    ASSUME Basic, Arrive
    PROVE  Basic'
  <1>1. PICK segs \in Seq(Segment), cut \in 0..MAX_PK_LEN : Receive(segs, cut)
    BY ArriveFacts
  <1>2. /\ frame'.segs = segs /\ frame'.size = cut /\ pos' = pos /\ pos = 0
        /\ pc' = "eth" /\ tunnel' = tunnel /\ sent' = sent
    BY <1>1 DEF Receive, Frame, Basic
  <1>3. PositionInside'
    BY <1>2 DEF PositionInside, MAX_PK_LEN
  <1> QED
    BY <1>1, <1>2, <1>3 DEF Basic, Labels

LEMMA BasicStep == Basic /\ [Next]_vars => Basic'
  <1> SUFFICES ASSUME Basic, [Next]_vars PROVE Basic'
    OBVIOUS
  <1>1. CASE UNCHANGED vars
    BY <1>1 DEF vars, Basic, PositionInside
  <1>2. CASE Arrive
    BY <1>2, ArriveKeeps
  <1>3. CASE process_packet
    BY <1>3, ReadEthKeeps, ReadTunnelKeeps, ReadInnerKeeps, ReadCtrlKeeps,
       DecideKeeps, ElsReqKeeps, ResponseKeeps, FreeKeeps DEF process_packet
  <1> QED
    BY <1>1, <1>2, <1>3 DEF Next

LEMMA BasicInvariance == Spec => []Basic
  BY BasicInit, BasicStep, PTL DEF Spec

(* The position never leaves the frame, so the unsigned difference every   *)
(* test of process_packet makes is what is left of it.                     *)
THEOREM PositionStaysInside == Spec => []PositionInside
  <1>1. Basic => PositionInside
    BY DEF Basic
  <1> QED
    BY <1>1, BasicInvariance, PTL

(* Every frame that is sent, of create_packet, prepare_fdisc_res or        *)
(* send_fc_packet, announces the lengths it has.                           *)
THEOREM SentFramesReadable == Spec => []SentReadable
  <1>1. Basic => SentReadable
    BY DEF Basic, SentOk, SentReadable
  <1> QED
    BY <1>1, BasicInvariance, PTL

-----------------------------------------------------------------------------
(* The frames of the bridge: what is where in them. *)

(* Segments, and double words, of an Ethernet header. *)
Hdr(t) == IF t THEN 3 ELSE 2

(* An Ethernet header from the segment after k on. *)
EthAt(segs, k, t, type) ==
    /\ segs[k + 1] = Seg("macs", 3)
    /\ t => segs[k + 2] = Seg("vlan", 1)
    /\ segs[k + Hdr(t)] = [what |-> "type", len |-> 1, type |-> type]

LEMMA EtherHdrParts ==
    ASSUME NEW t \in BOOLEAN, NEW type \in Nat
    PROVE  LET E == EtherHdr(t, type)
           IN /\ E \in Seq(Segment) /\ Len(E) = Hdr(t) /\ Length(E) = Hdr(t) + 2
              /\ EthAt(E, 0, t, type)
  <1>1. CASE t = FALSE
    <2>1. PICK E : E = EtherHdr(FALSE, type)
      OBVIOUS
    <2>2. /\ E \in Seq(Segment) /\ Len(E) = 2 /\ Length(E) = 4
          /\ E[1] = Seg("macs", 3) /\ E[2] = [what |-> "type", len |-> 1, type |-> type]
      BY <2>1, EtherHdrUntagged
    <2>3. Hdr(t) = 2 /\ 0 + Hdr(t) = 2 /\ 0 + 1 = 1
      BY <1>1 DEF Hdr
    <2>4. EthAt(E, 0, t, type)
      BY <1>1, <2>2, <2>3 DEF EthAt
    <2>5. EtherHdr(t, type) = E
      BY <1>1, <2>1, Zenon
    <2>6. /\ E \in Seq(Segment) /\ Len(E) = Hdr(t) /\ Length(E) = Hdr(t) + 2
          /\ EthAt(E, 0, t, type)
      BY <2>2, <2>3, <2>4
    <2> QED
      BY <2>5, <2>6, Zenon
  <1>2. CASE t = TRUE
    <2> DEFINE E == EtherHdr(TRUE, type)
               last == [what |-> "type", len |-> 1, type |-> type]
               macs == Seg("macs", 3)
               vlan == Seg("vlan", 1)
    <2>1. E = (<<macs>> \o <<vlan>>) \o <<last>>
      BY DEF EtherHdr
    <2>2. /\ macs \in Segment /\ vlan \in Segment /\ last \in Segment
          /\ macs.len = 3 /\ vlan.len = 1 /\ last.len = 1
      BY DEF Segment, Seg
    <2> HIDE DEF E, last, macs, vlan
    <2>3. PICK a \in Seq(Segment) : a = <<macs>> /\ Len(a) = 1 /\ a[1] = macs /\ Length(a) = 3
      BY <2>2, OnePart
    <2>4. PICK b \in Seq(Segment) : b = <<vlan>> /\ Len(b) = 1 /\ b[1] = vlan /\ Length(b) = 1
      BY <2>2, OnePart
    <2>5. PICK c \in Seq(Segment) : c = <<last>> /\ Len(c) = 1 /\ c[1] = last /\ Length(c) = 1
      BY <2>2, OnePart
    <2>6. /\ Len(a) = 1 /\ a[1] = macs /\ Length(a) = 3
          /\ Len(b) = 1 /\ b[1] = vlan /\ Length(b) = 1
          /\ Len(c) = 1 /\ c[1] = last /\ Length(c) = 1
      BY <2>3, <2>4, <2>5
    <2>7. PICK d : d = a \o b
      OBVIOUS
    <2>8. Joined(d, a, b)
      BY <2>7, Parts
    <2>9. d \in Seq(Segment) /\ Len(d) = 2 /\ d[1] = macs /\ d[2] = vlan /\ Length(d) = 4
      BY <2>6, <2>8 DEF Joined
    <2>10. E = d \o c
      BY <2>1, <2>3, <2>4, <2>5, <2>7
    <2>11. Joined(E, d, c)
      BY <2>9, <2>10, Parts
    <2>12. /\ E \in Seq(Segment) /\ Len(E) = 3 /\ Length(E) = 5
           /\ E[1] = macs /\ E[2] = vlan /\ E[3] = last
      BY <2>6, <2>9, <2>11 DEF Joined
    <2>13. Hdr(t) = 3 /\ 0 + Hdr(t) = 3 /\ 0 + 1 = 1 /\ 0 + 2 = 2
      BY <1>2 DEF Hdr
    <2>14. EthAt(E, 0, t, type)
      BY <2>12, <2>13 DEF EthAt, last, macs, vlan
    <2>15. EtherHdr(t, type) = E
      BY <1>2, Zenon DEF E
    <2>16. /\ E \in Seq(Segment) /\ Len(E) = Hdr(t) /\ Length(E) = Hdr(t) + 2
           /\ EthAt(E, 0, t, type)
      BY <2>12, <2>13, <2>14
    <2> QED
      BY <2>15, <2>16, Zenon
  <1> QED
    BY <1>1, <1>2

(* Where the parts of a frame start, and end. *)
Behind(r, s, t, n, m) ==
    /\ r \in Seq(Segment) /\ Len(r) = n + m /\ Length(r) = Length(s) + Length(t)
    /\ \A i \in 1..n : r[i] = s[i]
    /\ \A i \in 1..m : r[n + i] = t[i]
    /\ \A i \in 1..(n + 1) : Start(r)[i] = Start(s)[i]
    /\ \A i \in 1..(m + 1) : Start(r)[n + i] = Length(s) + Start(t)[i]

LEMMA PartsBehind ==
    ASSUME NEW s \in Seq(Segment), NEW t \in Seq(Segment),
           NEW n \in Nat, Len(s) = n, NEW m \in Nat, Len(t) = m
    PROVE  Behind(s \o t, s, t, n, m)
  <1>0. PICK r : r = s \o t
    OBVIOUS
  <1>1. Joined(r, s, t)
    BY <1>0, Parts
  <1>2. /\ r \in Seq(Segment) /\ Len(r) = n + m /\ Length(r) = Length(s) + Length(t)
        /\ \A i \in 1..n : r[i] = s[i]
        /\ \A i \in 1..m : r[n + i] = t[i]
    BY <1>1 DEF Joined
  <1>3. ASSUME NEW i \in 1..(n + 1) PROVE Start(r)[i] = Start(s)[i]
    <2>1. i - 1 \in 0..Len(s) /\ (i - 1) + 1 = i
      OBVIOUS
    <2>2. Start(s \o t)[(i - 1) + 1] = Start(s)[(i - 1) + 1]
      BY <2>1, StartPrefix
    <2> QED
      BY <1>0, <2>1, <2>2
  <1>4. ASSUME NEW i \in 1..(m + 1) PROVE Start(r)[n + i] = Length(s) + Start(t)[i]
    <2>1. i - 1 \in 0..Len(t) /\ (i - 1) + 1 = i /\ n + (i - 1) + 1 = n + i
      OBVIOUS
    <2>2. Start(s \o t)[Len(s) + (i - 1) + 1] = Length(s) + Start(t)[(i - 1) + 1]
      BY <2>1, StartSuffix
    <2> QED
      BY <1>0, <2>1, <2>2
  <1> QED
    BY <1>0, <1>2, <1>3, <1>4 DEF Behind

(* An Ethernet header, one segment that has the length len, and the rest.  *)
HeaderShape(segs, t, type, x, len, rest) ==
    LET h == Hdr(t)
    IN /\ segs \in Seq(Segment)
       /\ Len(segs) = h + 1 + Len(rest) /\ Length(segs) = h + 2 + len + Length(rest)
       /\ EthAt(segs, 0, t, type)
       /\ segs[h + 1] = x
       /\ Start(segs)[1] = 0 /\ Start(segs)[2] = 3
       /\ Start(segs)[h] = h + 1 /\ Start(segs)[h + 1] = h + 2
       /\ \A i \in 1..Len(rest) : segs[h + 1 + i] = rest[i]
       /\ \A i \in 1..(Len(rest) + 1) : Start(segs)[h + 1 + i] = h + 2 + len + Start(rest)[i]

LEMMA HeaderParts ==
    ASSUME NEW t \in BOOLEAN, NEW type \in Nat, NEW x \in Segment,
           NEW rest \in Seq(Segment), NEW len \in Nat, x.len = len
    PROVE  HeaderShape(EtherHdr(t, type) \o (<<x>> \o rest), t, type, x, len, rest)
  <1> DEFINE E == EtherHdr(t, type)
             segs == E \o (<<x>> \o rest)
  <1>1. PICK h \in {2, 3} : h = Hdr(t)
    BY DEF Hdr
  <1>2. /\ E \in Seq(Segment) /\ Len(E) = h /\ Length(E) = h + 2
        /\ EthAt(E, 0, t, type)
    BY <1>1, EtherHdrParts
  <1>3. PICK m \in Nat, l \in Nat : m = Len(rest) /\ l = Length(rest)
    BY LenProperties, LengthNat
  <1> HIDE DEF E
  <1>6. PICK a \in Seq(Segment) : a = <<x>> /\ Len(a) = 1 /\ a[1] = x /\ Length(a) = len
    BY OnePart
  <1>7. PICK b : b = a \o rest
    OBVIOUS
  <1>8. Len(a) = 1 /\ a[1] = x /\ Length(a) = len
    BY <1>6
  <1>9. Behind(b, a, rest, 1, m)
    BY <1>3, <1>7, <1>8, PartsBehind
  <1>9a. /\ b \in Seq(Segment) /\ Len(b) = 1 + m /\ Length(b) = len + l
         /\ b[1] = x
         /\ \A i \in 1..m : b[1 + i] = rest[i]
         /\ \A i \in 1..(m + 1) : Start(b)[1 + i] = len + Start(rest)[i]
    BY <1>3, <1>8, <1>9 DEF Behind
  <1>10. segs = E \o b
    BY <1>6, <1>7
  <1> HIDE DEF segs
  <1>11. Behind(segs, E, b, h, 1 + m)
    <2>1. h \in Nat /\ 1 + m \in Nat
      BY <1>1
    <2> QED
      BY <1>2, <1>9a, <1>10, <2>1, PartsBehind
  <1>11a. /\ segs \in Seq(Segment) /\ Len(segs) = h + (1 + m)
          /\ Length(segs) = (h + 2) + (len + l)
          /\ \A i \in 1..h : segs[i] = E[i]
          /\ \A i \in 1..(1 + m) : segs[h + i] = b[i]
          /\ \A i \in 1..((1 + m) + 1) : Start(segs)[h + i] = (h + 2) + Start(b)[i]
    BY <1>2, <1>9a, <1>11 DEF Behind
  <1>12. Len(segs) = h + 1 + m /\ Length(segs) = h + 2 + len + l
    BY SMTT(30), <1>1, <1>11a
  <1>13. EthAt(segs, 0, t, type)
    <2>1. segs[1] = E[1] /\ segs[2] = E[2] /\ segs[h] = E[h]
      <3>1. 1 \in 1..h /\ 2 \in 1..h /\ h \in 1..h
        BY <1>1
      <3>2. \A i \in 1..h : segs[i] = E[i]
        BY <1>11a
      <3> QED
        BY <3>1, <3>2
    <2>2. 0 + Hdr(t) = h /\ 0 + 1 = 1 /\ 0 + 2 = 2
      BY <1>1
    <2> QED
      BY <1>2, <2>1, <2>2 DEF EthAt
  <1>14. segs[h + 1] = x
    BY <1>9a, <1>11a
  <1>15. Start(segs)[h + 1] = h + 2
    <2>1. Start(b)[1] = 0
      BY <1>9a, StartFacts
    <2>2. Start(segs)[h + 1] = (h + 2) + Start(b)[1]
      BY <1>11a
    <2> QED
      BY <1>1, <2>1, <2>2
  <1>15a. Start(segs)[1] = 0 /\ Start(segs)[2] = 3 /\ Start(segs)[h] = h + 1
    <2>1. /\ segs[1].len = 3 /\ segs[h].len = 1
          /\ segs[1] \in Segment /\ segs[h] \in Segment
      <3>1. segs[1] = Seg("macs", 3) /\ segs[h] = [what |-> "type", len |-> 1, type |-> type]
        BY <1>1, <1>13 DEF EthAt
      <3> QED
        BY <3>1 DEF Seg, Segment
    <2>2. 1 \in 1..Len(segs) /\ h \in 1..Len(segs) /\ 1 + 1 = 2
      <3>1. 1 \in 1..(h + 1 + m) /\ h \in 1..(h + 1 + m) /\ 1 + 1 = 2
        OBVIOUS
      <3> QED
        BY <1>12, <3>1
    <2>3. Start(segs)[1] = 0
      BY <1>11a, StartFacts
    <2>4. Start(segs)[1 + 1] = Start(segs)[1] + segs[1].len
      BY <1>11a, <2>2, StartStep
    <2>5. Start(segs)[h] \in Nat /\ Start(segs)[h + 1] = Start(segs)[h] + segs[h].len
      BY <1>11a, <2>2, StartStep
    <2> QED
      BY <1>1, <1>15, <2>1, <2>2, <2>3, <2>4, <2>5
  <1>16. ASSUME NEW i \in 1..m PROVE segs[h + 1 + i] = rest[i]
    <2>1. 1 + i \in 1..(1 + m) /\ h + (1 + i) = h + 1 + i
      BY <1>1
    <2>2. segs[h + (1 + i)] = b[1 + i]
      BY <1>11a, <2>1
    <2> QED
      BY <1>9a, <2>1, <2>2
  <1>17. ASSUME NEW i \in 1..(m + 1) PROVE Start(segs)[h + 1 + i] = h + 2 + len + Start(rest)[i]
    <2>1. 1 + i \in 1..((1 + m) + 1) /\ h + (1 + i) = h + 1 + i
      BY <1>1
    <2>2. Start(segs)[h + (1 + i)] = (h + 2) + Start(b)[1 + i]
      BY <1>11a, <2>1
    <2>3. Start(b)[1 + i] = len + Start(rest)[i]
      BY <1>9a
    <2>4. PICK p \in Nat, k \in Nat : p = Start(rest)[i] /\ k = len
      BY <1>3, StartFacts
    <2>5. (h + 2) + (k + p) = h + 2 + k + p
      BY <1>1
    <2>6. Start(segs)[h + (1 + i)] = (h + 2) + (k + p)
      BY <2>2, <2>3, <2>4
    <2> QED
      BY <2>1, <2>4, <2>5, <2>6
  <1> QED
    BY <1>1, <1>3, <1>11a, <1>12, <1>13, <1>14, <1>15, <1>15a, <1>16, <1>17
       DEF HeaderShape, segs, E

(* No two segments start at the same position, so what is read at one is   *)
(* the segment that starts there.                                          *)
LEMMA FoundAt ==
    ASSUME NEW f, f.segs \in Seq(Segment), \A j \in 1..Len(f.segs) : f.segs[j].len > 0,
           NEW i \in 1..Len(f.segs), NEW p, p = Start(f.segs)[i], NEW what
    PROVE  /\ f.segs[i].what # what => ~Is(f, what, p)
           /\ (f.segs[i].what = what /\ p + f.segs[i].len <= f.size) =>
                 Is(f, what, p) /\ At(f, what, p) = f.segs[i]
  <1>1. PICK n \in Nat : n = Len(f.segs) /\ DOMAIN f.segs = 1..n
    BY LenProperties
  <1>2. ASSUME NEW j \in 1..n, Start(f.segs)[j] = p
        PROVE  j = i
    <2>1. i \in 1..n
      BY <1>1
    <2>2. \A k \in 1..n : Start(f.segs)[k] \in Nat
      BY <1>1, StartStep
    <2>3. CASE j < i
      <3>1. Start(f.segs)[j] < Start(f.segs)[i]
        BY <1>1, <2>1, <2>3, StartGrows
      <3> QED
        BY <1>2, <2>1, <2>2, <3>1
    <2>4. CASE i < j
      <3>1. Start(f.segs)[i] < Start(f.segs)[j]
        BY <1>1, <2>1, <2>4, StartGrows
      <3> QED
        BY <1>2, <2>1, <2>2, <3>1
    <2> QED
      BY <2>1, <2>3, <2>4
  <1>3. \A j \in Found(f, what, p) : j = i /\ f.segs[j].what = what
    BY <1>1, <1>2 DEF Found
  <1>4. f.segs[i].what # what => ~Is(f, what, p)
    BY <1>3 DEF Is
  <1>5. ASSUME f.segs[i].what = what, p + f.segs[i].len <= f.size
        PROVE  Is(f, what, p) /\ At(f, what, p) = f.segs[i]
    <2>1. i \in Found(f, what, p)
      BY <1>1, <1>5 DEF Found
    <2>2. Found(f, what, p) = {i}
      BY <1>3, <2>1
    <2> QED
      BY <2>2 DEF Is, At
  <1> QED
    BY <1>4, <1>5

(* What the handlers rely on in the messages of hosts and the bridge.      *)
MessageOk(opcode, subcode, tlvs) ==
    /\ opcode \in Nat /\ subcode \in Nat
    /\ tlvs \in Seq(Segment)
    /\ \A i \in 1..Len(tlvs) : tlvs[i].what = "tlv" /\ tlvs[i].len > 0
    /\ \A i, j \in 1..Len(tlvs) : tlvs[i].type = tlvs[j].type => i = j
    /\ (<<opcode, subcode>> = <<3, 1>> /\ Len(tlvs) > 0) =>
          tlvs[1].type = 2 /\ tlvs[1].value \in Macs

(* If a list is in order, so are its first descriptors. *)
LEMMA FirstTlvsOk ==
    ASSUME NEW op, NEW sub, NEW tlvs, MessageOk(op, sub, tlvs), NEW k \in 0..Len(tlvs)
    PROVE  MessageOk(op, sub, SubSeq(tlvs, 1, k))
  <1>1. PICK s : s = SubSeq(tlvs, 1, k)
    OBVIOUS
  <1>2. tlvs \in Seq(Segment) /\ Len(tlvs) \in Nat
    BY LenProperties DEF MessageOk
  <1>3. s \in Seq(Segment) /\ Len(s) = k /\ \A i \in 1..k : s[i] = tlvs[i]
    BY <1>1, <1>2, FirstTlvs
  <1>4. \A i \in 1..k : i \in 1..Len(tlvs)
    BY <1>2
  <1>5. \A i \in 1..k : s[i].what = "tlv" /\ s[i].len > 0
    BY <1>3, <1>4 DEF MessageOk
  <1>6. \A i, j \in 1..k : s[i].type = s[j].type => i = j
    BY <1>3, <1>4 DEF MessageOk
  <1>7. ASSUME <<op, sub>> = <<3, 1>>, k > 0 PROVE s[1].type = 2 /\ s[1].value \in Macs
    <2>1. 1 \in 1..k /\ Len(tlvs) > 0
      BY <1>2, <1>7
    <2> QED
      BY <1>3, <1>7, <2>1 DEF MessageOk
  <1>8. MessageOk(op, sub, s)
    BY <1>3, <1>5, <1>6, <1>7 DEF MessageOk
  <1> QED
    BY <1>1, <1>8

LEMMA LengthOfThree ==
    ASSUME NEW a \in Segment, NEW b \in Segment, NEW c \in Segment
    PROVE  Length(<<a, b, c>>) = a.len + b.len + c.len
  <1>1. PICK s \in Seq(Segment) : s = <<a, b, c>> /\ Len(s) = 3 /\ s[1] = a /\ s[2] = b /\ s[3] = c
    <2> DEFINE t == <<a, b, c>>
    <2>1. t \in Seq(Segment)
      OBVIOUS
    <2>2. Len(t) = 3 /\ t[1] = a /\ t[2] = b /\ t[3] = c
      OBVIOUS
    <2> HIDE DEF t
    <2>3. \E s \in Seq(Segment) : s = t /\ Len(s) = 3 /\ s[1] = a /\ s[2] = b /\ s[3] = c
      BY <2>1, <2>2
    <2> QED
      BY <2>3 DEF t
  <1>2. Len(s) = 3 /\ s[1] = a /\ s[2] = b /\ s[3] = c
    BY <1>1
  <1>3. \A i \in 1..Len(s) : Start(s)[i + 1] = Start(s)[i] + s[i].len
    BY StartFacts
  <1>4. Start(s)[1] = 0
    BY StartFacts
  <1>5. a.len \in Nat /\ b.len \in Nat /\ c.len \in Nat
    BY SegmentFacts
  <1>6. Start(s)[2 + 1] = 0 + a.len + b.len
    BY <1>2, <1>3, <1>4
  <1>7. Start(s)[3 + 1] = 0 + a.len + b.len + c.len
    BY <1>2, <1>3, <1>6
  <1>8. Length(s) = a.len + b.len + c.len
    BY <1>2, <1>5, <1>7 DEF Length
  <1> QED
    BY <1>1, <1>8

LEMMA TlvFacts ==
    ASSUME NEW type \in Nat, NEW len \in Nat \ {0}, NEW value \in Macs \cup Names \cup {Junk}
    PROVE  LET x == Tlv(type, len, value)
           IN /\ x \in Segment /\ x.what = "tlv" /\ x.len = len /\ x.len > 0
              /\ x.type = type /\ x.value = value
  BY DEF Tlv, Segment

LEMMA ThreeTlvs ==
    ASSUME NEW a \in Segment, NEW b \in Segment, NEW c \in Segment,
           a.what = "tlv", b.what = "tlv", c.what = "tlv",
           a.len > 0, b.len > 0, c.len > 0,
           a.type # b.type, a.type # c.type, b.type # c.type,
           NEW op \in Nat, NEW sub \in Nat, <<op, sub>> # <<3, 1>>
    PROVE  MessageOk(op, sub, <<a, b, c>>)
  <1>1. PICK s : s = <<a, b, c>>
    OBVIOUS
  <1>2. s \in Seq(Segment) /\ Len(s) = 3 /\ s[1] = a /\ s[2] = b /\ s[3] = c
    BY <1>1
  <1>4. \A i \in 1..3 : s[i].what = "tlv" /\ s[i].len > 0
    BY <1>2
  <1>5. \A i, j \in 1..3 : s[i].type = s[j].type => i = j
    BY <1>2
  <1>6. MessageOk(op, sub, s)
    BY <1>2, <1>4, <1>5 DEF MessageOk
  <1> QED
    BY <1>1, <1>6

LEMMA TwoTlvs ==
    ASSUME NEW a \in Segment, NEW b \in Segment,
           a.what = "tlv", b.what = "tlv", a.len > 0, b.len > 0, a.type # b.type,
           NEW op \in Nat, NEW sub \in Nat,
           <<op, sub>> = <<3, 1>> => a.type = 2 /\ a.value \in Macs
    PROVE  MessageOk(op, sub, <<a, b>>)
  <1>1. PICK s : s = <<a, b>>
    OBVIOUS
  <1>2. s \in Seq(Segment) /\ Len(s) = 2 /\ s[1] = a /\ s[2] = b
    BY <1>1
  <1>4. \A i \in 1..2 : s[i].what = "tlv" /\ s[i].len > 0
    BY <1>2
  <1>5. \A i, j \in 1..2 : s[i].type = s[j].type => i = j
    BY <1>2
  <1>6. MessageOk(op, sub, s)
    BY <1>2, <1>4, <1>5 DEF MessageOk
  <1> QED
    BY <1>1, <1>6

LEMMA AdvertisementOk == MessageOk(1, 2, fcoe_vHBA_advertisement)
  <1>1. PICK a \in Segment, b \in Segment, c \in Segment, d \in Segment, e \in Segment :
           /\ a = Tlv(1, 1, Junk) /\ b = Tlv(2, 2, Junk) /\ c = Tlv(4, 3, Junk)
           /\ d = Tlv(5, 4, Junk) /\ e = Tlv(12, 2, Junk)
    BY TlvFacts
  <1>2. /\ a.what = "tlv" /\ a.len = 1 /\ a.type = 1
        /\ b.what = "tlv" /\ b.len = 2 /\ b.type = 2
        /\ c.what = "tlv" /\ c.len = 3 /\ c.type = 4
        /\ d.what = "tlv" /\ d.len = 4 /\ d.type = 5
        /\ e.what = "tlv" /\ e.len = 2 /\ e.type = 12
    BY <1>1 DEF Tlv
  <1>3. PICK s : s = <<a, b, c, d, e>>
    OBVIOUS
  <1>4. /\ s \in Seq(Segment) /\ Len(s) = 5
        /\ s[1] = a /\ s[2] = b /\ s[3] = c /\ s[4] = d /\ s[5] = e
    BY <1>3
  <1>6. \A i \in 1..5 : s[i].what = "tlv" /\ s[i].len > 0
    BY <1>2, <1>4
  <1>7. \A i, j \in 1..5 : s[i].type = s[j].type => i = j
    BY <1>2, <1>4
  <1>8. MessageOk(1, 2, s)
    BY <1>4, <1>6, <1>7 DEF MessageOk
  <1>9. s = fcoe_vHBA_advertisement
    BY <1>1, <1>3 DEF fcoe_vHBA_advertisement
  <1> QED
    BY <1>8, <1>9

LEMMA ListsOk ==
    ASSUME NEW m \in Macs, NEW n \in Names, NEW l \in Lists(m, n)
    PROVE  MessageOk(l.opcode, l.subcode, l.tlvs)
  <1>1. PICK mac \in Segment, name \in Segment, fcid \in Segment, fc \in Segment, vn \in Segment :
           /\ mac = Tlv(2, 2, m) /\ name = Tlv(4, 3, n) /\ fcid = Tlv(6, 1, n)
           /\ fc = Tlv(7, 36, n) /\ vn = Tlv(11, 5, n)
    BY TlvFacts
  <1>2. /\ mac.what = "tlv" /\ mac.len = 2 /\ mac.type = 2 /\ mac.value = m
        /\ name.what = "tlv" /\ name.len = 3 /\ name.type = 4
        /\ fcid.what = "tlv" /\ fcid.len = 1 /\ fcid.type = 6
        /\ fc.what = "tlv" /\ fc.len = 36 /\ fc.type = 7
        /\ vn.what = "tlv" /\ vn.len = 5 /\ vn.type = 11
    BY <1>1 DEF Tlv
  <1>3. PICK discovery \in Nat : discovery = 65530
    OBVIOUS
  <1>4. \/ l = List(1, 1, <<mac, name, fcid>>)
        \/ l = List(1, 1, <<name, mac, fcid>>)
        \/ l = List(discovery, 2, <<mac, name>>)
        \/ l = List(2, 1, <<fc, mac>>)
        \/ l = List(3, 1, <<mac, vn>>)
        \/ l = List(3, 2, <<mac, name, vn>>)
        \/ l = List(1, 2, fcoe_vHBA_advertisement)
    BY <1>1, <1>3 DEF Lists
  <1>5. MessageOk(1, 1, <<mac, name, fcid>>) /\ MessageOk(1, 1, <<name, mac, fcid>>)
    BY <1>2, ThreeTlvs
  <1>6. MessageOk(discovery, 2, <<mac, name>>)
    BY <1>2, TwoTlvs
  <1>7. MessageOk(2, 1, <<fc, mac>>) /\ MessageOk(3, 1, <<mac, vn>>)
    BY <1>2, TwoTlvs
  <1>8. MessageOk(3, 2, <<mac, name, vn>>)
    BY <1>2, ThreeTlvs
  <1>9. \A op, sub, tlvs : LET x == List(op, sub, tlvs)
                           IN x.opcode = op /\ x.subcode = sub /\ x.tlvs = tlvs
    BY DEF List
  <1> QED
    BY <1>4, <1>5, <1>6, <1>7, <1>8, <1>9, AdvertisementOk

LEMMA MessagesFacts ==
    ASSUME NEW m \in Macs, NEW n \in Names, NEW msg \in Messages(m, n)
    PROVE  \E op, sub, tlvs : MessageOk(op, sub, tlvs) /\ msg = Message(op, sub, tlvs)
  <1>0. PICK l \in Lists(m, n) : \E k \in 0..Len(l.tlvs) :
           msg = Message(l.opcode, l.subcode, SubSeq(l.tlvs, 1, k))
    BY DEF Messages
  <1>1. PICK k \in 0..Len(l.tlvs) :
           msg = Message(l.opcode, l.subcode, SubSeq(l.tlvs, 1, k))
    BY <1>0
  <1>2. MessageOk(l.opcode, l.subcode, SubSeq(l.tlvs, 1, k))
    BY ListsOk, FirstTlvsOk
  <1> QED
    BY <1>1, <1>2

LEMMA EthWhat ==
    ASSUME NEW segs, NEW k \in Nat, NEW t \in BOOLEAN, NEW type, EthAt(segs, k, t, type),
           NEW i \in (k + 1)..(k + Hdr(t))
    PROVE  /\ segs[i].what \in {"macs", "vlan", "type"} /\ segs[i].len > 0
           /\ segs[i].what = "vlan" <=> (t /\ i = k + 2)
  <1>1. CASE t
    <2>1. i = k + 1 \/ i = k + 2 \/ i = k + 3
      BY <1>1 DEF Hdr
    <2>2. segs[k + 1].what = "macs" /\ segs[k + 1].len = 3
      BY DEF EthAt, Seg
    <2>3. segs[k + 2].what = "vlan" /\ segs[k + 2].len = 1
      BY <1>1 DEF EthAt, Seg
    <2>4. segs[k + 3].what = "type" /\ segs[k + 3].len = 1
      BY <1>1 DEF EthAt, Hdr
    <2> QED
      BY <1>1, <2>1, <2>2, <2>3, <2>4
  <1>2. CASE ~t
    <2>1. i = k + 1 \/ i = k + 2
      BY <1>2 DEF Hdr
    <2>2. segs[k + 1].what = "macs" /\ segs[k + 1].len = 3
      BY DEF EthAt, Seg
    <2>3. segs[k + 2].what = "type" /\ segs[k + 2].len = 1
      BY <1>2 DEF EthAt, Hdr
    <2> QED
      BY <1>2, <2>1, <2>2, <2>3
  <1> QED
    BY <1>1, <1>2

(* A frame in the tunnel: t says whether the outer Ethernet header has a   *)
(* tag, u whether the inner one has; x comes behind them, then the rest.   *)
Tunneling(segs, t, u, type, tun, x, len, rest) ==
    LET h == Hdr(t)
        g == Hdr(u)
        n == Len(rest)
    IN /\ segs \in Seq(Segment)
       /\ Len(segs) = h + g + 2 + n /\ Length(segs) = h + g + 10 + len + Length(rest)
       /\ segs[h + 1] = tun
       /\ segs[h + g + 1].what = "type" /\ segs[h + g + 1].len = 1
       /\ segs[h + g + 1].type = type
       /\ segs[h + g + 2] = x
       /\ \A i \in 1..n : segs[h + g + 2 + i] = rest[i]
       /\ Start(segs)[1] = 0 /\ Start(segs)[2] = 3 /\ Start(segs)[h + 1] = h + 2
       /\ Start(segs)[h + g + 1] = h + g + 9 /\ Start(segs)[h + g + 2] = h + g + 10
       /\ \A i \in 1..(n + 1) : Start(segs)[h + g + 2 + i] = h + g + 10 + len + Start(rest)[i]
       /\ \A i \in 1..(h + g + 1) :
             /\ segs[i].len > 0 /\ segs[i].what \in {"macs", "vlan", "type", "tunnel"}
             /\ segs[i].what = "vlan" <=> ((t /\ i = 2) \/ (u /\ i = h + 3))
             /\ segs[i].what = "tunnel" <=> i = h + 1

HeaderIndex(segs, t, type, x, len, rest, h, m) ==
    /\ h \in {2, 3} /\ segs[h + 1] = x /\ Len(segs) = h + 1 + m
    /\ segs[h].what = "type" /\ segs[h].len = 1 /\ segs[h].type = type
    /\ \A i \in 1..h : /\ segs[i].what \in {"macs", "vlan", "type"} /\ segs[i].len > 0
                       /\ segs[i].what = "vlan" <=> (t /\ i = 2)
    /\ \A i \in 1..m : segs[h + 1 + i] = rest[i]
    /\ \A i \in 1..(m + 1) : Start(segs)[h + 1 + i] = h + 2 + len + Start(rest)[i]
    /\ Start(segs)[1] = 0 /\ Start(segs)[2] = 3
    /\ Start(segs)[h] = h + 1 /\ Start(segs)[h + 1] = h + 2

LEMMA HeaderIndexes ==
    ASSUME NEW segs, NEW t \in BOOLEAN, NEW type, NEW x, NEW len \in Nat, NEW rest,
           HeaderShape(segs, t, type, x, len, rest),
           NEW h, h = Hdr(t), NEW m \in Nat, m = Len(rest)
    PROVE  HeaderIndex(segs, t, type, x, len, rest, h, m)
  <1>1. h \in {2, 3}
    BY DEF Hdr
  <1>2. EthAt(segs, 0, t, type)
    BY DEF HeaderShape
  <1>3. segs[h].what = "type" /\ segs[h].len = 1 /\ segs[h].type = type
    <2>1. 0 + Hdr(t) = h
      BY <1>1
    <2>2. segs[h] = [what |-> "type", len |-> 1, type |-> type]
      BY <1>2, <2>1 DEF EthAt
    <2> QED
      BY <2>2
  <1>4. ASSUME NEW i \in 1..h
        PROVE  /\ segs[i].what \in {"macs", "vlan", "type"} /\ segs[i].len > 0
               /\ segs[i].what = "vlan" <=> (t /\ i = 2)
    <2>1. i \in (0 + 1)..(0 + Hdr(t)) /\ 0 + 2 = 2
      BY <1>1
    <2> QED
      BY <1>2, <2>1, EthWhat
  <1>5. /\ segs[h + 1] = x /\ Len(segs) = h + 1 + m
        /\ \A i \in 1..m : segs[h + 1 + i] = rest[i]
        /\ \A i \in 1..(m + 1) : Start(segs)[h + 1 + i] = h + 2 + len + Start(rest)[i]
        /\ Start(segs)[1] = 0 /\ Start(segs)[2] = 3
        /\ Start(segs)[h] = h + 1 /\ Start(segs)[h + 1] = h + 2
    BY DEF HeaderShape
  <1> QED
    BY <1>1, <1>3, <1>4, <1>5 DEF HeaderIndex

LEMMA TunneledIndexes ==
    ASSUME NEW t \in BOOLEAN, NEW u \in BOOLEAN, NEW type, NEW segs, NEW body,
           NEW tun, tun.len = 6, tun.what = "tunnel",
           NEW x, NEW len \in Nat, NEW rest \in Seq(Segment),
           HeaderShape(body, u, type, x, len, rest),
           HeaderShape(segs, t, FIP_ETH_TYPE, tun, 6, body)
    PROVE  Tunneling(segs, t, u, type, tun, x, len, rest)
  <1>1. PICK n \in Nat, l \in Nat : n = Len(rest) /\ l = Length(rest)
    BY LenProperties, LengthNat
  <1>9. PICK h, g : h = Hdr(t) /\ g = Hdr(u)
    OBVIOUS
  <1>10a. HeaderIndex(body, u, type, x, len, rest, g, n)
    BY <1>1, <1>9, HeaderIndexes
  <1>10. /\ g \in {2, 3} /\ body[g + 1] = x /\ Len(body) = g + 1 + n
         /\ body[g].what = "type" /\ body[g].len = 1 /\ body[g].type = type
         /\ \A i \in 1..g : /\ body[i].what \in {"macs", "vlan", "type"} /\ body[i].len > 0
                            /\ body[i].what = "vlan" <=> (u /\ i = 2)
         /\ \A i \in 1..n : body[g + 1 + i] = rest[i]
         /\ \A i \in 1..(n + 1) : Start(body)[g + 1 + i] = g + 2 + len + Start(rest)[i]
         /\ Start(body)[g] = g + 1 /\ Start(body)[g + 1] = g + 2
    BY <1>10a DEF HeaderIndex
  <1>11. PICK m \in Nat : m = Len(body) /\ m = g + 1 + n
    BY <1>1, <1>10
  <1>12a. HeaderIndex(segs, t, FIP_ETH_TYPE, tun, 6, body, h, m)
    BY <1>9, <1>11, HeaderIndexes
  <1>12. /\ h \in {2, 3} /\ segs[h + 1] = tun /\ Len(segs) = h + 1 + m
         /\ \A i \in 1..h : /\ segs[i].what \in {"macs", "vlan", "type"} /\ segs[i].len > 0
                            /\ segs[i].what = "vlan" <=> (t /\ i = 2)
         /\ \A i \in 1..m : segs[h + 1 + i] = body[i]
         /\ \A i \in 1..(m + 1) : Start(segs)[h + 1 + i] = h + 2 + 6 + Start(body)[i]
         /\ Start(segs)[1] = 0 /\ Start(segs)[2] = 3 /\ Start(segs)[h + 1] = h + 2
    BY <1>12a DEF HeaderIndex
  <1>12b. h \in {2, 3} /\ g \in {2, 3}
    BY <1>10, <1>12
  <1>13. segs \in Seq(Segment) /\ Length(segs) = h + g + 10 + len + l
    <2>1. segs \in Seq(Segment) /\ Length(segs) = h + 2 + 6 + Length(body)
      BY <1>9 DEF HeaderShape
    <2>2. Length(body) = g + 2 + len + l
      BY <1>1, <1>9 DEF HeaderShape
    <2>3. h + 2 + 6 + (g + 2 + len + l) = h + g + 10 + len + l
      BY <1>12b
    <2>4. Length(segs) = h + 2 + 6 + (g + 2 + len + l)
      BY <2>1, <2>2, Zenon
    <2> QED
      BY <2>1, <2>3, <2>4, Zenon
  <1>14. /\ segs[h + g + 1] = body[g] /\ segs[h + g + 2] = x
         /\ Start(segs)[h + g + 1] = h + g + 9 /\ Start(segs)[h + g + 2] = h + g + 10
    <2>1. /\ g \in 1..m /\ g + 1 \in 1..m /\ g \in 1..(m + 1) /\ g + 1 \in 1..(m + 1)
          /\ h + 1 + g = h + g + 1 /\ h + 1 + (g + 1) = h + g + 2
      BY <1>11, <1>12b
    <2>2. segs[h + 1 + g] = body[g] /\ segs[h + 1 + (g + 1)] = body[g + 1]
      BY <1>12, <2>1
    <2>3. /\ Start(segs)[h + 1 + g] = h + 2 + 6 + Start(body)[g]
          /\ Start(segs)[h + 1 + (g + 1)] = h + 2 + 6 + Start(body)[g + 1]
      BY <1>12, <2>1
    <2>4. /\ Start(segs)[h + 1 + g] = h + 2 + 6 + (g + 1)
          /\ Start(segs)[h + 1 + (g + 1)] = h + 2 + 6 + (g + 2)
      BY <1>10, <2>3
    <2>5. h + 2 + 6 + (g + 1) = h + g + 9 /\ h + 2 + 6 + (g + 2) = h + g + 10
      BY <1>10, <1>12
    <2> QED
      BY <1>10, <2>1, <2>2, <2>4, <2>5
  <1>15. ASSUME NEW i \in 1..n PROVE segs[h + g + 2 + i] = rest[i]
    <2>1. g + 1 + i \in 1..m /\ h + 1 + (g + 1 + i) = h + g + 2 + i
      BY <1>11, <1>12b
    <2>2. segs[h + 1 + (g + 1 + i)] = body[g + 1 + i]
      BY <1>12, <2>1
    <2> QED
      BY <1>10, <2>1, <2>2
  <1>16. ASSUME NEW i \in 1..(n + 1)
         PROVE  Start(segs)[h + g + 2 + i] = h + g + 10 + len + Start(rest)[i]
    <2>1. g + 1 + i \in 1..(m + 1) /\ h + 1 + (g + 1 + i) = h + g + 2 + i
      BY <1>11, <1>12b
    <2>2. Start(segs)[h + 1 + (g + 1 + i)] = h + 2 + 6 + Start(body)[g + 1 + i]
      BY <1>12, <2>1
    <2>3. PICK p \in Nat : p = Start(rest)[i]
      BY <1>1, StartFacts
    <2>4. Start(body)[g + 1 + i] = g + 2 + len + p
      BY <1>10, <2>3
    <2>5. h + 2 + 6 + (g + 2 + len + p) = h + g + 10 + len + p
      BY <1>10, <1>12
    <2> QED
      BY <2>1, <2>2, <2>3, <2>4, <2>5
  <1>18. ASSUME NEW i \in 1..(h + g + 1)
         PROVE  /\ segs[i].len > 0 /\ segs[i].what \in {"macs", "vlan", "type", "tunnel"}
                /\ segs[i].what = "vlan" <=> ((t /\ i = 2) \/ (u /\ i = h + 3))
                /\ segs[i].what = "tunnel" <=> i = h + 1
    <2>1. CASE i \in 1..h
      <3>1. /\ segs[i].what \in {"macs", "vlan", "type"} /\ segs[i].len > 0
            /\ segs[i].what = "vlan" <=> (t /\ i = 2)
        BY <1>12, <2>1
      <3>2. i # h + 3 /\ i # h + 1
        BY <1>12b, <2>1
      <3> QED
        BY <3>1, <3>2
    <2>2. CASE i = h + 1
      <3>1. i # 2 /\ i # h + 3
        BY <1>12b, <2>2
      <3>2a. segs[i] = tun
        BY <1>12, <2>2, Zenon
      <3>2. segs[i].len > 0 /\ segs[i].what = "tunnel"
        <4>1. segs[i].len = 6 /\ segs[i].what = "tunnel"
          BY <3>2a, Zenon
        <4> QED
          BY <4>1
      <3> QED
        BY <2>2, <3>1, <3>2
    <2>3. CASE i \in (h + 2)..(h + g + 1)
      <3>1. PICK j \in 1..g : i = h + 1 + j
        <4>1. i - (h + 1) \in 1..g /\ i = h + 1 + (i - (h + 1))
          BY <1>10, <1>12, <2>3
        <4> QED
          BY <4>1
      <3>2. /\ i # 2 /\ i # h + 1
            /\ i = h + 3 <=> j = 2
        BY <1>12b, <3>1
      <3>3. segs[i] = body[j]
        <4>1. j \in 1..m
          BY <1>10, <1>11
        <4> QED
          BY <1>12, <3>1, <4>1
      <3>4. /\ body[j].what \in {"macs", "vlan", "type"} /\ body[j].len > 0
            /\ body[j].what = "vlan" <=> (u /\ j = 2)
        BY <1>10
      <3> QED
        BY <3>2, <3>3, <3>4
    <2>6. \/ i \in 1..h \/ i = h + 1 \/ i \in (h + 2)..(h + g + 1)
      BY <1>12b
    <2> QED
      BY <2>1, <2>2, <2>3, <2>6, Zenon
  <1>19. Len(segs) = h + g + 2 + n
    <2>1. h + 1 + m = h + g + 2 + n
      BY <1>11, <1>12b
    <2> QED
      BY <1>12, <2>1, Zenon
  <1>20. /\ segs[h + g + 1].what = "type" /\ segs[h + g + 1].len = 1
         /\ segs[h + g + 1].type = type
    <2>1. segs[h + 1] = tun /\ segs[h + g + 1] = body[g]
      BY <1>12, <1>14
    <2> QED
      BY <1>10, <2>1
  <1> QED
    BY <1>1, <1>9, <1>12, <1>13, <1>14, <1>15, <1>16, <1>18, <1>19, <1>20
       DEF Tunneling

LEMMA TunneledShape ==
    ASSUME NEW t \in BOOLEAN, NEW u \in BOOLEAN, NEW type \in Nat,
           NEW x \in Segment, NEW len \in Nat, x.len = len, NEW rest \in Seq(Segment)
    PROVE  \E tun :
              /\ TunnelOf(tun, FALSE, Hdr(u) + 8 + len + Length(rest))
              /\ Tunneling(EtherHdr(t, FIP_ETH_TYPE)
                           \o Tunneled(EtherHdr(u, type) \o (<<x>> \o rest), FALSE),
                           t, u, type, tun, x, len, rest)
  <1> DEFINE body == EtherHdr(u, type) \o (<<x>> \o rest)
             tun == TunnelHdr(SIZEOF_tunnel_hdr + Length(body), FALSE)
             segs == EtherHdr(t, FIP_ETH_TYPE) \o (<<tun>> \o body)
  <1>1. HeaderShape(body, u, type, x, len, rest)
    BY HeaderParts
  <1> HIDE DEF body
  <1>2. body \in Seq(Segment) /\ Length(body) = Hdr(u) + 2 + len + Length(rest)
    BY <1>1 DEF HeaderShape
  <1>3. TunnelOf(tun, FALSE, Hdr(u) + 8 + len + Length(rest))
    <2>1. PICK b \in Nat, l \in Nat, h \in {2, 3} :
             b = Length(body) /\ l = Length(rest) /\ h = Hdr(u)
      BY <1>2, LengthNat DEF Hdr
    <2>2. b = h + 2 + len + l
      BY <1>2, <2>1
    <2>3. 6 + b \in Nat /\ h + 8 + len + l = 6 + b
      BY <2>2
    <2>4. TunnelOf(TunnelHdr(6 + b, FALSE), FALSE, 6 + b)
      BY <2>3, TunnelHdrIs
    <2>5. SIZEOF_tunnel_hdr + Length(body) = 6 + b
      BY <2>1 DEF SIZEOF_tunnel_hdr
    <2> QED
      BY <2>1, <2>3, <2>4, <2>5
  <1> HIDE DEF tun
  <1>4. tun \in Segment /\ tun.len = 6 /\ tun.what = "tunnel"
    BY <1>3 DEF TunnelOf
  <1>5. HeaderShape(segs, t, FIP_ETH_TYPE, tun, 6, body)
    BY <1>2, <1>4, EtherTypes, HeaderParts
  <1> HIDE DEF segs
  <1>6. Tunneling(segs, t, u, type, tun, x, len, rest)
    BY <1>1, <1>4, <1>5, TunneledIndexes
  <1>7. segs = EtherHdr(t, FIP_ETH_TYPE) \o Tunneled(body, FALSE)
    BY DEF segs, tun, Tunneled
  <1> QED
    BY <1>3, <1>6, <1>7, Zenon DEF body

(* The frames a host sends through the tunnel, FIP or FC, and those of the *)
(* fabric; and the rest, of which nothing is said.                         *)
Fip(segs, t, u, op, sub, tlvs) ==
    /\ MessageOk(op, sub, tlvs)
    /\ \E tun : /\ TunnelOf(tun, FALSE, Hdr(u) + 10 + Length(tlvs))
                /\ Tunneling(segs, t, u, FIP_ETH_TYPE, tun,
                             CtrlHdr(op, sub, Length(tlvs)), 2, tlvs)

HostFc(segs, t, u, len) ==
    \E tun : /\ TunnelOf(tun, FALSE, Hdr(u) + 8 + len)
             /\ Tunneling(segs, t, u, FCOE_ETH_TYPE, tun, Fc(len), len, << >>)

FabricFc(segs, t, len) ==
    \E tun : /\ TunnelOf(tun, TRUE, 6 + len)
             /\ segs \in Seq(Segment) /\ Length(segs) = Hdr(t) + 8 + len
             /\ HeaderIndex(segs, t, FIP_ETH_TYPE, tun, 6, <<Fc(len)>>, Hdr(t), 1)

LEMMA EmptyParts == << >> \in Seq(Segment) /\ Len(<< >>) = 0 /\ Length(<< >>) = 0
  <1>1. PICK s \in Seq(Segment) : s = << >> /\ Len(s) = 0
    BY EmptySeq
  <1>2. Start(s)[1] = 0
    BY StartFacts
  <1> QED
    BY <1>1, <1>2 DEF Length

LEMMA FcIsSegment ==
    ASSUME NEW len \in Nat
    PROVE  Fc(len) \in Segment /\ Fc(len).what = "fc" /\ Fc(len).len = len
  BY DEF Fc, Seg, Segment

LEMMA FipShape ==
    ASSUME NEW t \in BOOLEAN, NEW u \in BOOLEAN, NEW op, NEW sub, NEW tlvs,
           MessageOk(op, sub, tlvs)
    PROVE  Fip(EtherHdr(t, FIP_ETH_TYPE)
               \o Tunneled(EtherHdr(u, FIP_ETH_TYPE) \o Message(op, sub, tlvs), FALSE),
               t, u, op, sub, tlvs)
  <1>1. /\ tlvs \in Seq(Segment) /\ op \in Nat /\ sub \in Nat /\ Length(tlvs) \in Nat
    BY LengthNat DEF MessageOk
  <1>2. PICK hdr : hdr = CtrlHdr(op, sub, Length(tlvs))
    OBVIOUS
  <1>3. hdr \in Segment /\ hdr.len = 2
    BY <1>1, <1>2 DEF CtrlHdr, Segment, SIZEOF_ctrl_hdr
  <1>4. PICK segs : segs = EtherHdr(t, FIP_ETH_TYPE)
                           \o Tunneled(EtherHdr(u, FIP_ETH_TYPE) \o (<<hdr>> \o tlvs), FALSE)
    OBVIOUS
  <1>5. \E tun : /\ TunnelOf(tun, FALSE, Hdr(u) + 8 + 2 + Length(tlvs))
                 /\ Tunneling(segs, t, u, FIP_ETH_TYPE, tun, hdr, 2, tlvs)
    BY <1>1, <1>3, <1>4, EtherTypes, TunneledShape
  <1>6. Hdr(u) + 8 + 2 + Length(tlvs) = Hdr(u) + 10 + Length(tlvs)
    BY <1>1 DEF Hdr
  <1>7. Fip(segs, t, u, op, sub, tlvs)
    BY <1>2, <1>5, <1>6, Zenon DEF Fip
  <1> QED
    BY <1>2, <1>4, <1>7, Zenon DEF Message

LEMMA HostFcShape ==
    ASSUME NEW t \in BOOLEAN, NEW u \in BOOLEAN, NEW len \in Nat
    PROVE  HostFc(EtherHdr(t, FIP_ETH_TYPE)
                  \o Tunneled(EtherHdr(u, FCOE_ETH_TYPE) \o <<Fc(len)>>, FALSE),
                  t, u, len)
  <1>1. PICK x \in Segment : x = Fc(len) /\ x.len = len
    BY FcIsSegment
  <1>2. x.len = len
    BY <1>1
  <1>3. PICK a \in Seq(Segment) : a = <<x>>
    BY Singleton
  <1>4. a \o << >> = a
    BY ConcatEmptySeq
  <1>5. PICK rest \in Seq(Segment) : rest = << >> /\ Length(rest) = 0
    BY EmptyParts
  <1>6. PICK segs : segs = EtherHdr(t, FIP_ETH_TYPE)
                           \o Tunneled(EtherHdr(u, FCOE_ETH_TYPE) \o (<<x>> \o rest), FALSE)
    OBVIOUS
  <1>7. \E tun : /\ TunnelOf(tun, FALSE, Hdr(u) + 8 + len + Length(rest))
                 /\ Tunneling(segs, t, u, FCOE_ETH_TYPE, tun, x, len, rest)
    BY <1>2, <1>6, EtherTypes, TunneledShape
  <1>8. Hdr(u) + 8 + len + Length(rest) = Hdr(u) + 8 + len
    BY <1>5 DEF Hdr
  <1>9. HostFc(segs, t, u, len)
    BY <1>1, <1>5, <1>7, <1>8, Zenon DEF HostFc
  <1>10. <<x>> \o rest = <<Fc(len)>>
    BY <1>1, <1>3, <1>4, <1>5
  <1> QED
    BY <1>6, <1>9, <1>10, Zenon

LEMMA FabricFcShape ==
    ASSUME NEW t \in BOOLEAN, NEW len \in Nat
    PROVE  FabricFc(EtherHdr(t, FIP_ETH_TYPE) \o Tunneled(<<Fc(len)>>, TRUE), t, len)
  <1>1. PICK x \in Segment : x = Fc(len) /\ x.len = len
    BY FcIsSegment
  <1>2. PICK rest \in Seq(Segment) : rest = <<x>> /\ Len(rest) = 1 /\ Length(rest) = len
    BY <1>1, OnePart
  <1>2a. Len(rest) = 1 /\ Length(rest) = len /\ 1 \in Nat
    BY <1>2
  <1>3. PICK tun : tun = TunnelHdr(6 + len, TRUE)
    OBVIOUS
  <1>4. TunnelOf(tun, TRUE, 6 + len)
    <2>1. 6 + len \in Nat
      OBVIOUS
    <2> QED
      BY <1>3, <2>1, TunnelHdrIs
  <1>5. tun \in Segment /\ tun.len = 6
    BY <1>4 DEF TunnelOf
  <1>6. PICK segs : segs = EtherHdr(t, FIP_ETH_TYPE) \o (<<tun>> \o rest)
    OBVIOUS
  <1>7. HeaderShape(segs, t, FIP_ETH_TYPE, tun, 6, rest)
    BY <1>5, <1>6, EtherTypes, HeaderParts
  <1>8. HeaderIndex(segs, t, FIP_ETH_TYPE, tun, 6, rest, Hdr(t), 1)
    BY <1>2a, <1>7, HeaderIndexes
  <1>9. segs \in Seq(Segment) /\ Length(segs) = Hdr(t) + 8 + len
    <2>1. segs \in Seq(Segment) /\ Length(segs) = Hdr(t) + 2 + 6 + Length(rest)
      BY <1>7 DEF HeaderShape
    <2>2. Hdr(t) + 2 + 6 + len = Hdr(t) + 8 + len
      BY DEF Hdr
    <2> QED
      BY <1>2a, <2>1, <2>2
  <1>10. FabricFc(segs, t, len)
    BY <1>1, <1>2, <1>4, <1>8, <1>9, Zenon DEF FabricFc
  <1>11. segs = EtherHdr(t, FIP_ETH_TYPE) \o Tunneled(<<Fc(len)>>, TRUE)
    <2>1. SIZEOF_tunnel_hdr + Length(<<Fc(len)>>) = 6 + len
      BY <1>1, <1>2 DEF SIZEOF_tunnel_hdr
    <2> QED
      BY <1>1, <1>2, <1>3, <1>6, <2>1, Zenon DEF Tunneled
  <1> QED
    BY <1>10, <1>11, Zenon

(* A frame that is not in the tunnel. *)
Untunneled(segs) == segs \in Seq(Segment) /\ \A i \in 1..Len(segs) : segs[i].what # "tunnel"

LEMMA UntunneledConcat ==
    ASSUME NEW s, NEW t, Untunneled(s), Untunneled(t)
    PROVE  Untunneled(s \o t)
  <1>1. s \in Seq(Segment) /\ t \in Seq(Segment)
    BY DEF Untunneled
  <1>2. PICK r : r = s \o t
    OBVIOUS
  <1>3. PICK n \in Nat, m \in Nat : n = Len(s) /\ m = Len(t)
    BY <1>1, LenProperties
  <1>4. Behind(r, s, t, n, m)
    BY <1>1, <1>2, <1>3, PartsBehind
  <1>5. ASSUME NEW i \in 1..(n + m) PROVE r[i].what # "tunnel"
    <2>1. CASE i <= n
      <3>1. i \in 1..n
        BY <2>1
      <3>2. r[i] = s[i]
        BY <1>4, <3>1 DEF Behind
      <3> QED
        BY <1>3, <3>1, <3>2 DEF Untunneled
    <2>2. CASE i > n
      <3>1. PICK j \in 1..m : i = n + j
        <4>1. i - n \in 1..m /\ i = n + (i - n)
          BY <2>2
        <4> QED
          BY <4>1
      <3>2. r[n + j] = t[j]
        BY <1>4 DEF Behind
      <3> QED
        BY <1>3, <3>1, <3>2 DEF Untunneled
    <2> QED
      BY <2>1, <2>2
  <1>6. Untunneled(r)
    BY <1>4, <1>5 DEF Behind, Untunneled
  <1> QED
    BY <1>2, <1>6

LEMMA EtherHdrUntunneled ==
    ASSUME NEW t \in BOOLEAN, NEW type \in Nat
    PROVE  Untunneled(EtherHdr(t, type))
  <1>1. PICK E : E = EtherHdr(t, type)
    OBVIOUS
  <1>2. E \in Seq(Segment) /\ Len(E) = Hdr(t) /\ EthAt(E, 0, t, type)
    BY <1>1, EtherHdrParts
  <1>3. ASSUME NEW i \in 1..Hdr(t) PROVE E[i].what # "tunnel"
    <2>1. i \in (0 + 1)..(0 + Hdr(t))
      BY DEF Hdr
    <2>2. E[i].what \in {"macs", "vlan", "type"}
      BY <1>2, <2>1, EthWhat
    <2> QED
      BY <2>2
  <1> QED
    BY <1>1, <1>2, <1>3 DEF Untunneled

LEMMA OneUntunneled ==
    ASSUME NEW x \in Segment, x.what # "tunnel"
    PROVE  Untunneled(<<x>>)
  BY OnePart DEF Untunneled

LEMMA BodyShape ==
    ASSUME NEW u \in BOOLEAN, NEW body \in Bodies(u)
    PROVE  \/ \E op, sub, tlvs : /\ MessageOk(op, sub, tlvs)
                                 /\ body = EtherHdr(u, FIP_ETH_TYPE) \o Message(op, sub, tlvs)
           \/ \E len \in FcLens : body = EtherHdr(u, FCOE_ETH_TYPE) \o <<Fc(len)>>
  <1> DEFINE Fips == {EtherHdr(u, FIP_ETH_TYPE) \o message :
                         message \in UNION {Messages(m, n) : m \in Macs, n \in Names}}
             Fcoes == {EtherHdr(u, FCOE_ETH_TYPE) \o <<Fc(len)>> : len \in FcLens}
  <1>1. body \in Fips \/ body \in Fcoes
    <2>1. Bodies(u) = Fips \cup Fcoes
      BY DEF Bodies
    <2> HIDE DEF Fips, Fcoes
    <2> QED
      BY <2>1
  <1>2. CASE body \in Fcoes
    BY <1>2
  <1>3. CASE body \in Fips
    <2>1. PICK msg \in UNION {Messages(m, n) : m \in Macs, n \in Names} :
             body = EtherHdr(u, FIP_ETH_TYPE) \o msg
      BY <1>3
    <2>2. PICK m \in Macs, n \in Names : msg \in Messages(m, n)
      OBVIOUS
    <2> HIDE DEF Fips, Fcoes
    <2>3. PICK op, sub, tlvs : MessageOk(op, sub, tlvs) /\ msg = Message(op, sub, tlvs)
      BY <2>2, MessagesFacts
    <2>4. PICK E : E = EtherHdr(u, FIP_ETH_TYPE)
      OBVIOUS
    <2>5. body = E \o Message(op, sub, tlvs)
      BY <2>1, <2>3, <2>4
    <2> QED
      BY <2>3, <2>4, <2>5
  <1> HIDE DEF Fips, Fcoes
  <1> QED
    BY <1>1, <1>2, <1>3

LEMMA BodyUntunneled ==
    ASSUME NEW u \in BOOLEAN, NEW body \in Bodies(u)
    PROVE  Untunneled(body)
  <1>1. CASE \E op, sub, tlvs : /\ MessageOk(op, sub, tlvs)
                                /\ body = EtherHdr(u, FIP_ETH_TYPE) \o Message(op, sub, tlvs)
    <2>1. PICK op, sub, tlvs : /\ MessageOk(op, sub, tlvs)
                               /\ body = EtherHdr(u, FIP_ETH_TYPE) \o Message(op, sub, tlvs)
      BY <1>1
    <2>2. Untunneled(tlvs) /\ op \in Nat /\ sub \in Nat /\ Length(tlvs) \in Nat
      BY <2>1, LengthNat DEF MessageOk, Untunneled
    <2>3. PICK hdr : hdr = CtrlHdr(op, sub, Length(tlvs))
      OBVIOUS
    <2>4. hdr \in Segment /\ hdr.what # "tunnel"
      BY <2>2, <2>3 DEF CtrlHdr, Segment, SIZEOF_ctrl_hdr
    <2>5. Untunneled(<<hdr>> \o tlvs)
      BY <2>2, <2>4, OneUntunneled, UntunneledConcat
    <2>6. Untunneled(Message(op, sub, tlvs))
      BY <2>3, <2>5, Zenon DEF Message
    <2> QED
      BY <2>1, <2>6, EtherTypes, EtherHdrUntunneled, UntunneledConcat
  <1>2. CASE \E len \in FcLens : body = EtherHdr(u, FCOE_ETH_TYPE) \o <<Fc(len)>>
    <2>1. PICK len \in FcLens : body = EtherHdr(u, FCOE_ETH_TYPE) \o <<Fc(len)>>
      BY <1>2
    <2>2. len \in Nat
      BY FcLenAssumption
    <2>3. PICK x \in Segment : x = Fc(len) /\ x.what = "fc"
      BY <2>2, FcIsSegment
    <2>4. Untunneled(<<x>>)
      BY <2>3, OneUntunneled
    <2> QED
      BY <2>1, <2>3, <2>4, EtherTypes, EtherHdrUntunneled, UntunneledConcat
  <1> QED
    BY <1>1, <1>2, BodyShape, Zenon

LEMMA PayloadShape ==
    ASSUME NEW payload \in Payloads
    PROVE  \/ \E u \in BOOLEAN : \E body \in Bodies(u) :
                 payload = body \/ payload = Tunneled(body, FALSE)
           \/ \E len \in FcLens : payload = Tunneled(<<Fc(len)>>, TRUE)
  <1> DEFINE Pairs == {{body, Tunneled(body, FALSE)} :
                          body \in Bodies(TRUE) \cup Bodies(FALSE)}
             Externals == {Tunneled(<<Fc(len)>>, TRUE) : len \in FcLens}
  <1>1. payload \in UNION Pairs \/ payload \in Externals
    BY DEF Payloads
  <1>2. CASE payload \in Externals
    BY <1>2
  <1>3. CASE payload \in UNION Pairs
    <2>1. PICK pair \in Pairs : payload \in pair
      BY <1>3
    <2>2. PICK body \in Bodies(TRUE) \cup Bodies(FALSE) : pair = {body, Tunneled(body, FALSE)}
      OBVIOUS
    <2>3. payload = body \/ payload = Tunneled(body, FALSE)
      BY <2>1, <2>2
    <2> QED
      BY <2>3
  <1> HIDE DEF Pairs, Externals
  <1> QED
    BY <1>1, <1>2, <1>3

(* What may arrive. *)
LEMMA ArrivingShapes ==
    ASSUME NEW t \in BOOLEAN, NEW payload \in Payloads,
           NEW segs, segs = EtherHdr(t, FIP_ETH_TYPE) \o payload
    PROVE  \/ Untunneled(segs)
           \/ \E u \in BOOLEAN : \E op, sub, tlvs : Fip(segs, t, u, op, sub, tlvs)
           \/ \E u \in BOOLEAN, len \in FcLens : HostFc(segs, t, u, len)
           \/ \E len \in FcLens : FabricFc(segs, t, len)
  <1>1. CASE \E u \in BOOLEAN : \E body \in Bodies(u) :
                payload = body \/ payload = Tunneled(body, FALSE)
    <2>1. PICK u \in BOOLEAN : \E body \in Bodies(u) :
                payload = body \/ payload = Tunneled(body, FALSE)
      BY <1>1
    <2>2. PICK body \in Bodies(u) : payload = body \/ payload = Tunneled(body, FALSE)
      BY <2>1
    <2>3. CASE payload = body
      <3>1. Untunneled(payload) /\ Untunneled(EtherHdr(t, FIP_ETH_TYPE))
        BY <2>3, BodyUntunneled, EtherTypes, EtherHdrUntunneled
      <3> QED
        BY <3>1, UntunneledConcat
    <2>4. ASSUME payload = Tunneled(body, FALSE), NEW op, NEW sub, NEW tlvs,
                 MessageOk(op, sub, tlvs),
                 body = EtherHdr(u, FIP_ETH_TYPE) \o Message(op, sub, tlvs)
          PROVE  Fip(segs, t, u, op, sub, tlvs)
      <3>1. Fip(EtherHdr(t, FIP_ETH_TYPE)
                \o Tunneled(EtherHdr(u, FIP_ETH_TYPE) \o Message(op, sub, tlvs), FALSE),
                t, u, op, sub, tlvs)
        BY <2>4, FipShape
      <3> QED
        BY <2>4, <3>1, Zenon
    <2>5. ASSUME payload = Tunneled(body, FALSE), NEW len \in FcLens,
                 body = EtherHdr(u, FCOE_ETH_TYPE) \o <<Fc(len)>>
          PROVE  HostFc(segs, t, u, len)
      <3>1. len \in Nat
        BY FcLenAssumption
      <3>2. HostFc(EtherHdr(t, FIP_ETH_TYPE)
                   \o Tunneled(EtherHdr(u, FCOE_ETH_TYPE) \o <<Fc(len)>>, FALSE),
                   t, u, len)
        BY <3>1, HostFcShape
      <3> QED
        BY <2>5, <3>2, Zenon
    <2> QED
      BY <2>2, <2>3, <2>4, <2>5, BodyShape, Zenon
  <1>2. CASE \E len \in FcLens : payload = Tunneled(<<Fc(len)>>, TRUE)
    <2>1. PICK len \in FcLens : payload = Tunneled(<<Fc(len)>>, TRUE)
      BY <1>2
    <2>2. len \in Nat
      BY FcLenAssumption
    <2>3. FabricFc(EtherHdr(t, FIP_ETH_TYPE) \o Tunneled(<<Fc(len)>>, TRUE), t, len)
      BY <2>2, FabricFcShape
    <2> QED
      BY <2>1, <2>3, Zenon
  <1> QED
    BY <1>1, <1>2, PayloadShape, Zenon

-----------------------------------------------------------------------------
(* Which frames the properties are about. *)

Places(segs, what) == {i \in DOMAIN segs : segs[i].what = what}

(* A frame that is not tunneled, whose tags are not in line, or an FC frame *)
(* with a tag.                                                             *)
Off(segs) ==
    \/ Places(segs, "tunnel") = {}
    \/ /\ Places(segs, "vlan") # {} /\ Places(segs, "vlan") # {2, 6}
       /\ ~segs[CHOOSE i \in Places(segs, "tunnel") : TRUE].external
    \/ /\ Places(segs, "fc") # {} /\ Places(segs, "ctrl") = {}
       /\ Places(segs, "vlan") # {}

LEMMA OffFrames ==
    ASSUME Off(frame.segs)
    PROVE  ~Aligned \/ (Segments("fc") # {} /\ Segments("ctrl") = {} /\ Tags # {})
  BY DEF Off, Places, Aligned, Segments, Tags, Only

LEMMA UntunneledIsOff ==
    ASSUME NEW segs, Untunneled(segs)
    PROVE  Off(segs)
  <1>1. DOMAIN segs = 1..Len(segs)
    BY LenProperties DEF Untunneled
  <1> QED
    BY <1>1 DEF Untunneled, Off, Places

PlacesIn(segs, t, u, tun, x, h, g, n) ==
    /\ h \in {2, 3} /\ g \in {2, 3} /\ n \in Nat
    /\ DOMAIN segs = 1..(h + g + 2 + n) /\ Len(segs) = h + g + 2 + n
    /\ \A i \in 1..(h + g + 2 + n) : segs[i].len > 0
    /\ Places(segs, "tunnel") = {h + 1} /\ segs[h + 1] = tun
    /\ Places(segs, "vlan") = (IF t THEN {2} ELSE {}) \cup (IF u THEN {h + 3} ELSE {})
    /\ Places(segs, "ctrl") = (IF x.what = "ctrl" THEN {h + g + 2} ELSE {})
    /\ Places(segs, "fc") = (IF x.what = "fc" THEN {h + g + 2} ELSE {})
    /\ Places(segs, "tlv") = (h + g + 3)..(h + g + 2 + n)

LEMMA TunnelingPlaces ==
    ASSUME NEW t \in BOOLEAN, NEW u \in BOOLEAN, NEW type, NEW segs, NEW tun,
           NEW x, x.what \in {"ctrl", "fc"}, x.len > 0, NEW len, NEW rest \in Seq(Segment),
           \A i \in 1..Len(rest) : rest[i].what = "tlv" /\ rest[i].len > 0,
           Tunneling(segs, t, u, type, tun, x, len, rest),
           NEW h, h = Hdr(t), NEW g, g = Hdr(u), NEW n, n = Len(rest)
    PROVE  PlacesIn(segs, t, u, tun, x, h, g, n)
  <1>1. h \in {2, 3} /\ g \in {2, 3} /\ n \in Nat
    BY LenProperties DEF Hdr
  <1>2. /\ segs \in Seq(Segment) /\ Len(segs) = h + g + 2 + n
        /\ segs[h + 1] = tun /\ segs[h + g + 2] = x
        /\ \A i \in 1..n : segs[h + g + 2 + i] = rest[i]
        /\ \A i \in 1..(h + g + 1) :
              /\ segs[i].len > 0 /\ segs[i].what \in {"macs", "vlan", "type", "tunnel"}
              /\ segs[i].what = "vlan" <=> ((t /\ i = 2) \/ (u /\ i = h + 3))
              /\ segs[i].what = "tunnel" <=> i = h + 1
    BY DEF Tunneling
  <1>3. DOMAIN segs = 1..(h + g + 2 + n)
    BY <1>2, LenProperties
  <1>4. ASSUME NEW i \in 1..(h + g + 2 + n)
        PROVE  \/ i \in 1..(h + g + 1)
               \/ i = h + g + 2 /\ segs[i] = x
               \/ i \in (h + g + 3)..(h + g + 2 + n) /\ segs[i].what = "tlv" /\ segs[i].len > 0
    <2>1. \/ i \in 1..(h + g + 1) \/ i = h + g + 2
          \/ i \in (h + g + 3)..(h + g + 2 + n)
      BY <1>1
    <2>2. CASE i \in (h + g + 3)..(h + g + 2 + n)
      <3>1. PICK j \in 1..n : i = h + g + 2 + j
        <4>1. i - (h + g + 2) \in 1..n /\ i = h + g + 2 + (i - (h + g + 2))
          BY SMTT(30), <1>1, <2>2
        <4> QED
          BY <4>1
      <3>2. segs[h + g + 2 + j] = rest[j]
        BY <1>2
      <3> QED
        BY <2>2, <3>1, <3>2
    <2> QED
      BY <1>2, <2>1, <2>2
  <1>5. /\ h + g + 2 \in 1..(h + g + 2 + n) /\ h + g + 2 \notin 1..(h + g + 1)
        /\ h + 1 \in 1..(h + g + 1) /\ 2 \in 1..(h + g + 1) /\ h + 3 \in 1..(h + g + 2)
        /\ g = 3 => h + 3 \in 1..(h + g + 1)
        /\ 1..(h + g + 1) \subseteq 1..(h + g + 2 + n)
        /\ (h + g + 3)..(h + g + 2 + n) \subseteq 1..(h + g + 2 + n)
        /\ \A i \in (h + g + 3)..(h + g + 2 + n) : i # h + g + 2 /\ i \notin 1..(h + g + 1)
    BY <1>1
  <1>6. u => g = 3
    BY DEF Hdr
  <1>7. \A i \in 1..(h + g + 2 + n) : segs[i].len > 0
    BY <1>2, <1>4
  <1>8. PICK N \in Nat, c \in Nat, k \in Nat :
           N = h + g + 2 + n /\ c = h + g + 2 /\ k = h + 1 /\ k < c /\ c <= N
    BY <1>1
  <1>8a. /\ \A i \in 1..N : i < c => /\ segs[i].what \in {"macs", "vlan", "type", "tunnel"}
                                     /\ segs[i].what = "tunnel" <=> i = k
         /\ \A i \in 1..N : i > c => segs[i].what = "tlv"
         /\ segs[c] = x
    <2>1. \A i \in 1..N : i < c => i \in 1..(h + g + 1)
      BY SMTT(30), <1>1, <1>8
    <2>2. \A i \in 1..N : i > c => i \notin 1..(h + g + 1) /\ i # h + g + 2
      BY SMTT(30), <1>1, <1>8
    <2>3. \A i \in 1..N : i > c => segs[i].what = "tlv"
      BY <1>4, <1>8, <2>2
    <2> QED
      BY <1>2, <1>8, <2>1, <2>3
  <1>8b. DOMAIN segs = 1..N /\ c \in 1..N /\ k \in 1..N
    <2>1. k > 0
      BY <1>1, <1>8
    <2> QED
      BY <1>3, <1>8, <2>1
  <1>8c. \A i \in 1..N : /\ segs[i].what = "tunnel" <=> i = k
                         /\ segs[i].what = "ctrl" <=> (i = c /\ x.what = "ctrl")
                         /\ segs[i].what = "fc" <=> (i = c /\ x.what = "fc")
                         /\ segs[i].what = "tlv" <=> i > c
    <2> SUFFICES ASSUME NEW i \in 1..N
                 PROVE  /\ segs[i].what = "tunnel" <=> i = k
                        /\ segs[i].what = "ctrl" <=> (i = c /\ x.what = "ctrl")
                        /\ segs[i].what = "fc" <=> (i = c /\ x.what = "fc")
                        /\ segs[i].what = "tlv" <=> i > c
      OBVIOUS
    <2>1. CASE i < c
      <3>1. /\ segs[i].what \in {"macs", "vlan", "type", "tunnel"}
            /\ segs[i].what = "tunnel" <=> i = k
        BY <1>8a, <2>1
      <3>2. i # c /\ ~(i > c)
        BY <2>1
      <3> QED
        BY <3>1, <3>2
    <2>2. CASE i = c
      <3>1. segs[i].what = x.what
        BY <1>8a, <2>2
      <3>2. i # k /\ ~(i > c)
        BY <1>8, <2>2
      <3> QED
        BY <2>2, <3>1, <3>2
    <2>3. CASE i > c
      <3>1. segs[i].what = "tlv"
        BY <1>8a, <2>3
      <3>2. i # c /\ i # k
        BY <1>8, <2>3
      <3> QED
        BY <2>3, <3>1, <3>2
    <2>4. i < c \/ i = c \/ i > c
      BY <1>8
    <2> QED
      BY <2>1, <2>2, <2>3, <2>4
  <1>9. Places(segs, "vlan") = (IF t THEN {2} ELSE {}) \cup (IF u THEN {h + 3} ELSE {})
    <2>1. ASSUME NEW i \in DOMAIN segs
          PROVE  segs[i].what = "vlan" <=> ((t /\ i = 2) \/ (u /\ i = h + 3))
      <3>1. CASE i \in 1..(h + g + 1)
        BY <1>2, <3>1
      <3>2. CASE i \notin 1..(h + g + 1)
        <4>1. segs[i].what # "vlan"
          BY <1>3, <1>4, <3>2
        <4>2. i # 2 /\ (u => i # h + 3)
          BY <1>5, <1>6, <3>2
        <4> QED
          BY <4>1, <4>2
      <3> QED
        BY <3>1, <3>2
    <2>2. 2 \in DOMAIN segs /\ (u => h + 3 \in DOMAIN segs)
      BY <1>3, <1>5, <1>6
    <2>3. PICK e : e = h + 3
      OBVIOUS
    <2>4. Places(segs, "vlan") = (IF t THEN {2} ELSE {}) \cup (IF u THEN {e} ELSE {})
      BY <2>1, <2>2, <2>3 DEF Places
    <2> QED
      BY <2>3, <2>4
  <1>10. /\ Places(segs, "tunnel") = {k}
         /\ Places(segs, "ctrl") = (IF x.what = "ctrl" THEN {c} ELSE {})
         /\ Places(segs, "fc") = (IF x.what = "fc" THEN {c} ELSE {})
    BY <1>8b, <1>8c DEF Places
  <1>11. Places(segs, "tlv") = (h + g + 3)..(h + g + 2 + n)
    <2>1. Places(segs, "tlv") = (c + 1)..N
      <3>1. (c + 1)..N = {i \in 1..N : i > c}
        OBVIOUS
      <3> QED
        BY <1>8b, <1>8c, <3>1 DEF Places
    <2>2. c + 1 = h + g + 3
      BY <1>1, <1>8
    <2> QED
      BY <1>8, <2>1, <2>2
  <1> QED
    BY <1>1, <1>2, <1>3, <1>7, <1>8, <1>9, <1>10, <1>11 DEF PlacesIn

LEMMA FipPlaces ==
    ASSUME NEW t \in BOOLEAN, NEW u \in BOOLEAN, NEW op, NEW sub, NEW tlvs, NEW segs,
           Fip(segs, t, u, op, sub, tlvs)
    PROVE  /\ t # u => Off(segs)
           /\ Places(segs, "fc") = {}
           /\ Places(segs, "ctrl") = {Hdr(t) + Hdr(u) + 2}
           /\ Places(segs, "tlv") = (Hdr(t) + Hdr(u) + 3)..(Hdr(t) + Hdr(u) + 2 + Len(tlvs))
           /\ DOMAIN segs = 1..(Hdr(t) + Hdr(u) + 2 + Len(tlvs))
           /\ \A i \in 1..Len(segs) : segs[i].len > 0
  <1>1. PICK h, g, n : h = Hdr(t) /\ g = Hdr(u) /\ n = Len(tlvs)
    OBVIOUS
  <1>2. PICK hdr : hdr = CtrlHdr(op, sub, Length(tlvs))
    OBVIOUS
  <1>3. hdr.what = "ctrl" /\ hdr.len > 0
    BY <1>2 DEF CtrlHdr, SIZEOF_ctrl_hdr
  <1>4. PICK tun : TunnelOf(tun, FALSE, Hdr(u) + 10 + Length(tlvs))
                   /\ Tunneling(segs, t, u, FIP_ETH_TYPE, tun, hdr, 2, tlvs)
    BY <1>2 DEF Fip
  <1>5. tlvs \in Seq(Segment) /\ \A i \in 1..Len(tlvs) : tlvs[i].what = "tlv" /\ tlvs[i].len > 0
    BY DEF Fip, MessageOk
  <1>6a. PlacesIn(segs, t, u, tun, hdr, h, g, n)
    BY <1>1, <1>3, <1>4, <1>5, TunnelingPlaces
  <1>6. /\ h \in {2, 3} /\ g \in {2, 3} /\ n \in Nat
        /\ DOMAIN segs = 1..(h + g + 2 + n) /\ Len(segs) = h + g + 2 + n
        /\ \A i \in 1..(h + g + 2 + n) : segs[i].len > 0
        /\ Places(segs, "tunnel") = {h + 1} /\ segs[h + 1] = tun
        /\ Places(segs, "vlan") = (IF t THEN {2} ELSE {}) \cup (IF u THEN {h + 3} ELSE {})
        /\ Places(segs, "ctrl") = (IF hdr.what = "ctrl" THEN {h + g + 2} ELSE {})
        /\ Places(segs, "fc") = (IF hdr.what = "fc" THEN {h + g + 2} ELSE {})
        /\ Places(segs, "tlv") = (h + g + 3)..(h + g + 2 + n)
    BY <1>6a DEF PlacesIn
  <1>7. ASSUME t # u PROVE Off(segs)
    <2>1. tun.external = FALSE
      BY <1>4 DEF TunnelOf
    <2>2. (CHOOSE i \in Places(segs, "tunnel") : TRUE) = h + 1
      BY <1>6
    <2>3. ~segs[CHOOSE i \in Places(segs, "tunnel") : TRUE].external
      BY <1>6, <2>1, <2>2
    <2>4. CASE t /\ ~u
      <3>1. Places(segs, "vlan") = {2}
        BY <1>6, <2>4
      <3>2. {2} # {} /\ {2} # {2, 6}
        OBVIOUS
      <3> QED
        BY <2>3, <3>1, <3>2 DEF Off
    <2>5. CASE u /\ ~t
      <3>1. Places(segs, "vlan") = {h + 3} /\ h + 3 # 2
        BY <1>6, <2>5
      <3> QED
        BY <2>3, <3>1 DEF Off
    <2> QED
      BY <1>7, <2>4, <2>5
  <1> QED
    BY <1>1, <1>3, <1>6, <1>7

LEMMA HostFcPlaces ==
    ASSUME NEW t \in BOOLEAN, NEW u \in BOOLEAN, NEW len \in Nat \ {0}, NEW segs,
           HostFc(segs, t, u, len)
    PROVE  /\ t \/ u => Off(segs)
           /\ Places(segs, "ctrl") = {}
           /\ Places(segs, "fc") = {Hdr(t) + Hdr(u) + 2}
           /\ \A i \in 1..Len(segs) : segs[i].len > 0
           /\ DOMAIN segs = 1..Len(segs) /\ Len(segs) = Hdr(t) + Hdr(u) + 2
           /\ Places(segs, "tunnel") = {Hdr(t) + 1}
  <1>1. PICK h, g : h = Hdr(t) /\ g = Hdr(u)
    OBVIOUS
  <1>2. PICK x : x = Fc(len)
    OBVIOUS
  <1>3. x.what = "fc" /\ x.len > 0
    BY <1>2 DEF Fc, Seg
  <1>4. PICK rest \in Seq(Segment), n \in Nat : rest = << >> /\ n = 0 /\ Len(rest) = n
    BY EmptyParts
  <1>5. PICK tun : Tunneling(segs, t, u, FCOE_ETH_TYPE, tun, x, len, rest)
    BY <1>2, <1>4 DEF HostFc
  <1>6. \A i \in 1..Len(rest) : rest[i].what = "tlv" /\ rest[i].len > 0
    BY <1>4
  <1>7a. PlacesIn(segs, t, u, tun, x, h, g, n)
    <2>1. n = Len(rest)
      BY <1>4
    <2> QED
      BY <1>1, <1>3, <1>5, <1>6, <2>1, TunnelingPlaces
  <1>7. /\ h \in {2, 3} /\ g \in {2, 3}
        /\ DOMAIN segs = 1..(h + g + 2 + n) /\ Len(segs) = h + g + 2 + n
        /\ \A i \in 1..(h + g + 2 + n) : segs[i].len > 0
        /\ Places(segs, "tunnel") = {h + 1}
        /\ Places(segs, "vlan") = (IF t THEN {2} ELSE {}) \cup (IF u THEN {h + 3} ELSE {})
        /\ Places(segs, "ctrl") = (IF x.what = "ctrl" THEN {h + g + 2} ELSE {})
        /\ Places(segs, "fc") = (IF x.what = "fc" THEN {h + g + 2} ELSE {})
    BY <1>7a DEF PlacesIn
  <1>8. h + g + 2 + n = h + g + 2
    BY <1>4, <1>7
  <1>9. Places(segs, "ctrl") = {} /\ Places(segs, "fc") = {h + g + 2}
    BY <1>3, <1>7
  <1>10. ASSUME t \/ u PROVE Off(segs)
    BY <1>7, <1>9, <1>10 DEF Off
  <1> QED
    BY <1>1, <1>7, <1>8, <1>9, <1>10

LEMMA FabricFcPlaces ==
    ASSUME NEW t \in BOOLEAN, NEW len \in Nat \ {0}, NEW segs,
           FabricFc(segs, t, len)
    PROVE  /\ t => Off(segs)
           /\ Places(segs, "ctrl") = {}
           /\ Places(segs, "fc") = {Hdr(t) + 2}
           /\ \A i \in 1..Len(segs) : segs[i].len > 0
           /\ DOMAIN segs = 1..Len(segs) /\ Len(segs) = Hdr(t) + 2
           /\ segs[Hdr(t) + 2] = Fc(len)
           /\ Places(segs, "tunnel") = {Hdr(t) + 1}
  <1>1. PICK h \in {2, 3} : h = Hdr(t)
    BY DEF Hdr
  <1>2. PICK rest : rest = <<Fc(len)>> /\ rest[1] = Fc(len)
    <2>1. PICK x \in Segment : x = Fc(len)
      BY FcIsSegment
    <2> QED
      BY <2>1, OnePart
  <1>3. PICK tun : /\ TunnelOf(tun, TRUE, 6 + len) /\ segs \in Seq(Segment)
                   /\ HeaderIndex(segs, t, FIP_ETH_TYPE, tun, 6, rest, h, 1)
    BY <1>1, <1>2 DEF FabricFc
  <1>4. /\ segs[h + 1] = tun /\ Len(segs) = h + 1 + 1
        /\ \A i \in 1..h : /\ segs[i].what \in {"macs", "vlan", "type"} /\ segs[i].len > 0
                           /\ segs[i].what = "vlan" <=> (t /\ i = 2)
        /\ segs[h + 1 + 1] = rest[1]
    BY <1>3 DEF HeaderIndex
  <1>5. tun.what = "tunnel" /\ tun.len = 6
    BY <1>3 DEF TunnelOf
  <1>6. Fc(len).what = "fc" /\ Fc(len).len > 0
    BY DEF Fc, Seg
  <1>7. h + 1 + 1 = h + 2 /\ 1..(h + 2) = 1..h \cup {h + 1, h + 2}
    BY <1>1
  <1>8. DOMAIN segs = 1..(h + 2) /\ Len(segs) = h + 2
    BY <1>3, <1>4, <1>7, LenProperties
  <1>9. segs[h + 2] = Fc(len)
    BY <1>2, <1>4, <1>7
  <1>10. segs[h + 1].what = "tunnel" /\ segs[h + 1].len > 0
    BY <1>4, <1>5
  <1>11. segs[h + 2].what = "fc" /\ segs[h + 2].len > 0
    BY <1>6, <1>9
  <1>12. h + 1 # h + 2 /\ h + 1 \notin 1..h /\ h + 2 \notin 1..h /\ 2 \in 1..h
    BY <1>1
  <1>13. Places(segs, "ctrl") = {} /\ Places(segs, "fc") = {h + 2} /\ Places(segs, "tunnel") = {h + 1}
    BY <1>4, <1>7, <1>8, <1>10, <1>11, <1>12 DEF Places
  <1>14. \A i \in 1..(h + 2) : segs[i].len > 0
    BY <1>4, <1>7, <1>10, <1>11
  <1>15. ASSUME t PROVE Off(segs)
    <2>1. 2 \in Places(segs, "vlan")
      BY <1>4, <1>7, <1>8, <1>12, <1>15 DEF Places
    <2> QED
      BY <1>13, <2>1 DEF Off
  <1> QED
    BY <1>1, <1>8, <1>9, <1>13, <1>14, <1>15

-----------------------------------------------------------------------------
(* What is read in these frames. *)

LEMMA EndInside ==
    ASSUME NEW segs \in Seq(Segment), NEW i \in 1..Len(segs)
    PROVE  /\ Start(segs)[i] \in Nat /\ segs[i].len \in Nat
           /\ Start(segs)[i + 1] = Start(segs)[i] + segs[i].len
           /\ Start(segs)[i + 1] <= Length(segs)
  <1>1. PICK n \in Nat : n = Len(segs)
    BY LenProperties
  <1>2. i + 1 \in 1..(n + 1) /\ i \in 1..n
    BY <1>1
  <1>3. SubSeq(segs, i + 1, n) \in Seq(Segment)
    BY <1>1, <1>2, SubSeqProperties
  <1>4. Length(SubSeq(segs, i + 1, n)) \in Nat
    BY <1>3, LengthNat
  <1>5. Length(SubSeq(segs, i + 1, n)) = Length(segs) - Start(segs)[i + 1]
    BY <1>1, <1>2, LengthRest
  <1>6. Length(segs) \in Nat /\ Start(segs)[i + 1] \in Nat
    BY <1>1, <1>2, LengthNat, StartFacts
  <1>7. Start(segs)[i + 1] <= Length(segs)
    BY <1>4, <1>5, <1>6
  <1> QED
    BY <1>7, StartStep

ReadAs(f, t, type, tun, x, len, rest) ==
    LET h == Hdr(t)
    IN /\ f.size >= 5 => (Is(f, "vlan", 3) <=> t)
       /\ f.size >= h + 8 => Is(f, "tunnel", h + 2) /\ At(f, "tunnel", h + 2) = tun
       /\ f.size >= h + h + 10 =>
             Is(f, "type", h + h + 9) /\ At(f, "type", h + h + 9).type = type
       /\ f.size >= h + h + 10 + len =>
             Is(f, x.what, h + h + 10) /\ At(f, x.what, h + h + 10) = x
       /\ f.size >= h + h + 10 + len + Length(rest) =>
             \A i \in 1..Len(rest) :
                /\ Is(f, "tlv", h + h + 10 + len + Start(rest)[i])
                /\ At(f, "tlv", h + h + 10 + len + Start(rest)[i]) = rest[i]

LEMMA ReadsAs ==
    ASSUME NEW t \in BOOLEAN, NEW f, f.size \in Nat, NEW type, NEW tun,
           NEW x, x.what \in {"ctrl", "fc"}, NEW len \in Nat \ {0}, x.len = len,
           NEW rest \in Seq(Segment), tun.what = "tunnel", tun.len = 6,
           \A i \in 1..Len(rest) : rest[i].what = "tlv" /\ rest[i].len > 0,
           Tunneling(f.segs, t, t, type, tun, x, len, rest)
    PROVE  ReadAs(f, t, type, tun, x, len, rest)
  <1>1. PICK h \in {2, 3}, n \in Nat, size \in Nat : h = Hdr(t) /\ n = Len(rest) /\ size = f.size
    BY LenProperties DEF Hdr
  <1>2. PICK segs : segs = f.segs
    OBVIOUS
  <1>3. Tunneling(segs, t, t, type, tun, x, len, rest)
    BY <1>2
  <1>4. PlacesIn(segs, t, t, tun, x, h, h, n)
    BY <1>1, <1>3, TunnelingPlaces
  <1>5. /\ segs \in Seq(Segment) /\ Len(segs) = h + h + 2 + n
        /\ segs[h + 1] = tun
        /\ segs[h + h + 1].what = "type" /\ segs[h + h + 1].len = 1
        /\ segs[h + h + 1].type = type
        /\ segs[h + h + 2] = x
        /\ \A i \in 1..n : segs[h + h + 2 + i] = rest[i]
        /\ Start(segs)[2] = 3 /\ Start(segs)[h + 1] = h + 2
        /\ Start(segs)[h + h + 1] = h + h + 9 /\ Start(segs)[h + h + 2] = h + h + 10
        /\ \A i \in 1..(n + 1) : Start(segs)[h + h + 2 + i] = h + h + 10 + len + Start(rest)[i]
        /\ \A i \in 1..(h + h + 1) :
              segs[i].what = "vlan" <=> ((t /\ i = 2) \/ (t /\ i = h + 3))
    BY <1>1, <1>3 DEF Tunneling
  <1>6. \A j \in 1..Len(segs) : segs[j].len > 0
    BY <1>1, <1>4 DEF PlacesIn
  <1>7. /\ 2 \in 1..Len(segs) /\ h + 1 \in 1..Len(segs) /\ h + h + 1 \in 1..Len(segs)
        /\ h + h + 2 \in 1..Len(segs) /\ \A i \in 1..n : h + h + 2 + i \in 1..Len(segs)
        /\ 2 \in 1..(h + h + 1) /\ 2 # h + 3
    BY <1>5
  <1>8. f.segs \in Seq(Segment) /\ \A j \in 1..Len(f.segs) : f.segs[j].len > 0
    BY <1>2, <1>5, <1>6
  <1>9. ASSUME size >= 5 PROVE Is(f, "vlan", 3) <=> t
    <2>1. segs[2].what = "vlan" <=> t
      BY <1>5, <1>7
    <2>2. CASE ~t
      <3>1. segs[2].what # "vlan"
        BY <2>1, <2>2
      <3>2. 2 \in 1..Len(f.segs) /\ 3 = Start(f.segs)[2] /\ f.segs[2].what # "vlan"
        BY <1>2, <1>5, <1>7, <3>1
      <3>3. ~Is(f, "vlan", 3)
        BY <1>8, <3>2, FoundAt
      <3> QED
        BY <2>2, <3>3
    <2>3. CASE t
      <3>1. segs[2].len = 1
        <4>1. h = 3
          BY <1>1, <2>3 DEF Hdr
        <4>2. 3 \in 1..Len(segs)
          BY <1>7, <4>1
        <4>3. PICK a \in Nat, b \in Nat : a = segs[2].len /\ b = segs[3].len /\ a > 0 /\ b > 0
          BY <1>5, <1>6, <1>7, <4>2, StartStep
        <4>4. Start(segs)[2 + 1] = Start(segs)[2] + segs[2].len
          BY <1>5, <1>7, StartStep
        <4>5. Start(segs)[3 + 1] = Start(segs)[3] + segs[3].len
          BY <1>5, <4>2, StartStep
        <4>6. Start(segs)[3] = 3 + a
          BY <1>5, <4>3, <4>4
        <4>7. Start(segs)[4] = 5
          BY <1>5, <4>1
        <4>8. 5 = (3 + a) + b
          BY <4>3, <4>5, <4>6, <4>7
        <4> QED
          BY SMTT(30), <4>3, <4>8
      <3>2. 2 \in 1..Len(f.segs) /\ 3 = Start(f.segs)[2] /\ f.segs[2].what = "vlan"
        BY <1>2, <1>5, <1>7, <2>1, <2>3
      <3>3. 3 + f.segs[2].len <= f.size
        BY <1>1, <1>2, <1>9, <3>1
      <3>4. Is(f, "vlan", 3)
        BY <1>8, <3>2, <3>3, FoundAt
      <3> QED
        BY <2>3, <3>4
    <2> QED
      BY <2>2, <2>3
  <1>10. ASSUME size >= h + 8 PROVE Is(f, "tunnel", h + 2) /\ At(f, "tunnel", h + 2) = tun
    <2>1. PICK i, p \in Nat : i = h + 1 /\ p = h + 2 /\ p + 6 <= size
      BY <1>10
    <2>2. /\ i \in 1..Len(f.segs) /\ p = Start(f.segs)[i] /\ f.segs[i] = tun
      BY <1>2, <1>5, <1>7, <2>1
    <2>3. f.segs[i].what = "tunnel" /\ p + f.segs[i].len <= f.size
      BY <1>1, <2>1, <2>2
    <2>4. Is(f, "tunnel", p) /\ At(f, "tunnel", p) = f.segs[i]
      BY <1>8, <2>2, <2>3, FoundAt
    <2> QED
      BY <2>1, <2>2, <2>4
  <1>11. ASSUME size >= h + h + 10
         PROVE  Is(f, "type", h + h + 9) /\ At(f, "type", h + h + 9).type = type
    <2>1. PICK i, p \in Nat : i = h + h + 1 /\ p = h + h + 9 /\ p + 1 <= size
      BY <1>11
    <2>2. /\ i \in 1..Len(f.segs) /\ p = Start(f.segs)[i]
          /\ f.segs[i].what = "type" /\ f.segs[i].len = 1 /\ f.segs[i].type = type
      BY <1>2, <1>5, <1>7, <2>1
    <2>3. p + f.segs[i].len <= f.size
      BY <1>1, <2>1, <2>2
    <2>4. Is(f, "type", p) /\ At(f, "type", p) = f.segs[i]
      BY <1>8, <2>2, <2>3, FoundAt
    <2> QED
      BY <2>1, <2>2, <2>4
  <1>12. ASSUME size >= h + h + 10 + len
         PROVE  Is(f, x.what, h + h + 10) /\ At(f, x.what, h + h + 10) = x
    <2>1. PICK i, p \in Nat : i = h + h + 2 /\ p = h + h + 10 /\ p + len <= size
      BY <1>12
    <2>2. /\ i \in 1..Len(f.segs) /\ p = Start(f.segs)[i] /\ f.segs[i] = x
      BY <1>2, <1>5, <1>7, <2>1
    <2>3. p + f.segs[i].len <= f.size
      BY <1>1, <2>1, <2>2
    <2>4. Is(f, x.what, p) /\ At(f, x.what, p) = f.segs[i]
      BY <1>8, <2>2, <2>3, FoundAt
    <2> QED
      BY <2>1, <2>2, <2>4
  <1>13. ASSUME size >= h + h + 10 + len + Length(rest), NEW j \in 1..n
         PROVE  /\ Is(f, "tlv", h + h + 10 + len + Start(rest)[j])
                /\ At(f, "tlv", h + h + 10 + len + Start(rest)[j]) = rest[j]
    <2>1. PICK s \in Nat, l \in Nat, k \in Nat :
             /\ s = Start(rest)[j] /\ l = rest[j].len /\ k = Length(rest) /\ s + l <= k
      <3>1. j \in 1..Len(rest)
        BY <1>1
      <3>2. PICK e : e = Start(rest)[j + 1]
        OBVIOUS
      <3>3. /\ Start(rest)[j] \in Nat /\ rest[j].len \in Nat
            /\ e = Start(rest)[j] + rest[j].len /\ e <= Length(rest)
        BY <3>1, <3>2, EndInside
      <3> QED
        BY <3>3, LengthNat
    <2>2. PICK i, p \in Nat : i = h + h + 2 + j /\ p = h + h + 10 + len + s /\ p + l <= size
      <3>1. size >= h + h + 10 + len + k
        BY <1>13, <2>1
      <3>2. s + l <= k
        BY <2>1
      <3>3. PICK a \in Nat : a = h + h + 10 + len
        OBVIOUS
      <3>4. a + k <= size
        BY <3>1, <3>3
      <3>5. h + h + 10 + len + s + l <= size
        BY <3>2, <3>3, <3>4
      <3> QED
        BY <3>5
    <2>3. j \in 1..(n + 1)
      OBVIOUS
    <2>4. /\ i \in 1..Len(f.segs) /\ p = Start(f.segs)[i] /\ f.segs[i] = rest[j]
      BY <1>2, <1>5, <1>7, <2>1, <2>2, <2>3
    <2>5. f.segs[i].what = "tlv" /\ p + f.segs[i].len <= f.size
      BY <1>1, <2>1, <2>2, <2>4
    <2>6. Is(f, "tlv", p) /\ At(f, "tlv", p) = f.segs[i]
      BY <1>8, <2>4, <2>5, FoundAt
    <2> QED
      BY <2>1, <2>2, <2>4, <2>6
  <1> QED
    BY <1>1, <1>9, <1>10, <1>11, <1>12, <1>13 DEF ReadAs

(* What is read in a FIP frame with consistent tags. *)
FipRead(t, op, sub, tlvs, h, l) ==
    /\ h \in {2, 3} /\ h = Hdr(t) /\ l \in Nat /\ l = Length(tlvs)
    /\ Length(frame.segs) = h + h + 12 + l /\ frame.size \in Nat
    /\ frame.size >= 5 => (TagInFrame <=> t)
    /\ frame.size >= h + 8 =>
          /\ Is(frame, "tunnel", h + 2) /\ At(frame, "tunnel", h + 2).external = FALSE
    /\ frame.size >= h + h + 10 =>
          /\ Is(frame, "type", h + h + 9)
          /\ At(frame, "type", h + h + 9).type = FIP_ETH_TYPE
    /\ frame.size >= h + h + 12 =>
          /\ Is(frame, "ctrl", h + h + 10)
          /\ At(frame, "ctrl", h + h + 10) = CtrlHdr(op, sub, l)
    /\ frame.size >= h + h + 12 + l =>
          \A i \in 1..Len(tlvs) : /\ Is(frame, "tlv", h + h + 12 + Start(tlvs)[i])
                                  /\ At(frame, "tlv", h + h + 12 + Start(tlvs)[i]) = tlvs[i]

LEMMA FipReads ==
    ASSUME Basic, NEW t \in BOOLEAN, NEW op, NEW sub, NEW tlvs,
           Fip(frame.segs, t, t, op, sub, tlvs)
    PROVE  FipRead(t, op, sub, tlvs, Hdr(t), Length(tlvs))
  <1>1. tlvs \in Seq(Segment) /\ \A i \in 1..Len(tlvs) : tlvs[i].what = "tlv" /\ tlvs[i].len > 0
    BY DEF Fip, MessageOk
  <1>2. PICK h \in {2, 3}, l \in Nat : h = Hdr(t) /\ l = Length(tlvs)
    BY <1>1, LengthNat DEF Hdr
  <1>3. PICK hdr : hdr = CtrlHdr(op, sub, l)
    OBVIOUS
  <1>4. hdr.what = "ctrl" /\ hdr.len = 2
    BY <1>3 DEF CtrlHdr, SIZEOF_ctrl_hdr
  <1>5. PICK tun : /\ TunnelOf(tun, FALSE, Hdr(t) + 10 + Length(tlvs))
                   /\ Tunneling(frame.segs, t, t, FIP_ETH_TYPE, tun, hdr, 2, tlvs)
    BY <1>2, <1>3 DEF Fip
  <1>6. tun.what = "tunnel" /\ tun.len = 6 /\ tun.external = FALSE
    BY <1>5 DEF TunnelOf
  <1>7. frame.size \in Nat
    BY RemainingIs
  <1>8. ReadAs(frame, t, FIP_ETH_TYPE, tun, hdr, 2, tlvs)
    <2>1. hdr.what \in {"ctrl", "fc"} /\ 2 \in Nat \ {0}
      BY <1>4
    <2> QED
      BY <1>1, <1>4, <1>5, <1>6, <1>7, <2>1, ReadsAs
  <1>9. /\ frame.size >= 5 => (TagInFrame <=> t)
        /\ frame.size >= h + 8 =>
              Is(frame, "tunnel", h + 2) /\ At(frame, "tunnel", h + 2) = tun
        /\ frame.size >= h + h + 10 =>
              /\ Is(frame, "type", h + h + 9)
              /\ At(frame, "type", h + h + 9).type = FIP_ETH_TYPE
        /\ frame.size >= h + h + 10 + 2 =>
              Is(frame, "ctrl", h + h + 10) /\ At(frame, "ctrl", h + h + 10) = hdr
        /\ frame.size >= h + h + 10 + 2 + l =>
              \A i \in 1..Len(tlvs) :
                 /\ Is(frame, "tlv", h + h + 10 + 2 + Start(tlvs)[i])
                 /\ At(frame, "tlv", h + h + 10 + 2 + Start(tlvs)[i]) = tlvs[i]
    BY <1>2, <1>4, <1>8, Zenon DEF ReadAs, TagInFrame
  <1>10. h + h + 10 + 2 = h + h + 12
    BY <1>2
  <1>11. Length(frame.segs) = h + h + 12 + l
    <2>1. Length(frame.segs) = h + h + 10 + 2 + l
      BY <1>2, <1>5 DEF Tunneling
    <2> QED
      BY <1>10, <2>1
  <1> QED
    BY <1>2, <1>3, <1>6, <1>7, <1>9, <1>10, <1>11, Zenon DEF FipRead

(* What the handler makes of the descriptors, in the order of the list. *)
Decoding(tlvs, types) == [i \in 1..Len(types) |-> get_tlv_value(tlvs[i], types[i])]

Handled(op, sub, tlvs, result, frames) ==
    /\ op = 1 /\ sub = 1 =>
          /\ result.handler = "solicitation"
          /\ Len(tlvs) >= 3 => result.values = Decoding(tlvs, fcoe_conx_discovery)
    /\ op = 65530 /\ sub = 2 => result = Result("announce", << >>)
    /\ op = 2 /\ sub = 1 => result = Result("login", << >>)
    /\ op = 3 /\ sub = 1 =>
          /\ result.handler = "keep_alive" /\ frames # {}
          /\ Len(tlvs) >= 1 => /\ result.values = Decoding(tlvs, fcoe_vHBA_keep_alive)
                               /\ frames = {create_packet(3, tlvs[1].value)}
    /\ op = 3 /\ sub = 2 =>
          /\ result.handler = "clear_link"
          /\ Len(tlvs) >= 3 => result.values = Decoding(tlvs, fcoe_vHBA_deregister)
    /\ <<op, sub>> \notin {<<1, 1>>, <<65530, 2>>, <<2, 1>>, <<3, 1>>, <<3, 2>>} =>
          result = Result("none", << >>) /\ frames = {}

(* A list that has all that is read of it: Complete. *)
Full(op, sub, tlvs) ==
    /\ Length(tlvs) >= 2
    /\ op = 2 /\ sub = 1 => Length(tlvs) >= 3 + FLOGI_SIZE
    /\ (op = 1 /\ sub = 1) \/ (op = 3 /\ sub = 2) => Len(tlvs) >= 3

(* Where process_packet is in such a frame. *)
FipAt(t, op, sub, tlvs) ==
    LET h == Hdr(t)
    IN /\ Fip(frame.segs, t, t, op, sub, tlvs)
       /\ pc \in {"eth", "tunnel", "inner", "ctrl", "decide", "out"}
       /\ (pc = "out" => Full(op, sub, tlvs)) => high <= frame.size
       /\ pc = "eth" => pos = 0
       /\ pc = "tunnel" => pos = h + 2
       /\ pc = "inner" => pos = h + 8
       /\ pc = "ctrl" => pos = h + h + 10
       /\ pc = "decide" => /\ pos = h + h + 12 /\ ctrl = CtrlHdr(op, sub, Length(tlvs))
                           /\ h + h + 12 + Length(tlvs) <= frame.size
       /\ pc = "out" /\ Whole => Handled(op, sub, tlvs, outcome, sent)

LEMMA FipIgnored ==
    ASSUME NEW t \in BOOLEAN, NEW op, NEW sub, NEW tlvs, FipAt(t, op, sub, tlvs),
           Ignore, frame.size # Length(frame.segs)
    PROVE  FipAt(t, op, sub, tlvs)'
  <1>1. pc' = "out" /\ UNCHANGED <<frame, high>>
    BY DEF Ignore, Out
  <1>2. ~Whole'
    BY <1>1 DEF Whole
  <1> QED
    BY <1>1, <1>2 DEF FipAt

LEMMA FipReadEth ==
    ASSUME Basic, NEW t \in BOOLEAN, NEW op, NEW sub, NEW tlvs, FipAt(t, op, sub, tlvs),
           ReadEth
    PROVE  FipAt(t, op, sub, tlvs)'
  <1>1. PICK h, l : FipRead(t, op, sub, tlvs, h, l)
    BY FipReads DEF FipAt
  <1>2. /\ h \in {2, 3} /\ h = Hdr(t) /\ l \in Nat
        /\ Length(frame.segs) = h + h + 12 + l /\ frame.size \in Nat
        /\ frame.size >= 5 => (TagInFrame <=> t)
    BY <1>1 DEF FipRead
  <1>3. pos = 0 /\ high <= frame.size
    BY DEF FipAt, ReadEth
  <1>4. Remaining = frame.size
    BY <1>2, <1>3, RemainingIs
  <1>5. CASE Remaining < SIZEOF_eth_hdr /\ Ignore
    <2>1. frame.size < 5
      BY <1>4, <1>5 DEF SIZEOF_eth_hdr
    <2>2. frame.size # h + h + 12 + l
      BY <1>2, <2>1
    <2> QED
      BY <1>2, <1>5, <2>2, FipIgnored
  <1>6. CASE Remaining >= SIZEOF_eth_hdr /\ EthRead
    <2>1. frame.size >= 5
      BY <1>4, <1>6 DEF SIZEOF_eth_hdr
    <2>2. pos' = h + 2
      <3>1. pos' = pos + (IF TagInFrame THEN 5 ELSE 4)
        BY <1>6, EthHdrSize DEF EthRead
      <3>2. TagInFrame <=> t
        BY <1>2, <2>1
      <3>3. h = IF t THEN 3 ELSE 2
        BY <1>2 DEF Hdr
      <3> QED
        BY <1>3, <3>1, <3>2, <3>3
    <2>3. pc' = "tunnel" /\ frame' = frame
      BY <1>6 DEF EthRead
    <2>4. high' <= frame.size
      <3>1. high' = IF pos + 5 > high THEN pos + 5 ELSE high
        BY <1>6 DEF EthRead, Further, SIZEOF_eth_hdr
      <3> QED
        BY <1>3, <2>1, <3>1
    <2> QED
      BY <1>2, <2>2, <2>3, <2>4 DEF FipAt
  <1> QED
    BY <1>5, <1>6 DEF ReadEth


LEMMA FipReadTunnel ==
    ASSUME Basic, NEW t \in BOOLEAN, NEW op, NEW sub, NEW tlvs, FipAt(t, op, sub, tlvs),
           ReadTunnel
    PROVE  FipAt(t, op, sub, tlvs)'
  <1>1. PICK h, l : FipRead(t, op, sub, tlvs, h, l)
    BY FipReads DEF FipAt
  <1>2. /\ h \in {2, 3} /\ h = Hdr(t) /\ l \in Nat
        /\ Length(frame.segs) = h + h + 12 + l /\ frame.size \in Nat
        /\ frame.size >= h + 8 =>
              /\ Is(frame, "tunnel", h + 2) /\ At(frame, "tunnel", h + 2).external = FALSE
    BY <1>1 DEF FipRead
  <1>3. pos = h + 2 /\ high <= frame.size
    BY <1>2 DEF FipAt, ReadTunnel
  <1>4. Remaining = frame.size - (h + 2)
    BY <1>2, <1>3, RemainingIs
  <1>5. CASE Remaining < SIZEOF_tunnel_hdr /\ Ignore
    <2>1. frame.size < h + 8
      BY <1>2, <1>4, <1>5 DEF SIZEOF_tunnel_hdr
    <2>2. frame.size # h + h + 12 + l
      BY <1>2, <2>1
    <2> QED
      BY <1>2, <1>5, <2>2, FipIgnored
  <1>6. CASE Remaining >= SIZEOF_tunnel_hdr
    <2>1. frame.size >= h + 8
      BY <1>2, <1>4, <1>6 DEF SIZEOF_tunnel_hdr
    <2>2. Is(frame, "tunnel", pos) /\ At(frame, "tunnel", pos).external = FALSE
      BY <1>2, <1>3, <2>1
    <2>3. ~(Remaining < SIZEOF_tunnel_hdr)
      BY <1>2, <1>4, <2>1 DEF SIZEOF_tunnel_hdr
    <2>4. /\ tunnel' = At(frame, "tunnel", pos)
          /\ pos' = pos + SIZEOF_tunnel_hdr
          /\ pc' = (IF tunnel'.external THEN "fc" ELSE "inner")
          /\ Further(pos + SIZEOF_tunnel_hdr)
          /\ frame' = frame
      BY <2>2, <2>3 DEF ReadTunnel
    <2>5. pc' = "inner"
      BY <2>2, <2>4
    <2>6. pos' = h + 8
      BY <1>2, <1>3, <2>4 DEF SIZEOF_tunnel_hdr
    <2>7. high' <= frame.size
      <3>1. high' = IF pos' > high THEN pos' ELSE high
        BY <2>4 DEF Further
      <3> QED
        BY <1>3, <2>1, <2>6, <3>1
    <2> QED
      BY <1>2, <2>4, <2>5, <2>6, <2>7 DEF FipAt
  <1> QED
    BY <1>5, <1>6 DEF ReadTunnel

LEMMA FipReadInner ==
    ASSUME Basic, NEW t \in BOOLEAN, NEW op, NEW sub, NEW tlvs, FipAt(t, op, sub, tlvs),
           ReadInner
    PROVE  FipAt(t, op, sub, tlvs)'
  <1>1. PICK h, l : FipRead(t, op, sub, tlvs, h, l)
    BY FipReads DEF FipAt
  <1>2. /\ h \in {2, 3} /\ h = Hdr(t) /\ l \in Nat
        /\ Length(frame.segs) = h + h + 12 + l /\ frame.size \in Nat
        /\ frame.size >= 5 => (TagInFrame <=> t)
        /\ frame.size >= h + h + 10 =>
              /\ Is(frame, "type", h + h + 9)
              /\ At(frame, "type", h + h + 9).type = FIP_ETH_TYPE
    BY <1>1 DEF FipRead
  <1>3. pos = h + 8 /\ high <= frame.size
    BY <1>2 DEF FipAt, ReadInner
  <1>4. Remaining = frame.size - (h + 8)
    BY <1>2, <1>3, RemainingIs
  <1>5. CASE Remaining < SIZEOF_eth_hdr /\ Ignore
    <2>1. frame.size < h + 13
      BY <1>2, <1>4, <1>5 DEF SIZEOF_eth_hdr
    <2>2. frame.size # h + h + 12 + l
      BY <1>2, <2>1
    <2> QED
      BY <1>2, <1>5, <2>2, FipIgnored
  <1>6. CASE /\ Remaining >= SIZEOF_eth_hdr
             /\ ether_type' \in TypesAt(read_eth_hdr - 1)
             /\ pos' = read_eth_hdr
             /\ pc' = (IF ether_type' = FCOE_ETH_TYPE THEN "els" ELSE "ctrl")
             /\ Further(pos + SIZEOF_eth_hdr)
             /\ frame' = frame
    <2>1. frame.size >= h + 13
      BY <1>2, <1>4, <1>6 DEF SIZEOF_eth_hdr
    <2>2. frame.size >= 5 /\ frame.size >= h + h + 10
      BY <1>2, <2>1
    <2>3. read_eth_hdr = h + h + 10
      <3>1. read_eth_hdr = pos + (IF TagInFrame THEN 5 ELSE 4)
        BY EthHdrSize
      <3>2. h = IF t THEN 3 ELSE 2
        BY <1>2 DEF Hdr
      <3> QED
        BY <1>2, <1>3, <2>2, <3>1, <3>2
    <2>4. read_eth_hdr - 1 = h + h + 9
      BY <1>2, <2>3
    <2>5. TypesAt(h + h + 9) = {FIP_ETH_TYPE}
      BY <1>2, <2>2 DEF TypesAt
    <2>6. ether_type' = FIP_ETH_TYPE
      BY <1>6, <2>4, <2>5
    <2>7. FIP_ETH_TYPE # FCOE_ETH_TYPE
      BY DEF FIP_ETH_TYPE, FCOE_ETH_TYPE
    <2>8. pc' = "ctrl" /\ pos' = h + h + 10
      BY <1>6, <2>3, <2>6, <2>7
    <2>9. high' <= frame.size
      <3>1. high' = IF pos + 5 > high THEN pos + 5 ELSE high
        BY <1>6 DEF Further, SIZEOF_eth_hdr
      <3>2. pos + 5 <= frame.size
        BY <1>2, <1>3, <2>1
      <3> QED
        BY <1>3, <3>1, <3>2
    <2> QED
      BY <1>2, <1>6, <2>8, <2>9 DEF FipAt
  <1> QED
    BY <1>5, <1>6 DEF ReadInner

LEMMA FipReadCtrl ==
    ASSUME Basic, NEW t \in BOOLEAN, NEW op, NEW sub, NEW tlvs, FipAt(t, op, sub, tlvs),
           ReadCtrl
    PROVE  FipAt(t, op, sub, tlvs)'
  <1>1. PICK h, l : FipRead(t, op, sub, tlvs, h, l)
    BY FipReads DEF FipAt
  <1>2. /\ h \in {2, 3} /\ h = Hdr(t) /\ l \in Nat /\ l = Length(tlvs)
        /\ Length(frame.segs) = h + h + 12 + l /\ frame.size \in Nat
        /\ frame.size >= h + h + 12 =>
              /\ Is(frame, "ctrl", h + h + 10)
              /\ At(frame, "ctrl", h + h + 10) = CtrlHdr(op, sub, l)
    BY <1>1 DEF FipRead
  <1>3. pos = h + h + 10 /\ high <= frame.size
    BY <1>2 DEF FipAt, ReadCtrl
  <1>4. Remaining = frame.size - (h + h + 10)
    BY <1>2, <1>3, RemainingIs
  <1>5. CASE Remaining < SIZEOF_ctrl_hdr /\ Ignore
    <2>1. frame.size < h + h + 12
      BY <1>2, <1>4, <1>5 DEF SIZEOF_ctrl_hdr
    <2>2. frame.size # h + h + 12 + l
      BY <1>2, <2>1
    <2> QED
      BY <1>2, <1>5, <2>2, FipIgnored
  <1>6. CASE /\ Remaining >= SIZEOF_ctrl_hdr
             /\ \E hdr \in CtrlHdrs :
                   IF Remaining - SIZEOF_ctrl_hdr < hdr.list THEN Ignore ELSE CtrlRead(hdr)
    <2>1. frame.size >= h + h + 12
      BY <1>2, <1>4, <1>6 DEF SIZEOF_ctrl_hdr
    <2>2. CtrlHdrs = {CtrlHdr(op, sub, l)}
      BY <1>2, <1>3, <2>1 DEF CtrlHdrs
    <2>3. PICK hdr : hdr = CtrlHdr(op, sub, l) /\ hdr.list = l
      <3>1. CtrlHdr(op, sub, l).list = l
        BY DEF CtrlHdr
      <3> QED
        BY <3>1
    <2>4. IF Remaining - SIZEOF_ctrl_hdr < l THEN Ignore ELSE CtrlRead(hdr)
      BY <1>6, <2>2, <2>3
    <2>5. CASE Remaining - SIZEOF_ctrl_hdr < l
      <3>1. frame.size # h + h + 12 + l
        BY <1>2, <1>4, <2>5 DEF SIZEOF_ctrl_hdr
      <3> QED
        BY <1>2, <2>4, <2>5, <3>1, FipIgnored
    <2>6. CASE ~(Remaining - SIZEOF_ctrl_hdr < l)
      <3>1. h + h + 12 + l <= frame.size
        BY <1>2, <1>4, <2>6 DEF SIZEOF_ctrl_hdr
      <3>2. /\ ctrl' = hdr /\ pos' = pos + SIZEOF_ctrl_hdr /\ pc' = "decide"
            /\ Further(pos + SIZEOF_ctrl_hdr) /\ frame' = frame
        BY <2>4, <2>6 DEF CtrlRead
      <3>3. pos' = h + h + 12
        BY <1>2, <1>3, <3>2 DEF SIZEOF_ctrl_hdr
      <3>4. high' <= frame.size
        <4>1. high' = IF pos' > high THEN pos' ELSE high
          BY <3>2 DEF Further
        <4> QED
          BY <1>3, <2>1, <3>3, <4>1
      <3> QED
        BY <1>2, <2>3, <3>1, <3>2, <3>3, <3>4 DEF FipAt
    <2> QED
      BY <2>5, <2>6
  <1> QED
    BY <1>5, <1>6 DEF ReadCtrl

(* The descriptors are read one after the other, each where it is. *)
DescriptorsAt(tlvs, p) ==
    \A i \in 1..Len(tlvs) : /\ Is(frame, "tlv", p + Start(tlvs)[i])
                            /\ At(frame, "tlv", p + Start(tlvs)[i]) = tlvs[i]

LEMMA DecodedIs ==
    ASSUME NEW types, NEW n \in {1, 3}, Len(types) = n, pos \in Nat,
           NEW tlvs \in Seq(Segment), n <= Len(tlvs), DescriptorsAt(tlvs, pos)
    PROVE  /\ Decoded(types).values = Decoding(tlvs, types)
           /\ Decoded(types).end = pos + Start(tlvs)[n + 1]
  <1> DEFINE Reads(g) ==
                g = [i \in 1..n |->
                        IF i = 1 THEN [tlv |-> get_tlv(pos), at |-> pos]
                        ELSE [tlv |-> get_tlv(g[i - 1].at + g[i - 1].tlv.len),
                              at |-> g[i - 1].at + g[i - 1].tlv.len]]
  <1>1. \A i \in 1..n : i \in 1..Len(tlvs)
    BY LenProperties
  <1>2. PICK at : at = [i \in 1..(n + 1) |-> pos + Start(tlvs)[i]]
    OBVIOUS
  <1>3. /\ at[1] = pos
        /\ \A i \in 1..n : /\ at[i] = pos + Start(tlvs)[i] /\ at[i + 1] = at[i] + tlvs[i].len
                           /\ get_tlv(at[i]) = tlvs[i]
        /\ at[n + 1] = pos + Start(tlvs)[n + 1]
    <2>1. at[1] = pos /\ at[n + 1] = pos + Start(tlvs)[n + 1]
      BY <1>2, StartFacts
    <2>2. ASSUME NEW i \in 1..n
          PROVE  /\ at[i] = pos + Start(tlvs)[i] /\ at[i + 1] = at[i] + tlvs[i].len
                 /\ get_tlv(at[i]) = tlvs[i]
      <3>1. i \in 1..Len(tlvs)
        BY <1>1
      <3>2. at[i] = pos + Start(tlvs)[i] /\ at[i + 1] = pos + Start(tlvs)[i + 1]
        BY <1>2
      <3>3. PICK s \in Nat, l \in Nat : s = Start(tlvs)[i] /\ l = tlvs[i].len
                                        /\ Start(tlvs)[i + 1] = s + l
        BY <3>1, StartStep
      <3>4. at[i + 1] = at[i] + tlvs[i].len
        BY <3>2, <3>3
      <3>5. get_tlv(at[i]) = tlvs[i]
        BY <3>1, <3>2 DEF DescriptorsAt, get_tlv
      <3> QED
        BY <3>2, <3>4, <3>5
    <2> QED
      BY <2>1, <2>2
  <1>4. PICK w : w = [i \in 1..n |-> [tlv |-> tlvs[i], at |-> at[i]]]
    OBVIOUS
  <1>5. Reads(w)
    <2>1. ASSUME NEW i \in 1..n
          PROVE  [tlv |-> tlvs[i], at |-> at[i]]
               = IF i = 1 THEN [tlv |-> get_tlv(pos), at |-> pos]
                 ELSE [tlv |-> get_tlv(w[i - 1].at + w[i - 1].tlv.len),
                       at |-> w[i - 1].at + w[i - 1].tlv.len]
      <3>1. CASE i = 1
        BY <1>3, <3>1
      <3>2. CASE i # 1
        <4>1. i - 1 \in 1..n /\ (i - 1) + 1 = i
          BY <3>2
        <4>2. w[i - 1].at = at[i - 1] /\ w[i - 1].tlv = tlvs[i - 1]
          BY <1>4, <4>1
        <4>3. at[i] = at[i - 1] + tlvs[i - 1].len
          BY <1>3, <4>1
        <4> QED
          BY <1>3, <3>2, <4>2, <4>3
      <3> QED
        BY <3>1, <3>2
    <2> DEFINE A(i) == [tlv |-> tlvs[i], at |-> at[i]]
               B(i) == IF i = 1 THEN [tlv |-> get_tlv(pos), at |-> pos]
                       ELSE [tlv |-> get_tlv(w[i - 1].at + w[i - 1].tlv.len),
                             at |-> w[i - 1].at + w[i - 1].tlv.len]
    <2>2. \A i \in 1..n : A(i) = B(i)
      BY <2>1
    <2>3. w = [i \in 1..n |-> A(i)]
      BY <1>4
    <2> HIDE DEF A, B
    <2>4. w = [i \in 1..n |-> B(i)]
      BY <2>2, <2>3
    <2> QED
      BY <2>4 DEF B
  <1>6. PICK d : /\ d = (CHOOSE g : Reads(g))
                 /\ Decoded(types).values = [i \in 1..Len(types) |-> get_tlv_value(d[i].tlv, types[i])]
                 /\ Decoded(types).end = d[n].at + d[n].tlv.len
    BY DEF Decoded
  <1>7. Reads(d)
    <2> HIDE DEF Reads
    <2> QED
      BY <1>5, <1>6
  <1>8. /\ d[1].at = at[1] /\ d[1].tlv = tlvs[1]
    BY <1>3, <1>7
  <1>9. ASSUME NEW i \in 1..n, i + 1 \in 1..n, d[i].at = at[i], d[i].tlv = tlvs[i]
        PROVE  d[i + 1].at = at[i + 1] /\ d[i + 1].tlv = tlvs[i + 1]
    <2>1. i + 1 # 1 /\ (i + 1) - 1 = i
      OBVIOUS
    <2>2. d[i + 1] = [tlv |-> get_tlv(d[i].at + d[i].tlv.len), at |-> d[i].at + d[i].tlv.len]
      BY <1>7, <1>9, <2>1
    <2> QED
      BY <1>3, <1>9, <2>2
  <1>10. \A i \in 1..n : d[i].at = at[i] /\ d[i].tlv = tlvs[i]
    <2>1. CASE n = 1
      BY <1>8, <2>1
    <2>2. CASE n = 3
      <3>1. 1 \in 1..n /\ 2 \in 1..n /\ 3 \in 1..n /\ 1 + 1 = 2 /\ 2 + 1 = 3
        BY <2>2
      <3>2. d[2].at = at[2] /\ d[2].tlv = tlvs[2]
        BY <1>8, <1>9, <3>1
      <3>3. d[3].at = at[3] /\ d[3].tlv = tlvs[3]
        BY <1>9, <3>1, <3>2
      <3> QED
        BY <1>8, <2>2, <3>2, <3>3
    <2> QED
      BY <2>1, <2>2
  <1>11. Decoded(types).values = Decoding(tlvs, types)
    <2>1. PICK v : v = Decoded(types).values
      OBVIOUS
    <2>2. v = [i \in 1..n |-> get_tlv_value(d[i].tlv, types[i])]
      BY <1>6, <2>1
    <2>3. \A i \in 1..n : get_tlv_value(d[i].tlv, types[i]) = get_tlv_value(tlvs[i], types[i])
      BY <1>10
    <2>4. v = [i \in 1..n |-> get_tlv_value(tlvs[i], types[i])]
      BY <2>2, <2>3
    <2> QED
      BY <2>1, <2>4 DEF Decoding
  <1>12. n \in 1..n
    OBVIOUS
  <1>13. Decoded(types).end = pos + Start(tlvs)[n + 1]
    BY <1>3, <1>6, <1>10, <1>12
  <1> QED
    BY <1>11, <1>13

LEMMA FipHandle ==
    ASSUME Basic, NEW t \in BOOLEAN, NEW op, NEW sub, NEW tlvs, FipAt(t, op, sub, tlvs),
           pc = "decide", NEW handler, NEW values, NEW end, NEW frames,
           Handle(handler, values, end, frames),
           Full(op, sub, tlvs) => end \in Nat /\ end <= pos + Length(tlvs),
           Handled(op, sub, tlvs, Result(handler, values), frames)
    PROVE  FipAt(t, op, sub, tlvs)'
  <1>1. PICK h \in {2, 3} : h = Hdr(t)
    BY DEF Hdr
  <1>2. MessageOk(op, sub, tlvs)
    BY DEF FipAt, Fip
  <1>3. PICK l \in Nat : l = Length(tlvs)
    BY <1>2, LengthNat DEF MessageOk
  <1>4. pos = h + h + 12 /\ h + h + 12 + l <= frame.size /\ high <= frame.size
    BY <1>1, <1>3 DEF FipAt
  <1>5. PICK size \in Nat : size = frame.size
    BY RemainingIs
  <1>6. /\ pc' = "out" /\ outcome' = Result(handler, values) /\ sent' = frames
        /\ UNCHANGED frame /\ Further(IF end > pos + 2 THEN end ELSE pos + 2)
    BY DEF Handle, Out
  <1>7. ASSUME Full(op, sub, tlvs) PROVE high' <= frame.size
    <2>1. PICK m : m = (IF end > pos + 2 THEN end ELSE pos + 2)
      OBVIOUS
    <2>2. m <= size
      <3>1. l >= 2 /\ end \in Nat /\ end <= pos + l
        BY <1>3, <1>7 DEF Full
      <3> QED
        BY <1>4, <1>5, <2>1, <3>1
    <2>3. high' = IF m > high THEN m ELSE high
      BY <1>6, <2>1 DEF Further
    <2> QED
      BY <1>4, <1>5, <2>2, <2>3
  <1>8. Handled(op, sub, tlvs, outcome', sent')
    BY <1>6
  <1> QED
    BY <1>6, <1>7, <1>8 DEF FipAt

(* What the handlers find in such a frame. *)
LEMMA FipDecides ==
    ASSUME Basic, NEW t \in BOOLEAN, NEW op, NEW sub, NEW tlvs, FipAt(t, op, sub, tlvs),
           pc = "decide"
    PROVE  /\ MessageOk(op, sub, tlvs) /\ pos \in Nat /\ Length(tlvs) \in Nat
           /\ ctrl.opcode = op /\ ctrl.subcode = sub
           /\ \A a, b : Decide(a, b) => a = op /\ b = sub
           /\ DescriptorsAt(tlvs, pos)
  <1>1. MessageOk(op, sub, tlvs)
    BY DEF FipAt, Fip
  <1>2. op \in Nat /\ sub \in Nat /\ Length(tlvs) \in Nat
    BY <1>1, LengthNat DEF MessageOk
  <1>3. ctrl.opcode = op /\ ctrl.subcode = sub
    BY DEF FipAt, CtrlHdr
  <1>4. op # Junk /\ sub # Junk
    BY <1>2, JunkAssumption
  <1>5. \A a, b : Decide(a, b) => a = op /\ b = sub
    BY <1>3, <1>4 DEF Decide
  <1>6. PICK h, l : FipRead(t, op, sub, tlvs, h, l)
    BY FipReads DEF FipAt
  <1>7. pos = h + h + 12 /\ frame.size >= h + h + 12 + l
    BY <1>6 DEF FipAt, FipRead
  <1>8. \A i \in 1..Len(tlvs) : /\ Is(frame, "tlv", h + h + 12 + Start(tlvs)[i])
                                /\ At(frame, "tlv", h + h + 12 + Start(tlvs)[i]) = tlvs[i]
    BY <1>6, <1>7 DEF FipRead
  <1>9. DescriptorsAt(tlvs, pos)
    BY <1>7, <1>8 DEF DescriptorsAt
  <1> QED
    BY <1>1, <1>2, <1>3, <1>5, <1>9, RemainingIs

(* The descriptors that a handler reads end where the list does, at most.  *)
LEMMA FipDecoded ==
    ASSUME Basic, NEW t \in BOOLEAN, NEW op, NEW sub, NEW tlvs, FipAt(t, op, sub, tlvs),
           pc = "decide", NEW types, NEW n \in {1, 3}, Len(types) = n, n <= Len(tlvs)
    PROVE  /\ Decoded(types).values = Decoding(tlvs, types)
           /\ Decoded(types).end \in Nat
           /\ Decoded(types).end <= pos + Length(tlvs)
  <1>1. MessageOk(op, sub, tlvs) /\ pos \in Nat /\ DescriptorsAt(tlvs, pos)
    BY FipDecides
  <1>2. tlvs \in Seq(Segment)
    BY <1>1 DEF MessageOk
  <1>3. Decoded(types).values = Decoding(tlvs, types)
    BY <1>1, <1>2, DecodedIs
  <1>4. Decoded(types).end = pos + Start(tlvs)[n + 1]
    BY <1>1, <1>2, DecodedIs
  <1>5. n \in 1..Len(tlvs)
    BY <1>2, LenProperties
  <1>6. PICK s \in Nat, l \in Nat : /\ s = Start(tlvs)[n] /\ l = tlvs[n].len
                                    /\ Start(tlvs)[n + 1] = s + l /\ s + l <= Length(tlvs)
    BY <1>2, <1>5, EndInside
  <1>7. PICK p \in Nat, k \in Nat : p = pos /\ k = Length(tlvs)
    BY <1>1, <1>2, LengthNat
  <1>8. p + (s + l) \in Nat /\ p + (s + l) <= p + k
    BY <1>6, <1>7
  <1> QED
    BY <1>3, <1>4, <1>6, <1>7, <1>8

LEMMA LengthOfNone ==
    ASSUME NEW tlvs \in Seq(Segment), Length(tlvs) >= 2
    PROVE  Len(tlvs) >= 1
  <1>1. tlvs # << >>
    BY EmptyParts
  <1> QED
    BY <1>1, EmptySeq, LenProperties

LEMMA FipDecide ==
    ASSUME Basic, NEW t \in BOOLEAN, NEW op, NEW sub, NEW tlvs, FipAt(t, op, sub, tlvs),
           decide_packet
    PROVE  FipAt(t, op, sub, tlvs)'
  <1>1. pc = "decide"
    BY DEF decide_packet, Solicitation, BridgeDiscovery, Login, KeepAlive, ClearLink,
           OtherOpcode, Decide
  <1>2. /\ MessageOk(op, sub, tlvs) /\ pos \in Nat
        /\ ctrl.opcode = op /\ ctrl.subcode = sub
    BY <1>1, FipDecides
  <1>3. PICK l \in Nat : l = Length(tlvs)
    BY <1>1, FipDecides
  <1>4. CASE Solicitation
    <2>1. op = 1 /\ sub = 1
      BY <1>1, <1>4, FipDecides DEF Solicitation
    <2>2. Full(op, sub, tlvs) => Len(tlvs) >= 3
      BY <2>1 DEF Full
    <2>3. Len(fcoe_conx_discovery) = 3
      BY DEF fcoe_conx_discovery
    <2>4. PICK d : d = Decoded(fcoe_conx_discovery)
      OBVIOUS
    <2>5. ASSUME Len(tlvs) >= 3
          PROVE  d.values = Decoding(tlvs, fcoe_conx_discovery) /\ d.end \in Nat /\ d.end <= pos + l
      <3>1. 3 <= Len(tlvs)
        BY <1>2, <2>5, LenProperties DEF MessageOk
      <3> QED
        BY <1>1, <1>3, <2>3, <2>4, <3>1, FipDecoded
    <2>6. Handle("solicitation", d.values, d.end, {})
      BY <1>4, <2>4 DEF Solicitation
    <2>7. Handled(op, sub, tlvs, Result("solicitation", d.values), {})
      BY <2>1, <2>5 DEF Handled, Result
    <2> QED
      BY <1>1, <1>3, <2>2, <2>5, <2>6, <2>7, FipHandle
  <1>5. CASE BridgeDiscovery
    <2>1. op = 65530 /\ sub = 2
      BY <1>1, <1>5, FipDecides DEF BridgeDiscovery
    <2>2. op # 1 /\ op # 2 /\ op # 3
      BY <2>1
    <2>3. Handle("announce", << >>, pos, {create_packet(1, Multicast)})
      BY <1>5 DEF BridgeDiscovery
    <2>4. Handled(op, sub, tlvs, Result("announce", << >>), {create_packet(1, Multicast)})
      BY <2>1, <2>2 DEF Handled
    <2>5. pos <= pos + l
      BY <1>2
    <2> QED
      BY <1>1, <1>2, <1>3, <2>3, <2>4, <2>5, FipHandle
  <1>6. CASE Login
    <2>1. op = 2 /\ sub = 1
      BY <1>1, <1>6, FipDecides DEF Login
    <2>2. Full(op, sub, tlvs) => l >= 38
      BY <1>3, <2>1 DEF Full, FLOGI_SIZE
    <2>3. PICK frames : Handle("login", << >>, pos + 3 + FLOGI_SIZE, frames)
      BY <1>6 DEF Login
    <2>4. Handled(op, sub, tlvs, Result("login", << >>), frames)
      BY <2>1 DEF Handled
    <2>5. Full(op, sub, tlvs) => pos + 3 + FLOGI_SIZE \in Nat /\ pos + 3 + FLOGI_SIZE <= pos + l
      BY <1>2, <2>2 DEF FLOGI_SIZE
    <2> QED
      BY <1>1, <1>3, <2>3, <2>4, <2>5, FipHandle
  <1>7. CASE KeepAlive
    <2>1. op = 3 /\ sub = 1
      BY <1>1, <1>7, FipDecides DEF KeepAlive
    <2>2. Full(op, sub, tlvs) => Len(tlvs) >= 1
      BY <1>2, LengthOfNone DEF Full, MessageOk
    <2>3. Len(fcoe_vHBA_keep_alive) = 1 /\ fcoe_vHBA_keep_alive[1] = 2
      BY DEF fcoe_vHBA_keep_alive
    <2>4. PICK d : d = Decoded(fcoe_vHBA_keep_alive)
      OBVIOUS
    <2>5. ASSUME Len(tlvs) >= 1
          PROVE  /\ d.values = Decoding(tlvs, fcoe_vHBA_keep_alive)
                 /\ d.end \in Nat /\ d.end <= pos + l
                 /\ tlvs[1].type = 2
      <3>1. 1 <= Len(tlvs) /\ Len(tlvs) > 0
        BY <1>2, <2>5, LenProperties DEF MessageOk
      <3>2. tlvs[1].type = 2
        BY <1>2, <2>1, <3>1 DEF MessageOk
      <3> QED
        BY <1>1, <1>3, <2>3, <2>4, <3>1, <3>2, FipDecoded
    <2>6. Handle("keep_alive", d.values, d.end, {create_packet(3, d.values[1])})
      BY <1>7, <2>4 DEF KeepAlive
    <2>7. Len(tlvs) >= 1 => d.values[1] = tlvs[1].value
      BY <2>3, <2>5 DEF Decoding, get_tlv_value
    <2>8. Handled(op, sub, tlvs, Result("keep_alive", d.values), {create_packet(3, d.values[1])})
      BY <2>1, <2>5, <2>7 DEF Handled, Result
    <2> QED
      BY <1>1, <1>3, <2>2, <2>5, <2>6, <2>8, FipHandle
  <1>8. CASE ClearLink
    <2>1. op = 3 /\ sub = 2
      BY <1>1, <1>8, FipDecides DEF ClearLink
    <2>2. Full(op, sub, tlvs) => Len(tlvs) >= 3
      BY <2>1 DEF Full
    <2>3. Len(fcoe_vHBA_deregister) = 3
      BY DEF fcoe_vHBA_deregister
    <2>4. PICK d : d = Decoded(fcoe_vHBA_deregister)
      OBVIOUS
    <2>5. ASSUME Len(tlvs) >= 3
          PROVE  d.values = Decoding(tlvs, fcoe_vHBA_deregister) /\ d.end \in Nat /\ d.end <= pos + l
      <3>1. 3 <= Len(tlvs)
        BY <1>2, <2>5, LenProperties DEF MessageOk
      <3> QED
        BY <1>1, <1>3, <2>3, <2>4, <3>1, FipDecoded
    <2>6. Handle("clear_link", d.values, d.end, {})
      BY <1>8, <2>4 DEF ClearLink
    <2>7. Handled(op, sub, tlvs, Result("clear_link", d.values), {})
      BY <2>1, <2>5 DEF Handled, Result
    <2> QED
      BY <1>1, <1>3, <2>2, <2>5, <2>6, <2>7, FipHandle
  <1>9. CASE OtherOpcode
    <2>1. /\ <<op, sub>> \notin {<<1, 1>>, <<65530, 2>>, <<2, 1>>, <<3, 1>>, <<3, 2>>}
          /\ Handle("none", << >>, pos, {})
      BY <1>2, <1>9 DEF OtherOpcode
    <2>2. Handled(op, sub, tlvs, Result("none", << >>), {})
      BY <2>1 DEF Handled
    <2>3. pos <= pos + l
      BY <1>2
    <2> QED
      BY <1>1, <1>2, <1>3, <2>1, <2>2, <2>3, FipHandle
  <1> QED
    BY <1>4, <1>5, <1>6, <1>7, <1>8, <1>9 DEF decide_packet

-----------------------------------------------------------------------------
(* FC frames without a tag. *)

(* What send_fc_packet sends is what it is given, behind ten double words. *)
LEMMA FcBehind ==
    ASSUME NEW external \in BOOLEAN, NEW segs \in Seq(Segment)
    PROVE  LET f == send_fc_packet(external, segs)
           IN /\ Length(f.segs) = 10 + Length(segs)
              /\ \A i \in 1..Len(segs) : \E j \in DOMAIN f.segs : f.segs[j] = segs[i]
  <1> DEFINE tun == TunnelHdr(SIZEOF_tunnel_hdr + Length(segs), external)
             O == EtherHdr(FALSE, FIP_ETH_TYPE) \o <<tun>>
             f == send_fc_packet(external, segs)
  <1>1. PICK l \in Nat, n \in Nat : l = Length(segs) /\ n = Len(segs)
    BY LengthNat, LenProperties
  <1>2. tun \in Segment /\ tun.len = 6
    <2>1. SIZEOF_tunnel_hdr + Length(segs) \in Nat
      BY <1>1 DEF SIZEOF_tunnel_hdr
    <2> QED
      BY <2>1, TunnelIsSegment
  <1>3. f.segs = O \o segs
    BY DEF send_fc_packet
  <1> HIDE DEF tun, f
  <1>4. O \in Seq(Segment) /\ Len(O) = 3 /\ Length(O) = 10
    BY <1>2, OuterHdr
  <1> HIDE DEF O
  <1>5. PICK r : r = O \o segs
    OBVIOUS
  <1>6. Joined(r, O, segs)
    BY <1>4, <1>5, Parts
  <1>7. /\ r \in Seq(Segment) /\ Len(r) = 3 + n /\ Length(r) = 10 + l
        /\ \A i \in 1..n : r[3 + i] = segs[i]
    BY <1>1, <1>4, <1>6 DEF Joined
  <1>8. DOMAIN r = 1..(3 + n)
    BY <1>7, LenProperties
  <1>9. ASSUME NEW i \in 1..n PROVE \E j \in DOMAIN r : r[j] = segs[i]
    <2>1. 3 + i \in DOMAIN r
      BY <1>8
    <2> QED
      BY <1>7, <2>1
  <1> QED
    BY <1>1, <1>3, <1>5, <1>7, <1>9 DEF f

Leaves(frames, len) == \E f \in frames : \E i \in DOMAIN f.segs : f.segs[i] = Fc(len)

HostFcAt(len) ==
    /\ HostFc(frame.segs, FALSE, FALSE, len)
    /\ pc \in {"eth", "tunnel", "inner", "els", "out"}
    /\ pc = "eth" => pos = 0
    /\ pc = "tunnel" => pos = 4
    /\ pc = "inner" => pos = 10
    /\ pc \in {"inner", "els"} /\ len <= 245 => tunnel.length = 10 + len
    /\ pc = "out" /\ Whole /\ len <= 245 => Leaves(sent, len)

HostFcRead(len) ==
    /\ Length(frame.segs) = 14 + len /\ frame.size \in Nat
    /\ frame.size >= 5 => ~TagInFrame
    /\ frame.size >= 10 =>
          /\ Is(frame, "tunnel", 4) /\ At(frame, "tunnel", 4).external = FALSE
          /\ len <= 245 => At(frame, "tunnel", 4).length = 10 + len
    /\ frame.size >= 14 =>
          Is(frame, "type", 13) /\ At(frame, "type", 13).type = FCOE_ETH_TYPE

LEMMA HostFcReads ==
    ASSUME Basic, NEW len \in Nat \ {0}, HostFc(frame.segs, FALSE, FALSE, len)
    PROVE  HostFcRead(len)
  <1>1. PICK rest \in Seq(Segment) : rest = << >> /\ Len(rest) = 0 /\ Length(rest) = 0
    BY EmptyParts
  <1>2. PICK x : x = Fc(len)
    OBVIOUS
  <1>3. x.what = "fc" /\ x.len = len
    BY <1>2 DEF Fc, Seg
  <1>4. Hdr(FALSE) = 2
    BY DEF Hdr
  <1>5. PICK tun : /\ TunnelOf(tun, FALSE, Hdr(FALSE) + 8 + len)
                   /\ Tunneling(frame.segs, FALSE, FALSE, FCOE_ETH_TYPE, tun, x, len, rest)
    BY <1>1, <1>2 DEF HostFc
  <1>6. /\ tun.what = "tunnel" /\ tun.len = 6 /\ tun.external = FALSE
        /\ len <= 245 => tun.length = 10 + len
    <2>1. 2 + 8 + len = 10 + len /\ (len <= 245 => 10 + len <= 255)
      OBVIOUS
    <2>2. TunnelOf(tun, FALSE, 10 + len)
      BY <1>4, <1>5, <2>1
    <2> QED
      BY <2>1, <2>2 DEF TunnelOf
  <1>7. frame.size \in Nat
    BY RemainingIs
  <1>8. \A i \in 1..Len(rest) : rest[i].what = "tlv" /\ rest[i].len > 0
    BY <1>1
  <1>9. ReadAs(frame, FALSE, FCOE_ETH_TYPE, tun, x, len, rest)
    <2>1. x.what \in {"ctrl", "fc"}
      BY <1>3
    <2>2. PICK t \in BOOLEAN : t = FALSE
      OBVIOUS
    <2>3. Tunneling(frame.segs, t, t, FCOE_ETH_TYPE, tun, x, len, rest)
      BY <1>5, <2>2
    <2>4. ReadAs(frame, t, FCOE_ETH_TYPE, tun, x, len, rest)
      BY <1>3, <1>6, <1>7, <1>8, <2>1, <2>3, ReadsAs
    <2> QED
      BY <2>2, <2>4
  <1>10. /\ 2 + 8 = 10 /\ 2 + 2 = 4 /\ 2 + 2 + 10 = 14 /\ 2 + 2 + 9 = 13
         /\ 2 + 2 + 10 + len + 0 = 14 + len
    OBVIOUS
  <1>11. /\ frame.size >= 5 => (Is(frame, "vlan", 3) <=> FALSE)
         /\ frame.size >= 10 => Is(frame, "tunnel", 4) /\ At(frame, "tunnel", 4) = tun
         /\ frame.size >= 14 =>
               Is(frame, "type", 13) /\ At(frame, "type", 13).type = FCOE_ETH_TYPE
    BY <1>4, <1>9, <1>10 DEF ReadAs
  <1>12. Length(frame.segs) = 14 + len
    BY <1>1, <1>4, <1>5, <1>10 DEF Tunneling
  <1> QED
    BY <1>6, <1>7, <1>11, <1>12 DEF HostFcRead, TagInFrame

LEMMA HostFcIgnored ==
    ASSUME NEW len, HostFcAt(len), Ignore, frame.size # Length(frame.segs)
    PROVE  HostFcAt(len)'
  <1>1. pc' = "out" /\ UNCHANGED frame
    BY DEF Ignore, Out
  <1>2. ~Whole'
    BY <1>1 DEF Whole
  <1> QED
    BY <1>1, <1>2 DEF HostFcAt

LEMMA HostFcHeaders ==
    ASSUME Basic, NEW len \in Nat \ {0}, HostFcAt(len), ReadEth \/ ReadTunnel \/ ReadInner
    PROVE  HostFcAt(len)'
  <1>1. HostFcRead(len)
    BY HostFcReads DEF HostFcAt
  <1>2. PICK size \in Nat : size = frame.size /\ Length(frame.segs) = 14 + len
    BY <1>1 DEF HostFcRead
  <1>3. ASSUME Ignore, size < 14 PROVE HostFcAt(len)'
    <2>1. size # 14 + len
      BY <1>3
    <2> QED
      BY <1>2, <1>3, <2>1, HostFcIgnored
  <1>4. CASE ReadEth
    <2>1. pos = 0 /\ Remaining = size
      <3>1. pos = 0
        BY <1>4 DEF HostFcAt, ReadEth
      <3> QED
        BY <1>2, <3>1, RemainingIs
    <2>2. CASE size < 5
      <3>1. Ignore
        BY <1>4, <2>1, <2>2 DEF ReadEth, SIZEOF_eth_hdr
      <3> QED
        BY <1>3, <2>2, <3>1
    <2>3. CASE size >= 5
      <3>1. EthRead
        BY <1>4, <2>1, <2>3 DEF ReadEth, SIZEOF_eth_hdr
      <3>2. ~TagInFrame
        BY <1>1, <1>2, <2>3 DEF HostFcRead
      <3>3. pc' = "tunnel" /\ pos' = 4 /\ frame' = frame
        BY <2>1, <3>1, <3>2, EthHdrSize DEF EthRead
      <3> QED
        BY <3>3 DEF HostFcAt
    <2> QED
      BY <2>2, <2>3
  <1>5. CASE ReadTunnel
    <2>1. pos = 4 /\ Remaining = size - 4
      <3>1. pos = 4
        BY <1>5 DEF HostFcAt, ReadTunnel
      <3> QED
        BY <1>2, <3>1, RemainingIs
    <2>2. CASE size < 10
      <3>1. Ignore
        BY <1>5, <2>1, <2>2 DEF ReadTunnel, SIZEOF_tunnel_hdr
      <3> QED
        BY <1>3, <2>2, <3>1
    <2>3. CASE size >= 10
      <3>1. /\ Is(frame, "tunnel", pos) /\ At(frame, "tunnel", pos).external = FALSE
            /\ len <= 245 => At(frame, "tunnel", pos).length = 10 + len
        BY <1>1, <1>2, <2>1, <2>3 DEF HostFcRead
      <3>2. /\ tunnel' = At(frame, "tunnel", pos) /\ pos' = pos + 6 /\ frame' = frame
            /\ pc' = (IF tunnel'.external THEN "fc" ELSE "inner")
        BY <1>5, <2>1, <2>3, <3>1 DEF ReadTunnel, SIZEOF_tunnel_hdr
      <3>3. pc' = "inner" /\ pos' = 10
        BY <2>1, <3>1, <3>2
      <3>4. len <= 245 => tunnel'.length = 10 + len
        BY <3>1, <3>2
      <3> QED
        BY <3>2, <3>3, <3>4 DEF HostFcAt
    <2> QED
      BY <2>2, <2>3
  <1>6. CASE ReadInner
    <2>1. pc = "inner" /\ pos = 10 /\ Remaining = size - 10
      <3>1. pc = "inner" /\ pos = 10
        BY <1>6 DEF HostFcAt, ReadInner
      <3> QED
        BY <1>2, <3>1, RemainingIs
    <2>2. CASE size < 15
      <3>1. Ignore
        BY <1>6, <2>1, <2>2 DEF ReadInner, SIZEOF_eth_hdr
      <3>2. size # 14 + len
        BY <2>2
      <3> QED
        BY <1>2, <3>1, <3>2, HostFcIgnored
    <2>3. CASE size >= 15
      <3>1. ~TagInFrame /\ Is(frame, "type", 13) /\ At(frame, "type", 13).type = FCOE_ETH_TYPE
        BY <1>1, <1>2, <2>3 DEF HostFcRead
      <3>2. read_eth_hdr = 14
        BY <2>1, <3>1, EthHdrSize
      <3>3. TypesAt(13) = {FCOE_ETH_TYPE}
        BY <3>1 DEF TypesAt
      <3>4. /\ ether_type' \in TypesAt(read_eth_hdr - 1)
            /\ pc' = (IF ether_type' = FCOE_ETH_TYPE THEN "els" ELSE "ctrl")
            /\ frame' = frame /\ tunnel' = tunnel
        BY <1>6, <2>1, <2>3 DEF ReadInner, SIZEOF_eth_hdr
      <3>5. pc' = "els"
        BY <3>2, <3>3, <3>4
      <3>6. len <= 245 => tunnel.length = 10 + len
        BY <2>1 DEF HostFcAt
      <3> QED
        BY <3>4, <3>5, <3>6 DEF HostFcAt
    <2> QED
      BY <2>2, <2>3
  <1> QED
    BY <1>4, <1>5, <1>6

LEMMA HostFcLeaves ==
    ASSUME Basic, NEW len \in Nat \ {0}, HostFcAt(len), process_fc_els_req
    PROVE  HostFcAt(len)'
  <1>1. pc = "els"
    BY DEF process_fc_els_req
  <1>2. Forward("els_req", <<fc_pk_len>>, send_fc_packet(TRUE, <<Fc(fc_pk_len)>>))
    BY DEF process_fc_els_req
  <1>3. pc' = "out" /\ frame' = frame
    BY <1>2 DEF Forward, Out
  <1>4. ASSUME len <= 245 PROVE Leaves(sent', len)
    <2>1. tunnel.length = 10 + len
      BY <1>1, <1>4 DEF HostFcAt
    <2>2. fc_pk_len = len
      <3>1. 2^30 \in Nat /\ 245 < 2^30
        OBVIOUS
      <3>2. PICK m \in Nat : m = 2^30 /\ 245 < m
        BY <3>1
      <3>3. (10 + len - 6 - 4) % m = len
        BY <1>4, <3>2
      <3> QED
        BY <2>1, <3>2, <3>3 DEF fc_pk_len, SIZEOF_tunnel_hdr
    <2>3. PICK segs \in Seq(Segment) :
             segs = <<Fc(len)>> /\ Len(segs) = 1 /\ segs[1] = Fc(len) /\ Length(segs) = len
      BY FcIsSegment, OnePart
    <2>4. PICK f : f = send_fc_packet(TRUE, segs)
      OBVIOUS
    <2>5. Length(f.segs) = 10 + len /\ \E j \in DOMAIN f.segs : f.segs[j] = Fc(len)
      <3>1. /\ Length(f.segs) = 10 + Length(segs)
            /\ \A i \in 1..Len(segs) : \E j \in DOMAIN f.segs : f.segs[j] = segs[i]
        BY <2>4, FcBehind
      <3>2. 1 \in 1..Len(segs)
        BY <2>3
      <3> QED
        BY <2>3, <3>1, <3>2
    <2>6. Length(f.segs) <= MAX_PK_LEN
      BY <1>4, <2>5 DEF MAX_PK_LEN
    <2>7. Forward("els_req", <<len>>, f)
      BY <1>2, <2>2, <2>3, <2>4
    <2>8. sent' = {f}
      BY <2>6, <2>7 DEF Forward, Out
    <2> QED
      BY <2>5, <2>8 DEF Leaves
  <1> QED
    BY <1>3, <1>4 DEF HostFcAt

FabricFcAt(len) ==
    /\ FabricFc(frame.segs, FALSE, len)
    /\ pc \in {"eth", "tunnel", "fc", "out"}
    /\ pc = "eth" => pos = 0
    /\ pc = "tunnel" => pos = 4
    /\ pc = "fc" => pos = 10
    /\ (pc = "out" /\ Whole /\ len <= 356 /\ outcome.handler \in {"els_res", "overrun"}) =>
          Leaves(sent, len)

FabricFcRead(len) ==
    /\ Length(frame.segs) = 10 + len /\ frame.size \in Nat
    /\ ~TagInFrame
    /\ frame.size >= 10 =>
          Is(frame, "tunnel", 4) /\ At(frame, "tunnel", 4).external = TRUE

LEMMA FabricFcReads ==
    ASSUME Basic, NEW len \in Nat \ {0}, FabricFc(frame.segs, FALSE, len)
    PROVE  FabricFcRead(len)
  <1>1. Hdr(FALSE) = 2
    BY DEF Hdr
  <1>2. PICK rest : rest = <<Fc(len)>>
    OBVIOUS
  <1>3. PICK tun : /\ TunnelOf(tun, TRUE, 6 + len) /\ frame.segs \in Seq(Segment)
                   /\ Length(frame.segs) = 2 + 8 + len
                   /\ HeaderIndex(frame.segs, FALSE, FIP_ETH_TYPE, tun, 6, rest, 2, 1)
    BY <1>1, <1>2 DEF FabricFc
  <1>4. 2 + 1 = 3 /\ 2 + 1 + 1 = 4 /\ 2 + 2 = 4 /\ 2 + 8 + len = 10 + len /\ 3 \in 1..4 /\ 2 \in 1..4
    OBVIOUS
  <1>5. /\ frame.segs[3] = tun /\ Len(frame.segs) = 4
        /\ frame.segs[2].what = "type"
        /\ Start(frame.segs)[2] = 3 /\ Start(frame.segs)[3] = 4
    BY <1>3, <1>4 DEF HeaderIndex
  <1>6. tun.what = "tunnel" /\ tun.len = 6 /\ tun.external = TRUE
    BY <1>3 DEF TunnelOf
  <1>7. PICK t \in BOOLEAN : t = FALSE
    OBVIOUS
  <1>8. FabricFc(frame.segs, t, len)
    BY <1>7
  <1>9. \A i \in 1..Len(frame.segs) : frame.segs[i].len > 0
    BY <1>8, FabricFcPlaces
  <1>10. ~TagInFrame
    <2>1. 2 \in 1..Len(frame.segs) /\ 3 = Start(frame.segs)[2] /\ frame.segs[2].what # "vlan"
      BY <1>4, <1>5
    <2> QED
      BY <1>3, <1>9, <2>1, FoundAt DEF TagInFrame
  <1>11. frame.size \in Nat
    BY RemainingIs
  <1>12. ASSUME frame.size >= 10
         PROVE  Is(frame, "tunnel", 4) /\ At(frame, "tunnel", 4) = tun
    <2>1. 3 \in 1..Len(frame.segs) /\ 4 = Start(frame.segs)[3] /\ frame.segs[3].what = "tunnel"
      BY <1>4, <1>5, <1>6
    <2>2. 4 + frame.segs[3].len <= frame.size
      BY <1>5, <1>6, <1>11, <1>12
    <2> QED
      BY <1>3, <1>5, <1>9, <2>1, <2>2, FoundAt
  <1> QED
    BY <1>3, <1>4, <1>6, <1>10, <1>11, <1>12 DEF FabricFcRead

LEMMA FabricFcIgnored ==
    ASSUME NEW len, FabricFcAt(len), Ignore, frame.size # Length(frame.segs)
    PROVE  FabricFcAt(len)'
  <1>1. pc' = "out" /\ UNCHANGED frame
    BY DEF Ignore, Out
  <1>2. ~Whole'
    BY <1>1 DEF Whole
  <1> QED
    BY <1>1, <1>2 DEF FabricFcAt

LEMMA FabricFcHeaders ==
    ASSUME Basic, NEW len \in Nat \ {0}, FabricFcAt(len), ReadEth \/ ReadTunnel
    PROVE  FabricFcAt(len)'
  <1>1. FabricFcRead(len)
    BY FabricFcReads DEF FabricFcAt
  <1>2. PICK size \in Nat : size = frame.size /\ Length(frame.segs) = 10 + len
    BY <1>1 DEF FabricFcRead
  <1>3. ASSUME Ignore, size < 10 PROVE FabricFcAt(len)'
    <2>1. size # 10 + len
      BY <1>3
    <2> QED
      BY <1>2, <1>3, <2>1, FabricFcIgnored
  <1>4. CASE ReadEth
    <2>1. pos = 0 /\ Remaining = size
      <3>1. pos = 0
        BY <1>4 DEF FabricFcAt, ReadEth
      <3> QED
        BY <1>2, <3>1, RemainingIs
    <2>2. CASE size < 5
      <3>1. Ignore
        BY <1>4, <2>1, <2>2 DEF ReadEth, SIZEOF_eth_hdr
      <3> QED
        BY <1>3, <2>2, <3>1
    <2>3. CASE size >= 5
      <3>1. EthRead
        BY <1>4, <2>1, <2>3 DEF ReadEth, SIZEOF_eth_hdr
      <3>2. ~TagInFrame
        BY <1>1 DEF FabricFcRead
      <3>3. pc' = "tunnel" /\ pos' = 4 /\ frame' = frame
        BY <2>1, <3>1, <3>2, EthHdrSize DEF EthRead
      <3> QED
        BY <3>3 DEF FabricFcAt
    <2> QED
      BY <2>2, <2>3
  <1>5. CASE ReadTunnel
    <2>1. pos = 4 /\ Remaining = size - 4
      <3>1. pos = 4
        BY <1>5 DEF FabricFcAt, ReadTunnel
      <3> QED
        BY <1>2, <3>1, RemainingIs
    <2>2. CASE size < 10
      <3>1. Ignore
        BY <1>5, <2>1, <2>2 DEF ReadTunnel, SIZEOF_tunnel_hdr
      <3> QED
        BY <1>3, <2>2, <3>1
    <2>3. CASE size >= 10
      <3>1. Is(frame, "tunnel", pos) /\ At(frame, "tunnel", pos).external = TRUE
        BY <1>1, <1>2, <2>1, <2>3 DEF FabricFcRead
      <3>2. /\ tunnel' = At(frame, "tunnel", pos) /\ pos' = pos + 6 /\ frame' = frame
            /\ pc' = (IF tunnel'.external THEN "fc" ELSE "inner")
        BY <1>5, <2>1, <2>3, <3>1 DEF ReadTunnel, SIZEOF_tunnel_hdr
      <3>3. pc' = "fc" /\ pos' = 10
        BY <2>1, <3>1, <3>2
      <3> QED
        BY <3>2, <3>3 DEF FabricFcAt
    <2> QED
      BY <2>2, <2>3
  <1> QED
    BY <1>4, <1>5

(* The longer of the two frames around an FC frame adds nine double words. *)
LEMMA ElsResLeaves ==
    ASSUME NEW a \in Nat, NEW b \in Nat, a + b <= 9, NEW len \in Nat, len <= 356,
           NEW values,
           Forward("els_res", values,
                   send_fc_packet(FALSE, <<Seg("fcoe", a), Fc(len), Seg("crc", b)>>))
    PROVE  Leaves(sent', len)
  <1>1. PICK x \in Segment, y \in Segment, z \in Segment :
           /\ x = Seg("fcoe", a) /\ y = Fc(len) /\ z = Seg("crc", b)
           /\ x.len = a /\ y.len = len /\ z.len = b
    <2>1. /\ Seg("fcoe", a) \in Segment /\ Seg("crc", b) \in Segment
          /\ Seg("fcoe", a).len = a /\ Seg("crc", b).len = b
      BY DEF Seg, Segment
    <2> QED
      BY <2>1, FcIsSegment
  <1>2. PICK segs \in Seq(Segment) :
           segs = <<x, y, z>> /\ Len(segs) = 3 /\ segs[2] = y /\ Length(segs) = a + len + b
    <2> DEFINE s == <<x, y, z>>
    <2>1. s \in Seq(Segment) /\ Len(s) = 3 /\ s[2] = y
      OBVIOUS
    <2>2. Length(s) = a + len + b
      BY <1>1, LengthOfThree
    <2> HIDE DEF s
    <2>3. \E segs \in Seq(Segment) :
             segs = s /\ Len(segs) = 3 /\ segs[2] = y /\ Length(segs) = a + len + b
      BY <2>1, <2>2
    <2> QED
      BY <2>3 DEF s
  <1>3. PICK f : f = send_fc_packet(FALSE, segs)
    OBVIOUS
  <1>4. /\ Length(f.segs) = 10 + Length(segs)
        /\ \A i \in 1..Len(segs) : \E j \in DOMAIN f.segs : f.segs[j] = segs[i]
    BY <1>3, FcBehind
  <1>5. \E j \in DOMAIN f.segs : f.segs[j] = Fc(len)
    BY <1>1, <1>2, <1>4
  <1>6. Length(f.segs) <= MAX_PK_LEN
    BY <1>2, <1>4 DEF MAX_PK_LEN
  <1>7. Forward("els_res", values, f)
    BY <1>1, <1>2, <1>3
  <1>8. sent' = {f}
    BY <1>6, <1>7 DEF Forward, Out
  <1> QED
    BY <1>5, <1>8 DEF Leaves

LEMMA FabricFcLeaves ==
    ASSUME Basic, NEW len \in Nat, len >= 6, FabricFcAt(len), process_fc_response
    PROVE  FabricFcAt(len)'
  <1>1. pc = "fc" /\ pos = 10
    BY DEF process_fc_response, FabricFcAt
  <1>2. FabricFcRead(len)
    <2>1. len \in Nat \ {0}
      OBVIOUS
    <2> QED
      BY <2>1, FabricFcReads DEF FabricFcAt
  <1>3. PICK size \in Nat :
           size = frame.size /\ Length(frame.segs) = 10 + len /\ Remaining = size - 10
    BY <1>1, <1>2, RemainingIs DEF FabricFcRead
  <1>4. PICK n : n = SIZEOF_fc_hdr + frame.size
                     - (IF Remaining >= SIZEOF_fc_hdr THEN pos + SIZEOF_fc_hdr ELSE pos)
    OBVIOUS
  <1>5. \/ \E frames : Out(Result("reject_els", << >>), frames)
        \/ process_fc_els_res(n)
        \/ \E frames : Out(Result("vfm_response", << >>), frames)
        \/ \E frames : Out(Result("fdisc_acc", << >>), frames)
        \/ \E frames : Out(Result("fdisc_rjt", << >>), frames)
    BY <1>4 DEF process_fc_response
  <1>6. ASSUME NEW handler, NEW frames, Out(Result(handler, << >>), frames),
               handler \notin {"els_res", "overrun"}
        PROVE  FabricFcAt(len)'
    <2>1. pc' = "out" /\ frame' = frame /\ outcome' = Result(handler, << >>)
      BY <1>6 DEF Out
    <2>2. outcome'.handler = handler
      BY <2>1 DEF Result
    <2> QED
      BY <1>6, <2>1, <2>2 DEF FabricFcAt
  <1>7. CASE process_fc_els_res(n)
    <2>1. pc' = "out" /\ frame' = frame
      BY <1>7 DEF process_fc_els_res, Forward, Out
    <2>2. ASSUME Whole, len <= 356 PROVE Leaves(sent', len)
      <3>1. size = 10 + len
        BY <1>3, <2>2 DEF Whole
      <3>2. n = len
        BY <1>1, <1>3, <1>4, <3>1 DEF SIZEOF_fc_hdr
      <3>3. CASE g_fcoe_t11 = 1
        <4>1. PICK a \in Nat, b \in Nat : a = 7 /\ b = 2 /\ a + b <= 9
          OBVIOUS
        <4>2. Forward("els_res", <<len>>,
                      send_fc_packet(FALSE, <<Seg("fcoe", a), Fc(len), Seg("crc", b)>>))
          BY <1>7, <3>2, <3>3, <4>1 DEF process_fc_els_res
        <4> QED
          BY <2>2, <4>1, <4>2, ElsResLeaves
      <3>4. CASE g_fcoe_t11 # 1
        <4>1. PICK a \in Nat, b \in Nat : a = 4 /\ b = 1 /\ a + b <= 9
          OBVIOUS
        <4>2. Forward("els_res", <<len>>,
                      send_fc_packet(FALSE, <<Seg("fcoe", a), Fc(len), Seg("crc", b)>>))
          BY <1>7, <3>2, <3>4, <4>1 DEF process_fc_els_res
        <4> QED
          BY <2>2, <4>1, <4>2, ElsResLeaves
      <3> QED
        BY <3>3, <3>4
    <2>3. Whole' <=> Whole
      BY <2>1 DEF Whole
    <2> QED
      BY <2>1, <2>2, <2>3 DEF FabricFcAt
  <1> QED
    BY <1>5, <1>6, <1>7

-----------------------------------------------------------------------------
(* Every frame is read as one of these, or is none the properties speak of. *)

Route ==
    /\ pc = "get" => high = 0
    /\ \/ Off(frame.segs)
       \/ \E t \in BOOLEAN : \E op, sub, tlvs : FipAt(t, op, sub, tlvs)
       \/ \E len \in FcLens : HostFcAt(len)
       \/ \E len \in FcLens : FabricFcAt(len)

LEMMA FcLensFacts == \A len \in FcLens : len \in Nat /\ len \in Nat \ {0} /\ len >= 6
  BY FcLenAssumption DEF SIZEOF_fc_hdr

LEMMA NothingIsOff ==
    ASSUME NEW f, f = NoFrame
    PROVE  Off(f.segs)
  <1>1. f.segs = << >>
    BY DEF NoFrame, Frame
  <1>2. DOMAIN f.segs = {}
    BY <1>1
  <1> QED
    BY <1>2 DEF Off, Places

LEMMA RouteInit == Init => Route
  BY NothingIsOff DEF Init, Route

LEMMA RouteArrive ==
    ASSUME Basic, Route, Arrive
    PROVE  Route'
  <1>1. PICK t \in BOOLEAN, payload \in Payloads :
           \E size : Receive(EtherHdr(t, FIP_ETH_TYPE) \o payload, size)
    BY DEF Arrive
  <1>2. PICK segs : segs = EtherHdr(t, FIP_ETH_TYPE) \o payload
    OBVIOUS
  <1>3. PICK size : Receive(segs, size)
    BY <1>1, <1>2
  <1>4. /\ pc = "get" /\ pc' = "eth" /\ frame' = Frame(segs, size)
        /\ pos' = pos /\ high' = high
    BY <1>3 DEF Receive
  <1>5. frame'.segs = segs /\ pos' = 0 /\ high' = 0
    BY <1>4 DEF Frame, Basic, Route
  <1>6. high' <= frame'.size
    <2>1. Basic'
      BY ArriveKeeps
    <2>2. frame'.size \in 0..MAX_PK_LEN
      BY <2>1 DEF Basic
    <2> QED
      BY <1>5, <2>2 DEF MAX_PK_LEN
  <1>7. CASE Untunneled(segs)
    BY <1>4, <1>5, <1>7, UntunneledIsOff DEF Route
  <1>8. ASSUME NEW u \in BOOLEAN, NEW op, NEW sub, NEW tlvs, Fip(segs, t, u, op, sub, tlvs)
        PROVE  Route'
    <2>1. CASE t # u
      <3>1. Off(segs)
        BY <1>8, <2>1, FipPlaces
      <3> QED
        BY <1>4, <1>5, <3>1 DEF Route
    <2>2. CASE t = u
      <3>1. FipAt(t, op, sub, tlvs)'
        BY <1>4, <1>5, <1>6, <1>8, <2>2 DEF FipAt
      <3> QED
        BY <1>4, <3>1 DEF Route
    <2> QED
      BY <2>1, <2>2
  <1>9. ASSUME NEW u \in BOOLEAN, NEW len \in FcLens, HostFc(segs, t, u, len)
        PROVE  Route'
    <2>1. CASE t \/ u
      <3>1. Off(segs)
        BY <1>9, <2>1, FcLensFacts, HostFcPlaces
      <3> QED
        BY <1>4, <1>5, <3>1 DEF Route
    <2>2. CASE t = FALSE /\ u = FALSE
      <3>1. HostFcAt(len)'
        BY <1>4, <1>5, <1>9, <2>2 DEF HostFcAt
      <3> QED
        BY <1>4, <3>1 DEF Route
    <2> QED
      BY <2>1, <2>2
  <1>10. ASSUME NEW len \in FcLens, FabricFc(segs, t, len)
         PROVE  Route'
    <2>1. CASE t
      <3>1. Off(segs)
        BY <1>10, <2>1, FcLensFacts, FabricFcPlaces
      <3> QED
        BY <1>4, <1>5, <3>1 DEF Route
    <2>2. CASE t = FALSE
      <3>1. FabricFcAt(len)'
        BY <1>4, <1>5, <1>10, <2>2 DEF FabricFcAt
      <3> QED
        BY <1>4, <3>1 DEF Route
    <2> QED
      BY <2>1, <2>2
  <1>11. \/ Untunneled(segs)
         \/ \E u \in BOOLEAN : \E op, sub, tlvs : Fip(segs, t, u, op, sub, tlvs)
         \/ \E u \in BOOLEAN, len \in FcLens : HostFc(segs, t, u, len)
         \/ \E len \in FcLens : FabricFc(segs, t, len)
    BY <1>2, ArrivingShapes
  <1> QED
    BY <1>7, <1>8, <1>9, <1>10, <1>11

LEMMA DecideEnds ==
    ASSUME decide_packet
    PROVE  pc = "decide" /\ pc' = "out" /\ frame' = frame
  <1>1. \E handler, values, end, frames : Handle(handler, values, end, frames)
    BY DEF decide_packet, Solicitation, BridgeDiscovery, Login, KeepAlive, ClearLink,
           OtherOpcode
  <1>2. pc = "decide"
    BY DEF decide_packet, Solicitation, BridgeDiscovery, Login, KeepAlive, ClearLink,
           OtherOpcode, Decide
  <1>3. pc' = "out" /\ frame' = frame
    BY <1>1 DEF Handle, Out
  <1> QED
    BY <1>2, <1>3

LEMMA FipStep ==
    ASSUME Basic, NEW t \in BOOLEAN, NEW op, NEW sub, NEW tlvs, FipAt(t, op, sub, tlvs),
           process_packet, ~Free
    PROVE  FipAt(t, op, sub, tlvs)'
  <1>1. pc \notin {"els", "fc"}
    BY DEF FipAt
  <1>2. ~process_fc_els_req /\ ~process_fc_response
    BY <1>1 DEF process_fc_els_req, process_fc_response
  <1> QED
    BY <1>2, FipReadEth, FipReadTunnel, FipReadInner, FipReadCtrl, FipDecide
       DEF process_packet

LEMMA HostFcStep ==
    ASSUME Basic, NEW len \in Nat \ {0}, HostFcAt(len), process_packet, ~Free
    PROVE  HostFcAt(len)'
  <1>1. pc \notin {"ctrl", "decide", "fc"}
    BY DEF HostFcAt
  <1>2. ~ReadCtrl /\ ~decide_packet /\ ~process_fc_response
    BY <1>1, DecideEnds DEF ReadCtrl, process_fc_response
  <1> QED
    BY <1>2, HostFcHeaders, HostFcLeaves DEF process_packet

LEMMA FabricFcStep ==
    ASSUME Basic, NEW len \in Nat \ {0}, len >= 6, FabricFcAt(len), process_packet, ~Free
    PROVE  FabricFcAt(len)'
  <1>1. pc \notin {"inner", "els", "ctrl", "decide"}
    BY DEF FabricFcAt
  <1>2. ~ReadInner /\ ~process_fc_els_req /\ ~ReadCtrl /\ ~decide_packet
    BY <1>1, DecideEnds DEF ReadInner, process_fc_els_req, ReadCtrl
  <1>3. len \in Nat
    OBVIOUS
  <1> QED
    BY <1>2, <1>3, FabricFcHeaders, FabricFcLeaves DEF process_packet

LEMMA FrameKept ==
    ASSUME process_packet, ~Free
    PROVE  frame' = frame /\ pc' # "get"
  <1>1. ASSUME NEW result, NEW frames, Out(result, frames)
        PROVE  frame' = frame /\ pc' # "get"
    BY <1>1 DEF Out
  <1>2. Ignore => frame' = frame /\ pc' # "get"
    BY <1>1 DEF Ignore
  <1>3. CASE ReadEth
    BY <1>2, <1>3 DEF ReadEth, EthRead
  <1>4. CASE ReadTunnel
    BY <1>2, <1>4 DEF ReadTunnel
  <1>5. CASE ReadInner
    BY <1>2, <1>5 DEF ReadInner
  <1>6. CASE ReadCtrl
    BY <1>2, <1>6 DEF ReadCtrl, CtrlRead
  <1>7. CASE decide_packet
    BY <1>7, DecideEnds
  <1>8. CASE process_fc_els_req
    BY <1>1, <1>8 DEF process_fc_els_req, Forward
  <1>9. CASE process_fc_response
    <2>1. ASSUME NEW len, process_fc_els_res(len) PROVE frame' = frame /\ pc' # "get"
      BY <1>1, <2>1 DEF process_fc_els_res, Forward
    <2> QED
      BY <1>1, <1>9, <2>1 DEF process_fc_response
  <1> QED
    BY <1>3, <1>4, <1>5, <1>6, <1>7, <1>8, <1>9 DEF process_packet

LEMMA RouteStep == Basic /\ Route /\ [Next]_vars => Route'
  <1> SUFFICES ASSUME Basic, Route, [Next]_vars PROVE Route'
    OBVIOUS
  <1>1. CASE Arrive
    BY <1>1, RouteArrive
  <1>2. CASE process_packet /\ ~Free
    <2>1. frame' = frame /\ pc' # "get"
      BY <1>2, FrameKept
    <2>2. CASE Off(frame.segs)
      BY <2>1, <2>2 DEF Route
    <2>3. ASSUME NEW t \in BOOLEAN, NEW op, NEW sub, NEW tlvs, FipAt(t, op, sub, tlvs)
          PROVE  Route'
      <3>1. FipAt(t, op, sub, tlvs)'
        BY <1>2, <2>3, FipStep
      <3> QED
        BY <2>1, <3>1 DEF Route
    <2>4. ASSUME NEW len \in FcLens, HostFcAt(len) PROVE Route'
      <3>1. HostFcAt(len)'
        BY <1>2, <2>4, FcLensFacts, HostFcStep
      <3> QED
        BY <2>1, <3>1 DEF Route
    <2>5. ASSUME NEW len \in FcLens, FabricFcAt(len) PROVE Route'
      <3>1. FabricFcAt(len)'
        BY <1>2, <2>5, FcLensFacts, FabricFcStep
      <3> QED
        BY <2>1, <3>1 DEF Route
    <2> QED
      BY <2>2, <2>3, <2>4, <2>5 DEF Route
  <1>3. CASE Free
    BY <1>3, NothingIsOff DEF Free, Route
  <1>4. CASE UNCHANGED vars
    <2>0. /\ frame' = frame /\ pos' = pos /\ pc' = pc /\ tunnel' = tunnel /\ ctrl' = ctrl
          /\ high' = high /\ outcome' = outcome /\ sent' = sent /\ (Whole' <=> Whole)
      BY <1>4 DEF vars, Whole
    <2>1. ASSUME NEW t \in BOOLEAN, NEW op, NEW sub, NEW tlvs, FipAt(t, op, sub, tlvs)
          PROVE  FipAt(t, op, sub, tlvs)'
      BY <2>0, <2>1, Zenon DEF FipAt
    <2>2. ASSUME NEW len, HostFcAt(len) PROVE HostFcAt(len)'
      <3>1. /\ HostFc(frame.segs, FALSE, FALSE, len)'
            /\ pc' \in {"eth", "tunnel", "inner", "els", "out"}
            /\ pc' = "eth" => pos' = 0
            /\ pc' = "tunnel" => pos' = 4
            /\ pc' = "inner" => pos' = 10
        BY <2>0, <2>2, Zenon DEF HostFcAt
      <3>2. pc' \in {"inner", "els"} /\ len <= 245 => tunnel'.length = 10 + len
        BY <2>0, <2>2 DEF HostFcAt
      <3>3. pc' = "out" /\ Whole' /\ len <= 245 => Leaves(sent', len)
        BY <2>0, <2>2 DEF HostFcAt
      <3> QED
        BY <3>1, <3>2, <3>3 DEF HostFcAt
    <2>3. ASSUME NEW len, FabricFcAt(len) PROVE FabricFcAt(len)'
      BY <2>0, <2>3, Zenon DEF FabricFcAt
    <2>4. Off(frame.segs) => Off(frame.segs)'
      BY <2>0
    <2>5. (pc = "get" => high = 0)'
      BY <2>0 DEF Route
    <2> QED
      BY <2>1, <2>2, <2>3, <2>4, <2>5 DEF Route
  <1> QED
    BY <1>1, <1>2, <1>3, <1>4 DEF Next, process_packet

LEMMA RouteInvariance == Spec => []Route
  <1>1. Init => Basic /\ Route
    BY BasicInit, RouteInit
  <1>2. Basic /\ Route /\ [Next]_vars => Basic' /\ Route'
    BY BasicStep, RouteStep
  <1> QED
    BY <1>1, <1>2, PTL DEF Spec

LEMMA SegmentsArePlaces == \A what : Segments(what) = Places(frame.segs, what)
  BY DEF Segments, Places

(* What the properties say of such a frame. *)
LEMMA FipList ==
    ASSUME NEW t \in BOOLEAN, NEW op, NEW sub, NEW tlvs, Fip(frame.segs, t, t, op, sub, tlvs)
    PROVE  /\ Only("ctrl").opcode = op /\ Only("ctrl").subcode = sub
           /\ Only("ctrl").list = Length(tlvs)
           /\ \A i \in 1..Len(tlvs) : Value(tlvs[i].type) = tlvs[i].value
           /\ \A types : InOrder(types) /\ DOMAIN types \subseteq Nat \ {0} =>
                 \A i \in DOMAIN types : i \in 1..Len(tlvs) /\ tlvs[i].type = types[i]
  <1>1. PICK h \in {2, 3}, n \in Nat : h = Hdr(t) /\ n = Len(tlvs)
    <2>1. tlvs \in Seq(Segment)
      BY DEF Fip, MessageOk
    <2> QED
      BY <2>1, LenProperties DEF Hdr
  <1>2. PICK segs : segs = frame.segs
    OBVIOUS
  <1>3. PICK hdr : hdr = CtrlHdr(op, sub, Length(tlvs))
    OBVIOUS
  <1>4. PICK tun : Tunneling(segs, t, t, FIP_ETH_TYPE, tun, hdr, 2, tlvs)
    BY <1>2, <1>3 DEF Fip
  <1>5. segs[h + h + 2] = hdr /\ \A i \in 1..n : segs[h + h + 2 + i] = tlvs[i]
    BY <1>1, <1>4 DEF Tunneling
  <1>6. Segments("ctrl") = {h + h + 2} /\ Segments("tlv") = (h + h + 3)..(h + h + 2 + n)
    <2>1. /\ Places(segs, "ctrl") = {h + h + 2}
          /\ Places(segs, "tlv") = (h + h + 3)..(h + h + 2 + n)
      BY <1>1, <1>2, FipPlaces
    <2> QED
      BY <1>2, <2>1, SegmentsArePlaces
  <1>7. Only("ctrl").opcode = op /\ Only("ctrl").subcode = sub /\ Only("ctrl").list = Length(tlvs)
    <2>1. (CHOOSE i \in Segments("ctrl") : TRUE) = h + h + 2
      BY <1>6
    <2>2. Only("ctrl") = hdr
      BY <1>2, <1>5, <2>1 DEF Only
    <2> QED
      BY <1>3, <2>2 DEF CtrlHdr
  <1>8. ASSUME NEW i \in 1..n PROVE Value(tlvs[i].type) = tlvs[i].value
    <2>1. PICK k : k = CHOOSE j \in Segments("tlv") : segs[j].type = tlvs[i].type
      OBVIOUS
    <2>2. h + h + 2 + i \in Segments("tlv") /\ segs[h + h + 2 + i].type = tlvs[i].type
      BY <1>5, <1>6
    <2>3. k \in Segments("tlv") /\ segs[k].type = tlvs[i].type
      BY <2>1, <2>2
    <2>4. PICK j \in 1..n : k = h + h + 2 + j
      <3>1. k - (h + h + 2) \in 1..n /\ k = h + h + 2 + (k - (h + h + 2))
        BY <1>6, <2>3
      <3> QED
        BY <3>1
    <2>5. tlvs[j].type = tlvs[i].type
      BY <1>5, <2>3, <2>4
    <2>6. j = i
      BY <1>1, <2>5 DEF Fip, MessageOk
    <2>7. Value(tlvs[i].type) = segs[k].value
      BY <1>2, <2>1 DEF Value
    <2> QED
      BY <1>5, <2>4, <2>6, <2>7
  <1>9. ASSUME NEW types, InOrder(types), DOMAIN types \subseteq Nat \ {0}, NEW i \in DOMAIN types
        PROVE  i \in 1..n /\ tlvs[i].type = types[i]
    <2>1. PICK first \in Segments("tlv") :
             /\ first - 1 \in Segments("ctrl")
             /\ first + i - 1 \in Segments("tlv")
             /\ segs[first + i - 1].type = types[i]
      BY <1>2, <1>9 DEF InOrder
    <2>2. first = h + h + 3
      BY <1>6, <2>1
    <2>3. i \in Nat \ {0}
      BY <1>9
    <2>4. first + i - 1 = h + h + 2 + i
      BY <2>2, <2>3
    <2>5. i \in 1..n
      BY <1>6, <2>1, <2>3, <2>4
    <2> QED
      BY <1>5, <2>1, <2>4, <2>5
  <1> QED
    BY <1>1, <1>7, <1>8, <1>9

(* What the words of ReadsInside say of such a frame. *)
LEMMA FipComplete ==
    ASSUME NEW t \in BOOLEAN, NEW op, NEW sub, NEW tlvs, Fip(frame.segs, t, t, op, sub, tlvs),
           Complete
    PROVE  Full(op, sub, tlvs)
  <1>1. tlvs \in Seq(Segment)
    BY DEF Fip, MessageOk
  <1>2. Only("ctrl").opcode = op /\ Only("ctrl").subcode = sub /\ Only("ctrl").list = Length(tlvs)
    BY FipList
  <1>3. PICK a \in Nat, n \in Nat : a = Hdr(t) + Hdr(t) + 3 /\ n = Len(tlvs)
    <2>1. Hdr(t) \in Nat
      BY DEF Hdr
    <2>2. Len(tlvs) \in Nat
      BY <1>1, LenProperties
    <2> QED
      BY <2>1, <2>2
  <1>4. Segments("tlv") = a..(a - 1 + n)
    <2>1. Places(frame.segs, "tlv") = (Hdr(t) + Hdr(t) + 3)..(Hdr(t) + Hdr(t) + 2 + Len(tlvs))
      BY FipPlaces
    <2>2. Hdr(t) + Hdr(t) + 2 + Len(tlvs) = a - 1 + n
      BY <1>3 DEF Hdr
    <2> QED
      BY <1>3, <2>1, <2>2, SegmentsArePlaces
  <1>5. Cardinality(Segments("tlv")) = n
    <2>1. a \in Int /\ a - 1 + n \in Int
      OBVIOUS
    <2>2. PICK b \in Int : b = a - 1 + n
      BY <2>1
    <2>3. Cardinality(a..b) = IF a > b THEN 0 ELSE b - a + 1
      BY <2>1, FS_Interval
    <2>4. Segments("tlv") = a..b
      BY <1>4, <2>2
    <2> QED
      BY <2>2, <2>3, <2>4
  <1>6. PICK l \in Nat : l = Length(tlvs)
    BY <1>1, LengthNat
  <1>7. <<op, sub>> = <<2, 1>> <=> op = 2 /\ sub = 1
    OBVIOUS
  <1>8. l >= (IF <<op, sub>> = <<2, 1>> THEN 3 + FLOGI_SIZE ELSE 2)
    BY <1>2, <1>6 DEF Complete
  <1>9. l >= 2 /\ (op = 2 /\ sub = 1 => l >= 3 + FLOGI_SIZE)
    BY <1>6, <1>7, <1>8 DEF FLOGI_SIZE
  <1>10. <<op, sub>> \in {<<1, 1>>, <<3, 2>>} => n >= 3
    BY <1>2, <1>5 DEF Complete
  <1>11. (op = 1 /\ sub = 1) \/ (op = 3 /\ sub = 2) => n >= 3
    BY <1>10
  <1> QED
    BY <1>3, <1>6, <1>9, <1>11 DEF Full

(* Of a FIP frame with consistent tags whose list is complete nothing is   *)
(* read behind the end, wherever it was cut off: the list a control header *)
(* announces is tested before its descriptors are read.                    *)
THEOREM NothingReadBehind == Spec => []ReadsInside
  <1>1. Route => ReadsInside
    <2> SUFFICES ASSUME Route, Aligned, Segments("ctrl") # {}, Complete
                 PROVE  high <= frame.size
      BY DEF ReadsInside
    <2>1. ~Off(frame.segs)
      BY OffFrames
    <2>2. PICK f \in BOOLEAN : f = FALSE
      OBVIOUS
    <2>3. ASSUME NEW len \in FcLens, HostFcAt(len) PROVE FALSE
      <3>1. HostFc(frame.segs, f, f, len)
        BY <2>2, <2>3 DEF HostFcAt
      <3>2. Places(frame.segs, "ctrl") = {}
        BY <3>1, FcLensFacts, HostFcPlaces
      <3> QED
        BY <3>2, SegmentsArePlaces
    <2>4. ASSUME NEW len \in FcLens, FabricFcAt(len) PROVE FALSE
      <3>1. FabricFc(frame.segs, f, len)
        BY <2>2, <2>4 DEF FabricFcAt
      <3>2. Places(frame.segs, "ctrl") = {}
        BY <3>1, FcLensFacts, FabricFcPlaces
      <3> QED
        BY <3>2, SegmentsArePlaces
    <2>5. PICK t \in BOOLEAN : \E op, sub, tlvs : FipAt(t, op, sub, tlvs)
      BY <2>1, <2>3, <2>4 DEF Route
    <2>6. PICK op, sub, tlvs : FipAt(t, op, sub, tlvs)
      BY <2>5
    <2>7. Fip(frame.segs, t, t, op, sub, tlvs)
      BY <2>6 DEF FipAt
    <2>8. Full(op, sub, tlvs)
      BY <2>7, FipComplete
    <2> QED
      BY <2>6, <2>8 DEF FipAt
  <1> QED
    BY <1>1, RouteInvariance, PTL

(* Descriptors in the order that is expected are found with their values.  *)
LEMMA FipValues ==
    ASSUME NEW t \in BOOLEAN, NEW op, NEW sub, NEW tlvs, Fip(frame.segs, t, t, op, sub, tlvs),
           NEW types, NEW n \in Nat, Len(types) = n, DOMAIN types = 1..n, InOrder(types)
    PROVE  Len(tlvs) >= n /\ Decoding(tlvs, types) = ValuesOf(types)
  <1>0. Len(tlvs) >= n
    <2>1. Len(tlvs) \in Nat /\ \A i \in 1..n : i \in 1..Len(tlvs)
      <3>1. Len(tlvs) \in Nat
        BY LenProperties DEF Fip, MessageOk
      <3>2. DOMAIN types \subseteq Nat \ {0}
        OBVIOUS
      <3>3. \A i \in DOMAIN types : i \in 1..Len(tlvs)
        BY <3>2, FipList
      <3> QED
        BY <3>1, <3>3
    <2>2. n = 0 \/ n \in 1..n
      OBVIOUS
    <2> QED
      BY <2>1, <2>2
  <1>1. ASSUME NEW i \in 1..n PROVE get_tlv_value(tlvs[i], types[i]) = Value(types[i])
    <2>1. i \in 1..Len(tlvs) /\ tlvs[i].type = types[i]
      BY FipList
    <2>2. Value(tlvs[i].type) = tlvs[i].value
      BY <2>1, FipList
    <2> QED
      BY <2>1, <2>2 DEF get_tlv_value
  <1> QED
    BY <1>0, <1>1 DEF Decoding, ValuesOf

LEMMA AnswerTo ==
    ASSUME NEW mac \in Macs
    PROVE  create_packet(3, mac).to = mac /\ "S" \in create_packet(3, mac).flags
  <1>1. mac # Multicast
    BY MulticastAssumption
  <1>2. create_packet(3, mac).to = mac
    BY DEF create_packet, send_packet
  <1>3. create_packet(3, mac).flags = {"FP", "SP", "F"} \cup {"S"}
    BY <1>1 DEF create_packet, send_packet
  <1> QED
    BY <1>2, <1>3

(* A whole frame with consistent tags is handled as its opcode says, with  *)
(* the values of its descriptors if these are in order; the answer to a    *)
(* keep-alive goes to its sender.                                          *)
THEOREM HandledAsItsOpcodeSays == Spec => []RightHandler
  <1> DEFINE code == <<Only("ctrl").opcode, Only("ctrl").subcode>>
             Given(handler, types) ==
                /\ outcome.handler = handler
                /\ InOrder(types) => outcome.values = ValuesOf(types)
             Answered == \A f \in sent : f.to = Value(2) /\ "S" \in f.flags
  <1>1. ASSUME NEW t \in BOOLEAN, NEW op, NEW sub, NEW tlvs, FipAt(t, op, sub, tlvs),
               pc = "out", Whole
        PROVE  /\ code = <<1, 1>> => Given("solicitation", <<2, 4, 6>>)
               /\ code = <<65530, 2>> => Given("announce", << >>)
               /\ code = <<2, 1>> => Given("login", << >>)
               /\ code = <<3, 1>> => /\ Given("keep_alive", <<2>>)
                                     /\ sent # {}
                                     /\ InOrder(<<2>>) => Answered
               /\ code = <<3, 2>> => Given("clear_link", <<2, 4, 11>>)
               /\ code \notin {<<1, 1>>, <<65530, 2>>, <<2, 1>>, <<3, 1>>, <<3, 2>>} =>
                     Given("none", << >>) /\ sent = {}
    <2>1. Fip(frame.segs, t, t, op, sub, tlvs) /\ Handled(op, sub, tlvs, outcome, sent)
      BY <1>1 DEF FipAt
    <2>2. Only("ctrl").opcode = op /\ Only("ctrl").subcode = sub
      BY <2>1, FipList
    <2>3. PICK three : three = <<2, 4, 6>>
      OBVIOUS
    <2>4. PICK last : last = <<2, 4, 11>>
      OBVIOUS
    <2>5. PICK one : one = <<2>>
      OBVIOUS
    <2>6. InOrder(three) => Len(tlvs) >= 3 /\ Decoding(tlvs, three) = ValuesOf(three)
      <3>1. Len(three) = 3 /\ DOMAIN three = 1..3 /\ 3 \in Nat
        BY <2>3
      <3> QED
        BY <2>1, <3>1, FipValues
    <2>7. InOrder(last) => Len(tlvs) >= 3 /\ Decoding(tlvs, last) = ValuesOf(last)
      <3>1. Len(last) = 3 /\ DOMAIN last = 1..3 /\ 3 \in Nat
        BY <2>4
      <3> QED
        BY <2>1, <3>1, FipValues
    <2>8. InOrder(one) => Len(tlvs) >= 1 /\ Decoding(tlvs, one) = ValuesOf(one)
      <3>1. Len(one) = 1 /\ DOMAIN one = 1..1 /\ 1 \in Nat
        BY <2>5
      <3> QED
        BY <2>1, <3>1, FipValues
    <2>9. << >> = ValuesOf(<< >>)
      BY DEF ValuesOf
    <2>10. ASSUME NEW handler, NEW values, outcome = Result(handler, values)
           PROVE  outcome.handler = handler /\ outcome.values = values
      BY <2>10 DEF Result
    <2>11. op = 1 /\ sub = 1 => Given("solicitation", three)
      <3>1. op = 1 /\ sub = 1 => /\ outcome.handler = "solicitation"
                                 /\ Len(tlvs) >= 3 => outcome.values = Decoding(tlvs, three)
        BY <2>1, <2>3 DEF Handled, fcoe_conx_discovery
      <3> QED
        BY <2>6, <3>1
    <2>12. op = 65530 /\ sub = 2 => Given("announce", << >>)
      <3>1. op = 65530 /\ sub = 2 => outcome = Result("announce", << >>)
        BY <2>1 DEF Handled
      <3> QED
        BY <2>9, <2>10, <3>1
    <2>13. op = 2 /\ sub = 1 => Given("login", << >>)
      <3>1. op = 2 /\ sub = 1 => outcome = Result("login", << >>)
        BY <2>1 DEF Handled
      <3> QED
        BY <2>9, <2>10, <3>1
    <2>14. op = 3 /\ sub = 1 => /\ Given("keep_alive", one)
                                /\ sent # {}
                                /\ InOrder(one) => Answered
      <3> SUFFICES ASSUME op = 3, sub = 1
                   PROVE  /\ Given("keep_alive", one)
                          /\ sent # {}
                          /\ InOrder(one) => Answered
        OBVIOUS
      <3>1. /\ outcome.handler = "keep_alive" /\ sent # {}
            /\ Len(tlvs) >= 1 => /\ outcome.values = Decoding(tlvs, one)
                                 /\ sent = {create_packet(3, tlvs[1].value)}
        BY <2>1, <2>5 DEF Handled, fcoe_vHBA_keep_alive
      <3>2. MessageOk(op, sub, tlvs)
        BY <2>1 DEF Fip
      <3>3. ASSUME InOrder(one) PROVE Answered
        <4>1. Len(tlvs) >= 1
          BY <2>8, <3>3
        <4>2. /\ tlvs[1].type = 2 /\ tlvs[1].value \in Macs /\ 1 \in 1..Len(tlvs)
          BY <3>2, <4>1, LenProperties DEF MessageOk
        <4>3. Value(2) = tlvs[1].value
          BY <2>1, <4>2, FipList
        <4> QED
          BY <3>1, <4>1, <4>2, <4>3, AnswerTo
      <3> QED
        BY <2>8, <3>1, <3>3
    <2>15. op = 3 /\ sub = 2 => Given("clear_link", last)
      <3>1. op = 3 /\ sub = 2 => /\ outcome.handler = "clear_link"
                                 /\ Len(tlvs) >= 3 => outcome.values = Decoding(tlvs, last)
        BY <2>1, <2>4 DEF Handled, fcoe_vHBA_deregister
      <3> QED
        BY <2>7, <3>1
    <2>16. <<op, sub>> \notin {<<1, 1>>, <<65530, 2>>, <<2, 1>>, <<3, 1>>, <<3, 2>>} =>
              Given("none", << >>) /\ sent = {}
      <3>1. <<op, sub>> \notin {<<1, 1>>, <<65530, 2>>, <<2, 1>>, <<3, 1>>, <<3, 2>>} =>
               outcome = Result("none", << >>) /\ sent = {}
        BY <2>1 DEF Handled
      <3> QED
        BY <2>9, <2>10, <3>1
    <2>17. \A a, b : code = <<a, b>> <=> (op = a /\ sub = b)
      BY <2>2
    <2>18. code = <<op, sub>>
      BY <2>2
    <2> HIDE DEF Given, Answered, code
    <2> QED
      BY <2>3, <2>4, <2>5, <2>11, <2>12, <2>13, <2>14, <2>15, <2>16, <2>17, <2>18
  <1>2. Route => RightHandler
    <2> SUFFICES ASSUME Route, pc = "out", Aligned, Whole, Segments("ctrl") # {}
                 PROVE  CASE code = <<1, 1>> -> Given("solicitation", <<2, 4, 6>>)
                          [] code = <<65530, 2>> -> Given("announce", << >>)
                          [] code = <<2, 1>> -> Given("login", << >>)
                          [] code = <<3, 1>> ->
                                /\ Given("keep_alive", <<2>>)
                                /\ sent # {}
                                /\ InOrder(<<2>>) => Answered
                          [] code = <<3, 2>> -> Given("clear_link", <<2, 4, 11>>)
                          [] OTHER -> Given("none", << >>) /\ sent = {}
      BY DEF RightHandler
    <2>1. ~Off(frame.segs)
      BY OffFrames
    <2>2. PICK f \in BOOLEAN : f = FALSE
      OBVIOUS
    <2>3. ASSUME NEW len \in FcLens, HostFcAt(len) PROVE FALSE
      <3>1. HostFc(frame.segs, f, f, len)
        BY <2>2, <2>3 DEF HostFcAt
      <3>2. Places(frame.segs, "ctrl") = {}
        BY <3>1, FcLensFacts, HostFcPlaces
      <3> QED
        BY <3>2, SegmentsArePlaces
    <2>4. ASSUME NEW len \in FcLens, FabricFcAt(len) PROVE FALSE
      <3>1. FabricFc(frame.segs, f, len)
        BY <2>2, <2>4 DEF FabricFcAt
      <3>2. Places(frame.segs, "ctrl") = {}
        BY <3>1, FcLensFacts, FabricFcPlaces
      <3> QED
        BY <3>2, SegmentsArePlaces
    <2>5. PICK t \in BOOLEAN : \E op, sub, tlvs : FipAt(t, op, sub, tlvs)
      BY <2>1, <2>3, <2>4 DEF Route
    <2>6. PICK op, sub, tlvs : FipAt(t, op, sub, tlvs)
      BY <2>5
    <2> HIDE DEF Given, Answered, code
    <2> QED
      BY <1>1, <2>6
  <1> QED
    BY <1>2, RouteInvariance, PTL

(* What the words of ElsWhole say of an FC frame without a tag.            *)
LEMMA HostFcFrame ==
    ASSUME NEW f \in BOOLEAN, f = FALSE, NEW len \in Nat \ {0}, HostFc(frame.segs, f, f, len)
    PROVE  Only("fc").len = len /\ Only("tunnel").external = FALSE
  <1>1. Hdr(f) = 2 /\ 2 + 2 + 2 = 6 /\ 2 + 1 = 3
    BY DEF Hdr
  <1>2. PICK tun : /\ TunnelOf(tun, FALSE, Hdr(f) + 8 + len)
                   /\ Tunneling(frame.segs, f, f, FCOE_ETH_TYPE, tun, Fc(len), len, << >>)
    BY DEF HostFc
  <1>3. frame.segs[3] = tun /\ frame.segs[6] = Fc(len)
    BY <1>1, <1>2 DEF Tunneling
  <1>4. Places(frame.segs, "fc") = {6} /\ Places(frame.segs, "tunnel") = {3}
    <2>1. /\ Places(frame.segs, "fc") = {Hdr(f) + Hdr(f) + 2}
          /\ Places(frame.segs, "tunnel") = {Hdr(f) + 1}
      BY HostFcPlaces
    <2> QED
      BY <1>1, <2>1
  <1>5. Only("fc") = frame.segs[6] /\ Only("tunnel") = frame.segs[3]
    BY <1>4, SegmentsArePlaces DEF Only
  <1>6. tun.external = FALSE /\ Fc(len).len = len
    BY <1>2 DEF TunnelOf, Fc, Seg
  <1> QED
    BY <1>3, <1>5, <1>6

LEMMA FabricFcFrame ==
    ASSUME NEW f \in BOOLEAN, f = FALSE, NEW len \in Nat \ {0}, FabricFc(frame.segs, f, len)
    PROVE  Only("fc").len = len /\ Only("tunnel").external = TRUE
  <1>1. Hdr(f) = 2 /\ 2 + 2 = 4 /\ 2 + 1 = 3
    BY DEF Hdr
  <1>2. PICK tun : /\ TunnelOf(tun, TRUE, 6 + len)
                   /\ HeaderIndex(frame.segs, f, FIP_ETH_TYPE, tun, 6, <<Fc(len)>>, Hdr(f), 1)
    BY DEF FabricFc
  <1>3. frame.segs[3] = tun
    BY <1>1, <1>2 DEF HeaderIndex
  <1>4. /\ Places(frame.segs, "fc") = {4} /\ Places(frame.segs, "tunnel") = {3}
        /\ frame.segs[4] = Fc(len)
    <2>1. /\ Places(frame.segs, "fc") = {Hdr(f) + 2}
          /\ Places(frame.segs, "tunnel") = {Hdr(f) + 1}
          /\ frame.segs[Hdr(f) + 2] = Fc(len)
      BY FabricFcPlaces
    <2> QED
      BY <1>1, <2>1
  <1>5. Only("fc") = frame.segs[4] /\ Only("tunnel") = frame.segs[3]
    BY <1>4, SegmentsArePlaces DEF Only
  <1>6. tun.external = TRUE /\ Fc(len).len = len
    BY <1>2 DEF TunnelOf, Fc, Seg
  <1> QED
    BY <1>3, <1>4, <1>5, <1>6

(* An FC frame without a tag that is received whole leaves with its length *)
(* unless it is too long for the tunnel header or the buffer.              *)
THEOREM FcFramesLeaveWhole == Spec => []ElsWhole
  <1>1. Route => ElsWhole
    <2> SUFFICES ASSUME Route, pc = "out", Aligned, Whole, Tags = {}, Segments("fc") # {}
                 PROVE  LET len == Only("fc").len
                            Left == \E f \in sent : \E i \in DOMAIN f.segs : f.segs[i] = Fc(len)
                        IN IF Only("tunnel").external
                             THEN (/\ outcome.handler \in {"els_res", "overrun"}
                                   /\ len <= LongestElsRes) => Left
                             ELSE len <= LongestElsReq => Left
      BY DEF ElsWhole
    <2>1. LongestElsReq = 245 /\ LongestElsRes = 356
      BY DEF LongestElsReq, LongestElsRes, SIZEOF_tunnel_hdr, MAX_PK_LEN
    <2>2. ~Off(frame.segs)
      BY OffFrames
    <2>3. ASSUME NEW t \in BOOLEAN, NEW op, NEW sub, NEW tlvs, FipAt(t, op, sub, tlvs)
          PROVE  FALSE
      <3>1. Fip(frame.segs, t, t, op, sub, tlvs)
        BY <2>3 DEF FipAt
      <3>2. Places(frame.segs, "fc") = {}
        BY <3>1, FipPlaces
      <3> QED
        BY <3>2, SegmentsArePlaces
    <2>4. PICK f \in BOOLEAN : f = FALSE
      OBVIOUS
    <2>5. CASE \E len \in FcLens : HostFcAt(len)
      <3>1. PICK len \in FcLens : HostFcAt(len)
        BY <2>5
      <3>2. HostFc(frame.segs, f, f, len)
        BY <2>4, <3>1 DEF HostFcAt
      <3>3. Only("fc").len = len /\ Only("tunnel").external = FALSE
        BY <2>4, <3>2, FcLensFacts, HostFcFrame
      <3>4. len <= 245 => Leaves(sent, len)
        BY <3>1 DEF HostFcAt
      <3> QED
        BY <2>1, <3>3, <3>4 DEF Leaves
    <2>6. CASE \E len \in FcLens : FabricFcAt(len)
      <3>1. PICK len \in FcLens : FabricFcAt(len)
        BY <2>6
      <3>2. FabricFc(frame.segs, f, len)
        BY <2>4, <3>1 DEF FabricFcAt
      <3>3. Only("fc").len = len /\ Only("tunnel").external = TRUE
        BY <2>4, <3>2, FcLensFacts, FabricFcFrame
      <3>4. (len <= 356 /\ outcome.handler \in {"els_res", "overrun"}) => Leaves(sent, len)
        BY <3>1 DEF FabricFcAt
      <3> QED
        BY <2>1, <3>3, <3>4 DEF Leaves
    <2> QED
      BY <2>2, <2>3, <2>5, <2>6 DEF Route
  <1> QED
    BY <1>1, RouteInvariance, PTL

=============================================================================
