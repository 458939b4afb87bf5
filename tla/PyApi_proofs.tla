---------------------------- MODULE PyApi_proofs ----------------------------
(***************************************************************************)
(* Proofs about the inventory queries and the Python module, for any       *)
(* number of threads and programs, any tables that an earlier run can have *)
(* left, and whatever the programs pass:                                   *)
(*   - numbers, finite sets and sequences that are defined step by step;   *)
(*   - the message: packing, its length, and what unpacking returns;       *)
(*   - tables, selects over them, and the dictionary made of the entries;  *)
(*   - the threads that do not take the step: in peace, and while another  *)
(*     program writes;                                                     *)
(*   - each step of a query, and each call of a program;                   *)
(*   - the invariant and the four properties.                              *)
(***************************************************************************)
EXTENDS PyApi, SequenceTheorems, FiniteSetTheorems, WellFoundedInduction, TLAPS

-----------------------------------------------------------------------------
(* Numbers and finite sets. *)

(* A set of numbers has a least one. *)
LEMMA LeastExists ==
    ASSUME NEW S \in SUBSET Nat, S # {}
    PROVE  \E n \in S : \A m \in S : n <= m
  <1>1. PICK n \in S : \A m \in S : ~(<<m, n>> \in OpToRel(<, Nat))
    BY WFMin, NatLessThanWellFounded
  <1>2. \A m \in S : ~(m < n)
    BY <1>1 DEF OpToRel
  <1> QED
    BY <1>2

(* Induction, over a set of numbers. *)
LEMMA SetInduction ==
    ASSUME NEW S, 0 \in S, \A n \in Nat : n \in S => n + 1 \in S
    PROVE  Nat \subseteq S
  <1> SUFFICES ASSUME Nat \ S # {} PROVE FALSE
    OBVIOUS
  <1>1. PICK n \in Nat \ S : \A m \in Nat \ S : n <= m
    BY LeastExists
  <1>2. n # 0 /\ n - 1 \in Nat /\ ~(n <= n - 1)
    OBVIOUS
  <1>3. n - 1 \in S
    BY <1>1, <1>2
  <1>4. (n - 1) + 1 \in S
    BY <1>2, <1>3
  <1> QED
    BY <1>4

(* A finite set of numbers has a greatest one. *)
LEMMA GreatestExists ==
    ASSUME NEW S \in SUBSET Nat, S # {}, IsFiniteSet(S)
    PROVE  \E n \in S : \A m \in S : n >= m
  <1> DEFINE Bounded == {k \in Nat : \A T \in SUBSET S :
                           IsFiniteSet(T) /\ Cardinality(T) = k /\ T # {} =>
                              \E n \in T : \A m \in T : n >= m}
  <1>1. 0 \in Bounded
    BY FS_EmptySet
  <1>2. ASSUME NEW k \in Nat, k \in Bounded
        PROVE  k + 1 \in Bounded
    <2> SUFFICES ASSUME NEW T \in SUBSET S, IsFiniteSet(T),
                        Cardinality(T) = k + 1, T # {}
                 PROVE  \E n \in T : \A m \in T : n >= m
      OBVIOUS
    <2>1. PICK x \in T : TRUE
      OBVIOUS
    <2> DEFINE U == T \ {x}
    <2>2. IsFiniteSet(U) /\ Cardinality(U) = k
      <3>1. /\ IsFiniteSet(T \ {x})
            /\ Cardinality(T \ {x}) = IF x \in T THEN Cardinality(T) - 1
                                      ELSE Cardinality(T)
        BY FS_RemoveElement
      <3> QED
        BY <3>1
    <2>3. CASE U = {}
      BY <2>3
    <2>4. CASE U # {}
      <3>1. PICK n \in U : \A m \in U : n >= m
        BY <1>2, <2>2, <2>4
      <3> QED
        BY <3>1
    <2> QED
      BY <2>3, <2>4
  <1> HIDE DEF Bounded
  <1>3. Cardinality(S) \in Bounded
    BY <1>1, <1>2, SetInduction, FS_CardinalityType
  <1> QED
    BY <1>3 DEF Bounded

(* Max, of the community modules, is that number. *)
LEMMA MaxFacts ==
    ASSUME NEW S \in SUBSET Nat, S # {}, IsFiniteSet(S)
    PROVE  Max(S) \in S /\ \A m \in S : Max(S) >= m
  BY GreatestExists DEF Max

(* A sequence without repetitions of all elements of a set. *)
LEMMA EnumerationCounts ==
    ASSUME NEW n \in Nat, NEW S, NEW f \in [1..n -> S],
           \A i, j \in 1..n : f[i] = f[j] => i = j,
           \A x \in S : \E i \in 1..n : f[i] = x
    PROVE  IsFiniteSet(S) /\ Cardinality(S) = n
  <1>1. f \in Bijection(1..n, S)
    BY DEF Bijection, Injection, Surjection, IsInjective
  <1>2. ExistsBijection(1..n, S)
    BY <1>1 DEF ExistsBijection
  <1> QED
    BY <1>2, FS_CountingElements, FS_NatBijection

(* When there are as many places as elements, none is left out. *)
LEMMA EnumerationComplete ==
    ASSUME NEW S, IsFiniteSet(S), NEW f \in [1..Cardinality(S) -> S],
           \A i, j \in 1..Cardinality(S) : f[i] = f[j] => i = j
    PROVE  \A x \in S : \E i \in 1..Cardinality(S) : f[i] = x
  <1>1. PICK n \in Nat : n = Cardinality(S)
    BY FS_CardinalityType
  <1>2. f \in Injection(1..n, S)
    BY <1>1 DEF Injection, IsInjective
  <1>3. Cardinality(1..n) = n
    BY FS_Interval
  <1>4. f \in Surjection(1..n, S)
    BY <1>1, <1>2, <1>3, FS_Injection
  <1> QED
    BY <1>1, <1>4 DEF Surjection

(* Replacing every element by another of its own does not change the       *)
(* number.                                                                 *)
LEMMA ImageCounts ==
    ASSUME NEW S, IsFiniteSet(S), NEW T, NEW f \in [S -> T],
           \A x, y \in S : f[x] = f[y] => x = y,
           \A z \in T : \E x \in S : f[x] = z
    PROVE  IsFiniteSet(T) /\ Cardinality(T) = Cardinality(S)
  <1>1. f \in Bijection(S, T)
    BY DEF Bijection, Injection, Surjection, IsInjective
  <1> QED
    BY <1>1, FS_Bijection DEF ExistsBijection

-----------------------------------------------------------------------------
(* Recursive functions over the first numbers.  The function that CHOOSE   *)
(* takes satisfies its equation when some function does.                   *)

Steps(n, X) == [1..n -> [X -> X]]

Unrolls(g, n, first, step) ==
    /\ g[0] = first
    /\ \A i \in 1..n : g[i] = step[i][g[i - 1]]

(* A function that is defined step by step exists. *)
LEMMA RecursionExists ==
    ASSUME NEW X, NEW first \in X, NEW n \in Nat, NEW step \in Steps(n, X)
    PROVE  \E g \in [0..n -> X] : Unrolls(g, n, first, step)
  <1> DEFINE S == {m \in Nat : m <= n => \E g \in [0..m -> X] : Unrolls(g, m, first, step)}
  <1>1. 0 \in S
    <2> DEFINE g == [i \in 0..0 |-> first]
    <2>1. g \in [0..0 -> X] /\ Unrolls(g, 0, first, step)
      BY DEF Unrolls
    <2> QED
      BY <2>1
  <1>2. ASSUME NEW m \in Nat, m \in S PROVE m + 1 \in S
    <2> SUFFICES ASSUME m + 1 <= n
                 PROVE  \E g \in [0..(m + 1) -> X] : Unrolls(g, m + 1, first, step)
      OBVIOUS
    <2>1. PICK g \in [0..m -> X] : Unrolls(g, m, first, step)
      BY <1>2
    <2>2. step[m + 1] \in [X -> X] /\ g[m] \in X
      BY DEF Steps
    <2>3. step[m + 1][g[m]] \in X
      BY <2>2
    <2> DEFINE h == [i \in 0..(m + 1) |-> IF i <= m THEN g[i] ELSE step[m + 1][g[m]]]
    <2>4. h \in [0..(m + 1) -> X]
      BY <2>3
    <2>5. Unrolls(h, m + 1, first, step)
      BY <2>1 DEF Unrolls
    <2> QED
      BY <2>4, <2>5
  <1> HIDE DEF S
  <1>3. n \in S
    BY <1>1, <1>2, SetInduction
  <1> QED
    BY <1>3 DEF S

(* FlattenSeq, by its prefixes. *)
LEMMA FlattenFacts ==
    ASSUME NEW C, NEW seqs \in Seq(Seq(C))
    PROVE  \E g \in [0..Len(seqs) -> Seq(C)] :
              /\ g[0] = <<>>
              /\ \A i \in 1..Len(seqs) : g[i] = g[i - 1] \o seqs[i]
              /\ FlattenSeq(seqs) = g[Len(seqs)]
  <1>1. PICK n \in Nat : n = Len(seqs)
    BY LenProperties
  <1>2. \A i \in 1..n : seqs[i] \in Seq(C)
    BY <1>1, ElementOfSeq
  <1> DEFINE step == [i \in 1..n |-> [x \in Seq(C) |-> x \o seqs[i]]]
  <1>3. step \in Steps(n, Seq(C))
    BY <1>2, ConcatProperties DEF Steps
  <1>4. PICK g \in [0..n -> Seq(C)] : Unrolls(g, n, <<>>, step)
    <2> HIDE DEF step
    <2>1. <<>> \in Seq(C)
      BY EmptySeq
    <2> QED
      BY <1>3, <2>1, RecursionExists
  <1>5. ASSUME NEW i \in 1..n
        PROVE  g[i] = g[i - 1] \o seqs[i]
    <2>1. i - 1 \in 0..n
      OBVIOUS
    <2>2. g[i - 1] \in Seq(C)
      BY <2>1
    <2> QED
      BY <1>4, <2>2 DEF Unrolls
  <1>8. ASSUME n # 0
        PROVE  g[1] = <<>> \o seqs[1]
    <2>1. 1 \in 1..n /\ 1 - 1 = 0
      BY <1>8
    <2>2. g[1] = g[1 - 1] \o seqs[1]
      BY <1>5, <2>1
    <2> QED
      BY <1>4, <2>1, <2>2 DEF Unrolls
  <1>0. g[0] = <<>>
    BY <1>4 DEF Unrolls
  <1>6. CASE n = 0
    <2>1. seqs = <<>>
      BY <1>1, <1>6, EmptySeq
    <2> QED
      BY <1>0, <1>1, <1>5, <1>6, <2>1 DEF FlattenSeq
  <1>7. CASE n # 0
    <2> DEFINE Flat(f) == f = [i \in 1..n |-> IF i = 1 THEN seqs[i]
                                              ELSE f[i - 1] \o seqs[i]]
    <2>1. FlattenSeq(seqs) = (CHOOSE f : Flat(f))[n]
      BY <1>1, <1>7 DEF FlattenSeq
    <2> DEFINE h == [i \in 1..n |-> g[i]]
    <2>2. ASSUME NEW i \in 1..n
          PROVE  h[i] = IF i = 1 THEN seqs[i] ELSE h[i - 1] \o seqs[i]
      <3>1. CASE i = 1
        <4>1. g[1] = <<>> \o seqs[1]
          BY <1>7, <1>8
        <4> QED
          BY <1>2, <3>1, <4>1, ConcatEmptySeq
      <3>2. CASE i # 1
        <4>1. i - 1 \in 1..n
          BY <3>2
        <4> QED
          BY <1>5, <3>2, <4>1
      <3> QED
        BY <3>1, <3>2
    <2>3. Flat(h)
      BY <2>2
    <2>4. PICK f : f = CHOOSE e : Flat(e)
      OBVIOUS
    <2>5. Flat(f)
      <3> HIDE DEF Flat, h
      <3> QED
        BY <2>3, <2>4
    <2> DEFINE S == {i \in Nat : i + 1 \in 1..n => f[i + 1] = g[i + 1]}
    <2>6. 0 \in S
      <3>1. f[1] = seqs[1]
        BY <2>5, <1>7
      <3>2. g[1] = <<>> \o seqs[1]
        BY <1>7, <1>8
      <3>3. g[1] = seqs[1]
        BY <1>2, <1>7, <3>2, ConcatEmptySeq
      <3> QED
        BY <3>1, <3>3
    <2>7. ASSUME NEW i \in Nat, i \in S PROVE i + 1 \in S
      <3> SUFFICES ASSUME i + 1 + 1 \in 1..n
                   PROVE  f[i + 1 + 1] = g[i + 1 + 1]
        OBVIOUS
      <3>1. PICK j \in 1..n : j = i + 1 + 1 /\ j - 1 = i + 1 /\ j # 1
        OBVIOUS
      <3>2. f[j] = f[j - 1] \o seqs[j]
        BY <2>5, <3>1
      <3>3. g[j] = g[j - 1] \o seqs[j]
        BY <1>5
      <3>4. f[i + 1] = g[i + 1]
        BY <2>7, <3>1
      <3> QED
        BY <3>1, <3>2, <3>3, <3>4
    <2> HIDE DEF S
    <2>8. n - 1 \in S
      <3>1. Nat \subseteq S
        BY <2>6, <2>7, SetInduction
      <3> QED
        BY <1>7, <3>1
    <2>9. f[n] = g[n]
      BY <1>7, <2>8 DEF S
    <2>10. FlattenSeq(seqs) = g[n]
      <3> HIDE DEF Flat
      <3> QED
        BY <2>1, <2>4, <2>9
    <2> QED
      BY <1>0, <1>1, <1>5, <2>10
  <1> QED
    BY <1>6, <1>7

(* FlattenSeq yields a sequence. *)
LEMMA FlattenSeqType ==
    ASSUME NEW C, NEW seqs \in Seq(Seq(C))
    PROVE  FlattenSeq(seqs) \in Seq(C)
  <1>1. Len(seqs) \in Nat
    BY LenProperties
  <1>2. Len(seqs) \in 0..Len(seqs)
    BY <1>1
  <1>3. PICK g \in [0..Len(seqs) -> Seq(C)] : FlattenSeq(seqs) = g[Len(seqs)]
    BY FlattenFacts
  <1> QED
    BY <1>2, <1>3

(* One sequence more is joined to the end. *)
LEMMA FlattenAppend ==
    ASSUME NEW C, NEW seqs \in Seq(Seq(C)), NEW seq \in Seq(C)
    PROVE  FlattenSeq(Append(seqs, seq)) = FlattenSeq(seqs) \o seq
  <1>1. PICK n \in Nat : n = Len(seqs)
    BY LenProperties
  <1>2. PICK more \in Seq(Seq(C)) :
           /\ more = Append(seqs, seq)
           /\ Len(more) = n + 1
           /\ \A i \in 1..n : more[i] = seqs[i]
           /\ more[n + 1] = seq
    BY <1>1, AppendProperties
  <1>3. PICK g \in [0..n -> Seq(C)] :
              /\ g[0] = <<>>
              /\ \A i \in 1..n : g[i] = g[i - 1] \o seqs[i]
              /\ FlattenSeq(seqs) = g[n]
    BY <1>1, FlattenFacts
  <1>4. PICK h \in [0..(n + 1) -> Seq(C)] :
              /\ h[0] = <<>>
              /\ \A i \in 1..(n + 1) : h[i] = h[i - 1] \o more[i]
              /\ FlattenSeq(more) = h[n + 1]
    <2>1. PICK h \in [0..Len(more) -> Seq(C)] :
                /\ h[0] = <<>>
                /\ \A i \in 1..Len(more) : h[i] = h[i - 1] \o more[i]
                /\ FlattenSeq(more) = h[Len(more)]
      BY <1>2, FlattenFacts
    <2>2. Len(more) = n + 1
      BY <1>2
    <2> QED
      BY <2>1, <2>2
  <1> DEFINE S == {i \in Nat : i <= n => h[i] = g[i]}
  <1>5. 0 \in S
    BY <1>3, <1>4
  <1>6. ASSUME NEW i \in Nat, i \in S PROVE i + 1 \in S
    <2> SUFFICES ASSUME i + 1 <= n PROVE h[i + 1] = g[i + 1]
      OBVIOUS
    <2>1. PICK j \in 1..n : j = i + 1 /\ j - 1 = i /\ j \in 1..(n + 1)
      OBVIOUS
    <2>2. h[j] = h[j - 1] \o more[j]
      BY <1>4, <2>1
    <2>3. g[j] = g[j - 1] \o seqs[j]
      BY <1>3
    <2>4. h[i] = g[i] /\ more[j] = seqs[j]
      BY <1>2, <1>6, <2>1
    <2> QED
      BY <2>1, <2>2, <2>3, <2>4
  <1> HIDE DEF S
  <1>7. n \in S
    BY <1>5, <1>6, SetInduction
  <1>8. h[n] = g[n]
    BY <1>7 DEF S
  <1>9. h[n + 1] = h[n] \o seq
    <2>1. n + 1 \in 1..(n + 1) /\ (n + 1) - 1 = n
      OBVIOUS
    <2>2. h[n + 1] = h[(n + 1) - 1] \o more[n + 1]
      BY <1>4, <2>1
    <2> QED
      BY <1>2, <2>1, <2>2
  <1> QED
    BY <1>2, <1>3, <1>4, <1>8, <1>9

-----------------------------------------------------------------------------
(* The message.  R are the rows of its entries, C what their ids are.      *)

Entry(R, C) == [row : R, ids : Seq(C)]

Cell(R, C) == {TLV_INT, TLV_BD_ATTR, TLV_VFABRIC_ATTR} \cup Nat
              \cup [row : R, num : Nat] \cup C

HeaderLength(kind) == IF kind = "bridge" THEN 0 ELSE 2

Tlvs(kind, entries) == [i \in DOMAIN entries |-> PackTlv(kind, entries[i])]

Joined(p, s, t) ==
    /\ Len(s) \in Nat
    /\ Len(t) \in Nat
    /\ Len(p) = Len(s) + Len(t)
    /\ \A i \in 1..Len(s) : p[i] = s[i]
    /\ \A i \in 1..Len(t) : p[Len(s) + i] = t[i]

(* Concatenation, by its elements. *)
LEMMA JoinFacts ==
    ASSUME NEW D, NEW s \in Seq(D), NEW t \in Seq(D)
    PROVE  /\ s \o t \in Seq(D)
           /\ Joined(s \o t, s, t)
  <1>1. Len(s) \in Nat /\ Len(t) \in Nat
    BY LenProperties
  <1>2. s \o t \in Seq(D) /\ Len(s \o t) = Len(s) + Len(t)
    OBVIOUS
  <1>3. \A i \in 1..(Len(s) + Len(t)) :
           (s \o t)[i] = IF i <= Len(s) THEN s[i] ELSE t[i - Len(s)]
    OBVIOUS
  <1>4. ASSUME NEW i \in 1..Len(s) PROVE (s \o t)[i] = s[i]
    <2>1. i \in 1..(Len(s) + Len(t)) /\ i <= Len(s)
      BY <1>1
    <2> QED
      BY <1>3, <2>1
  <1>5. ASSUME NEW i \in 1..Len(t) PROVE (s \o t)[Len(s) + i] = t[i]
    <2>1. PICK j \in 1..(Len(s) + Len(t)) : j = Len(s) + i
      BY <1>1
    <2>2. ~(j <= Len(s)) /\ j - Len(s) = i
      BY <1>1, <2>1
    <2> QED
      BY <1>3, <2>1, <2>2
  <1> QED
    BY <1>1, <1>2, <1>4, <1>5 DEF Joined

(* A TLV: a header, the structure with the number of ids, the ids. *)
TlvOf(p, h, e) ==
    /\ h \in Nat
    /\ Len(e.ids) \in Nat
    /\ Len(p) = h + 1 + Len(e.ids)
    /\ p[h + 1] = [row |-> e.row, num |-> Len(e.ids)]
    /\ \A j \in 1..Len(e.ids) : p[h + 1 + j] = e.ids[j]

(* What one TLV consists of. *)
LEMMA PackTlvFacts ==
    ASSUME NEW R, NEW C, NEW e \in Entry(R, C), NEW kind
    PROVE  /\ PackTlv(kind, e) \in Seq(Cell(R, C))
           /\ TlvOf(PackTlv(kind, e), HeaderLength(kind), e)
  <1>1. PICK h \in Nat : h = HeaderLength(kind)
    BY DEF HeaderLength
  <1>2. e.row \in R /\ e.ids \in Seq(C) /\ Len(e.ids) \in Nat
    BY LenProperties DEF Entry
  <1>3. PICK D : D = Cell(R, C)
    OBVIOUS
  <1>4. C \subseteq D /\ [row |-> e.row, num |-> Len(e.ids)] \in D
    BY <1>2, <1>3 DEF Cell
  <1>5. PICK ids : ids = e.ids
    OBVIOUS
  <1>6. ids \in Seq(D) /\ Len(ids) \in Nat
    BY <1>2, <1>4, <1>5, SeqMonotonic
  <1>7. PICK header : header = IF kind = "bridge" THEN <<>>
                               ELSE <<TLV_VFABRIC_ATTR, 1 + Len(e.ids)>>
    OBVIOUS
  <1>8. PICK struct : struct = [row |-> e.row, num |-> Len(e.ids)]
    OBVIOUS
  <1>9. header \in Seq(D)
    <2>1. TLV_VFABRIC_ATTR \in D /\ 1 + Len(e.ids) \in D
      BY <1>2, <1>3 DEF Cell
    <2> QED
      BY <1>7, <2>1
  <1>10. Len(header) = h
    BY <1>1, <1>7 DEF HeaderLength
  <1>11. struct \in D
    BY <1>4, <1>8
  <1>12. <<struct>> \in Seq(D) /\ Len(<<struct>>) = 1 /\ <<struct>>[1] = struct
    BY <1>11
  <1>13. PICK front : front = header \o <<struct>>
    OBVIOUS
  <1>14. front \in Seq(D) /\ Joined(front, header, <<struct>>)
    BY <1>9, <1>12, <1>13, JoinFacts
  <1>15. PICK p : p = front \o ids
    OBVIOUS
  <1>16. p \in Seq(D) /\ Joined(p, front, ids)
    BY <1>6, <1>14, <1>15, JoinFacts
  <1>17. Len(front) = h + 1 /\ front[h + 1] = struct
    BY <1>10, <1>12, <1>14 DEF Joined
  <1>18. Len(p) = h + 1 + Len(ids)
    BY <1>6, <1>16, <1>17 DEF Joined
  <1>19. p[h + 1] = struct
    BY <1>16, <1>17 DEF Joined
  <1>20. \A j \in 1..Len(ids) : p[h + 1 + j] = ids[j]
    BY <1>16, <1>17 DEF Joined
  <1>21. PackTlv(kind, e) = p
    BY <1>5, <1>7, <1>8, <1>13, <1>15 DEF PackTlv
  <1>22. TlvOf(p, h, e)
    BY <1>2, <1>5, <1>8, <1>18, <1>19, <1>20 DEF TlvOf
  <1> QED
    BY <1>1, <1>3, <1>16, <1>21, <1>22

(* The TLVs of the entries, one each. *)
LEMMA TlvsType ==
    ASSUME NEW R, NEW C, NEW entries \in Seq(Entry(R, C)), NEW kind
    PROVE  /\ Tlvs(kind, entries) \in Seq(Seq(Cell(R, C)))
           /\ Len(Tlvs(kind, entries)) = Len(entries)
           /\ \A i \in 1..Len(entries) : Tlvs(kind, entries)[i] = PackTlv(kind, entries[i])
  <1>1. PICK n \in Nat : n = Len(entries) /\ DOMAIN entries = 1..n
    BY LenProperties
  <1>2. \A i \in 1..n : PackTlv(kind, entries[i]) \in Seq(Cell(R, C))
    BY <1>1, ElementOfSeq, PackTlvFacts
  <1>3. Tlvs(kind, entries) \in [1..n -> Seq(Cell(R, C))]
    BY <1>1, <1>2 DEF Tlvs
  <1> QED
    BY <1>1, <1>3 DEF Tlvs

(* What is put into the message is the concatenation of the TLVs. *)
LEMMA PackFacts ==
    ASSUME NEW R, NEW C, NEW entries \in Seq(Entry(R, C)), NEW kind
    PROVE  /\ FlattenSeq(Tlvs(kind, entries)) \in Seq(Cell(R, C))
           /\ VfmPackData(kind, entries) \in Seq(Cell(R, C))
           /\ Joined(VfmPackData(kind, entries), <<Len(entries)>>,
                     FlattenSeq(Tlvs(kind, entries)))
  <1>1. PICK flat : flat = FlattenSeq(Tlvs(kind, entries))
    OBVIOUS
  <1>2. flat \in Seq(Cell(R, C))
    BY <1>1, TlvsType, FlattenSeqType
  <1>3. Len(entries) \in Cell(R, C)
    BY LenProperties DEF Cell
  <1>4. PICK count : count = <<Len(entries)>>
    OBVIOUS
  <1>5. count \in Seq(Cell(R, C))
    BY <1>3, <1>4
  <1>6. VfmPackData(kind, entries) = count \o flat
    BY <1>1, <1>4 DEF VfmPackData, Tlvs
  <1>7. count \o flat \in Seq(Cell(R, C)) /\ Joined(count \o flat, count, flat)
    BY <1>2, <1>5, JoinFacts
  <1> QED
    BY <1>1, <1>2, <1>4, <1>6, <1>7

(* The count is one cell. *)
LEMMA PackLength ==
    ASSUME NEW R, NEW C, NEW entries \in Seq(Entry(R, C)), NEW kind
    PROVE  /\ Len(FlattenSeq(Tlvs(kind, entries))) \in Nat
           /\ Len(VfmPackData(kind, entries)) = 1 + Len(FlattenSeq(Tlvs(kind, entries)))
  <1>1. Joined(VfmPackData(kind, entries), <<Len(entries)>>, FlattenSeq(Tlvs(kind, entries)))
    BY PackFacts
  <1>2. Len(<<Len(entries)>>) = 1
    OBVIOUS
  <1> QED
    BY <1>1, <1>2 DEF Joined

(* Without entries the count is all there is. *)
LEMMA PackEmpty ==
    ASSUME NEW kind
    PROVE  Len(VfmPackData(kind, <<>>)) = 1
  <1>1. Tlvs(kind, <<>>) = <<>>
    BY DEF Tlvs
  <1>2. FlattenSeq(<<>>) = <<>>
    BY DEF FlattenSeq
  <1>3. VfmPackData(kind, <<>>) = <<Len(<<>>)>> \o <<>>
    BY <1>1, <1>2 DEF VfmPackData, Tlvs
  <1> QED
    BY <1>3

(* One entry more is one TLV more. *)
LEMMA TlvsAppend ==
    ASSUME NEW R, NEW C, NEW entries \in Seq(Entry(R, C)), NEW kind,
           NEW e \in Entry(R, C)
    PROVE  Tlvs(kind, Append(entries, e)) = Append(Tlvs(kind, entries), PackTlv(kind, e))
  <1>1. PICK n \in Nat : n = Len(entries) /\ DOMAIN entries = 1..n
    BY LenProperties
  <1>2. PICK more : more = Append(entries, e)
    OBVIOUS
  <1>3. /\ more \in Seq(Entry(R, C))
        /\ Len(more) = n + 1
        /\ \A i \in 1..n : more[i] = entries[i]
        /\ more[n + 1] = e
    BY <1>1, <1>2, AppendProperties
  <1>4. DOMAIN more = 1..(n + 1)
    BY <1>3, LenProperties
  <1>5. PICK tlvs : tlvs = Tlvs(kind, entries)
    OBVIOUS
  <1>6. /\ tlvs \in Seq(Seq(Cell(R, C)))
        /\ Len(tlvs) = n
        /\ \A i \in 1..n : tlvs[i] = PackTlv(kind, entries[i])
    BY <1>1, <1>5, TlvsType
  <1>7. PICK tlv : tlv = PackTlv(kind, e)
    OBVIOUS
  <1>8. tlv \in Seq(Cell(R, C))
    BY <1>7, PackTlvFacts
  <1>9. PICK all : all = Append(tlvs, tlv)
    OBVIOUS
  <1>10. /\ all \in Seq(Seq(Cell(R, C)))
         /\ Len(all) = n + 1
         /\ \A i \in 1..n : all[i] = tlvs[i]
         /\ all[n + 1] = tlv
    BY <1>6, <1>8, <1>9, AppendProperties
  <1>11. ASSUME NEW i \in 1..(n + 1)
         PROVE  PackTlv(kind, more[i]) = all[i]
    <2>1. CASE i \in 1..n
      BY <1>3, <1>6, <1>10, <2>1
    <2>2. CASE i = n + 1
      BY <1>3, <1>7, <1>10, <2>2
    <2> QED
      BY <2>1, <2>2
  <1>12. DOMAIN all = 1..(n + 1) /\ all = [i \in DOMAIN all |-> all[i]]
    BY <1>10, LenProperties
  <1>13. Tlvs(kind, more) = all
    BY <1>4, <1>11, <1>12 DEF Tlvs
  <1> QED
    BY <1>2, <1>5, <1>7, <1>9, <1>13

(* One entry more lengthens the data by its TLV. *)
LEMMA PackAppend ==
    ASSUME NEW R, NEW C, NEW entries \in Seq(Entry(R, C)), NEW kind,
           NEW e \in Entry(R, C)
    PROVE  /\ Len(VfmPackData(kind, entries)) \in Nat
           /\ Len(VfmPackData(kind, Append(entries, e)))
                 = Len(VfmPackData(kind, entries)) + HeaderLength(kind) + 1 + Len(e.ids)
  <1>1. PICK flat : flat = FlattenSeq(Tlvs(kind, entries))
    OBVIOUS
  <1>2. PICK tlv : tlv = PackTlv(kind, e)
    OBVIOUS
  <1>3. flat \in Seq(Cell(R, C))
    BY <1>1, PackFacts
  <1>4. tlv \in Seq(Cell(R, C)) /\ TlvOf(tlv, HeaderLength(kind), e)
    BY <1>2, PackTlvFacts
  <1>5. Tlvs(kind, entries) \in Seq(Seq(Cell(R, C)))
    BY TlvsType
  <1>6. FlattenSeq(Tlvs(kind, Append(entries, e))) = flat \o tlv
    <2>1. Tlvs(kind, Append(entries, e)) = Append(Tlvs(kind, entries), tlv)
      BY <1>2, TlvsAppend
    <2>2. tlv \in Seq(Cell(R, C))
      BY <1>4
    <2>3. FlattenSeq(Append(Tlvs(kind, entries), tlv)) = FlattenSeq(Tlvs(kind, entries)) \o tlv
      BY <1>5, <2>2, FlattenAppend
    <2> QED
      BY <1>1, <2>1, <2>3
  <1>7. Joined(flat \o tlv, flat, tlv)
    BY <1>3, <1>4, JoinFacts
  <1>8. Append(entries, e) \in Seq(Entry(R, C))
    BY AppendProperties
  <1>9. Len(VfmPackData(kind, Append(entries, e))) = 1 + Len(flat \o tlv)
    BY <1>6, <1>8, PackLength
  <1>10. Len(flat) \in Nat /\ Len(VfmPackData(kind, entries)) = 1 + Len(flat)
    BY <1>1, PackLength
  <1>11. /\ Len(tlv) = HeaderLength(kind) + 1 + Len(e.ids)
         /\ HeaderLength(kind) \in Nat /\ Len(e.ids) \in Nat
    BY <1>4 DEF TlvOf
  <1>12. Len(flat \o tlv) = Len(flat) + Len(tlv)
    BY <1>7 DEF Joined
  <1>13. PICK before, after, h, num, m, k :
            /\ before = Len(VfmPackData(kind, entries))
            /\ after = Len(VfmPackData(kind, Append(entries, e)))
            /\ h = HeaderLength(kind) /\ num = Len(e.ids)
            /\ m = Len(flat) /\ k = Len(tlv)
    OBVIOUS
  <1>14. /\ m \in Nat /\ h \in Nat /\ num \in Nat
         /\ before = 1 + m /\ k = h + 1 + num /\ after = 1 + (m + k)
    BY <1>9, <1>10, <1>11, <1>12, <1>13, Zenon
  <1>15. before \in Nat /\ after = before + h + 1 + num
    BY <1>14
  <1> QED
    BY <1>13, <1>15

(* The size of the data of a bridge answer is what its entries take. *)
LEMMA BridgeDataSizeFacts ==
    ASSUME NEW R, NEW C, NEW entries \in Seq(Entry(R, C))
    PROVE  BridgeDataSize(entries) = Len(VfmPackData("bridge", entries))
  <1>1. PICK n \in Nat : n = Len(entries)
    BY LenProperties
  <1>2. PICK tlvs : tlvs = Tlvs("bridge", entries)
    OBVIOUS
  <1>3. /\ tlvs \in Seq(Seq(Cell(R, C)))
        /\ Len(tlvs) = n
        /\ \A i \in 1..n : tlvs[i] = PackTlv("bridge", entries[i])
    BY <1>1, <1>2, TlvsType
  <1>4. PICK g \in [0..n -> Seq(Cell(R, C))] :
           /\ g[0] = <<>>
           /\ \A i \in 1..n : g[i] = g[i - 1] \o tlvs[i]
           /\ FlattenSeq(tlvs) = g[n]
    BY <1>3, FlattenFacts
  <1> DEFINE Size(f) == f = [i \in 0..n |-> IF i = 0 THEN 1
                                            ELSE f[i - 1] + 1 + Len(entries[i].ids)]
  <1>5. PICK w : w = [i \in 0..n |-> 1 + Len(g[i])]
    OBVIOUS
  <1>6. ASSUME NEW i \in 1..n
        PROVE  w[i] = w[i - 1] + 1 + Len(entries[i].ids)
    <2>1. i - 1 \in 0..n /\ i \in 0..n
      OBVIOUS
    <2>2. g[i - 1] \in Seq(Cell(R, C))
      BY <2>1
    <2>3. entries[i] \in Entry(R, C)
      BY <1>1, ElementOfSeq
    <2>4. /\ PackTlv("bridge", entries[i]) \in Seq(Cell(R, C))
          /\ TlvOf(PackTlv("bridge", entries[i]), HeaderLength("bridge"), entries[i])
      BY <2>3, PackTlvFacts
    <2>5. tlvs[i] \in Seq(Cell(R, C)) /\ TlvOf(tlvs[i], 0, entries[i])
      BY <1>3, <2>4 DEF HeaderLength
    <2>6. Joined(g[i], g[i - 1], tlvs[i])
      BY <1>4, <2>2, <2>5, JoinFacts
    <2>7. PICK a \in Nat : a = Len(g[i - 1])
      BY <2>6 DEF Joined
    <2>8. PICK k \in Nat : k = Len(entries[i].ids)
      BY <2>5 DEF TlvOf
    <2>9. Len(tlvs[i]) = 0 + 1 + Len(entries[i].ids)
      BY <2>5 DEF TlvOf
    <2>10. Len(g[i]) = Len(g[i - 1]) + Len(tlvs[i])
      BY <2>6 DEF Joined
    <2>11. Len(g[i]) = a + (0 + 1 + k)
      BY <2>7, <2>8, <2>9, <2>10
    <2>12. w[i] = 1 + Len(g[i]) /\ w[i - 1] = 1 + Len(g[i - 1])
      BY <1>5, <2>1
    <2>13. w[i] = 1 + (a + (0 + 1 + k)) /\ w[i - 1] = 1 + a
      BY <2>7, <2>11, <2>12
    <2>14. w[i] = w[i - 1] + 1 + k
      BY <2>13
    <2> QED
      BY <2>8, <2>14
  <1>7. w[0] = 1
    BY <1>4, <1>5
  <1>8. Size(w)
    <2>1. ASSUME NEW i \in 0..n
          PROVE  w[i] = IF i = 0 THEN 1 ELSE w[i - 1] + 1 + Len(entries[i].ids)
      <3>1. CASE i = 0
        BY <1>7, <3>1
      <3>2. CASE i # 0
        BY <1>6, <3>2
      <3> QED
        BY <3>1, <3>2
    <2>2. w = [i \in 0..n |-> w[i]]
      BY <1>5
    <2> QED
      BY <2>1, <2>2
  <1>9. PICK f : f = CHOOSE e : Size(e)
    OBVIOUS
  <1>10. Size(f)
    <2> HIDE DEF Size
    <2> QED
      BY <1>8, <1>9
  <1>11. BridgeDataSize(entries) = f[n]
    BY <1>1, <1>9 DEF BridgeDataSize
  <1> DEFINE S == {i \in Nat : i <= n => f[i] = w[i]}
  <1>12. 0 \in S
    BY <1>7, <1>10
  <1>13. ASSUME NEW i \in Nat, i \in S PROVE i + 1 \in S
    <2> SUFFICES ASSUME i + 1 <= n PROVE f[i + 1] = w[i + 1]
      OBVIOUS
    <2>1. PICK j \in 1..n : j = i + 1 /\ j - 1 = i /\ j # 0 /\ j \in 0..n
      OBVIOUS
    <2>2. f[j] = f[j - 1] + 1 + Len(entries[j].ids)
      BY <1>10, <2>1
    <2>3. f[i] = w[i]
      BY <1>13, <2>1
    <2> QED
      BY <1>6, <2>1, <2>2, <2>3
  <1> HIDE DEF S
  <1>14. n \in S
    BY <1>12, <1>13, SetInduction
  <1>15. f[n] = 1 + Len(g[n])
    BY <1>5, <1>14 DEF S
  <1> QED
    BY <1>2, <1>4, <1>11, <1>15, PackLength

(* The message has its computed length when the data has the size that was *)
(* computed with it.                                                       *)
LEMMA MarshalledFacts ==
    ASSUME NEW R, NEW C, NEW entries \in Seq(Entry(R, C)), NEW kind, NEW size \in Nat
    PROVE  Len(MarshallResponse(kind, entries, size)) = MarshalledLength(kind, size)
              <=> Len(VfmPackData(kind, entries)) = size + (IF kind = "bridge" THEN 0 ELSE 1)
  <1>1. PICK data : data = VfmPackData(kind, entries)
    OBVIOUS
  <1>2. PICK n \in Nat : n = Len(data)
    BY <1>1, PackLength
  <1>3. CASE kind = "bridge"
    <2>1. PICK five : five = <<TLV_INT, 1, size, TLV_BD_ATTR, size>>
      OBVIOUS
    <2>2. five \in Seq(Cell(R, C)) /\ Len(five) = 5
      <3>1. TLV_INT \in Cell(R, C) /\ 1 \in Cell(R, C) /\ size \in Cell(R, C)
            /\ TLV_BD_ATTR \in Cell(R, C)
        BY DEF Cell
      <3> QED
        BY <2>1, <3>1
    <2>3. data \in Seq(Cell(R, C))
      BY <1>1, PackFacts
    <2>4. Joined(five \o data, five, data)
      BY <2>2, <2>3, JoinFacts
    <2>5. Len(MarshallResponse(kind, entries, size)) = 5 + n
      BY <1>1, <1>2, <1>3, <2>1, <2>2, <2>4 DEF MarshallResponse, Joined
    <2> QED
      BY <1>1, <1>2, <1>3, <2>5 DEF MarshalledLength
  <1>4. CASE kind # "bridge"
    <2>1. MarshallResponse(kind, entries, size) = data
      BY <1>1, <1>4 DEF MarshallResponse
    <2> QED
      BY <1>1, <1>2, <1>4, <2>1 DEF MarshalledLength
  <1> QED
    BY <1>3, <1>4

-----------------------------------------------------------------------------
(* Unpacking. *)

Prefix(s, t) == /\ Len(s) \in Nat /\ Len(t) \in Nat /\ Len(s) <= Len(t)
                /\ \A i \in 1..Len(s) : t[i] = s[i]

(* A prefix of a prefix is a prefix. *)
LEMMA PrefixTransitive ==
    ASSUME NEW s, NEW t, NEW u, Prefix(s, t), Prefix(t, u)
    PROVE  Prefix(s, u)
  BY DEF Prefix

(* What is joined begins with its first part. *)
LEMMA JoinedPrefix ==
    ASSUME NEW p, NEW s, NEW t, Joined(p, s, t)
    PROVE  Prefix(s, p)
  BY DEF Joined, Prefix

(* An entry whose TLV, with a header of h cells, begins at a cell. *)
EntryAt(data, h, at, e) ==
    /\ data[at + h] = [row |-> e.row, num |-> Len(e.ids)]
    /\ \A j \in 1..Len(e.ids) : data[at + h + j] = e.ids[j]

Layout(data, h, at, entries) ==
    /\ data[1] = Len(entries)
    /\ at[0] = 2
    /\ \A i \in 1..Len(entries) :
          /\ EntryAt(data, h, at[i - 1], entries[i])
          /\ at[i] = at[i - 1] + h + 1 + Len(entries[i].ids)

(* Packed data is laid out entry after entry. *)
LEMMA LayoutFacts ==
    ASSUME NEW R, NEW C, NEW entries \in Seq(Entry(R, C)), NEW kind
    PROVE  \E at \in [0..Len(entries) -> Nat] :
              Layout(VfmPackData(kind, entries), HeaderLength(kind), at, entries)
  <1>1. PICK n \in Nat : n = Len(entries)
    BY LenProperties
  <1>2. PICK tlvs : tlvs = Tlvs(kind, entries)
    OBVIOUS
  <1>3. /\ tlvs \in Seq(Seq(Cell(R, C)))
        /\ Len(tlvs) = n
        /\ \A i \in 1..n : tlvs[i] = PackTlv(kind, entries[i])
    BY <1>1, <1>2, TlvsType
  <1>4. PICK g \in [0..n -> Seq(Cell(R, C))] :
           /\ g[0] = <<>>
           /\ \A i \in 1..n : g[i] = g[i - 1] \o tlvs[i]
           /\ FlattenSeq(tlvs) = g[n]
    BY <1>3, FlattenFacts
  <1>5. PICK data : data = VfmPackData(kind, entries)
    OBVIOUS
  <1>6. Joined(data, <<n>>, g[n])
    BY <1>1, <1>2, <1>4, <1>5, PackFacts
  <1>7. PICK h \in Nat : h = HeaderLength(kind)
    BY DEF HeaderLength
  <1>8. ASSUME NEW i \in 1..n
        PROVE  Joined(g[i], g[i - 1], tlvs[i]) /\ TlvOf(tlvs[i], h, entries[i])
    <2>1. i - 1 \in 0..n
      OBVIOUS
    <2>2. g[i - 1] \in Seq(Cell(R, C))
      BY <2>1
    <2>3. entries[i] \in Entry(R, C)
      BY <1>1, ElementOfSeq
    <2>4. /\ PackTlv(kind, entries[i]) \in Seq(Cell(R, C))
          /\ TlvOf(PackTlv(kind, entries[i]), HeaderLength(kind), entries[i])
      BY <2>3, PackTlvFacts
    <2>5. tlvs[i] \in Seq(Cell(R, C)) /\ TlvOf(tlvs[i], h, entries[i])
      BY <1>3, <1>7, <2>4
    <2> QED
      BY <1>4, <2>2, <2>5, JoinFacts
  <1> DEFINE S == {m \in Nat : m <= n => Prefix(g[n - m], g[n])}
  <1>9. 0 \in S
    <2>1. n \in 0..n
      OBVIOUS
    <2>2. Len(g[n]) \in Nat
      BY <2>1, LenProperties
    <2>3. Prefix(g[n], g[n])
      BY <2>2 DEF Prefix
    <2> QED
      BY <2>3
  <1>10. ASSUME NEW m \in Nat, m \in S PROVE m + 1 \in S
    <2> SUFFICES ASSUME m + 1 <= n PROVE Prefix(g[n - (m + 1)], g[n])
      OBVIOUS
    <2>1. PICK i \in 1..n : i = n - m /\ i - 1 = n - (m + 1)
      OBVIOUS
    <2>2. Prefix(g[i - 1], g[i])
      BY <1>8, JoinedPrefix
    <2>3. Prefix(g[i], g[n])
      BY <1>10, <2>1
    <2> QED
      BY <2>1, <2>2, <2>3, PrefixTransitive
  <1> HIDE DEF S
  <1>11. \A m \in Nat : m \in S
    BY <1>9, <1>10, SetInduction
  <1>12. ASSUME NEW i \in 1..n PROVE Prefix(g[i], g[n])
    <2>1. PICK m \in Nat : m = n - i /\ n - m = i /\ m <= n
      OBVIOUS
    <2> QED
      BY <1>11, <2>1 DEF S
  <1>13. PICK at : at = [i \in 0..n |-> 2 + Len(g[i])]
    OBVIOUS
  <1>14. at \in [0..n -> Nat]
    <2>1. \A i \in 0..n : Len(g[i]) \in Nat
      BY LenProperties
    <2> QED
      BY <1>13, <2>1
  <1>15. at[0] = 2
    BY <1>4, <1>13
  <1>16. data[1] = n
    <2>1. <<n>>[1] = n /\ Len(<<n>>) = 1
      OBVIOUS
    <2> QED
      BY <1>6, <2>1 DEF Joined
  <1>17. ASSUME NEW i \in 1..n
         PROVE  /\ EntryAt(data, h, at[i - 1], entries[i])
                /\ at[i] = at[i - 1] + h + 1 + Len(entries[i].ids)
    <2>1. PICK a \in Nat : a = Len(g[i - 1])
      BY <1>8 DEF Joined
    <2>2. PICK k \in Nat : k = Len(entries[i].ids)
      BY <1>8 DEF TlvOf
    <2>3. at[i - 1] = 2 + a /\ at[i] = 2 + Len(g[i])
      <3>1. i - 1 \in 0..n /\ i \in 0..n
        OBVIOUS
      <3> QED
        BY <1>13, <2>1, <3>1
    <2>4. Len(tlvs[i]) = h + 1 + k
      BY <1>8, <2>2 DEF TlvOf
    <2>5. Len(g[i]) = a + h + 1 + k
      <3>1. Len(g[i]) = Len(g[i - 1]) + Len(tlvs[i])
        BY <1>8 DEF Joined
      <3>2. Len(g[i]) = a + (h + 1 + k)
        BY <2>1, <2>4, <3>1
      <3> QED
        BY <3>2
    <2>6. \A j \in 1..(a + h + 1 + k) : g[n][j] = g[i][j] /\ j <= Len(g[n])
      BY <1>12, <2>5 DEF Prefix
    <2>7. Len(g[n]) \in Nat
      BY <1>12 DEF Prefix
    <2>8. \A j \in 1..Len(g[n]) : data[1 + j] = g[n][j]
      <3>1. Len(<<n>>) = 1
        OBVIOUS
      <3> QED
        BY <1>6, <3>1 DEF Joined
    <2>9. \A j \in 1..(h + 1 + k) : g[i][a + j] = tlvs[i][j]
      BY <1>8, <2>1, <2>4 DEF Joined
    <2>10. ASSUME NEW j \in 1..(h + 1 + k)
           PROVE  data[1 + (a + j)] = tlvs[i][j]
      <3>1. a + j \in 1..(a + h + 1 + k) /\ a + j \in Nat /\ 1 <= a + j
        OBVIOUS
      <3>2. a + j \in 1..Len(g[n])
        BY <2>6, <2>7, <3>1
      <3> QED
        BY <2>6, <2>8, <2>9, <3>1, <3>2
    <2>11. data[2 + a + h] = [row |-> entries[i].row, num |-> Len(entries[i].ids)]
      <3>1. h + 1 \in 1..(h + 1 + k) /\ 1 + (a + (h + 1)) = 2 + a + h
        OBVIOUS
      <3>2. data[1 + (a + (h + 1))] = tlvs[i][h + 1]
        BY <2>10, <3>1
      <3> QED
        BY <1>8, <3>1, <3>2 DEF TlvOf
    <2>12. ASSUME NEW j \in 1..k
           PROVE  data[2 + a + h + j] = entries[i].ids[j]
      <3>1. h + 1 + j \in 1..(h + 1 + k) /\ 1 + (a + (h + 1 + j)) = 2 + a + h + j
        OBVIOUS
      <3>2. data[1 + (a + (h + 1 + j))] = tlvs[i][h + 1 + j]
        BY <2>10, <3>1
      <3>3. tlvs[i][h + 1 + j] = entries[i].ids[j]
        BY <1>8, <2>2 DEF TlvOf
      <3> QED
        BY <3>1, <3>2, <3>3
    <2>13. EntryAt(data, h, at[i - 1], entries[i])
      BY <2>2, <2>3, <2>11, <2>12 DEF EntryAt
    <2>14. at[i] = at[i - 1] + h + 1 + Len(entries[i].ids)
      <3>1. at[i] = 2 + (a + h + 1 + k)
        BY <2>3, <2>5
      <3>2. at[i] = (2 + a) + h + 1 + k
        BY <3>1
      <3> QED
        BY <2>2, <2>3, <3>2
    <2> QED
      BY <2>13, <2>14
  <1>18. Layout(data, h, at, entries)
    BY <1>1, <1>15, <1>16, <1>17 DEF Layout
  <1> QED
    BY <1>1, <1>5, <1>7, <1>14, <1>18

After(at, h, e) == at + h + 1 + Len(e.ids)

(* One step of the walk takes one entry out of the data. *)
LEMMA UnpackEntryFacts ==
    ASSUME NEW R, NEW C, NEW e \in Entry(R, C), NEW h \in Nat, NEW at \in Nat,
           NEW data, EntryAt(data, h, at, e), NEW out
    PROVE  UnpackEntry(data, h, [at |-> at, out |-> out])
              = [at |-> After(at, h, e), out |-> Append(out, e)]
  <1>1. e.ids \in Seq(C) /\ e.row \in R /\ e = [row |-> e.row, ids |-> e.ids]
    BY DEF Entry
  <1>2. PICK k \in Nat : k = Len(e.ids)
    BY <1>1, LenProperties
  <1>3. PICK first \in Nat : first = at + h + 1
    OBVIOUS
  <1>4. PICK ids : ids = SubSeq(data, first, first + k - 1)
    OBVIOUS
  <1>5. ASSUME NEW i \in first..(first + k - 1)
        PROVE  data[i] \in C
    <2>1. PICK j \in 1..k : j = i - first + 1 /\ at + h + j = i
      BY <1>3
    <2>2. data[at + h + j] = e.ids[j]
      BY <1>2 DEF EntryAt
    <2>3. e.ids[j] \in C
      BY <1>1, <1>2, ElementOfSeq
    <2> QED
      BY <2>1, <2>2, <2>3
  <1>6. /\ ids \in Seq(C)
        /\ Len(ids) = IF first <= first + k - 1 THEN first + k - 1 - first + 1 ELSE 0
        /\ \A i \in 1..(first + k - 1 - first + 1) : ids[i] = data[first + i - 1]
    <2>1. first \in Int /\ first + k - 1 \in Int
      OBVIOUS
    <2> QED
      BY <1>4, <1>5, <2>1, SubSeqProperties
  <1>7. Len(ids) = k
    BY <1>6
  <1>8. ASSUME NEW j \in 1..k
        PROVE  ids[j] = e.ids[j]
    <2>1. j \in 1..(first + k - 1 - first + 1) /\ first + j - 1 = at + h + j
      BY <1>3
    <2>2. ids[j] = data[at + h + j]
      BY <1>6, <2>1
    <2> QED
      BY <1>2, <2>2 DEF EntryAt
  <1>9. ids = e.ids
    BY <1>1, <1>2, <1>6, <1>7, <1>8, SeqEqual
  <1>0. PICK u : u = [at |-> at, out |-> out]
    OBVIOUS
  <1>10. data[u.at + h] = [row |-> e.row, num |-> k] /\ u.at + h + 1 = first
    BY <1>0, <1>2, <1>3 DEF EntryAt
  <1>11. UnpackEntry(data, h, u)
            = [at |-> first + k, out |-> Append(out, [row |-> e.row, ids |-> ids])]
    <2>1. u.out = out
      BY <1>0
    <2>2. PICK s : s = data[u.at + h]
      OBVIOUS
    <2>3. s.row = e.row /\ s.num = k
      BY <1>10, <2>2
    <2> QED
      BY <1>4, <1>10, <2>1, <2>2, <2>3 DEF UnpackEntry
  <1>12. first + k = at + h + 1 + k
    BY <1>3
  <1>13. [row |-> e.row, ids |-> ids] = e
    BY <1>1, <1>9
  <1>14. PICK end : end = first + k
    OBVIOUS
  <1>15. end = After(at, h, e)
    BY <1>2, <1>12, <1>14 DEF After
  <1>16. UnpackEntry(data, h, u) = [at |-> end, out |-> Append(out, e)]
    BY <1>11, <1>13, <1>14
  <1> QED
    BY <1>0, <1>15, <1>16

\* What UnpackEntryFacts concludes, under a name.
Advanced(data, h, at, e) ==
  \A out : UnpackEntry(data, h, [at |-> at, out |-> out])
              = [at |-> After(at, h, e), out |-> Append(out, e)]

\* The loop of the binding moves past every entry that lies before it.
LEMMA UnpackAdvances ==
    ASSUME NEW R, NEW C
    PROVE  \A e \in Entry(R, C), h \in Nat, at \in Nat : \A data :
             EntryAt(data, h, at, e) => Advanced(data, h, at, e)
  <1> SUFFICES ASSUME NEW e \in Entry(R, C), NEW h \in Nat, NEW at \in Nat,
                      NEW data, EntryAt(data, h, at, e), NEW out
               PROVE  UnpackEntry(data, h, [at |-> at, out |-> out])
                        = [at |-> After(at, h, e), out |-> Append(out, e)]
    BY DEF Advanced
  <1> QED
    BY UnpackEntryFacts

(* What the client library unpacks (unpack_vadapter_data,                  *)
(* process_vfabric_data, unpack_bridge_data) is what the VFM has packed    *)
(* (vfm_pack_data, vfm_marshall_response), whatever the entries, when the  *)
(* length that was computed is that of the message.                        *)
THEOREM RoundTrip ==
    ASSUME NEW R, NEW C, NEW entries \in Seq(Entry(R, C)), NEW kind, NEW size \in Nat,
           Len(MarshallResponse(kind, entries, size)) = MarshalledLength(kind, size)
    PROVE  UnmarshallResponse(kind, MarshallResponse(kind, entries, size)) = entries
  <1>1. PICK n \in Nat : n = Len(entries)
    BY LenProperties
  <1>2. PICK packed : packed = VfmPackData(kind, entries)
    OBVIOUS
  <1>3. PICK message : message = MarshallResponse(kind, entries, size)
    OBVIOUS
  <1>4. PICK data : data = IF kind = "bridge" THEN SubSeq(message, 6, 5 + message[3])
                           ELSE message
    OBVIOUS
  <1>5. data = packed
    <2>1. CASE kind = "bridge"
      <3>1. PICK D : D = Cell(R, C)
        OBVIOUS
      <3>2. packed \in Seq(D) /\ Len(packed) = size
        <4>1. packed \in Seq(D)
          BY <1>2, <3>1, PackFacts
        <4>2. Len(packed) = size + (IF kind = "bridge" THEN 0 ELSE 1)
          BY <1>2, MarshalledFacts
        <4> QED
          BY <2>1, <4>1, <4>2
      <3>3. PICK five : five = <<TLV_INT, 1, size, TLV_BD_ATTR, size>>
        OBVIOUS
      <3>4. five \in Seq(D)
        <4>1. TLV_INT \in D /\ 1 \in D /\ size \in D /\ TLV_BD_ATTR \in D
          BY <3>1 DEF Cell
        <4> QED
          BY <3>3, <4>1
      <3>5. Len(five) = 5 /\ five[3] = size
        BY <3>3
      <3>6. message = five \o packed
        BY <1>2, <1>3, <2>1, <3>3 DEF MarshallResponse
      <3>7. message \in Seq(D) /\ Joined(message, five, packed)
        BY <3>2, <3>4, <3>6, JoinFacts
      <3>8. message[3] = size
        BY <3>5, <3>7 DEF Joined
      <3>9. Len(message) = 5 + size /\ \A i \in 1..size : message[5 + i] = packed[i]
        BY <3>2, <3>5, <3>7 DEF Joined
      <3>10. \A i \in 6..(5 + size) : message[i] \in D
        <4>1. \A i \in 6..(5 + size) : i \in 1..Len(message)
          BY <3>9
        <4> QED
          BY <3>7, <4>1, ElementOfSeq
      <3>11. /\ data \in Seq(D)
             /\ Len(data) = IF 6 <= 5 + size THEN 5 + size - 6 + 1 ELSE 0
             /\ \A i \in 1..(5 + size - 6 + 1) : data[i] = message[6 + i - 1]
        <4>1. 6 \in Int /\ 5 + size \in Int /\ data = SubSeq(message, 6, 5 + size)
          BY <1>4, <2>1, <3>8
        <4> QED
          BY <3>10, <4>1, SubSeqProperties
      <3>12. Len(data) = size
        BY <3>11
      <3>13. ASSUME NEW i \in 1..size PROVE data[i] = packed[i]
        <4>1. i \in 1..(5 + size - 6 + 1) /\ 6 + i - 1 = 5 + i
          OBVIOUS
        <4> QED
          BY <3>9, <3>11, <4>1
      <3> QED
        BY <3>2, <3>11, <3>12, <3>13, SeqEqual
    <2>2. CASE kind # "bridge"
      BY <1>2, <1>3, <1>4, <2>2 DEF MarshallResponse
    <2> QED
      BY <2>1, <2>2
  <1>6. PICK h \in Nat : h = HeaderLength(kind)
    BY DEF HeaderLength
  <1>7. PICK at \in [0..n -> Nat] : Layout(data, h, at, entries)
    BY <1>1, <1>2, <1>5, <1>6, LayoutFacts
  <1>8. data[1] = n
    BY <1>1, <1>7 DEF Layout
  <1> DEFINE Walk(f) == f = [i \in 0..n |-> IF i = 0 THEN [at |-> 2, out |-> <<>>]
                                            ELSE UnpackEntry(data, h, f[i - 1])]
  <1>9. UnmarshallResponse(kind, message) = (CHOOSE f : Walk(f))[n].out
    <2>1. PICK d1 : d1 = n
      OBVIOUS
    <2>2. h = IF kind = "bridge" THEN 0 ELSE 2
      BY <1>6 DEF HeaderLength
    <2> QED
      BY <1>4, <1>8, <2>2 DEF UnmarshallResponse
  <1>10. PICK w : w = [i \in 0..n |-> [at |-> at[i], out |-> SubSeq(entries, 1, i)]]
    OBVIOUS
  <1>11. ASSUME NEW i \in 1..n
         PROVE  w[i] = UnpackEntry(data, h, w[i - 1])
    <2>1. i - 1 \in 0..n /\ i \in 0..n /\ i \in 1..Len(entries)
      BY <1>1
    <2>2. PICK e \in Entry(R, C) : e = entries[i]
      BY <1>1, ElementOfSeq
    <2>3. PICK a \in Nat : a = at[i - 1]
      BY <2>1
    <2>4. EntryAt(data, h, a, e) /\ at[i] = After(a, h, e)
      BY <1>7, <2>1, <2>2, <2>3 DEF Layout, After
    <2>5. w[i - 1] = [at |-> a, out |-> SubSeq(entries, 1, i - 1)]
      BY <1>10, <2>1, <2>3
    <2>6. UnpackEntry(data, h, w[i - 1])
             = [at |-> After(a, h, e), out |-> Append(SubSeq(entries, 1, i - 1), e)]
      <3>1. PICK out, u : out = SubSeq(entries, 1, i - 1) /\ u = w[i - 1]
        OBVIOUS
      <3>2. u = [at |-> a, out |-> out]
        BY <2>5, <3>1
      <3>3. UnpackEntry(data, h, u)
               = [at |-> After(a, h, e), out |-> Append(out, e)]
        <4>1. UnpackEntry(data, h, [at |-> a, out |-> out])
                 = [at |-> After(a, h, e), out |-> Append(out, e)]
          <5>1. Advanced(data, h, a, e)
            BY <1>6, <2>2, <2>3, <2>4, UnpackAdvances
          <5> QED
            BY <5>1 DEF Advanced
        <4> QED
          BY <3>2, <4>1
      <3> QED
        BY <3>1, <3>3
    <2>7. Append(SubSeq(entries, 1, i - 1), e) = SubSeq(entries, 1, i)
      <3>1. PICK front : front = SubSeq(entries, 1, i - 1)
        OBVIOUS
      <3>2. front \in Seq(Entry(R, C))
        <4>1. \A j \in 1..(i - 1) : j \in 1..Len(entries)
          BY <1>1
        <4>2. \A j \in 1..(i - 1) : entries[j] \in Entry(R, C)
          BY <4>1, ElementOfSeq
        <4>3. 1 \in Int /\ i - 1 \in Int
          OBVIOUS
        <4> QED
          BY <3>1, <4>2, <4>3, SubSeqProperties
      <3>3. Append(front, e) = front \o <<e>>
        BY <3>2, AppendIsConcat
      <3>4. SubSeq(entries, 1, i) = SubSeq(entries, 1, i - 1) \o <<entries[i]>>
        <4>1. 1 \in 1..Len(entries) /\ i \in 1..Len(entries)
          BY <1>1
        <4> QED
          BY <4>1, SubSeqRecursiveSecond
      <3> QED
        BY <2>2, <3>1, <3>3, <3>4
    <2>8. w[i] = [at |-> at[i], out |-> SubSeq(entries, 1, i)]
      BY <1>10, <2>1
    <2> QED
      BY <2>4, <2>6, <2>7, <2>8
  <1>12. w[0] = [at |-> 2, out |-> <<>>]
    <2>1. SubSeq(entries, 1, 0) = <<>>
      BY SubSeqEmpty
    <2>2. at[0] = 2
      BY <1>7 DEF Layout
    <2> QED
      BY <1>10, <2>1, <2>2
  <1>13. Walk(w)
    <2>1. ASSUME NEW i \in 0..n
          PROVE  w[i] = IF i = 0 THEN [at |-> 2, out |-> <<>>]
                        ELSE UnpackEntry(data, h, w[i - 1])
      <3>1. CASE i = 0
        BY <1>12, <3>1
      <3>2. CASE i # 0
        BY <1>11, <3>2
      <3> QED
        BY <3>1, <3>2
    <2>2. w = [i \in 0..n |-> w[i]]
      BY <1>10
    <2> QED
      BY <2>1, <2>2
  <1>14. PICK f : f = CHOOSE g : Walk(g)
    OBVIOUS
  <1>15. Walk(f)
    <2> HIDE DEF Walk
    <2> QED
      BY <1>13, <1>14
  <1> DEFINE S == {i \in Nat : i <= n => f[i] = w[i]}
  <1>16. 0 \in S
    BY <1>12, <1>15
  <1>17. ASSUME NEW i \in Nat, i \in S PROVE i + 1 \in S
    <2> SUFFICES ASSUME i + 1 <= n PROVE f[i + 1] = w[i + 1]
      OBVIOUS
    <2>1. PICK j \in 1..n : j = i + 1 /\ j - 1 = i /\ j # 0 /\ j \in 0..n
      OBVIOUS
    <2>2. f[j] = UnpackEntry(data, h, f[j - 1])
      BY <1>15, <2>1
    <2>3. f[i] = w[i]
      BY <1>17, <2>1
    <2>4. w[j] = UnpackEntry(data, h, w[j - 1])
      BY <1>11
    <2> QED
      BY <2>1, <2>2, <2>3, <2>4
  <1> HIDE DEF S
  <1>18. n \in S
    BY <1>16, <1>17, SetInduction
  <1>19. f[n] = w[n]
    BY <1>18 DEF S
  <1>20. w[n].out = SubSeq(entries, 1, n)
    BY <1>10
  <1>21. SubSeq(entries, 1, n) = entries
    BY <1>1, SubSeqFull
  <1>22. UnmarshallResponse(kind, message) = f[n].out
    <2> HIDE DEF Walk
    <2> QED
      BY <1>9, <1>14
  <1> QED
    BY <1>3, <1>19, <1>20, <1>21, <1>22

-----------------------------------------------------------------------------
(* Tables, and selects over them. *)

(* Rows of a table are finitely many, and told apart by their ids. *)
LEMMA TableFacts ==
    ASSUME NEW T, NEW columns, IsTable(T, columns), NEW rows \in SUBSET T
    PROVE  /\ IsFiniteSet(rows)
           /\ Cardinality(rows) \in Nat
           /\ \A row \in rows : row.id \in Nat /\ DOMAIN row = columns
           /\ \A row, other \in rows : row.id = other.id => row = other
  <1>1. IsFiniteSet(rows)
    BY FS_Subset DEF IsTable
  <1>2. Cardinality(rows) \in Nat
    BY <1>1, FS_CardinalityType
  <1> QED
    BY <1>1, <1>2 DEF IsTable

(* A structure shows the id of its row. *)
LEMMA StructureId ==
    ASSUME NEW row, "id" \in DOMAIN row, row.id \in Nat
    PROVE  Structure(row).id = row.id
  BY NULLAssumption DEF Structure

(* It is EN or FC when the row is. *)
LEMMA StructureProtocol ==
    ASSUME NEW row, "protocol" \in DOMAIN row
    PROVE  Structure(row).protocol \in {VFM_PROTOCOL_EN, VFM_PROTOCOL_FC}
              <=> row.protocol \in {VFM_PROTOCOL_EN, VFM_PROTOCOL_FC}
  BY NULLAssumption DEF Structure, VFM_PROTOCOL_EN, VFM_PROTOCOL_FC

(* More rows have more structures. *)
LEMMA StructuresMonotone ==
    ASSUME NEW rows, NEW more, rows \subseteq more
    PROVE  Structures(rows) \subseteq Structures(more)
  BY DEF Structures

(* More rows match. *)
LEMMA MatchesMonotone ==
    ASSUME NEW kind, NEW bits, NEW attr, NEW rows, NEW more, rows \subseteq more,
           NEW structure, Matches(structure, kind, bits, attr, rows)
    PROVE  Matches(structure, kind, bits, attr, more)
  BY DEF Matches, OfKind

(* A database is told into its tables by the columns. *)
LEMMA OfKindFacts ==
    ASSUME NEW va, NEW vf, NEW bd, IsTable(va, VadapterColumns),
           IsTable(vf, VfabricColumns), IsTable(bd, BridgeColumns)
    PROVE  /\ OfKind("vadapter", va \cup vf \cup bd) = va
           /\ OfKind("vfabric", va \cup vf \cup bd) = vf
           /\ OfKind("bridge", va \cup vf \cup bd) = bd
  <1>1. /\ \A row \in va : DOMAIN row = VadapterColumns
        /\ \A row \in vf : DOMAIN row = VfabricColumns
        /\ \A row \in bd : DOMAIN row = BridgeColumns
    BY DEF IsTable
  <1> QED
    BY <1>1 DEF OfKind, VadapterColumns, VfabricColumns, BridgeColumns

(* More rows hold more of each kind. *)
LEMMA OfKindMonotone ==
    ASSUME NEW kind, NEW rows, NEW more, rows \subseteq more
    PROVE  OfKind(kind, rows) \subseteq OfKind(kind, more)
  BY DEF OfKind

(* sqlite3_step finds the least id after the cursor, if there is one. *)
LEMMA NextRowFacts ==
    ASSUME NEW rows, NEW cursor \in Nat, \A row \in rows : row.id \in Nat
    PROVE  /\ \A row \in NextRow(rows, cursor) :
                 /\ row \in rows
                 /\ row.id > cursor
                 /\ \A other \in rows : other.id > cursor => row.id <= other.id
           /\ NextRow(rows, cursor) = {} => \A row \in rows : row.id <= cursor
  <1>1. ASSUME NEW row \in NextRow(rows, cursor)
        PROVE  /\ row \in rows
               /\ row.id > cursor
               /\ \A other \in rows : other.id > cursor => row.id <= other.id
    BY DEF NextRow
  <1>2. ASSUME NEW row \in rows, ~(row.id <= cursor)
        PROVE  NextRow(rows, cursor) # {}
    <2> DEFINE later == {r \in rows : r.id > cursor}
               S == {n \in Nat : \E r \in later : r.id = n}
    <2>1. row \in later
      BY <1>2
    <2>2. row.id \in S
      BY <2>1
    <2>3. PICK n \in S : \A m \in S : n <= m
      BY <2>2, LeastExists
    <2>4. PICK r \in later : r.id = n
      OBVIOUS
    <2>5. \A other \in later : r.id <= other.id
      BY <2>3, <2>4
    <2>6. r \in NextRow(rows, cursor)
      BY <2>5 DEF NextRow
    <2> QED
      BY <2>6
  <1> QED
    BY <1>1, <1>2

(* The rows that a select has passed. *)
Before(rows, cursor) == {row \in rows : row.id <= cursor}

(* A step of a select passes one row. *)
Passes(rows, cursor, row) ==
    /\ row \in rows
    /\ row.id \in Nat
    /\ row.id > cursor
    /\ Before(rows, row.id) = Before(rows, cursor) \cup {row}
    /\ Cardinality(Before(rows, cursor)) \in Nat
    /\ Cardinality(Before(rows, row.id)) = Cardinality(Before(rows, cursor)) + 1
    /\ Cardinality(Before(rows, cursor)) < Cardinality(rows)

LEMMA BeforeNext ==
    ASSUME NEW T, NEW columns, IsTable(T, columns), NEW rows \in SUBSET T,
           NEW cursor \in Nat, NEW row \in NextRow(rows, cursor)
    PROVE  Passes(rows, cursor, row)
  <1>1. /\ IsFiniteSet(rows)
        /\ Cardinality(rows) \in Nat
        /\ \A r \in rows : r.id \in Nat
        /\ \A r, other \in rows : r.id = other.id => r = other
    BY TableFacts
  <1>2. /\ row \in rows
        /\ row.id > cursor
        /\ \A other \in rows : other.id > cursor => row.id <= other.id
    BY <1>1, NextRowFacts
  <1>3. Before(rows, row.id) = Before(rows, cursor) \cup {row}
    BY <1>1, <1>2 DEF Before
  <1>4. row \notin Before(rows, cursor) /\ Before(rows, cursor) \in SUBSET rows
        /\ Before(rows, cursor) # rows
    BY <1>1, <1>2 DEF Before
  <1>5. /\ IsFiniteSet(Before(rows, cursor))
        /\ Cardinality(Before(rows, cursor)) <= Cardinality(rows)
        /\ Cardinality(rows) = Cardinality(Before(rows, cursor))
              => rows = Before(rows, cursor)
    BY <1>1, <1>4, FS_Subset
  <1>6. Cardinality(Before(rows, cursor)) \in Nat
    BY <1>5, FS_CardinalityType
  <1>7. Cardinality(Before(rows, cursor) \cup {row}) = Cardinality(Before(rows, cursor)) + 1
    <2>1. Cardinality(Before(rows, cursor) \cup {row}) =
             IF row \in Before(rows, cursor) THEN Cardinality(Before(rows, cursor))
             ELSE Cardinality(Before(rows, cursor)) + 1
      BY <1>5, FS_AddElement
    <2> QED
      BY <1>4, <2>1
  <1>8. Cardinality(Before(rows, cursor)) < Cardinality(rows)
    BY <1>1, <1>4, <1>5, <1>6
  <1> QED
    BY <1>1, <1>2, <1>3, <1>6, <1>7, <1>8 DEF Passes

(* When there is no next row a select has passed all of them. *)
LEMMA BeforeAll ==
    ASSUME NEW T, NEW columns, IsTable(T, columns), NEW rows \in SUBSET T,
           NEW cursor \in Nat, NextRow(rows, cursor) = {}
    PROVE  Before(rows, cursor) = rows
  <1>1. \A row \in rows : row.id \in Nat
    BY TableFacts
  <1>2. \A row \in rows : row.id <= cursor
    BY <1>1, NextRowFacts
  <1> QED
    BY <1>2 DEF Before

(* A select that begins has passed none, as no id is 0. *)
LEMMA BeforeNone ==
    ASSUME NEW T, NEW columns, IsTable(T, columns), NEW rows \in SUBSET T,
           \A row \in rows : row.id # 0
    PROVE  Before(rows, 0) = {} /\ Cardinality(Before(rows, 0)) = 0
  <1>1. \A row \in rows : row.id \in Nat
    BY TableFacts
  <1>2. Before(rows, 0) = {}
    BY <1>1 DEF Before
  <1> QED
    BY <1>2, FS_EmptySet

(* The ids of rows of a table are as many as the rows. *)
LEMMA IdsCount ==
    ASSUME NEW T, NEW columns, IsTable(T, columns), NEW rows \in SUBSET T
    PROVE  /\ IsFiniteSet({row.id : row \in rows})
           /\ Cardinality({row.id : row \in rows}) = Cardinality(rows)
  <1> DEFINE ids == {row.id : row \in rows}
             f == [row \in rows |-> row.id]
  <1>1. /\ IsFiniteSet(rows)
        /\ \A row, other \in rows : row.id = other.id => row = other
    BY TableFacts
  <1>2. f \in [rows -> ids]
    OBVIOUS
  <1>3. \A x, y \in rows : f[x] = f[y] => x = y
    BY <1>1
  <1>4. \A z \in ids : \E x \in rows : f[x] = z
    OBVIOUS
  <1> HIDE DEF f, ids
  <1>5. IsFiniteSet(ids) /\ Cardinality(ids) = Cardinality(rows)
    BY <1>1, <1>2, <1>3, <1>4, ImageCounts
  <1> QED
    BY <1>5 DEF ids

(* A row with the greatest id. *)
LEMMA LastRowExists ==
    ASSUME NEW T, NEW columns, IsTable(T, columns), NEW rows \in SUBSET T, rows # {}
    PROVE  \E row \in rows : \A other \in rows : row.id >= other.id
  <1> DEFINE ids == {row.id : row \in rows}
  <1>1. ids \in SUBSET Nat
    BY TableFacts
  <1>2. IsFiniteSet(ids)
    BY IdsCount
  <1>3. ids # {}
    OBVIOUS
  <1>4. PICK n \in ids : \A m \in ids : n >= m
    <2> HIDE DEF ids
    <2> QED
      BY <1>1, <1>2, <1>3, GreatestExists
  <1> QED
    BY <1>4

Ascending(seq, n) == \A i, j \in 1..n : i < j => seq[i].id < seq[j].id

(* The rows of a select can be put in order. *)
LEMMA OrderExists ==
    ASSUME NEW T, NEW columns, IsTable(T, columns), NEW k \in Nat
    PROVE  \A rows \in SUBSET T : Cardinality(rows) = k =>
              \E seq \in [1..k -> rows] : Ascending(seq, k)
  <1> DEFINE Ordered(rows, n) == \E seq \in [1..n -> rows] : Ascending(seq, n)
             S == {n \in Nat : \A rows \in SUBSET T : Cardinality(rows) = n => Ordered(rows, n)}
  <1>1. 0 \in S
    <2> SUFFICES ASSUME NEW rows \in SUBSET T, Cardinality(rows) = 0
                 PROVE  Ordered(rows, 0)
      OBVIOUS
    <2> DEFINE seq == [i \in 1..0 |-> i]
    <2>1. seq \in [1..0 -> rows]
      OBVIOUS
    <2>2. Ascending(seq, 0)
      BY DEF Ascending
    <2> QED
      BY <2>1, <2>2
  <1>2. ASSUME NEW n \in Nat, n \in S PROVE n + 1 \in S
    <2> SUFFICES ASSUME NEW rows \in SUBSET T, Cardinality(rows) = n + 1
                 PROVE  Ordered(rows, n + 1)
      OBVIOUS
    <2>1. /\ IsFiniteSet(rows)
          /\ \A row \in rows : row.id \in Nat
          /\ \A row, other \in rows : row.id = other.id => row = other
      BY TableFacts
    <2>2. rows # {}
      BY FS_EmptySet
    <2>3. PICK last \in rows : \A other \in rows : last.id >= other.id
      BY <2>2, LastRowExists
    <2>4. PICK others \in SUBSET T : others = rows \ {last}
      OBVIOUS
    <2>5. Cardinality(others) = n
      <3>1. Cardinality(rows \ {last}) = IF last \in rows THEN Cardinality(rows) - 1
                                         ELSE Cardinality(rows)
        BY <2>1, FS_RemoveElement
      <3> QED
        BY <2>4, <3>1
    <2>6. Ordered(others, n)
      <3> HIDE DEF Ordered
      <3> QED
        BY <1>2, <2>5
    <2>7. PICK seq \in [1..n -> others] : Ascending(seq, n)
      BY <2>6
    <2> DEFINE more == [i \in 1..(n + 1) |-> IF i = n + 1 THEN last ELSE seq[i]]
    <2>8. more \in [1..(n + 1) -> rows]
      BY <2>4
    <2>9. ASSUME NEW i \in 1..(n + 1), NEW j \in 1..(n + 1), i < j
          PROVE  more[i].id < more[j].id
      <3>1. i \in 1..n /\ more[i] = seq[i] /\ seq[i] \in others
        BY <2>9
      <3>2. CASE j = n + 1
        <4>1. more[j] = last
          BY <3>2
        <4>2. seq[i] \in rows /\ seq[i] # last
          BY <2>4, <3>1
        <4>3. seq[i].id \in Nat /\ last.id \in Nat /\ seq[i].id # last.id /\ last.id >= seq[i].id
          BY <2>1, <2>3, <4>2
        <4> QED
          BY <3>1, <4>1, <4>3
      <3>3. CASE j \in 1..n
        <4>1. more[j] = seq[j]
          BY <3>3
        <4> QED
          BY <2>7, <2>9, <3>1, <3>3, <4>1 DEF Ascending
      <3> QED
        BY <3>2, <3>3
    <2>10. Ascending(more, n + 1)
      BY <2>9 DEF Ascending
    <2> QED
      BY <2>8, <2>10
  <1> HIDE DEF S
  <1>3. k \in S
    BY <1>1, <1>2, SetInduction
  <1> QED
    BY <1>3 DEF S

(* InOrder enumerates the rows. *)
LEMMA InOrderFacts ==
    ASSUME NEW T, NEW columns, IsTable(T, columns), NEW rows \in SUBSET T
    PROVE  /\ Cardinality(rows) \in Nat
           /\ InOrder(rows) \in [1..Cardinality(rows) -> rows]
           /\ \A row \in rows : \E i \in 1..Cardinality(rows) : InOrder(rows)[i] = row
  <1>1. /\ IsFiniteSet(rows)
        /\ Cardinality(rows) \in Nat
        /\ \A row \in rows : row.id \in Nat
    BY TableFacts
  <1>2. PICK k \in Nat : k = Cardinality(rows)
    BY <1>1
  <1>3. \E seq \in [1..k -> rows] : \A i, j \in DOMAIN seq : i < j => seq[i].id < seq[j].id
    <2>1. PICK seq \in [1..k -> rows] : Ascending(seq, k)
      BY <1>2, OrderExists
    <2>2. DOMAIN seq = 1..k
      OBVIOUS
    <2> QED
      BY <2>1, <2>2 DEF Ascending
  <1>4. PICK seq : seq = InOrder(rows)
    OBVIOUS
  <1>5. /\ seq \in [1..k -> rows]
        /\ \A i, j \in DOMAIN seq : i < j => seq[i].id < seq[j].id
    BY <1>2, <1>3, <1>4 DEF InOrder
  <1>6. ASSUME NEW i \in 1..k, NEW j \in 1..k, seq[i] = seq[j]
        PROVE  i = j
    <2>1. seq[i].id \in Nat /\ seq[i].id = seq[j].id
      BY <1>1, <1>5, <1>6
    <2>2. ~(i < j) /\ ~(j < i)
      BY <1>5, <2>1
    <2> QED
      BY <2>2
  <1>7. \A row \in rows : \E i \in 1..k : seq[i] = row
    BY <1>1, <1>2, <1>5, <1>6, EnumerationComplete
  <1> QED
    BY <1>2, <1>4, <1>5, <1>7

-----------------------------------------------------------------------------
(* Rows that are added and changed. *)

(* A new id is not 0, and no row of the table has it. *)
LEMMA NextIdFacts ==
    ASSUME NEW T, NEW columns, IsTable(T, columns)
    PROVE  NextId(T) \in Nat \ {0} /\ \A row \in T : row.id # NextId(T)
  <1> DEFINE ids == {row.id : row \in T}
             S == {0} \cup ids
  <1>1. /\ IsFiniteSet(ids)
        /\ \A row \in T : row.id \in Nat
    BY IdsCount, TableFacts
  <1>2. IsFiniteSet(ids \cup {0})
    BY <1>1, FS_AddElement
  <1>3. S = ids \cup {0}
    OBVIOUS
  <1>4. S \in SUBSET Nat /\ S # {}
    BY <1>1
  <1>5. Max(S) \in S /\ \A m \in S : Max(S) >= m
    <2> HIDE DEF S
    <2> QED
      BY <1>2, <1>3, <1>4, MaxFacts
  <1>6. PICK m \in Nat : m = Max(S)
    BY <1>4, <1>5
  <1>7. NextId(T) = 1 + m
    BY <1>6 DEF NextId
  <1>8. ASSUME NEW row \in T PROVE m >= row.id
    BY <1>5, <1>6
  <1> QED
    BY <1>1, <1>7, <1>8

(* A table with the row that an insert adds is a table. *)
LEMMA TableWithRow ==
    ASSUME NEW T, NEW columns, IsTable(T, columns), NEW row,
           DOMAIN row = columns, row.id = NextId(T)
    PROVE  IsTable(T \cup {row}, columns)
  <1>1. NextId(T) \in Nat /\ \A r \in T : r.id # NextId(T)
    BY NextIdFacts
  <1>2. IsFiniteSet(T \cup {row})
    BY FS_AddElement DEF IsTable
  <1> QED
    BY <1>1, <1>2 DEF IsTable

(* A table whose rows an update has changed is a table with the same ids. *)
LEMMA TableUpdated ==
    ASSUME NEW T, NEW columns, IsTable(T, columns), NEW id, NEW set, NEW arg,
           "id" \in columns, "id" \notin set
    PROVE  /\ IsTable(Updated(T, id, set, arg), columns)
           /\ \A row \in Updated(T, id, set, arg) : \E old \in T : row.id = old.id
  <1> DEFINE new(row) == IF row.id # id THEN row
                         ELSE [c \in DOMAIN row |-> IF c \in set THEN arg.dict[c] ELSE row[c]]
             f == [row \in T |-> new(row)]
             U == Updated(T, id, set, arg)
  <1>1. U = {new(row) : row \in T}
    BY DEF Updated
  <1>2. ASSUME NEW row \in T
        PROVE  new(row).id = row.id /\ DOMAIN new(row) = columns
    BY DEF IsTable
  <1>3. f \in Surjection(T, U)
    BY <1>1 DEF Surjection
  <1>4. IsFiniteSet(U)
    <2> HIDE DEF f, U
    <2> QED
      BY <1>3, FS_Surjection DEF IsTable
  <1>5. ASSUME NEW row \in U
        PROVE  \E old \in T : row = new(old) /\ row.id = old.id /\ DOMAIN row = columns
    <2>1. PICK old \in T : row = new(old)
      BY <1>1
    <2> QED
      BY <1>2, <2>1
  <1>6. ASSUME NEW row \in U, NEW other \in U, row.id = other.id
        PROVE  row = other
    <2>1. PICK r \in T : row = new(r) /\ row.id = r.id
      BY <1>5
    <2>2. PICK o \in T : other = new(o) /\ other.id = o.id
      BY <1>5
    <2>3. r = o
      BY <1>6, <2>1, <2>2 DEF IsTable
    <2> QED
      BY <2>1, <2>2, <2>3
  <1>7. \A row \in U : row.id \in Nat /\ DOMAIN row = columns
    BY <1>5 DEF IsTable
  <1> HIDE DEF new, U
  <1>8. IsTable(U, columns)
    BY <1>4, <1>6, <1>7 DEF IsTable
  <1> QED
    BY <1>5, <1>8 DEF U

-----------------------------------------------------------------------------
(* The dictionary that is made of the entries. *)

Selects(entries, id, k) == k \in 1..Len(entries) /\ entries[k].row.id = id

(* The last entry with an id has that id. *)
LEMMA SelectLastFacts ==
    ASSUME NEW X, NEW entries \in Seq(X), NEW id, NEW i \in 1..Len(entries),
           entries[i].row.id = id
    PROVE  Selects(entries, id, Max({j \in 1..Len(entries) : entries[j].row.id = id}))
  <1> DEFINE I == {j \in 1..Len(entries) : entries[j].row.id = id}
  <1>1. Len(entries) \in Nat
    BY LenProperties
  <1>2. IsFiniteSet(1..Len(entries))
    BY <1>1, FS_Interval
  <1>3. IsFiniteSet(I)
    BY <1>2, FS_Subset
  <1>4. I \in SUBSET Nat /\ i \in I
    BY <1>1
  <1>5. Max(I) \in I
    <2> HIDE DEF I
    <2> QED
      BY <1>3, <1>4, MaxFacts
  <1> QED
    BY <1>5 DEF Selects

(* An item of the dictionary shows an entry. *)
Shows(kind, item, e) ==
    item.row = e.row /\ (kind = "vfabric" => item.vadapter_id = e.ids)

(* The dictionary has an item for the id of each entry, and shows an entry *)
(* with it.                                                                *)
LEMMA DictionaryFacts ==
    ASSUME NEW X, NEW entries \in Seq(X), NEW kind \in {"vadapter", "vfabric", "bridge"}
    PROVE  /\ \A i \in 1..Len(entries) :
                 entries[i].row.id \in DOMAIN ResultDictionary(kind, entries)
           /\ \A id \in DOMAIN ResultDictionary(kind, entries) :
                 \E i \in 1..Len(entries) :
                    /\ entries[i].row.id = id
                    /\ Shows(kind, ResultDictionary(kind, entries)[id], entries[i])
  <1>1. DOMAIN entries = 1..Len(entries)
    BY LenProperties
  <1>2. DOMAIN ResultDictionary(kind, entries) = {e.row.id : e \in ToSet(entries)}
    BY DEF ResultDictionary
  <1>3. ASSUME NEW i \in 1..Len(entries)
        PROVE  entries[i].row.id \in DOMAIN ResultDictionary(kind, entries)
    BY <1>1, <1>2 DEF ToSet
  <1>4. ASSUME NEW id \in DOMAIN ResultDictionary(kind, entries)
        PROVE  \E i \in 1..Len(entries) :
                  /\ entries[i].row.id = id
                  /\ Shows(kind, ResultDictionary(kind, entries)[id], entries[i])
    <2>1. PICK i \in 1..Len(entries) : entries[i].row.id = id
      BY <1>1, <1>2 DEF ToSet
    <2>2. PICK k : k = Max({j \in 1..Len(entries) : entries[j].row.id = id})
      OBVIOUS
    <2>3. Selects(entries, id, k)
      BY <2>1, <2>2, SelectLastFacts
    <2>4. ResultDictionary(kind, entries)[id] = InnerDictionary(kind, entries[k])
      BY <1>2, <2>1, <2>2 DEF ResultDictionary, SelectLastInSeq
    <2>5. Shows(kind, InnerDictionary(kind, entries[k]), entries[k])
      BY DEF Shows, InnerDictionary, VadapterDictionary, VfabricDictionary, BdDictionary
    <2> QED
      BY <2>3, <2>4, <2>5 DEF Selects
  <1> QED
    BY <1>3, <1>4

-----------------------------------------------------------------------------
(* The properties, thread by thread. *)

ExactFor(t) ==
    Answered(t) =>
       LET s == serving[t]
       IN  /\ \A id \in DOMAIN Result(t) :
                 /\ Result(t)[id].row.id = id
                 /\ \E row \in OfKind(s.kind, span[t].ever) :
                       /\ Result(t)[id].row = Structure(row)
                       /\ Has(t, row, Restricted(s.kind, row))
           /\ \A row \in OfKind(s.kind, span[t].kept) :
                 /\ Has(t, Structure(row), DOMAIN row)
                 /\ ~Unfindable(t, row)
                 => row.id \in DOMAIN Result(t)

AttachedFor(t) ==
    Answered(t) /\ serving[t].kind = "vfabric" =>
       \A id \in DOMAIN Result(t) :
          LET listed == Result(t)[id].vadapter_id
          IN  /\ ToSet(listed) \subseteq IdsIn(span[t].ever, id) \cup {Unset}
              /\ Unset \in ToSet(listed) =>
                    ~Undisturbed(t) \/ serving[t].shifted
              /\ Undisturbed(t) /\ ~serving[t].shifted =>
                    /\ ToSet(listed) = IdsIn(span[t].kept, id)
                    /\ Len(listed) = Cardinality(ToSet(listed))

ExplainedFor(t) ==
    program[t].pc = "returned" =>
       LET p == program[t]
       IN  /\ p.result = Null => p.exception
           /\ p.exception /\ p.result # Null =>
                 \/ ~p.arg.isdict
                 \/ p.op = "vfabric" /\ UnreadableAt(p.op, p.arg.dict) # {}
           /\ ~p.exception /\ p.op = "vfabric" =>
                 DOMAIN p.arg.dict \cap ToSet(VfabricKeys)
                    \subseteq KeysRead(p.op, p.arg.dict)

Promised(t) == ExactFor(t) /\ AttachedFor(t) /\ ExplainedFor(t)

(* All threads together: the three properties. *)
LEMMA PromisedIsAll ==
    (InventoryExact /\ IdsAttached /\ ExceptionExplained) <=> \A t \in Threads : Promised(t)
  <1>1. InventoryExact <=> \A t \in Threads : ExactFor(t)
    BY DEF InventoryExact, ExactFor
  <1>2. IdsAttached <=> \A t \in Threads : AttachedFor(t)
    BY DEF IdsAttached, AttachedFor, IdsIn
  <1>3. ExceptionExplained <=> \A t \in Threads : ExplainedFor(t)
    BY DEF ExceptionExplained, ExplainedFor
  <1> QED
    BY <1>1, <1>2, <1>3 DEF Promised

(* What holds of a thread, when the tables do. *)
Good(t) == (serving[t].pc = "idle" \/ ThreadOK(t)) /\ Promised(t)

(* What holds of the tables and of the state as a whole. *)
Wide == /\ TablesOK
        /\ DOMAIN serving = Threads /\ DOMAIN span = Threads
        /\ DOMAIN program = Threads

(* The invariant, thread by thread. *)
LEMMA IInvIsGood ==
    IInv <=> Wide /\ \A t \in Threads : Good(t)
  BY PromisedIsAll DEF IInv, Wide, Good

(* What a program was told stays true. *)
LEMMA PromisedKept ==
    ASSUME NEW u \in Threads, Promised(u),
           serving'[u] = serving[u], span'[u] = span[u], program'[u] = program[u]
    PROVE  Promised(u)'
  <1>1. ExactFor(u)'
    BY DEF Promised, ExactFor, Answered, Result, Has, Unfindable
  <1>2. AttachedFor(u)'
    BY DEF Promised, AttachedFor, Answered, Result, Undisturbed
  <1>3. ExplainedFor(u)'
    BY DEF Promised, ExplainedFor
  <1> QED
    BY <1>1, <1>2, <1>3 DEF Promised

(* A program that has no answer promises nothing. *)
LEMMA PromisedWaiting ==
    ASSUME NEW u \in Threads, program[u].pc # "returned"
    PROVE  Promised(u)
  BY DEF Promised, ExactFor, AttachedFor, ExplainedFor, Answered

(* Without an answer to an inventory query the first two promise nothing. *)
LEMMA PromisedUnanswered ==
    ASSUME NEW u \in Threads, ~Answered(u), ExplainedFor(u)
    PROVE  Promised(u)
  BY DEF Promised, ExactFor, AttachedFor

(* What a select finds depends on the tables only. *)
LEMMA SameSelects ==
    ASSUME UNCHANGED tables
    PROVE  /\ Rows' = Rows
           /\ Modules' = Modules
           /\ \A id : Attached(id)' = Attached(id)
  BY DEF tables, Rows, Modules, Attached

(* The same query selects the same rows of the same tables. *)
LEMMA SameSelected ==
    ASSUME UNCHANGED tables, NEW u \in Threads, serving'[u] = serving[u]
    PROVE  Selected(u)' = Selected(u)
  <1>1. \A kind : Table(kind)' = Table(kind)
    BY DEF tables, Table
  <1> QED
    BY <1>1 DEF Selected

(* A step that leaves a thread and the tables alone. *)
LEMMA Quiet ==
    ASSUME NEW u \in Threads, ThreadOK(u), UNCHANGED tables,
           serving'[u] = serving[u], span'[u] = span[u], program'[u] = program[u]
    PROVE  ThreadOK(u)'
  <1>1. /\ Rows' = Rows
        /\ Modules' = Modules
        /\ \A id : Attached(id)' = Attached(id)
    BY SameSelects
  <1>2. Selected(u)' = Selected(u)
    BY SameSelected
  <1>3. Undisturbed(u)' = Undisturbed(u)
    BY DEF Undisturbed
  <1>4. Serving(u)' = Serving(u)
    BY DEF Serving
  <1>5. QueryOK(u)'
    BY <1>1 DEF ThreadOK, QueryOK, Cells
  <1>6. Asked(u)'
    BY <1>4 DEF ThreadOK, Asked
  <1>7. Spanned(u)'
    BY <1>1, <1>4 DEF ThreadOK, Spanned
  <1>8. Packed(u)'
    BY DEF ThreadOK, Packed
  <1>9. Found(u)'
    BY <1>4 DEF ThreadOK, Found
  <1>10. Complete(u)'
    BY <1>4 DEF ThreadOK, Complete
  <1>11. Roomy(u)'
    BY <1>2, <1>3 DEF ThreadOK, Roomy
  <1>12. Listed(u)'
    BY <1>1, <1>3, <1>4 DEF ThreadOK, Listed, Lists
  <1> QED
    BY <1>5, <1>6, <1>7, <1>8, <1>9, <1>10, <1>11, <1>12 DEF ThreadOK

(* Threads other than the one that takes a step. *)
LEMMA OthersQuiet ==
    ASSUME NEW u \in Threads, Good(u), UNCHANGED tables,
           serving'[u] = serving[u], span'[u] = span[u], program'[u] = program[u]
    PROVE  Good(u)'
  <1>1. Promised(u)'
    BY PromisedKept DEF Good
  <1>2. serving[u].pc = "idle" => serving'[u].pc = "idle"
    OBVIOUS
  <1>3. ThreadOK(u) => ThreadOK(u)'
    BY Quiet
  <1> QED
    BY <1>1, <1>2, <1>3 DEF Good

(* When the rows are the same the tables are. *)
LEMMA SameRows ==
    ASSUME TablesOK, TablesOK', Rows' = Rows
    PROVE  UNCHANGED tables
  <1>1. /\ OfKind("vadapter", Rows) = vfm_vadapter_attr
        /\ OfKind("vfabric", Rows) = vfm_vfabric_attr
        /\ OfKind("bridge", Rows) = vfm_bridge_device
    BY OfKindFacts DEF TablesOK, Rows
  <1>2. PICK va, vf, bd : /\ va = vfm_vadapter_attr'
                          /\ vf = vfm_vfabric_attr'
                          /\ bd = vfm_bridge_device'
    OBVIOUS
  <1>3. /\ IsTable(va, VadapterColumns)
        /\ IsTable(vf, VfabricColumns)
        /\ IsTable(bd, BridgeColumns)
    BY <1>2 DEF TablesOK, IsTable, VadapterColumns, VfabricColumns, BridgeColumns
  <1>4. /\ OfKind("vadapter", va \cup vf \cup bd) = va
        /\ OfKind("vfabric", va \cup vf \cup bd) = vf
        /\ OfKind("bridge", va \cup vf \cup bd) = bd
    BY <1>3, OfKindFacts
  <1>5. va \cup vf \cup bd = Rows
    BY <1>2 DEF Rows
  <1> QED
    BY <1>1, <1>2, <1>4, <1>5 DEF tables

(* A row has the columns of its table. *)
LEMMA RowColumns ==
    ASSUME TablesOK, NEW row \in Rows
    PROVE  DOMAIN row \in {VadapterColumns, VfabricColumns, BridgeColumns}
  BY DEF TablesOK, Rows, IsTable

(* The same after a step. *)
LEMMA RowColumnsThen ==
    ASSUME TablesOK', NEW row \in Rows'
    PROVE  DOMAIN row \in {VadapterColumns, VfabricColumns, BridgeColumns}
  BY DEF TablesOK, Rows, IsTable, VadapterColumns, VfabricColumns, BridgeColumns

(* What a statement that writes does to the history of a query. *)
Witnesses(u) ==
    span'[u] = IF serving[u].pc \in {"idle", "done"} THEN span[u]
               ELSE [ever |-> span[u].ever \cup Rows', kept |-> span[u].kept \cap Rows']

(* Another program writes while a thread serves a query. *)
LEMMA OthersWrite ==
    ASSUME NEW u \in Threads, Good(u), TablesOK, TablesOK',
           vfm_bridge_device' = vfm_bridge_device, Witnesses(u),
           serving'[u] = serving[u], program'[u] = program[u]
    PROVE  Good(u)'
  <1>1. Modules' = Modules
    BY DEF Modules
  <1>2. CASE serving[u].pc = "idle"
    <2>1. span'[u] = span[u]
      BY <1>2 DEF Witnesses
    <2>2. Promised(u)'
      BY <2>1, PromisedKept DEF Good
    <2> QED
      BY <1>2, <2>2 DEF Good
  <1>3. CASE serving[u].pc = "done"
    <2>1. span'[u] = span[u]
      BY <1>3 DEF Witnesses
    <2>2. Promised(u)'
      BY <2>1, PromisedKept DEF Good
    <2>3. ThreadOK(u)
      BY <1>3 DEF Good
    <2>4. ~Serving(u)' /\ serving'[u].pc = "done"
      BY <1>3 DEF Serving
    <2>5. QueryOK(u)'
      BY <1>1, <2>1, <2>3 DEF ThreadOK, QueryOK, Cells
    <2>6. Packed(u)'
      BY <2>3 DEF ThreadOK, Packed
    <2>7. Roomy(u)'
      BY <2>1, <2>3, <2>4 DEF ThreadOK, Roomy, Undisturbed
    <2> QED
      BY <2>2, <2>4, <2>5, <2>6, <2>7
         DEF Good, ThreadOK, Asked, Spanned, Found, Complete, Listed
  <1>4. CASE Serving(u)
    <2>1. ThreadOK(u) /\ Promised(u)
      BY <1>4 DEF Good, Serving
    <2>2. /\ span'[u].ever = span[u].ever \cup Rows'
          /\ span'[u].kept = span[u].kept \cap Rows'
      BY <1>4 DEF Witnesses, Serving
    <2>3. Serving(u)'
      BY <1>4 DEF Serving
    <2>4. span[u].kept \subseteq Rows /\ Rows \subseteq span[u].ever
      BY <1>4, <2>1 DEF ThreadOK, Spanned
    <2>5. Undisturbed(u)' => UNCHANGED tables /\ Undisturbed(u)
      <3>1. SUFFICES ASSUME Undisturbed(u)'
                     PROVE  UNCHANGED tables /\ Undisturbed(u)
        OBVIOUS
      <3>2. span[u].ever \cup Rows' = span[u].kept \cap Rows'
        BY <2>2, <3>1 DEF Undisturbed
      <3>3. Rows' = Rows /\ span[u].ever = span[u].kept
        BY <2>4, <3>2
      <3> QED
        BY <3>3, SameRows DEF Undisturbed
    <2>6. \A kind : OfKind(kind, span[u].ever) \subseteq OfKind(kind, span'[u].ever)
      BY <2>2, OfKindMonotone
    <2>7. \A kind : OfKind(kind, span'[u].kept) \subseteq OfKind(kind, span[u].kept)
      BY <2>2, OfKindMonotone
    <2>8. QueryOK(u)'
      <3>1. PICK s : s = serving[u]
        OBVIOUS
      <3>2. s.entries \in Seq([row : Structures(span'[u].ever), ids : Seq(Cells(s.kind)')])
        <4>1. Cells(s.kind)' = Cells(s.kind)
          BY <1>1 DEF Cells
        <4>2. [row : Structures(span[u].ever), ids : Seq(Cells(s.kind))]
                 \subseteq [row : Structures(span'[u].ever), ids : Seq(Cells(s.kind))]
          <5>1. Structures(span[u].ever) \subseteq Structures(span'[u].ever)
            BY <2>2, StructuresMonotone
          <5> QED
            BY <5>1
        <4>3. s.entries \in Seq([row : Structures(span[u].ever), ids : Seq(Cells(s.kind))])
          BY <2>1, <3>1 DEF ThreadOK, QueryOK
        <4> QED
          BY <4>1, <4>2, <4>3, SeqMonotonic
      <3>3. s.pc = "ids" => s.row \in Structures(OfKind("vfabric", span'[u].ever))
        <4>1. Structures(OfKind("vfabric", span[u].ever))
                 \subseteq Structures(OfKind("vfabric", span'[u].ever))
          BY <2>6, StructuresMonotone
        <4> QED
          BY <2>1, <3>1, <4>1 DEF ThreadOK, QueryOK
      <3> QED
        BY <2>1, <3>1, <3>2, <3>3 DEF ThreadOK, QueryOK
    <2>9. Asked(u)'
      BY <2>1, <1>4 DEF ThreadOK, Asked
    <2>10. Spanned(u)'
      <3>1. \A row \in Rows' :
               DOMAIN row \in {VadapterColumns, VfabricColumns, BridgeColumns}
        BY RowColumnsThen
      <3>2. \A row \in span[u].ever :
               DOMAIN row \in {VadapterColumns, VfabricColumns, BridgeColumns}
        BY <1>4, <2>1 DEF ThreadOK, Spanned
      <3> QED
        BY <2>2, <3>1, <3>2 DEF Spanned
    <2>11. Packed(u)'
      BY <2>1 DEF ThreadOK, Packed
    <2>12. Found(u)'
      <3>1. PICK s, r, n : s = serving[u] /\ r = span[u].ever /\ n = span'[u].ever
        OBVIOUS
      <3>2. \A structure : Matches(structure, s.kind, s.bits, s.attr, r)
                              => Matches(structure, s.kind, s.bits, s.attr, n)
        BY <2>2, <3>1, MatchesMonotone
      <3> QED
        BY <1>4, <2>1, <3>1, <3>2 DEF ThreadOK, Found
    <2>13. Complete(u)'
      BY <1>4, <2>1, <2>7 DEF ThreadOK, Complete
    <2>14. Roomy(u)'
      <3>1. CASE ~Undisturbed(u)'
        BY <2>1, <3>1 DEF ThreadOK, Roomy
      <3>2. CASE Undisturbed(u)'
        <4>1. Undisturbed(u) /\ UNCHANGED tables
          BY <2>5, <3>2
        <4>2. Selected(u)' = Selected(u)
          BY <4>1, SameSelected
        <4> QED
          BY <2>1, <3>2, <4>1, <4>2 DEF ThreadOK, Roomy
      <3> QED
        BY <3>1, <3>2
    <2>15. Listed(u)'
      <3>1. \A id : IdsIn(span[u].ever, id) \subseteq IdsIn(span'[u].ever, id)
        BY <2>6 DEF IdsIn
      <3>2. CASE ~Undisturbed(u)'
        BY <1>4, <2>1, <3>1, <3>2 DEF ThreadOK, Listed, Lists
      <3>3. CASE Undisturbed(u)'
        <4>1. Undisturbed(u) /\ UNCHANGED tables
          BY <2>5, <3>3
        <4>2. span'[u].ever = span[u].ever /\ span'[u].kept = span[u].kept
          BY <2>2, <2>4, <4>1, SameSelects DEF Undisturbed
        <4>3. \A id : Attached(id)' = Attached(id)
          BY <4>1, SameSelects
        <4> QED
          BY <1>4, <2>1, <3>3, <4>1, <4>2, <4>3 DEF ThreadOK, Listed, Lists
      <3> QED
        BY <3>2, <3>3
    <2>16. ThreadOK(u)'
      BY <2>8, <2>9, <2>10, <2>11, <2>12, <2>13, <2>14, <2>15 DEF ThreadOK
    <2>17. Promised(u)'
      <3>1. ~Answered(u)'
        BY <1>4 DEF Answered, Serving
      <3>2. ExplainedFor(u)'
        BY <2>1 DEF Promised, ExplainedFor
      <3> QED
        BY <3>1, <3>2 DEF Promised, ExactFor, AttachedFor
    <2> QED
      BY <2>16, <2>17 DEF Good
  <1> QED
    BY <1>2, <1>3, <1>4 DEF Serving

-----------------------------------------------------------------------------
(* The steps of a thread that serves a query. *)

(* What a step of a thread changes. *)
LEMMA StepFacts ==
    ASSUME Wide, NEW t \in Threads, NEW next, Step(t, next)
    PROVE  /\ serving'[t] = next
           /\ \A u \in Threads : u # t => serving'[u] = serving[u]
           /\ DOMAIN serving' = Threads
           /\ UNCHANGED tables
           /\ span' = span
  BY DEF Step, Wide, tables

(* What holds of the tables depends on them only. *)
LEMMA SameTables ==
    ASSUME TablesOK, UNCHANGED tables
    PROVE  TablesOK'
  BY DEF TablesOK, tables, IsTable, VadapterColumns, VfabricColumns, BridgeColumns

(* The rows of each kind are those of its table. *)
LEMMA TablesByKind ==
    ASSUME TablesOK
    PROVE  /\ OfKind("vadapter", Rows) = vfm_vadapter_attr
           /\ OfKind("vfabric", Rows) = vfm_vfabric_attr
           /\ OfKind("bridge", Rows) = vfm_bridge_device
  BY OfKindFacts DEF TablesOK, Rows

(* The rows that a query selects are rows of one table. *)
LEMMA SelectedFacts ==
    ASSUME TablesOK, NEW t \in Threads,
           serving[t].kind \in {"vadapter", "vfabric", "online", "bridge"}
    PROVE  /\ Selected(t) \subseteq Table(serving[t].kind)
           /\ Selected(t) \subseteq Rows
           /\ \A row \in Selected(t) : Where(serving[t].kind, serving[t].bits, serving[t].attr, row)
           /\ serving[t].kind # "online" => Table(serving[t].kind) = OfKind(serving[t].kind, Rows)
           /\ serving[t].kind = "online" => Table(serving[t].kind) = OfKind("vfabric", Rows)
           /\ serving[t].kind = "vadapter" => Table(serving[t].kind) = vfm_vadapter_attr
           /\ serving[t].kind = "bridge" => Table(serving[t].kind) = vfm_bridge_device
           /\ serving[t].kind \in {"vfabric", "online"} => Table(serving[t].kind) = vfm_vfabric_attr
           /\ \E columns : IsTable(Table(serving[t].kind), columns)
  <1>1. /\ serving[t].kind = "vadapter" => Table(serving[t].kind) = vfm_vadapter_attr
        /\ serving[t].kind = "bridge" => Table(serving[t].kind) = vfm_bridge_device
        /\ serving[t].kind \in {"vfabric", "online"} => Table(serving[t].kind) = vfm_vfabric_attr
    BY DEF Table
  <1>2. Table(serving[t].kind) \subseteq Rows
    BY <1>1 DEF Rows
  <1>3. \E columns : IsTable(Table(serving[t].kind), columns)
    BY <1>1 DEF TablesOK
  <1>4. /\ serving[t].kind # "online" => Table(serving[t].kind) = OfKind(serving[t].kind, Rows)
        /\ serving[t].kind = "online" => Table(serving[t].kind) = OfKind("vfabric", Rows)
    BY <1>1, TablesByKind
  <1> QED
    BY <1>1, <1>2, <1>3, <1>4 DEF Selected

(* A message without entries has the length of an answer of that size. *)
LEMMA EmptyPacked ==
    ASSUME NEW kind
    PROVE  /\ kind # "bridge" =>
                 Len(MarshallResponse(kind, <<>>, 0)) = MarshalledLength(kind, 0)
           /\ kind = "bridge" =>
                 Len(MarshallResponse(kind, <<>>, 1)) = MarshalledLength(kind, 1)
  <1>1. PICK R, C : R = {} /\ C = {}
    OBVIOUS
  <1>2. PICK entries \in Seq(Entry(R, C)) : entries = <<>>
    BY EmptySeq
  <1>3. Len(VfmPackData(kind, entries)) = 1
    BY <1>2, PackEmpty
  <1>4. ASSUME NEW size \in Nat
        PROVE  Len(MarshallResponse(kind, entries, size)) = MarshalledLength(kind, size)
                  <=> 1 = size + (IF kind = "bridge" THEN 0 ELSE 1)
    <2>1. Len(MarshallResponse(kind, entries, size)) = MarshalledLength(kind, size)
             <=> Len(VfmPackData(kind, entries)) = size + (IF kind = "bridge" THEN 0 ELSE 1)
      BY MarshalledFacts
    <2> QED
      BY <1>3, <2>1
  <1>5. CASE kind = "bridge"
    BY <1>2, <1>4, <1>5
  <1>6. CASE kind # "bridge"
    BY <1>2, <1>4, <1>6
  <1> QED
    BY <1>5, <1>6

(* A query begins. *)
LEMMA BeginOK ==
    ASSUME Wide, NEW t \in Threads,
           NEW kind \in {"vadapter", "vfabric", "online", "bridge"}, NEW bits, NEW attr,
           Begin(t, kind, bits, attr), program'[t].op = kind,
           kind # "online" =>
              /\ bits = Bits(kind, program'[t].arg)
              /\ \A c \in bits : attr[c] = program'[t].arg.dict[c]
    PROVE  ThreadOK(t)'
  <1>1. PICK s : s = Query(kind, bits, attr)
    OBVIOUS
  <1>2. /\ DOMAIN s = Fields
        /\ s.kind = kind /\ s.bits = bits /\ s.attr = attr
        /\ s.pc = (CASE kind = "vadapter" -> "count" [] kind = "bridge" -> "bridges"
                     [] OTHER -> "row")
        /\ s.room = 0 /\ s.cursor = 0 /\ s.entries = <<>> /\ s.size = 0
        /\ s.overrun = FALSE /\ s.failed = FALSE
    BY <1>1 DEF Query, Fields
  <1>3. serving'[t] = s /\ span'[t] = [ever |-> Rows, kept |-> Rows] /\ UNCHANGED tables
    BY <1>1 DEF Begin, Wide, tables
  <1>4. Rows' = Rows
    BY <1>3, SameSelects
  <1>5. \A S : s.entries \in Seq(S)
    BY <1>2, EmptySeq
  <1>6. QueryOK(t)'
    <2>1. /\ s.pc \in {"count", "row", "bridges"}
          /\ s.pc = "count" => kind = "vadapter"
          /\ s.pc = "row" => kind # "bridge"
          /\ s.pc = "bridges" => kind = "bridge"
      BY <1>2
    <2>2. s.size = 3 * Len(s.entries) /\ DOMAIN s.entries = {}
      <3>1. Len(s.entries) = 0
        BY <1>2, EmptySeq
      <3> QED
        BY <1>2, <3>1
    <2>3. /\ s.cursor \in Nat /\ s.size \in Nat /\ s.pc # "ids"
          /\ s.pc \in {"count", "row", "ids", "bridges", "reply", "done"}
          /\ s.kind \in {"vadapter", "vfabric", "online", "bridge"}
          /\ s.pc = "count" => s.kind = "vadapter"
          /\ s.pc = "row" => s.kind # "bridge"
          /\ s.pc = "bridges" => s.kind = "bridge"
          /\ s.entries = <<>> /\ s.cursor = 0
      BY <1>2, <2>1
    <2> QED
      BY <1>2, <1>3, <1>5, <2>2, <2>3 DEF QueryOK
  <1>7. Asked(t)'
    BY <1>2, <1>3 DEF Asked
  <1>8. Spanned(t)'
    BY <1>3, <1>4, RowColumns DEF Spanned, Wide
  <1>9. Packed(t)'
    <2>1. s.pc # "bridges" => kind # "bridge"
      BY <1>2
    <2>2. s.pc # "bridges" => Len(MarshallResponse(kind, <<>>, 0)) = MarshalledLength(kind, 0)
      BY <2>1, EmptyPacked
    <2> QED
      BY <1>2, <1>3, <2>2 DEF Packed
  <1>10. Found(t)'
    <2>1. DOMAIN s.entries = {} /\ s.pc # "ids"
      BY <1>2
    <2> QED
      BY <1>3, <2>1 DEF Found
  <1>11. Complete(t)'
    <2>1. kind # "online" =>
             \A row \in OfKind(kind, Rows) :
                (row.id \in Nat /\ row.id > 0) \/ kind = "bridge"
      <3>1. \A row \in vfm_vadapter_attr \cup vfm_vfabric_attr : row.id # 0 /\ row.id \in Nat
        BY DEF Wide, TablesOK, IsTable
      <3> QED
        BY <3>1, TablesByKind DEF Wide
    <2> QED
      BY <1>2, <1>3, <2>1 DEF Complete
  <1>12. Roomy(t)'
    <2>1. s.pc = "row" => s.kind # "vadapter"
      BY <1>2
    <2> QED
      BY <1>2, <1>3, <2>1 DEF Roomy
  <1>13. Listed(t)'
    <2>1. DOMAIN s.entries = {} /\ s.pc # "ids"
      BY <1>2
    <2> QED
      BY <1>3, <2>1 DEF Listed
  <1> QED
    BY <1>6, <1>7, <1>8, <1>9, <1>10, <1>11, <1>12, <1>13 DEF ThreadOK

(* A step of thread t that leaves the database and the programs alone. *)
Steady(t) ==
    /\ UNCHANGED tables
    /\ span'[t] = span[t]
    /\ program'[t] = program[t]

(* What such a step leaves alone. *)
LEMMA SteadyFacts ==
    ASSUME NEW t \in Threads, Steady(t)
    PROVE  /\ Rows' = Rows
           /\ \A kind : Cells(kind)' = Cells(kind)
           /\ \A id : Attached(id)' = Attached(id)
           /\ Undisturbed(t)' = Undisturbed(t)
  <1>1. /\ Rows' = Rows
        /\ Modules' = Modules
        /\ \A id : Attached(id)' = Attached(id)
    BY SameSelects DEF Steady
  <1>2. \A kind : Cells(kind)' = Cells(kind)
    BY <1>1 DEF Cells
  <1>3. Undisturbed(t)' = Undisturbed(t)
    BY DEF Undisturbed, Steady
  <1> QED
    BY <1>1, <1>2, <1>3

(* The query is the same one. *)
SameQuery(n, s) ==
    /\ n.kind = s.kind
    /\ n.bits = s.bits
    /\ n.attr = s.attr

(* It selects the same rows. *)
LEMMA SameSelection ==
    ASSUME NEW t \in Threads, UNCHANGED tables, SameQuery(serving'[t], serving[t])
    PROVE  Selected(t)' = Selected(t)
  <1>1. \A kind : Table(kind)' = Table(kind)
    BY DEF tables, Table
  <1> QED
    BY <1>1 DEF Selected, SameQuery

(* It is still the one the program asked for. *)
LEMMA AskedKept ==
    ASSUME NEW t \in Threads, Steady(t), Asked(t), Serving(t),
           SameQuery(serving'[t], serving[t])
    PROVE  Asked(t)'
  BY DEF Asked, Steady, SameQuery

(* The history still spans the tables. *)
LEMMA SpannedKept ==
    ASSUME NEW t \in Threads, Steady(t), Spanned(t), Serving(t)
    PROVE  Spanned(t)'
  BY SteadyFacts DEF Spanned, Steady

(* The size of an answer without a bridge. *)
LEMMA PackedSize ==
    ASSUME NEW R, NEW C, NEW entries \in Seq(Entry(R, C)), NEW kind, NEW size \in Nat,
           kind # "bridge"
    PROVE  Len(MarshallResponse(kind, entries, size)) = MarshalledLength(kind, size)
              <=> Len(VfmPackData(kind, entries)) = size + 1
  <1>1. Len(MarshallResponse(kind, entries, size)) = MarshalledLength(kind, size)
           <=> Len(VfmPackData(kind, entries)) = size + (IF kind = "bridge" THEN 0 ELSE 1)
    BY MarshalledFacts
  <1> QED
    BY <1>1

(* The size with an entry more. *)
EntrySize(size, e) == size + 3 + Len(e.ids)

(* One entry more, and the size with it, give the length of the message. *)
LEMMA PackedEntry ==
    ASSUME NEW R, NEW C, NEW entries \in Seq(Entry(R, C)), NEW kind, NEW size \in Nat,
           kind # "bridge", NEW e \in Entry(R, C),
           Len(MarshallResponse(kind, entries, size)) = MarshalledLength(kind, size)
    PROVE  /\ EntrySize(size, e) \in Nat
           /\ Len(MarshallResponse(kind, Append(entries, e), EntrySize(size, e)))
                 = MarshalledLength(kind, EntrySize(size, e))
  <1>1. Len(e.ids) \in Nat
    <2>1. e.ids \in Seq(C)
      BY DEF Entry
    <2> QED
      BY <2>1, LenProperties
  <1>2. PICK k \in Nat : k = Len(e.ids)
    BY <1>1
  <1>3. PICK both : both = Append(entries, e)
    OBVIOUS
  <1>4. both \in Seq(Entry(R, C))
    BY <1>3, AppendProperties
  <1>5. PICK len \in Nat : len = Len(VfmPackData(kind, entries))
    BY PackAppend
  <1>6. Len(VfmPackData(kind, both)) = len + HeaderLength(kind) + 1 + k
    BY <1>2, <1>3, <1>5, PackAppend
  <1>7. HeaderLength(kind) = 2
    BY DEF HeaderLength
  <1>8. len = size + 1
    BY <1>5, PackedSize
  <1>9. PICK more \in Nat : more = size + 3 + k
    OBVIOUS
  <1>10. EntrySize(size, e) = more
    BY <1>2, <1>9 DEF EntrySize
  <1>11. len + 2 + 1 + k = more + 1
    BY <1>8, <1>9
  <1>12. Len(VfmPackData(kind, both)) = more + 1
    BY <1>6, <1>7, <1>11
  <1>13. Len(MarshallResponse(kind, both, more)) = MarshalledLength(kind, more)
    <2>1. Len(MarshallResponse(kind, both, more)) = MarshalledLength(kind, more)
             <=> Len(VfmPackData(kind, both)) = more + 1
      BY <1>4, PackedSize
    <2> QED
      BY <1>12, <2>1
  <1> QED
    BY <1>3, <1>13, <1>10

(* The block of a vadapter query is sized. *)
LEMMA CountOK ==
    ASSUME Wide, NEW t \in Threads, ThreadOK(t), Steady(t), Count(t)
    PROVE  ThreadOK(t)'
  <1>1. PICK s, n : s = serving[t] /\ n = serving'[t]
    OBVIOUS
  <1>2. /\ s.pc = "count"
        /\ n = [s EXCEPT !.pc = "row", !.room = Cardinality(Selected(t))]
    BY <1>1, StepFacts DEF Count, At
  <1>3. QueryOK(t)
    BY DEF ThreadOK
  <1>4. /\ DOMAIN s = Fields /\ s.kind = "vadapter" /\ s.entries = <<>> /\ s.cursor = 0
        /\ s.size = 3 * Len(s.entries)
    BY <1>1, <1>2, <1>3 DEF QueryOK
  <1>5. /\ DOMAIN n = Fields /\ n.pc = "row" /\ n.room = Cardinality(Selected(t))
        /\ n.kind = s.kind /\ n.bits = s.bits /\ n.attr = s.attr
        /\ n.entries = s.entries /\ n.cursor = s.cursor /\ n.size = s.size
        /\ n.shifted = s.shifted /\ n.overrun = s.overrun /\ n.failed = s.failed
    BY <1>2, <1>4 DEF Fields
  <1>6. Serving(t) /\ Serving(t)' /\ SameQuery(serving'[t], serving[t])
    BY <1>1, <1>2, <1>5 DEF Serving, SameQuery
  <1>7. Selected(t)' = Selected(t)
    BY <1>6, SameSelection DEF Steady
  <1>8. /\ \A kind : Cells(kind)' = Cells(kind)
        /\ Undisturbed(t)' = Undisturbed(t)
        /\ span'[t] = span[t]
    BY SteadyFacts DEF Steady
  <1>9. QueryOK(t)'
    BY <1>1, <1>3, <1>4, <1>5, <1>8 DEF QueryOK
  <1>10. Packed(t)'
    BY <1>1, <1>2, <1>5 DEF ThreadOK, Packed
  <1>11. Found(t)'
    BY <1>1, <1>5, <1>6, <1>8 DEF ThreadOK, Found
  <1>12. Complete(t)'
    BY <1>1, <1>2, <1>5, <1>6, <1>8 DEF ThreadOK, Complete
  <1>13. Roomy(t)'
    <2>1. Selected(t) \subseteq vfm_vadapter_attr
      BY <1>1, <1>4, SelectedFacts DEF Wide
    <2>2. IsTable(vfm_vadapter_attr, VadapterColumns) /\ \A row \in Selected(t) : row.id # 0
      BY <2>1 DEF Wide, TablesOK
    <2>3. Cardinality(Before(Selected(t), 0)) = 0
      BY <2>1, <2>2, BeforeNone
    <2>4. Len(s.entries) = 0
      BY <1>4, EmptySeq
    <2>5. {row \in Selected(t) : row.id <= n.cursor} = Before(Selected(t), 0)
      BY <1>4, <1>5 DEF Before
    <2> QED
      BY <1>1, <1>5, <1>7, <1>8, <2>3, <2>4, <2>5 DEF ThreadOK, Roomy
  <1>14. Listed(t)'
    BY <1>1, <1>4, <1>5 DEF Listed
  <1> QED
    BY <1>6, <1>9, <1>10, <1>11, <1>12, <1>13, <1>14, AskedKept, SpannedKept DEF ThreadOK

(* Append, by its elements. *)
LEMMA AppendFacts ==
    ASSUME NEW X, NEW entries \in Seq(X), NEW e \in X
    PROVE  /\ Append(entries, e) \in Seq(X)
           /\ Len(entries) \in Nat
           /\ Len(Append(entries, e)) = Len(entries) + 1
           /\ \A i \in DOMAIN Append(entries, e) :
                 (i \in DOMAIN entries /\ Append(entries, e)[i] = entries[i])
                 \/ Append(entries, e)[i] = e
           /\ \A i \in DOMAIN entries :
                 i \in DOMAIN Append(entries, e) /\ Append(entries, e)[i] = entries[i]
           /\ \E i \in DOMAIN Append(entries, e) : Append(entries, e)[i] = e
  <1>1. PICK both : both = Append(entries, e)
    OBVIOUS
  <1>2. PICK n \in Nat : n = Len(entries)
    BY LenProperties
  <1>3. /\ both \in Seq(X)
        /\ Len(both) = n + 1
        /\ \A i \in 1..n : both[i] = entries[i]
        /\ both[n + 1] = e
    BY <1>1, <1>2, AppendProperties
  <1>4. DOMAIN both = 1..(n + 1) /\ DOMAIN entries = 1..n
    BY <1>2, <1>3, LenProperties
  <1>5. ASSUME NEW i \in DOMAIN both
        PROVE  (i \in DOMAIN entries /\ both[i] = entries[i]) \/ both[i] = e
    BY <1>3, <1>4
  <1>6. ASSUME NEW i \in DOMAIN entries
        PROVE  i \in DOMAIN both /\ both[i] = entries[i]
    BY <1>3, <1>4
  <1>7. \E i \in DOMAIN both : both[i] = e
    <2>1. n + 1 \in DOMAIN both
      BY <1>4
    <2> QED
      BY <1>3, <2>1
  <1> QED
    BY <1>1, <1>2, <1>3, <1>5, <1>6, <1>7

(* What stays in the table of a query, and what it selects. *)
LEMMA KeptSelected ==
    ASSUME TablesOK, NEW t \in Threads, QueryOK(t), Spanned(t), Serving(t),
           serving[t].kind # "online"
    PROVE  /\ \A row \in OfKind(serving[t].kind, span[t].kept) :
                 /\ row \in Table(serving[t].kind)
                 /\ row.id \in Nat
                 /\ Where(serving[t].kind, serving[t].bits, serving[t].attr, row)
                       => row \in Selected(t)
           /\ \A row \in Selected(t) :
                 /\ row \in OfKind(serving[t].kind, span[t].ever)
                 /\ row \in span[t].ever
                 /\ Where(serving[t].kind, serving[t].bits, serving[t].attr, row)
  <1>1. serving[t].kind \in {"vadapter", "vfabric", "online", "bridge"}
    BY DEF QueryOK
  <1>2. span[t].kept \subseteq Rows /\ Rows \subseteq span[t].ever
    BY DEF Spanned
  <1>3. /\ OfKind(serving[t].kind, span[t].kept) \subseteq OfKind(serving[t].kind, Rows)
        /\ OfKind(serving[t].kind, Rows) \subseteq OfKind(serving[t].kind, span[t].ever)
    BY <1>2, OfKindMonotone
  <1>4. /\ Selected(t) \subseteq Table(serving[t].kind)
        /\ \A row \in Selected(t) : Where(serving[t].kind, serving[t].bits, serving[t].attr, row)
        /\ Table(serving[t].kind) = OfKind(serving[t].kind, Rows)
        /\ Selected(t) \subseteq Rows
    BY <1>1, SelectedFacts
  <1>5. \A row \in Table(serving[t].kind) : row.id \in Nat
    BY <1>1, SelectedFacts DEF IsTable
  <1>6. ASSUME NEW row \in OfKind(serving[t].kind, span[t].kept)
        PROVE  /\ row \in Table(serving[t].kind)
               /\ row.id \in Nat
               /\ Where(serving[t].kind, serving[t].bits, serving[t].attr, row)
                     => row \in Selected(t)
    <2>1. row \in Table(serving[t].kind)
      BY <1>3, <1>4
    <2> QED
      BY <1>5, <2>1 DEF Selected
  <1> QED
    BY <1>2, <1>3, <1>4, <1>6

(* What ProcessVadapterInventory chooses, its query named. *)
NextEntry(t, s, row) ==
    Step(t, [s EXCEPT
        !.cursor  = row.id,
        !.entries = Append(@, [row |-> Structure(row), ids |-> <<>>]),
        !.size    = 3 * (Len(s.entries) + 1),
        !.overrun = @ \/ Len(s.entries) >= s.room])

LEMMA ProcessVadapterInventoryIs ==
    ASSUME NEW t, ProcessVadapterInventory(t), NEW s, s = serving[t]
    PROVE  \E row \in NextRow(Selected(t), s.cursor) : NextEntry(t, s, row)
  <1> DEFINE P(x) == \E row \in NextRow(Selected(t), x.cursor) : NextEntry(t, x, row)
  <1>1. P(serving[t])
    BY Zenon DEF ProcessVadapterInventory, NextEntry
  <1> HIDE DEF P
  <1>2. P(s)
    BY <1>1
  <1> QED
    BY <1>2 DEF P

(* A vadapter is entered. *)
LEMMA ProcessVadapterInventoryOK ==
    ASSUME Wide, NEW t \in Threads, ThreadOK(t), Steady(t), ProcessVadapterInventory(t)
    PROVE  ThreadOK(t)'
  <1>1. PICK s, n : s = serving[t] /\ n = serving'[t]
    OBVIOUS
  <1>2. s.pc = "row" /\ s.kind = "vadapter" /\ Serving(t)
    BY <1>1 DEF ProcessVadapterInventory, At, Serving
  <1>3. PICK row \in NextRow(Selected(t), s.cursor) : NextEntry(t, s, row)
    BY <1>1, ProcessVadapterInventoryIs
  <1>4. PICK e : e = [row |-> Structure(row), ids |-> <<>>]
    OBVIOUS
  <1>5. n = [s EXCEPT !.cursor  = row.id, !.entries = Append(@, e),
                      !.size    = 3 * (Len(s.entries) + 1),
                      !.overrun = @ \/ Len(s.entries) >= s.room]
    BY <1>1, <1>3, <1>4, StepFacts DEF NextEntry
  <1>6. QueryOK(t) /\ Spanned(t) /\ Roomy(t) /\ Complete(t) /\ Found(t) /\ Packed(t)
    BY DEF ThreadOK
  <1>7. DOMAIN s = Fields
    BY <1>1, <1>6 DEF QueryOK
  <1>8. /\ DOMAIN n = Fields /\ n.pc = "row"
        /\ n.kind = "vadapter" /\ n.kind = s.kind /\ n.bits = s.bits /\ n.attr = s.attr
        /\ n.room = s.room /\ n.shifted = s.shifted /\ n.failed = s.failed
    BY <1>2, <1>5, <1>7 DEF Fields
  <1>9. /\ n.entries = Append(s.entries, e) /\ n.cursor = row.id
        /\ n.size = 3 * (Len(s.entries) + 1)
        /\ n.overrun = (s.overrun \/ Len(s.entries) >= s.room)
    BY <1>5, <1>7 DEF Fields
  <1>10. Serving(t)' /\ SameQuery(serving'[t], serving[t])
    BY <1>1, <1>8 DEF Serving, SameQuery
  <1>11. Selected(t)' = Selected(t)
    BY <1>10, SameSelection DEF Steady
  <1>12. /\ \A kind : Cells(kind)' = Cells(kind)
         /\ Undisturbed(t)' = Undisturbed(t)
         /\ span'[t] = span[t]
    BY SteadyFacts DEF Steady
  <1>13. /\ Selected(t) \subseteq vfm_vadapter_attr
         /\ IsTable(vfm_vadapter_attr, VadapterColumns)
         /\ s.cursor \in Nat
    BY <1>1, <1>2, <1>6, SelectedFacts DEF Wide, TablesOK, QueryOK
  <1>14. /\ row \in Selected(t)
         /\ row.id \in Nat
         /\ row.id > s.cursor
         /\ Cardinality(Before(Selected(t), s.cursor)) \in Nat
         /\ Cardinality(Before(Selected(t), row.id))
               = Cardinality(Before(Selected(t), s.cursor)) + 1
         /\ Cardinality(Before(Selected(t), s.cursor)) < Cardinality(Selected(t))
    <2>1. Passes(Selected(t), s.cursor, row)
      BY <1>13, BeforeNext
    <2> QED
      BY <2>1 DEF Passes
  <1>15. \A other \in Selected(t) : other.id > s.cursor => row.id <= other.id
    <2>1. \A other \in Selected(t) : other.id \in Nat
      BY <1>13, TableFacts
    <2> QED
      BY <1>13, <2>1, NextRowFacts
  <1>16. /\ \A r \in OfKind("vadapter", span[t].kept) :
               /\ r.id \in Nat
               /\ Where("vadapter", s.bits, s.attr, r) => r \in Selected(t)
         /\ row \in OfKind("vadapter", span[t].ever)
         /\ row \in span[t].ever
         /\ Where("vadapter", s.bits, s.attr, row)
    BY <1>1, <1>2, <1>6, <1>14, KeptSelected DEF Wide
  <1>17. /\ s.entries \in Seq(Entry(Structures(span[t].ever), Cells("vadapter")))
         /\ e \in Entry(Structures(span[t].ever), Cells("vadapter"))
         /\ s.size = 3 * Len(s.entries)
         /\ \A i \in DOMAIN s.entries : s.entries[i].ids = <<>>
    BY <1>1, <1>2, <1>4, <1>6, <1>16, EmptySeq DEF QueryOK, Entry, Structures
  <1>18. /\ n.entries \in Seq(Entry(Structures(span[t].ever), Cells("vadapter")))
         /\ Len(s.entries) \in Nat
         /\ Len(n.entries) = Len(s.entries) + 1
         /\ \A i \in DOMAIN n.entries :
               (i \in DOMAIN s.entries /\ n.entries[i] = s.entries[i]) \/ n.entries[i] = e
         /\ \A i \in DOMAIN s.entries : i \in DOMAIN n.entries /\ n.entries[i] = s.entries[i]
         /\ \E i \in DOMAIN n.entries : n.entries[i] = e
    <2>1. PICK X : X = Entry(Structures(span[t].ever), Cells("vadapter"))
      OBVIOUS
    <2>2. s.entries \in Seq(X) /\ e \in X /\ n.entries = Append(s.entries, e)
      BY <1>9, <1>17, <2>1
    <2>3. PICK entries \in Seq(X) : entries = s.entries
      BY <2>2
    <2>4. n.entries = Append(entries, e)
      BY <2>2, <2>3
    <2> QED
      BY <2>1, <2>2, <2>3, <2>4, AppendFacts
  <1>19. QueryOK(t)'
    <2>1. n.size \in Nat /\ n.size = 3 * Len(n.entries)
      BY <1>9, <1>18
    <2>2. \A i \in DOMAIN n.entries : n.entries[i].ids = <<>>
      BY <1>4, <1>17, <1>18
    <2>3. n.cursor \in Nat
      BY <1>9, <1>14
    <2> QED
      <3>1. n.entries \in Seq([row : Structures(span[t].ever), ids : Seq(Cells("vadapter"))])
        BY <1>18 DEF Entry
      <3> QED
        BY <1>1, <1>8, <1>12, <2>1, <2>2, <2>3, <3>1 DEF QueryOK
  <1>20. Packed(t)'
    <2>1. PICK size \in Nat : size = s.size
      BY <1>1, <1>6 DEF QueryOK
    <2>2. Len(e.ids) = 0
      BY <1>4, EmptySeq
    <2>3. n.size = EntrySize(size, e)
      <3>1. PICK k \in Nat : k = Len(s.entries)
        BY <1>18
      <3>2. n.size = 3 * (k + 1) /\ size = 3 * k
        BY <1>9, <1>17, <2>1, <3>1
      <3>3. n.size = size + 3 + 0
        BY <3>1, <3>2
      <3>4. EntrySize(size, e) = size + 3 + 0
        BY <2>2 DEF EntrySize
      <3> QED
        BY <3>3, <3>4
    <2>4. Len(MarshallResponse("vadapter", s.entries, size)) = MarshalledLength("vadapter", size)
      BY <1>1, <1>2, <1>6, <2>1 DEF Packed
    <2>5. Len(MarshallResponse("vadapter", Append(s.entries, e), EntrySize(size, e)))
             = MarshalledLength("vadapter", EntrySize(size, e))
      BY <1>17, <2>4, PackedEntry
    <2>6. Len(MarshallResponse("vadapter", n.entries, n.size)) = MarshalledLength("vadapter", n.size)
      BY <1>9, <2>3, <2>5
    <2> QED
      BY <1>1, <1>8, <2>6 DEF Packed
  <1>21. Found(t)'
    <2>1. \A i \in DOMAIN s.entries :
             Matches(s.entries[i].row, "vadapter", s.bits, s.attr, span[t].ever)
      BY <1>1, <1>2, <1>6 DEF Found
    <2>2. \A i \in DOMAIN n.entries :
             Matches(n.entries[i].row, "vadapter", s.bits, s.attr, span[t].ever)
      <3>1. Matches(e.row, "vadapter", s.bits, s.attr, span[t].ever)
        BY <1>4, <1>16 DEF Matches
      <3> QED
        BY <1>18, <2>1, <3>1
    <2> QED
      BY <1>1, <1>8, <1>12, <2>2 DEF Found
  <1>22. Complete(t)'
    <2>1. SUFFICES ASSUME ~n.failed, NEW r \in OfKind("vadapter", span[t].kept),
                          Where("vadapter", s.bits, s.attr, r)
                   PROVE  \/ r.id > n.cursor
                          \/ \E i \in DOMAIN n.entries : n.entries[i].row.id = r.id
      BY <1>1, <1>8, <1>12 DEF Complete
    <2>2. \/ r.id > s.cursor
          \/ \E i \in DOMAIN s.entries : s.entries[i].row.id = r.id
      BY <1>1, <1>2, <1>6, <1>8, <2>1 DEF Complete
    <2>3. CASE r.id > s.cursor
      <3>1. r.id \in Nat /\ row.id <= r.id
        BY <1>15, <1>16, <2>1, <2>3
      <3> QED
        <4>1. r.id > row.id \/ r.id = row.id
          BY <1>14, <3>1
        <4>2. e.row.id = row.id
          <5>1. row \in vfm_vadapter_attr
            BY <1>13, <1>14
          <5>2. "id" \in DOMAIN row
            BY <1>13, <5>1 DEF IsTable, VadapterColumns
          <5> QED
            BY <1>4, <1>14, <5>2, StructureId
        <4> QED
          BY <1>9, <1>18, <4>1, <4>2
    <2> QED
      BY <1>18, <2>2, <2>3
  <1>23. Roomy(t)'
    <2>1. n.overrun => ~Undisturbed(t) \/ n.shifted \/ n.kind = "online"
      <3>1. Undisturbed(t) => ~(Len(s.entries) >= s.room)
        <4>1. Undisturbed(t) =>
                 /\ s.room = Cardinality(Selected(t))
                 /\ Len(s.entries) = Cardinality(Before(Selected(t), s.cursor))
          BY <1>1, <1>2, <1>6 DEF Roomy, Before
        <4>2. PICK k \in Nat, m \in Nat : /\ k = Cardinality(Before(Selected(t), s.cursor))
                                         /\ m = Cardinality(Selected(t))
          BY <1>13, <1>14, TableFacts
        <4>3. k < m
          BY <1>14, <4>2
        <4> QED
          BY <4>1, <4>2, <4>3
      <3> QED
        BY <1>1, <1>6, <1>8, <1>9, <3>1 DEF Roomy
    <2>2. Undisturbed(t) => /\ n.room = Cardinality(Selected(t))
                            /\ Len(n.entries) = Cardinality(Before(Selected(t), n.cursor))
      BY <1>1, <1>2, <1>6, <1>8, <1>9, <1>14, <1>18 DEF Roomy, Before
    <2> QED
      BY <1>1, <1>11, <1>12, <2>1, <2>2 DEF Roomy, Before
  <1>24. Listed(t)'
    BY <1>1, <1>8 DEF Listed
  <1> QED
    BY <1>2, <1>10, <1>19, <1>20, <1>21, <1>22, <1>23, <1>24, AskedKept, SpannedKept DEF ThreadOK

(* A select has come to its end. *)
LEMMA EndOfRowsOK ==
    ASSUME Wide, NEW t \in Threads, ThreadOK(t), Steady(t), EndOfRows(t)
    PROVE  ThreadOK(t)'
  <1>1. PICK s, n : s = serving[t] /\ n = serving'[t]
    OBVIOUS
  <1>2. s.pc = "row" /\ NextRow(Selected(t), s.cursor) = {} /\ n = [s EXCEPT !.pc = "reply"]
    BY <1>1, StepFacts DEF EndOfRows, At
  <1>3. QueryOK(t) /\ Spanned(t) /\ Roomy(t) /\ Complete(t) /\ Found(t) /\ Packed(t)
        /\ Listed(t)
    BY DEF ThreadOK
  <1>4. DOMAIN s = Fields
    BY <1>1, <1>3 DEF QueryOK
  <1>5. /\ DOMAIN n = Fields /\ n.pc = "reply"
        /\ n.kind = s.kind /\ n.bits = s.bits /\ n.attr = s.attr /\ n.room = s.room
        /\ n.entries = s.entries /\ n.cursor = s.cursor /\ n.size = s.size
        /\ n.shifted = s.shifted /\ n.overrun = s.overrun /\ n.failed = s.failed
    BY <1>2, <1>4 DEF Fields
  <1>6. Serving(t) /\ Serving(t)' /\ SameQuery(serving'[t], serving[t])
    BY <1>1, <1>2, <1>5 DEF Serving, SameQuery
  <1>7. /\ \A kind : Cells(kind)' = Cells(kind)
        /\ Undisturbed(t)' = Undisturbed(t)
        /\ span'[t] = span[t]
    BY SteadyFacts DEF Steady
  <1>8. QueryOK(t)'
    BY <1>1, <1>3, <1>5, <1>7 DEF QueryOK
  <1>9. Packed(t)'
    BY <1>1, <1>2, <1>3, <1>5 DEF Packed
  <1>10. Found(t)'
    BY <1>1, <1>3, <1>5, <1>6, <1>7 DEF Found
  <1>11. Complete(t)'
    <2>1. SUFFICES ASSUME s.kind # "online", ~s.failed,
                          NEW r \in OfKind(s.kind, span[t].kept),
                          Where(s.kind, s.bits, s.attr, r)
                   PROVE  \/ s.kind = "vfabric"
                             /\ r.protocol \notin {VFM_PROTOCOL_EN, VFM_PROTOCOL_FC}
                          \/ \E i \in DOMAIN s.entries : s.entries[i].row.id = r.id
      BY <1>1, <1>5, <1>7 DEF Complete
    <2>2. r \in Selected(t) /\ r.id \in Nat
      BY <1>1, <1>3, <1>6, <2>1, KeptSelected DEF Wide
    <2>3. s.cursor \in Nat /\ \A row \in Selected(t) : row.id \in Nat
      <3>1. \A row \in Table(s.kind) : row.id \in Nat
        BY <1>1, <1>3, SelectedFacts DEF Wide, QueryOK, IsTable
      <3> QED
        BY <1>1, <1>3, <3>1 DEF QueryOK, Selected
    <2>4. ~(r.id > s.cursor)
      BY <1>2, <2>2, <2>3, NextRowFacts
    <2> QED
      BY <1>1, <1>2, <1>3, <1>6, <2>1, <2>4 DEF Complete
  <1>12. Roomy(t)'
    BY <1>1, <1>3, <1>5, <1>7 DEF Roomy
  <1>13. Listed(t)'
    BY <1>1, <1>3, <1>5, <1>6, <1>7 DEF Listed, Lists
  <1> QED
    BY <1>6, <1>8, <1>9, <1>10, <1>11, <1>12, <1>13, AskedKept, SpannedKept DEF ThreadOK

(* What is attached to a vfabric, now and during the query. *)
LEMMA AttachedFacts ==
    ASSUME TablesOK, NEW t \in Threads, Spanned(t), Serving(t), NEW id
    PROVE  /\ IsTable(vfm_vadapter_attr, VadapterColumns)
           /\ Attached(id) \in SUBSET vfm_vadapter_attr
           /\ \A row \in Attached(id) : row.id # 0
           /\ \A row \in Attached(id) : row.id \in IdsIn(span[t].ever, id)
           /\ Undisturbed(t) => IdsIn(span[t].kept, id) = {row.id : row \in Attached(id)}
  <1>1. /\ OfKind("vadapter", Rows) = vfm_vadapter_attr
        /\ span[t].kept \subseteq Rows /\ Rows \subseteq span[t].ever
    BY TablesByKind DEF Spanned
  <1>2. vfm_vadapter_attr \subseteq OfKind("vadapter", span[t].ever)
    BY <1>1, OfKindMonotone
  <1>3. \A row \in Attached(id) : row.id \in IdsIn(span[t].ever, id)
    BY <1>2 DEF IdsIn, Attached
  <1>4. Undisturbed(t) => IdsIn(span[t].kept, id) = {row.id : row \in Attached(id)}
    <2>1. Undisturbed(t) => span[t].kept = Rows
      BY <1>1 DEF Undisturbed
    <2> QED
      BY <1>1, <2>1 DEF IdsIn, Attached
  <1> QED
    BY <1>3, <1>4 DEF TablesOK, Attached

(* The ids of the vadapters passed so far are in their places. *)
HasIds(s, att) ==
    /\ Len(s.ids) = Cardinality(att)
    /\ s.pos = Cardinality(Before(att, s.inner))
    /\ {s.ids[i] : i \in 1..s.pos} = {row.id : row \in Before(att, s.inner)}

LEMMA ListedIs ==
    ASSUME NEW t, NEW s, s = serving[t], NEW att, att = Attached(s.row.id),
           Serving(t), s.pc = "ids", s.kind = "vfabric", ~s.shifted,
           Listed(t), Undisturbed(t)
    PROVE  HasIds(s, att)
  <1>1. HasIds(serving[t], Attached(serving[t].row.id))
    BY DEF Listed, Before, HasIds
  <1> QED
    BY <1>1

(* What ProcessVfabric chooses, its query named. *)
RoomFor(t, s, row, offset) ==
    LET num == IF s.kind = "online" THEN 0 ELSE Cardinality(Attached(row.id))
    IN  Step(t, [s EXCEPT
           !.pc = "ids", !.cursor = row.id, !.row = Structure(row),
           !.ids = [i \in 1..num |-> Unset], !.pos = offset,
           !.inner = 0, !.shifted = @ \/ offset # 0])

LEMMA ProcessVfabricIs ==
    ASSUME NEW t, ProcessVfabric(t), NEW s, s = serving[t]
    PROVE  \E row \in NextRow(Selected(t), s.cursor), offset \in Offsets :
              RoomFor(t, s, row, offset)
  <1> DEFINE P(x) == \E row \in NextRow(Selected(t), x.cursor), offset \in Offsets :
                        RoomFor(t, x, row, offset)
  <1>1. P(serving[t])
    BY Zenon DEF ProcessVfabric, RoomFor
  <1> HIDE DEF P
  <1>2. P(s)
    BY <1>1
  <1> QED
    BY <1>2 DEF P

(* Room for the ids of a vfabric is made. *)
LEMMA ProcessVfabricOK ==
    ASSUME Wide, NEW t \in Threads, ThreadOK(t), Steady(t), ProcessVfabric(t)
    PROVE  ThreadOK(t)'
  <1>1. PICK s, n : s = serving[t] /\ n = serving'[t]
    OBVIOUS
  <1>2. s.pc = "row" /\ s.kind \in {"vfabric", "online"} /\ Serving(t)
    BY <1>1 DEF ProcessVfabric, At, Serving
  <1>3. PICK row, offset, num :
           /\ row \in NextRow(Selected(t), s.cursor) /\ offset \in Offsets
           /\ num = IF s.kind = "online" THEN 0 ELSE Cardinality(Attached(row.id))
           /\ Step(t, [s EXCEPT
                 !.pc = "ids", !.cursor = row.id, !.row = Structure(row),
                 !.ids = [i \in 1..num |-> Unset], !.pos = offset,
                 !.inner = 0, !.shifted = @ \/ offset # 0])
    <2>1. PICK row \in NextRow(Selected(t), s.cursor), offset \in Offsets :
             RoomFor(t, s, row, offset)
      BY <1>1, ProcessVfabricIs
    <2> QED
      BY <2>1, Zenon DEF RoomFor
  <1>chosen. row \in NextRow(Selected(t), s.cursor) /\ offset \in Offsets
    BY <1>3
  <1>4. PICK blank : blank = [i \in 1..num |-> Unset]
    OBVIOUS
  <1>5. n = [s EXCEPT !.pc = "ids", !.cursor = row.id, !.row = Structure(row), !.ids = blank,
                      !.pos = offset, !.inner = 0, !.shifted = @ \/ offset # 0]
    BY <1>1, <1>3, <1>4, StepFacts
  <1>6. QueryOK(t) /\ Spanned(t) /\ Roomy(t) /\ Complete(t) /\ Found(t) /\ Packed(t)
        /\ Listed(t)
    BY DEF ThreadOK
  <1>7. DOMAIN s = Fields
    BY <1>1, <1>6 DEF QueryOK
  <1>8. /\ DOMAIN n = Fields /\ n.pc = "ids" /\ n.entries = s.entries /\ n.size = s.size
        /\ n.kind = s.kind /\ n.bits = s.bits /\ n.attr = s.attr
        /\ n.room = s.room /\ n.overrun = s.overrun /\ n.failed = s.failed
        /\ n.cursor = row.id /\ n.row = Structure(row) /\ n.ids = blank /\ n.pos = offset
        /\ n.inner = 0 /\ n.shifted = (s.shifted \/ offset # 0)
    BY <1>5, <1>7 DEF Fields
  <1>9. Serving(t)' /\ SameQuery(serving'[t], serving[t])
    BY <1>1, <1>8 DEF Serving, SameQuery
  <1>10. /\ \A kind : Cells(kind)' = Cells(kind)
         /\ \A id : Attached(id)' = Attached(id)
         /\ Undisturbed(t)' = Undisturbed(t)
         /\ span'[t] = span[t]
    BY SteadyFacts DEF Steady
  <1>11. /\ Selected(t) \subseteq vfm_vfabric_attr
         /\ IsTable(vfm_vfabric_attr, VfabricColumns)
         /\ s.cursor \in Nat
    BY <1>1, <1>2, <1>6, SelectedFacts DEF Wide, TablesOK, QueryOK
  <1>12. row \in Selected(t) /\ row.id \in Nat
    <2>1. Passes(Selected(t), s.cursor, row)
      BY <1>chosen, <1>11, BeforeNext
    <2> QED
      BY <2>1 DEF Passes
  <1>13. \A other \in Selected(t) : other.id > s.cursor => row.id <= other.id
    <2>1. \A other \in Selected(t) : other.id \in Nat
      BY <1>11, TableFacts
    <2> QED
      BY <1>chosen, <1>11, <2>1, NextRowFacts
  <1>14. row \in OfKind("vfabric", span[t].ever)
    <2>1. vfm_vfabric_attr = OfKind("vfabric", Rows) /\ Rows \subseteq span[t].ever
      BY <1>2, <1>6, TablesByKind DEF Wide, Spanned
    <2> QED
      BY <1>11, <1>12, <2>1, OfKindMonotone
  <1>structure. /\ Structure(row).id = row.id
                /\ Structure(row) \in Structures(OfKind("vfabric", span[t].ever))
    <2>1. "id" \in DOMAIN row
      BY <1>11, <1>12 DEF IsTable, VfabricColumns
    <2> QED
      BY <1>12, <1>14, <2>1, StructureId DEF Structures
  <1>15. /\ IsTable(vfm_vadapter_attr, VadapterColumns)
         /\ Attached(row.id) \in SUBSET vfm_vadapter_attr
         /\ \A r \in Attached(row.id) : r.id # 0
    BY <1>2, <1>6, AttachedFacts DEF Wide
  <1>16. num \in Nat
    <2>1. Cardinality(Attached(row.id)) \in Nat
      BY <1>15, TableFacts
    <2> QED
      BY <1>3, <2>1
  <1>17. /\ blank \in Seq(Nat \cup {Unset})
         /\ Len(blank) = num
         /\ DOMAIN blank = 1..num
         /\ \A i \in DOMAIN blank : blank[i] = Unset
    <2>1. blank \in [1..num -> Nat \cup {Unset}]
      BY <1>4
    <2>2. blank \in Seq(Nat \cup {Unset})
      BY <1>16, <2>1, SeqDef
    <2>3. Len(blank) = num
      BY <1>16, <2>1, <2>2, LenProperties
    <2> QED
      BY <1>4, <2>2, <2>3
  <1>18. QueryOK(t)'
    <2>1. offset \in Nat
      BY <1>3, OffsetsAssumption
    <2> QED
      <3>1. n.entries \in Seq([row : Structures(span[t].ever), ids : Seq(Cells(n.kind))]) /\ n.size \in Nat
        BY <1>1, <1>6, <1>8 DEF QueryOK
      <3>2. /\ n.kind \in {"vfabric", "online"} /\ n.cursor \in Nat
            /\ n.row \in Structures(OfKind("vfabric", span[t].ever))
            /\ n.ids \in Seq(Nat \cup {Unset}) /\ n.pos \in Nat /\ n.inner \in Nat
        BY <1>2, <1>8, <1>12, <1>structure, <1>17, <2>1
      <3> QED
        BY <1>1, <1>8, <1>10, <3>1, <3>2 DEF QueryOK
  <1>19. Packed(t)'
    BY <1>1, <1>2, <1>6, <1>8 DEF Packed
  <1>20. Found(t)'
    <2>1. s.kind # "online" => Where("vfabric", s.bits, s.attr, row)
      BY <1>1, <1>2, <1>6, <1>12, KeptSelected DEF Wide
    <2>2. s.kind # "online" =>
             Matches(Structure(row), "vfabric", s.bits, s.attr, span[t].ever)
      BY <1>14, <2>1 DEF Matches
    <2> QED
      BY <1>1, <1>2, <1>6, <1>8, <1>10, <2>2 DEF Found
  <1>21. Complete(t)'
    <2>1. SUFFICES ASSUME s.kind = "vfabric", ~s.failed, NEW r \in OfKind("vfabric", span[t].kept),
                          Where("vfabric", s.bits, s.attr, r)
                   PROVE  \/ r.id > row.id
                          \/ Structure(row) = Structure(r)
                          \/ r.protocol \notin {VFM_PROTOCOL_EN, VFM_PROTOCOL_FC}
                          \/ \E i \in DOMAIN s.entries : s.entries[i].row.id = r.id
      BY <1>1, <1>2, <1>8, <1>10 DEF Complete
    <2>2. \/ r.id > s.cursor
          \/ r.protocol \notin {VFM_PROTOCOL_EN, VFM_PROTOCOL_FC}
          \/ \E i \in DOMAIN s.entries : s.entries[i].row.id = r.id
      BY <1>1, <1>2, <1>6, <2>1 DEF Complete
    <2>3. CASE r.id > s.cursor
      <3>1. r \in Selected(t) /\ r.id \in Nat
        BY <1>1, <1>2, <1>6, <2>1, KeptSelected DEF Wide
      <3>2. row.id <= r.id
        BY <1>13, <2>3, <3>1
      <3>3. r.id > row.id \/ r.id = row.id
        BY <1>12, <3>1, <3>2
      <3>4. r.id = row.id => r = row
        BY <1>11, <1>12, <3>1 DEF IsTable
      <3> QED
        BY <3>3, <3>4
    <2> QED
      BY <2>2, <2>3
  <1>22. Roomy(t)'
    BY <1>1, <1>6, <1>8, <1>10 DEF Roomy
  <1>23. Listed(t)'
    <2>1. SUFFICES ASSUME s.kind = "vfabric"
                   PROVE  Listed(t)'
      BY <1>1, <1>8 DEF Listed
    <2>2. \A i \in DOMAIN s.entries : Lists(t, s.entries[i].ids, s.entries[i].row.id)'
      BY <1>1, <1>2, <1>6, <1>8, <1>10, <2>1 DEF Listed, Lists
    <2>3. ToSet(blank) \subseteq {Unset}
      BY <1>17 DEF ToSet
    <2>4. ~n.shifted => Len(blank) = Cardinality(Attached(row.id)) /\ offset = 0
      BY <1>3, <1>8, <1>17, <2>1
    <2>5. Before(Attached(row.id), 0) = {} /\ Cardinality(Before(Attached(row.id), 0)) = 0
      BY <1>15, BeforeNone
    <2>6. ~n.shifted => /\ offset = Cardinality(Before(Attached(row.id), 0))
                        /\ {blank[i] : i \in 1..offset} = {r.id : r \in Before(Attached(row.id), 0)}
      BY <2>4, <2>5
    <2> QED
      <3>1. ToSet(n.ids) \subseteq IdsIn(span[t].ever, n.row.id) \cup {Unset}
        BY <1>8, <1>structure, <2>3
      <3>2. ~n.shifted =>
               /\ Len(n.ids) = Cardinality(Attached(n.row.id))
               /\ n.pos = Cardinality(Before(Attached(n.row.id), n.inner))
               /\ {n.ids[i] : i \in 1..n.pos} = {r.id : r \in Before(Attached(n.row.id), n.inner)}
        BY SMTT(30), <1>8, <1>structure, <2>4, <2>6
      <3>3. \A i \in DOMAIN n.entries : Lists(t, n.entries[i].ids, n.entries[i].row.id)'
        BY <1>8, <2>2
      <3> QED
        BY <1>1, <1>10, <3>1, <3>2, <3>3 DEF Listed, Before, IdsIn
  <1> QED
    BY <1>2, <1>9, <1>18, <1>19, <1>20, <1>21, <1>22, <1>23, AskedKept, SpannedKept DEF ThreadOK

(* An id is written at a place, when there is room for it. *)
Written(ids, pos, id) ==
    IF pos < Len(ids) THEN [ids EXCEPT ![pos + 1] = id] ELSE ids

Filled(w, ids, pos, id) ==
    /\ Len(w) = Len(ids)
    /\ ToSet(w) \subseteq ToSet(ids) \cup {id}
    /\ pos < Len(ids) =>
          {w[i] : i \in 1..(pos + 1)} = {ids[i] : i \in 1..pos} \cup {id}

(* What is written once a place more is filled. *)
LEMMA WrittenFacts ==
    ASSUME NEW X, NEW ids \in Seq(X), NEW pos \in Nat, NEW id \in X
    PROVE  /\ Written(ids, pos, id) \in Seq(X)
           /\ Filled(Written(ids, pos, id), ids, pos, id)
  <1>1. PICK n \in Nat : n = Len(ids)
    BY LenProperties
  <1>2. DOMAIN ids = 1..n /\ ids \in [1..n -> X]
    BY <1>1, LenProperties
  <1>3. CASE ~(pos < n)
    BY <1>1, <1>3 DEF Written, Filled
  <1>4. CASE pos < n
    <2>1. PICK w : w = [ids EXCEPT ![pos + 1] = id]
      OBVIOUS
    <2>2. Written(ids, pos, id) = w
      BY <1>1, <1>4, <2>1 DEF Written
    <2>3. pos + 1 \in 1..n
      BY <1>4
    <2>4. w \in [1..n -> X] /\ w[pos + 1] = id /\ \A i \in 1..n : i # pos + 1 => w[i] = ids[i]
      BY <1>2, <2>1, <2>3
    <2>5. w \in Seq(X) /\ DOMAIN w = 1..n
      BY <2>4, SeqDef
    <2>6. Len(w) = n
      BY <2>5, LenProperties
    <2>7. ToSet(w) \subseteq ToSet(ids) \cup {id}
      BY <1>2, <2>4, <2>5 DEF ToSet
    <2>8. {w[i] : i \in 1..(pos + 1)} = {ids[i] : i \in 1..pos} \cup {id}
      <3>1. \A i \in 1..pos : i \in 1..(pos + 1) /\ w[i] = ids[i]
        BY <1>4, <2>4
      <3>2. \A i \in 1..(pos + 1) : i = pos + 1 \/ i \in 1..pos
        OBVIOUS
      <3>3. pos + 1 \in 1..(pos + 1)
        OBVIOUS
      <3> QED
        BY <2>4, <3>1, <3>2, <3>3
    <2> QED
      BY <1>1, <2>2, <2>5, <2>6, <2>7, <2>8 DEF Filled
  <1> QED
    BY <1>3, <1>4

(* What ProcessVadapterId chooses, its query named. *)
IdWritten(t, s, row) ==
    Step(t, [s EXCEPT
        !.inner = row.id,
        !.ids = IF s.pos < Len(@) THEN [@ EXCEPT ![s.pos + 1] = row.id] ELSE @,
        !.pos = @ + 1,
        !.overrun = @ \/ s.pos >= Len(s.ids)])

LEMMA ProcessVadapterIdIs ==
    ASSUME NEW t, ProcessVadapterId(t), NEW s, s = serving[t]
    PROVE  \E row \in NextRow(Attached(s.row.id), s.inner) : IdWritten(t, s, row)
  <1> DEFINE P(x) == \E row \in NextRow(Attached(x.row.id), x.inner) : IdWritten(t, x, row)
  <1>1. P(serving[t])
    BY Zenon DEF ProcessVadapterId, IdWritten
  <1> HIDE DEF P
  <1>2. P(s)
    BY <1>1
  <1> QED
    BY <1>2 DEF P

(* A vadapter id is written. *)
LEMMA ProcessVadapterIdOK ==
    ASSUME Wide, NEW t \in Threads, ThreadOK(t), Steady(t), ProcessVadapterId(t)
    PROVE  ThreadOK(t)'
  <1>1. PICK s, n : s = serving[t] /\ n = serving'[t]
    OBVIOUS
  <1>2. s.pc = "ids" /\ Serving(t)
    BY <1>1 DEF ProcessVadapterId, At, Serving
  <1>3. PICK row \in NextRow(Attached(s.row.id), s.inner) : IdWritten(t, s, row)
    BY <1>1, ProcessVadapterIdIs
  <1>4. QueryOK(t) /\ Spanned(t) /\ Roomy(t) /\ Complete(t) /\ Found(t) /\ Packed(t)
        /\ Listed(t)
    BY DEF ThreadOK
  <1>5. /\ DOMAIN s = Fields /\ s.kind \in {"vfabric", "online"}
        /\ s.ids \in Seq(Nat \cup {Unset}) /\ s.pos \in Nat /\ s.inner \in Nat
    BY <1>1, <1>2, <1>4 DEF QueryOK
  <1>6. PICK w : w = Written(s.ids, s.pos, row.id)
    OBVIOUS
  <1>7. n = [s EXCEPT !.inner = row.id, !.ids = w, !.pos = @ + 1,
                      !.overrun = @ \/ s.pos >= Len(s.ids)]
    <2>1. n = [s EXCEPT
              !.inner = row.id,
              !.ids = IF s.pos < Len(@) THEN [@ EXCEPT ![s.pos + 1] = row.id] ELSE @,
              !.pos = @ + 1,
              !.overrun = @ \/ s.pos >= Len(s.ids)]
      BY <1>1, <1>3, StepFacts DEF IdWritten
    <2> QED
      BY <1>6, <2>1 DEF Written
  <1>8. /\ DOMAIN n = Fields /\ n.pc = "ids" /\ n.entries = s.entries /\ n.size = s.size
        /\ n.kind = s.kind /\ n.bits = s.bits /\ n.attr = s.attr
        /\ n.room = s.room /\ n.failed = s.failed /\ n.shifted = s.shifted
        /\ n.cursor = s.cursor /\ n.row = s.row
        /\ n.inner = row.id /\ n.ids = w /\ n.pos = s.pos + 1
        /\ n.overrun = (s.overrun \/ s.pos >= Len(s.ids))
    BY <1>2, <1>5, <1>7 DEF Fields
  <1>9. Serving(t)' /\ SameQuery(serving'[t], serving[t])
    BY <1>1, <1>8 DEF Serving, SameQuery
  <1>10. /\ \A kind : Cells(kind)' = Cells(kind)
         /\ \A id : Attached(id)' = Attached(id)
         /\ Undisturbed(t)' = Undisturbed(t)
         /\ span'[t] = span[t]
    BY SteadyFacts DEF Steady
  <1>11. PICK att : att = Attached(s.row.id)
    OBVIOUS
  <1>12. /\ IsTable(vfm_vadapter_attr, VadapterColumns)
         /\ att \in SUBSET vfm_vadapter_attr
         /\ \A r \in att : r.id \in IdsIn(span[t].ever, s.row.id)
    BY <1>2, <1>4, <1>11, AttachedFacts DEF Wide
  <1>13. /\ row \in att
         /\ row.id \in Nat
         /\ Before(att, row.id) = Before(att, s.inner) \cup {row}
         /\ Cardinality(Before(att, s.inner)) \in Nat
         /\ Cardinality(Before(att, row.id)) = Cardinality(Before(att, s.inner)) + 1
         /\ Cardinality(Before(att, s.inner)) < Cardinality(att)
    <2>1. row \in NextRow(att, s.inner)
      BY <1>3, <1>11
    <2>2. Passes(att, s.inner, row)
      BY <1>5, <1>12, <2>1, BeforeNext
    <2> QED
      BY <2>2 DEF Passes
  <1>14. /\ w \in Seq(Nat \cup {Unset})
         /\ Len(w) = Len(s.ids)
         /\ ToSet(w) \subseteq ToSet(s.ids) \cup {row.id}
         /\ s.pos < Len(s.ids) =>
               {w[i] : i \in 1..(s.pos + 1)} = {s.ids[i] : i \in 1..s.pos} \cup {row.id}
    <2>1. PICK X, id, pos : X = Nat \cup {Unset} /\ id = row.id /\ pos = s.pos
      OBVIOUS
    <2>2. s.ids \in Seq(X) /\ id \in X /\ pos \in Nat /\ w = Written(s.ids, pos, id)
      BY <1>5, <1>6, <1>13, <2>1
    <2>3. w \in Seq(X) /\ Filled(w, s.ids, pos, id)
      BY <2>2, WrittenFacts
    <2> QED
      BY <2>1, <2>3 DEF Filled
  <1>15. s.kind = "vfabric" /\ Undisturbed(t) /\ ~s.shifted => HasIds(s, att)
    BY <1>1, <1>2, <1>4, <1>11, ListedIs
  <1>16. s.kind = "vfabric" /\ Undisturbed(t) /\ ~s.shifted =>
            s.pos < Len(s.ids) /\ ~(s.pos >= Len(s.ids))
    <2>1. PICK k \in Nat, m \in Nat : /\ k = Cardinality(Before(att, s.inner))
                                      /\ m = Cardinality(att)
      BY <1>12, <1>13, TableFacts
    <2>2. k < m
      BY <1>13, <2>1
    <2> QED
      BY <1>15, <2>1, <2>2 DEF HasIds
  <1>17. QueryOK(t)'
    <2>1. n.entries \in Seq([row : Structures(span[t].ever), ids : Seq(Cells(n.kind))]) /\ n.size \in Nat
      BY <1>1, <1>4, <1>8 DEF QueryOK
    <2>2. /\ n.kind \in {"vfabric", "online"} /\ n.cursor \in Nat
          /\ n.row \in Structures(OfKind("vfabric", span[t].ever))
          /\ n.ids \in Seq(Nat \cup {Unset}) /\ n.pos \in Nat /\ n.inner \in Nat
      BY <1>1, <1>2, <1>4, <1>5, <1>8, <1>13, <1>14 DEF QueryOK
    <2> QED
      BY <1>1, <1>8, <1>10, <2>1, <2>2 DEF QueryOK
  <1>18. Packed(t)'
    BY <1>1, <1>2, <1>4, <1>8 DEF Packed
  <1>19. Found(t)'
    BY <1>1, <1>2, <1>4, <1>8, <1>10 DEF Found
  <1>20. Complete(t)'
    BY <1>1, <1>2, <1>4, <1>8, <1>10 DEF Complete
  <1>21. Roomy(t)'
    BY <1>1, <1>4, <1>5, <1>8, <1>10, <1>16 DEF Roomy
  <1>22. Listed(t)'
    <2>1. SUFFICES ASSUME s.kind = "vfabric"
                   PROVE  Listed(t)'
      BY <1>1, <1>8 DEF Listed
    <2>2. \A i \in DOMAIN n.entries : Lists(t, n.entries[i].ids, n.entries[i].row.id)'
      BY <1>1, <1>2, <1>4, <1>8, <1>10, <2>1 DEF Listed, Lists
    <2>3. ToSet(n.ids) \subseteq IdsIn(span[t].ever, n.row.id) \cup {Unset}
      <3>1. ToSet(s.ids) \subseteq IdsIn(span[t].ever, s.row.id) \cup {Unset}
        BY <1>1, <1>2, <1>4, <2>1 DEF Listed
      <3> QED
        BY <1>8, <1>12, <1>13, <1>14, <3>1
    <2>4. Undisturbed(t) /\ ~n.shifted => HasIds(n, att)
      <3>1. {r.id : r \in Before(att, row.id)} = {r.id : r \in Before(att, s.inner)} \cup {row.id}
        BY <1>13
      <3>2. SUFFICES ASSUME Undisturbed(t), ~n.shifted
                     PROVE  HasIds(n, att)
        OBVIOUS
      <3>3. HasIds(s, att) /\ s.pos < Len(s.ids)
        BY <1>8, <1>15, <1>16, <2>1, <3>2
      <3>4. Len(n.ids) = Cardinality(att) /\ n.pos = Cardinality(Before(att, row.id))
        BY <1>8, <1>13, <1>14, <3>3 DEF HasIds
      <3>5. {w[i] : i \in 1..(s.pos + 1)} = {r.id : r \in Before(att, row.id)}
        BY <1>14, <3>1, <3>3 DEF HasIds
      <3> QED
        BY <1>8, <3>4, <3>5 DEF HasIds
    <2>5. att = Attached(n.row.id)
      BY <1>8, <1>11
    <2> QED
      BY <1>1, <1>10, <2>2, <2>3, <2>4, <2>5, ZenonT(60) DEF Listed, Before, IdsIn, HasIds
  <1> QED
    BY <1>2, <1>9, <1>17, <1>18, <1>19, <1>20, <1>21, <1>22, AskedKept, SpannedKept DEF ThreadOK

(* The rows of vfabrics that stay have its columns, and an id. *)
LEMMA KeptColumns ==
    ASSUME TablesOK, NEW t \in Threads, Spanned(t), Serving(t),
           NEW row \in OfKind("vfabric", span[t].kept)
    PROVE  row.id \in Nat /\ DOMAIN row = VfabricColumns
  <1>1. span[t].kept \subseteq Rows /\ OfKind("vfabric", Rows) = vfm_vfabric_attr
    BY TablesByKind DEF Spanned
  <1>2. row \in vfm_vfabric_attr
    BY <1>1, OfKindMonotone
  <1> QED
    BY <1>2 DEF TablesOK, IsTable

(* What the end of process_vfabric leaves alone. *)
Resumed(n, s) ==
    /\ DOMAIN n = Fields /\ n.pc = "row"
    /\ n.kind = s.kind /\ n.bits = s.bits /\ n.attr = s.attr
    /\ n.room = s.room /\ n.shifted = s.shifted /\ n.overrun = s.overrun
    /\ n.cursor = s.cursor
    /\ s.failed => n.failed

(* The vfabric is not entered: a statement failed, or it is neither EN nor *)
(* FC.                                                                     *)
LEMMA SkippedOK ==
    ASSUME Wide, NEW t \in Threads, ThreadOK(t), Steady(t), serving[t].pc = "ids",
           Resumed(serving'[t], serving[t]),
           serving'[t].entries = serving[t].entries, serving'[t].size = serving[t].size,
           \/ serving'[t].failed
           \/ serving[t].row.protocol \notin {VFM_PROTOCOL_EN, VFM_PROTOCOL_FC}
    PROVE  ThreadOK(t)'
  <1>1. PICK s, n : s = serving[t] /\ n = serving'[t]
    OBVIOUS
  <1>2. /\ Resumed(n, s) /\ s.pc = "ids" /\ n.entries = s.entries /\ n.size = s.size
        /\ n.failed \/ s.row.protocol \notin {VFM_PROTOCOL_EN, VFM_PROTOCOL_FC}
    BY <1>1
  <1>3. QueryOK(t) /\ Spanned(t) /\ Roomy(t) /\ Complete(t) /\ Found(t) /\ Packed(t)
        /\ Listed(t) /\ Serving(t)
    BY DEF ThreadOK, Serving
  <1>4. s.kind \in {"vfabric", "online"}
    BY <1>1, <1>2, <1>3 DEF QueryOK
  <1>5. Serving(t)' /\ SameQuery(serving'[t], serving[t])
    BY <1>1, <1>2 DEF Serving, SameQuery, Resumed
  <1>6. /\ \A kind : Cells(kind)' = Cells(kind)
        /\ Undisturbed(t)' = Undisturbed(t)
        /\ span'[t] = span[t]
    BY SteadyFacts DEF Steady
  <1>7. QueryOK(t)'
    <2>1. /\ n.entries \in Seq([row : Structures(span[t].ever), ids : Seq(Cells(n.kind))]) /\ n.size \in Nat
          /\ n.cursor \in Nat
      BY <1>1, <1>2, <1>3 DEF QueryOK, Resumed
    <2> QED
      BY <1>1, <1>2, <1>4, <1>6, <2>1 DEF QueryOK, Resumed
  <1>8. Packed(t)'
    BY <1>1, <1>2, <1>3 DEF Packed, Resumed
  <1>9. Found(t)'
    BY <1>1, <1>2, <1>3, <1>6 DEF Found, Resumed
  <1>10. Complete(t)'
    <2>1. SUFFICES ASSUME s.kind = "vfabric", ~n.failed, NEW r \in OfKind("vfabric", span[t].kept),
                          Where("vfabric", s.bits, s.attr, r)
                   PROVE  \/ r.id > s.cursor
                          \/ r.protocol \notin {VFM_PROTOCOL_EN, VFM_PROTOCOL_FC}
                          \/ \E i \in DOMAIN s.entries : s.entries[i].row.id = r.id
      BY <1>1, <1>2, <1>4, <1>6 DEF Complete, Resumed
    <2>2. \/ r.id > s.cursor
          \/ s.row = Structure(r)
          \/ r.protocol \notin {VFM_PROTOCOL_EN, VFM_PROTOCOL_FC}
          \/ \E i \in DOMAIN s.entries : s.entries[i].row.id = r.id
      BY <1>1, <1>2, <1>3, <2>1 DEF Complete, Resumed
    <2>3. s.row = Structure(r) => r.protocol \notin {VFM_PROTOCOL_EN, VFM_PROTOCOL_FC}
      <3>1. "protocol" \in DOMAIN r
        BY <1>1, <1>3, <2>1, KeptColumns DEF VfabricColumns, Wide
      <3>2. s.row.protocol \notin {VFM_PROTOCOL_EN, VFM_PROTOCOL_FC}
        BY <1>2, <2>1
      <3> QED
        BY <3>1, <3>2, StructureProtocol
    <2> QED
      BY <2>2, <2>3
  <1>11. Roomy(t)'
    BY <1>1, <1>2, <1>3, <1>4, <1>6 DEF Roomy, Resumed
  <1>12. Listed(t)'
    BY <1>1, <1>2, <1>3, <1>6 DEF Listed, Lists, Resumed
  <1> QED
    BY <1>3, <1>5, <1>7, <1>8, <1>9, <1>10, <1>11, <1>12, AskedKept, SpannedKept DEF ThreadOK

(* The vfabric is entered, with the ids of its vadapters unless a          *)
(* statement failed.                                                       *)
LEMMA EnteredOK ==
    ASSUME Wide, NEW t \in Threads, ThreadOK(t), Steady(t), serving[t].pc = "ids",
           Resumed(serving'[t], serving[t]),
           NEW e, e = [row |-> serving[t].row, ids |-> serving[t].ids],
           serving'[t].entries = Append(serving[t].entries, e),
           serving'[t].size = EntrySize(serving[t].size, e),
           \/ serving'[t].failed
           \/ NextRow(Attached(serving[t].row.id), serving[t].inner) = {}
    PROVE  ThreadOK(t)'
  <1>1. PICK s, n : s = serving[t] /\ n = serving'[t]
    OBVIOUS
  <1>2. /\ Resumed(n, s) /\ s.pc = "ids" /\ n.entries = Append(s.entries, e)
        /\ n.size = EntrySize(s.size, e)
        /\ n.failed \/ NextRow(Attached(s.row.id), s.inner) = {}
        /\ e = [row |-> s.row, ids |-> s.ids]
    BY <1>1
  <1>3. QueryOK(t) /\ Spanned(t) /\ Roomy(t) /\ Complete(t) /\ Found(t) /\ Packed(t)
        /\ Listed(t) /\ Serving(t)
    BY DEF ThreadOK, Serving
  <1>4. /\ s.kind \in {"vfabric", "online"}
        /\ s.row \in Structures(OfKind("vfabric", span[t].ever))
        /\ s.ids \in Seq(Nat \cup {Unset})
        /\ s.inner \in Nat /\ s.size \in Nat
    BY <1>1, <1>2, <1>3 DEF QueryOK
  <1>5. Serving(t)' /\ SameQuery(serving'[t], serving[t])
    BY <1>1, <1>2 DEF Serving, SameQuery, Resumed
  <1>6. /\ \A kind : Cells(kind)' = Cells(kind)
        /\ Undisturbed(t)' = Undisturbed(t)
        /\ span'[t] = span[t]
    BY SteadyFacts DEF Steady
  <1>7. PICK R, C : R = Structures(span[t].ever) /\ C = Nat \cup {Unset}
    OBVIOUS
  <1>8. C = Cells(s.kind)
    BY <1>4, <1>7 DEF Cells
  <1>9. s.entries \in Seq(Entry(R, C)) /\ e \in Entry(R, C)
    <2>1. s.row \in R
      BY <1>4, <1>7 DEF OfKind, Structures
    <2>2. e \in Entry(R, C)
      BY <1>2, <1>4, <1>7, <2>1 DEF Entry
    <2>3. s.entries \in Seq([row : R, ids : Seq(C)])
      BY <1>1, <1>3, <1>7, <1>8 DEF QueryOK
    <2> QED
      BY <2>2, <2>3 DEF Entry
  <1>10. /\ n.entries \in Seq(Entry(R, C))
         /\ \A i \in DOMAIN n.entries :
               (i \in DOMAIN s.entries /\ n.entries[i] = s.entries[i]) \/ n.entries[i] = e
         /\ \A i \in DOMAIN s.entries : i \in DOMAIN n.entries /\ n.entries[i] = s.entries[i]
         /\ \E i \in DOMAIN n.entries : n.entries[i] = e
    BY SMTT(30), <1>2, <1>9, AppendFacts
  <1>11. /\ n.size \in Nat
         /\ Len(MarshallResponse(s.kind, n.entries, n.size)) = MarshalledLength(s.kind, n.size)
    <2>1. PICK size, kind : size \in Nat /\ size = s.size /\ kind = s.kind
      BY <1>4
    <2>2. kind # "bridge"
      BY <1>4, <2>1
    <2>3. Len(MarshallResponse(kind, s.entries, size)) = MarshalledLength(kind, size)
      BY <1>1, <1>2, <1>3, <2>1 DEF Packed
    <2>4. /\ EntrySize(size, e) \in Nat
          /\ Len(MarshallResponse(kind, Append(s.entries, e), EntrySize(size, e)))
                = MarshalledLength(kind, EntrySize(size, e))
      BY <1>9, <2>1, <2>2, <2>3, PackedEntry
    <2> QED
      BY <1>2, <2>1, <2>4
  <1>12. QueryOK(t)'
    <2>1. n.entries \in Seq([row : Structures(span[t].ever), ids : Seq(Cells(n.kind))])
      BY <1>2, <1>7, <1>8, <1>10 DEF Entry, Resumed
    <2>2. n.cursor \in Nat
      BY <1>1, <1>2, <1>3 DEF QueryOK, Resumed
    <2> QED
      BY <1>1, <1>2, <1>4, <1>6, <1>11, <2>1, <2>2 DEF QueryOK, Resumed
  <1>13. Packed(t)'
    BY <1>1, <1>2, <1>11 DEF Packed, Resumed
  <1>14. Found(t)'
    BY <1>1, <1>2, <1>3, <1>6, <1>10 DEF Found, Resumed
  <1>15. Complete(t)'
    <2>1. SUFFICES ASSUME s.kind = "vfabric", ~s.failed, NEW r \in OfKind("vfabric", span[t].kept),
                          Where("vfabric", s.bits, s.attr, r)
                   PROVE  \/ r.id > s.cursor
                          \/ r.protocol \notin {VFM_PROTOCOL_EN, VFM_PROTOCOL_FC}
                          \/ \E i \in DOMAIN n.entries : n.entries[i].row.id = r.id
      BY <1>1, <1>2, <1>4, <1>6 DEF Complete, Resumed
    <2>2. \/ r.id > s.cursor
          \/ s.row = Structure(r)
          \/ r.protocol \notin {VFM_PROTOCOL_EN, VFM_PROTOCOL_FC}
          \/ \E i \in DOMAIN s.entries : s.entries[i].row.id = r.id
      BY <1>1, <1>2, <1>3, <2>1 DEF Complete
    <2>3. Structure(r).id = r.id
      <3>1. r.id \in Nat /\ "id" \in DOMAIN r
        BY <1>3, <2>1, KeptColumns DEF VfabricColumns, Wide
      <3> QED
        BY <3>1, StructureId
    <2> QED
      BY <1>2, <1>10, <2>2, <2>3
  <1>16. Roomy(t)'
    BY <1>1, <1>2, <1>3, <1>4, <1>6 DEF Roomy, Resumed
  <1>17. Listed(t)'
    <2>1. SUFFICES ASSUME s.kind = "vfabric"
                   PROVE  \A i \in DOMAIN n.entries :
                             Lists(t, n.entries[i].ids, n.entries[i].row.id)'
      BY <1>1, <1>2 DEF Listed, Resumed
    <2>2. \A i \in DOMAIN s.entries : Lists(t, s.entries[i].ids, s.entries[i].row.id)'
      BY <1>1, <1>2, <1>3, <1>6, <2>1 DEF Listed, Lists, Resumed
    <2>3. Lists(t, s.ids, s.row.id)'
      <3>1. PICK att : att = Attached(s.row.id)
        OBVIOUS
      <3>2. ToSet(s.ids) \subseteq IdsIn(span[t].ever, s.row.id) \cup {Unset}
        BY <1>1, <1>2, <1>3, <2>1 DEF Listed
      <3>3. SUFFICES ASSUME ~n.failed, Undisturbed(t), ~n.shifted
                     PROVE  /\ ToSet(s.ids) = IdsIn(span[t].kept, s.row.id)
                            /\ Len(s.ids) = Cardinality(ToSet(s.ids))
        BY <1>1, <1>6, <3>2 DEF Lists
      <3>4. /\ Len(s.ids) = Cardinality(att)
            /\ s.pos = Cardinality(Before(att, s.inner))
            /\ {s.ids[i] : i \in 1..s.pos} = {r.id : r \in Before(att, s.inner)}
        <4>1. ~s.shifted
          BY <1>2, <3>3 DEF Resumed
        <4>2. s.pc = "ids" /\ Listed(t) /\ Serving(t)
          BY <1>2, <1>3
        <4> QED
          <5>1. HasIds(s, att)
            BY <1>1, <2>1, <3>1, <3>3, <4>1, <4>2, ListedIs
          <5> QED
            BY <5>1 DEF HasIds
      <3>5. /\ IsTable(vfm_vadapter_attr, VadapterColumns)
            /\ att \in SUBSET vfm_vadapter_attr
            /\ IdsIn(span[t].kept, s.row.id) = {r.id : r \in att}
        BY <1>3, <3>1, <3>3, AttachedFacts DEF Wide
      <3>6. Before(att, s.inner) = att
        BY <1>2, <1>4, <3>1, <3>3, <3>5, BeforeAll
      <3>7. ToSet(s.ids) = {s.ids[i] : i \in 1..s.pos}
        <4>1. DOMAIN s.ids = 1..Len(s.ids)
          BY <1>4, LenProperties
        <4> QED
          BY <3>4, <3>6, <4>1 DEF ToSet
      <3>8. Cardinality({r.id : r \in att}) = Cardinality(att)
        BY <3>5, IdsCount
      <3> QED
        BY <3>4, <3>5, <3>6, <3>7, <3>8
    <2> QED
      BY <1>2, <1>10, <2>2, <2>3
  <1> QED
    BY <1>3, <1>5, <1>12, <1>13, <1>14, <1>15, <1>16, <1>17, AskedKept, SpannedKept DEF ThreadOK

(* The end of process_vfabric. *)
LEMMA PopulateVfabricProtocolInformationOK ==
    ASSUME Wide, NEW t \in Threads, ThreadOK(t), Steady(t),
           PopulateVfabricProtocolInformation(t)
    PROVE  ThreadOK(t)'
  <1>1. PICK s, n : s = serving[t] /\ n = serving'[t]
    OBVIOUS
  <1>2. /\ s.pc = "ids"
        /\ NextRow(Attached(s.row.id), s.inner) = {}
        /\ n = IF s.row.protocol \in {VFM_PROTOCOL_EN, VFM_PROTOCOL_FC}
                 THEN Entered(s) ELSE [s EXCEPT !.pc = "row"]
    BY <1>1, StepFacts DEF PopulateVfabricProtocolInformation, At
  <1>3. DOMAIN s = Fields
    BY <1>1 DEF ThreadOK, QueryOK
  <1>4. CASE s.row.protocol \in {VFM_PROTOCOL_EN, VFM_PROTOCOL_FC}
    <2>1. PICK e : e = [row |-> s.row, ids |-> s.ids]
      OBVIOUS
    <2>2. Resumed(n, s) /\ n.entries = Append(s.entries, e) /\ n.size = EntrySize(s.size, e)
      BY <1>2, <1>3, <1>4, <2>1 DEF Entered, Resumed, Fields, EntrySize
    <2> QED
      BY <1>1, <1>2, <2>1, <2>2, EnteredOK
  <1>5. CASE s.row.protocol \notin {VFM_PROTOCOL_EN, VFM_PROTOCOL_FC}
    <2>1. Resumed(n, s) /\ n.entries = s.entries /\ n.size = s.size
      BY <1>2, <1>3, <1>5 DEF Resumed, Fields
    <2> QED
      BY <1>1, <1>2, <1>5, <2>1, SkippedOK
  <1> QED
    BY <1>4, <1>5

(* The modules that are gathered are modules of bridges. *)
LEMMA GatewayModulesFacts ==
    ASSUME TablesOK, NEW guid
    PROVE  GatewayModules(guid) \in Seq(Modules)
  <1>1. PICK rows : rows = {row \in vfm_bridge_device : guid = 0 \/ row.id = guid}
    OBVIOUS
  <1>2. rows \in SUBSET vfm_bridge_device /\ IsTable(vfm_bridge_device, BridgeColumns)
    BY <1>1 DEF TablesOK
  <1>3. PICK k, of : k \in Nat /\ of = InOrder(rows) /\ of \in [1..k -> rows]
    BY <1>2, InOrderFacts
  <1>4. PICK seqs : seqs = [i \in DOMAIN of |-> of[i].gw_modules]
    OBVIOUS
  <1>5. ASSUME NEW row \in rows
        PROVE  row.gw_modules \in Seq(Modules)
    <2>1. row.gw_modules \in Seq(ToSet(row.gw_modules))
      BY <1>2 DEF TablesOK
    <2>2. ToSet(row.gw_modules) \subseteq Modules
      BY <1>2 DEF Modules
    <2> QED
      BY <2>1, <2>2, SeqMonotonic
  <1>6. seqs \in Seq(Seq(Modules))
    <2>1. seqs \in [1..k -> Seq(Modules)]
      BY <1>3, <1>4, <1>5
    <2> QED
      BY <1>3, <2>1, SeqDef
  <1>7. GatewayModules(guid) = FlattenSeq(seqs)
    BY <1>1, <1>3, <1>4 DEF GatewayModules
  <1> QED
    BY <1>6, <1>7, FlattenSeqType

(* The bridges and their modules are entered. *)
LEMMA PopulateBridgeInformationOK ==
    ASSUME Wide, NEW t \in Threads, ThreadOK(t), Steady(t), PopulateBridgeInformation(t)
    PROVE  ThreadOK(t)'
  <1>1. PICK s, n : s = serving[t] /\ n = serving'[t]
    OBVIOUS
  <1>2. PICK rows : rows = InOrder(Selected(t))
    OBVIOUS
  <1>3. PICK entries :
            entries = [i \in DOMAIN rows |->
                         [row |-> Structure(rows[i]), ids |-> GatewayModules(rows[i].id)]]
    OBVIOUS
  <1>4. /\ s.pc = "bridges"
         /\ Step(t, [s EXCEPT !.pc = "reply", !.entries = entries,
                              !.size = BridgeDataSize(entries)])
    BY <1>1, <1>2, <1>3 DEF PopulateBridgeInformation, At
  <1>5. n = [s EXCEPT !.pc = "reply", !.entries = entries,
                       !.size = BridgeDataSize(entries)]
    BY <1>1, <1>4, StepFacts
  <1>6. QueryOK(t) /\ Spanned(t) /\ Roomy(t) /\ Serving(t)
    BY <1>1, <1>4 DEF ThreadOK, Serving
  <1>7. DOMAIN s = Fields /\ s.kind = "bridge" /\ s.cursor \in Nat
    BY <1>1, <1>4, <1>6 DEF QueryOK
  <1>8. /\ DOMAIN n = Fields /\ n.pc = "reply" /\ n.kind = "bridge"
        /\ n.bits = s.bits /\ n.attr = s.attr /\ n.cursor = s.cursor
        /\ n.entries = entries /\ n.size = BridgeDataSize(entries)
        /\ n.overrun = s.overrun /\ n.shifted = s.shifted /\ n.kind = s.kind
    BY <1>5, <1>7 DEF Fields
  <1>9. Serving(t)' /\ SameQuery(serving'[t], serving[t])
    BY <1>1, <1>7, <1>8 DEF Serving, SameQuery
  <1>10. /\ \A kind : Cells(kind)' = Cells(kind)
        /\ Undisturbed(t)' = Undisturbed(t)
        /\ span'[t] = span[t]
    BY SteadyFacts DEF Steady
  <1>11. /\ Selected(t) \in SUBSET vfm_bridge_device
        /\ IsTable(vfm_bridge_device, BridgeColumns)
    BY <1>1, <1>6, <1>7, SelectedFacts DEF Wide, TablesOK, QueryOK
  <1>12. PICK k \in Nat : /\ rows \in [1..k -> Selected(t)]
                         /\ \A row \in Selected(t) : \E i \in 1..k : rows[i] = row
    BY <1>2, <1>11, InOrderFacts
  <1>13. /\ \A row \in OfKind("bridge", span[t].kept) :
               Where("bridge", s.bits, s.attr, row) => row \in Selected(t)
         /\ \A row \in Selected(t) :
               /\ row \in OfKind("bridge", span[t].ever)
               /\ row \in span[t].ever
               /\ Where("bridge", s.bits, s.attr, row)
    BY <1>1, <1>6, <1>7, KeptSelected DEF Wide
  <1>14. PICK R, C : R = Structures(span[t].ever) /\ C = Modules
    OBVIOUS
  <1>15. C = Cells("bridge")
    BY <1>14 DEF Cells
  <1>16. /\ entries \in Seq(Entry(R, C))
         /\ DOMAIN entries = 1..k
         /\ \A i \in 1..k : entries[i].row = Structure(rows[i])
    <2>1. ASSUME NEW i \in 1..k
          PROVE  [row |-> Structure(rows[i]), ids |-> GatewayModules(rows[i].id)] \in Entry(R, C)
      <3>1. Structure(rows[i]) \in R
        BY <1>12, <1>13, <1>14 DEF Structures
      <3>2. GatewayModules(rows[i].id) \in Seq(C)
        BY <1>14, GatewayModulesFacts DEF Wide
      <3> QED
        BY <3>1, <3>2 DEF Entry
    <2>2. entries \in [1..k -> Entry(R, C)]
      BY <1>3, <1>12, <2>1
    <2>3. entries \in Seq(Entry(R, C))
      BY <2>2, SeqDef
    <2> QED
      BY <1>3, <1>12, <2>3
  <1>17. PICK size \in Nat : /\ size = BridgeDataSize(entries)
                            /\ size = Len(VfmPackData("bridge", entries))
    <2>1. Len(VfmPackData("bridge", entries)) \in Nat
      <3>1. VfmPackData("bridge", entries) \in Seq(Cell(R, C))
        BY <1>16, PackFacts
      <3> QED
        BY <3>1, LenProperties
    <2> QED
      BY <1>16, <2>1, BridgeDataSizeFacts
  <1>18. QueryOK(t)'
    <2>1. n.entries \in Seq([row : Structures(span[t].ever), ids : Seq(Cells(n.kind))])
      BY <1>8, <1>14, <1>15, <1>16 DEF Entry
    <2>2. n.size \in Nat /\ n.cursor \in Nat
      BY <1>7, <1>8, <1>17
    <2> QED
      BY <1>1, <1>8, <1>10, <2>1, <2>2 DEF QueryOK
  <1>19. Packed(t)'
    <2>1. PICK kind : kind = "bridge"
      OBVIOUS
    <2>2. Len(MarshallResponse(kind, entries, size)) = MarshalledLength(kind, size)
             <=> Len(VfmPackData(kind, entries)) = size + (IF kind = "bridge" THEN 0 ELSE 1)
      BY <1>16, MarshalledFacts
    <2>3. Len(MarshallResponse(kind, entries, size)) = MarshalledLength(kind, size)
      BY <1>17, <2>1, <2>2
    <2> QED
      BY <1>1, <1>8, <1>17, <2>1, <2>3 DEF Packed
  <1>20. Found(t)'
    <2>1. \A i \in DOMAIN entries : rows[i] \in Selected(t)
      BY <1>12, <1>16
    <2>2. \A i \in DOMAIN entries :
             Matches(entries[i].row, "bridge", s.bits, s.attr, span[t].ever)
      BY <1>13, <1>16, <2>1 DEF Matches
    <2> QED
      BY <1>1, <1>8, <1>10, <2>2 DEF Found
  <1>21. Complete(t)'
    <2>1. ASSUME NEW row \in Selected(t)
          PROVE  \E i \in DOMAIN entries : entries[i].row.id = row.id
      <3>1. row.id \in Nat /\ "id" \in DOMAIN row
        BY <1>11 DEF IsTable, BridgeColumns
      <3>2. PICK i \in 1..k : rows[i] = row
        BY <1>12
      <3>3. entries[i].row = Structure(row)
        BY <1>16, <3>2
      <3> QED
        BY <1>16, <3>1, <3>3, StructureId
    <2> QED
      BY <1>1, <1>8, <1>10, <1>13, <2>1 DEF Complete
  <1>22. Roomy(t)'
    BY <1>1, <1>6, <1>8, <1>10 DEF Roomy
  <1>23. Listed(t)'
    BY <1>1, <1>8 DEF Listed
  <1> QED
    BY <1>6, <1>9, <1>18, <1>19, <1>20, <1>21, <1>22, <1>23, AskedKept, SpannedKept DEF ThreadOK

(* What a statement that failed leaves alone. *)
Failing(n, s) ==
    /\ DOMAIN n = Fields /\ n.failed
    /\ n.kind = s.kind /\ n.bits = s.bits /\ n.attr = s.attr
    /\ n.shifted = s.shifted /\ n.overrun = s.overrun
    /\ n.cursor = s.cursor

(* The answer is what a vadapter query has so far, or empty. *)
LEMMA CutShortOK ==
    ASSUME Wide, NEW t \in Threads, ThreadOK(t), Steady(t), Serving(t),
           serving'[t].pc = "reply", Failing(serving'[t], serving[t]),
           \/ /\ serving[t].kind = "vadapter"
              /\ serving'[t].entries = serving[t].entries
              /\ serving'[t].size = serving[t].size
           \/ /\ serving'[t].entries = <<>>
              /\ serving'[t].size = IF serving[t].kind = "bridge" THEN 1 ELSE 0
    PROVE  ThreadOK(t)'
  <1>1. PICK s, n : s = serving[t] /\ n = serving'[t]
    OBVIOUS
  <1>2. /\ n.pc = "reply" /\ Failing(n, s)
        /\ \/ s.kind = "vadapter" /\ n.entries = s.entries /\ n.size = s.size
           \/ n.entries = <<>> /\ n.size = IF s.kind = "bridge" THEN 1 ELSE 0
    BY <1>1
  <1>3. QueryOK(t) /\ Spanned(t) /\ Roomy(t) /\ Found(t) /\ Packed(t)
    BY DEF ThreadOK
  <1>4. Serving(t)' /\ SameQuery(serving'[t], serving[t])
    BY <1>1, <1>2 DEF Serving, SameQuery, Failing
  <1>5. /\ \A kind : Cells(kind)' = Cells(kind)
        /\ Undisturbed(t)' = Undisturbed(t)
        /\ span'[t] = span[t]
    BY SteadyFacts DEF Steady
  <1>6. s.kind = "vadapter" => s.pc # "bridges"
    BY <1>1, <1>3 DEF QueryOK
  <1>7. QueryOK(t)'
    <2>1. n.entries \in Seq([row : Structures(span[t].ever), ids : Seq(Cells(n.kind))])
      <3>1. CASE n.entries = s.entries
        BY <1>1, <1>2, <1>3, <3>1 DEF QueryOK, Failing
      <3>2. CASE n.entries = <<>>
        BY <3>2, EmptySeq
      <3> QED
        BY <1>2, <3>1, <3>2
    <2>2. /\ n.size \in Nat /\ n.cursor \in Nat
          /\ n.kind \in {"vadapter", "vfabric", "online", "bridge"}
      BY <1>1, <1>2, <1>3 DEF QueryOK, Failing
    <2>3. n.kind = "vadapter" => /\ n.size = 3 * Len(n.entries)
                                 /\ \A i \in DOMAIN n.entries : n.entries[i].ids = <<>>
      <3>1. CASE s.kind = "vadapter" /\ n.entries = s.entries /\ n.size = s.size
        BY <1>1, <1>3, <3>1 DEF QueryOK
      <3>2. CASE n.entries = <<>> /\ n.size = IF s.kind = "bridge" THEN 1 ELSE 0
        <4>1. Len(n.entries) = 0 /\ DOMAIN n.entries = {}
          BY <3>2, EmptySeq
        <4> QED
          BY <1>2, <3>2, <4>1 DEF Failing
      <3> QED
        BY <1>2, <3>1, <3>2
    <2> QED
      BY <1>1, <1>2, <1>5, <2>1, <2>2, <2>3 DEF QueryOK, Failing
  <1>8. Packed(t)'
    <2>1. Len(MarshallResponse(s.kind, n.entries, n.size)) = MarshalledLength(s.kind, n.size)
      <3>1. CASE s.kind = "vadapter" /\ n.entries = s.entries /\ n.size = s.size
        BY <1>1, <1>3, <1>6, <3>1 DEF Packed
      <3>2. CASE n.entries = <<>> /\ n.size = IF s.kind = "bridge" THEN 1 ELSE 0
        BY <3>2, EmptyPacked
      <3> QED
        BY <1>2, <3>1, <3>2
    <2> QED
      BY <1>1, <1>2, <2>1 DEF Packed, Failing
  <1>9. Found(t)'
    <2>1. n.entries = <<>> => DOMAIN n.entries = {}
      OBVIOUS
    <2> QED
      BY <1>1, <1>2, <1>3, <1>5, <2>1 DEF Found, Failing
  <1>10. Complete(t)'
    BY <1>1, <1>2 DEF Complete, Failing
  <1>11. Roomy(t)'
    BY <1>1, <1>2, <1>3, <1>5 DEF Roomy, Failing
  <1>12. Listed(t)'
    <2>1. s.kind = "vfabric" => DOMAIN n.entries = {}
      BY <1>2
    <2> QED
      BY <1>1, <1>2, <2>1 DEF Listed, Failing
  <1> QED
    BY <1>3, <1>4, <1>7, <1>8, <1>9, <1>10, <1>11, <1>12, AskedKept, SpannedKept DEF ThreadOK

(* A statement fails. *)
LEMMA StatementFailsOK ==
    ASSUME Wide, NEW t \in Threads, ThreadOK(t), Steady(t), StatementFails(t)
    PROVE  ThreadOK(t)'
  <1>1. PICK s, n, f : s = serving[t] /\ n = serving'[t] /\ f = [s EXCEPT !.failed = TRUE]
    OBVIOUS
  <1>2. DOMAIN s = Fields
    BY <1>1 DEF ThreadOK, QueryOK
  <1>3. /\ DOMAIN f = Fields /\ f.pc = s.pc /\ f.failed = TRUE /\ f.kind = s.kind
        /\ f.bits = s.bits /\ f.attr = s.attr /\ f.room = s.room
        /\ f.shifted = s.shifted /\ f.overrun = s.overrun /\ f.cursor = s.cursor
        /\ f.entries = s.entries /\ f.size = s.size /\ f.row = s.row /\ f.ids = s.ids
    BY <1>1, <1>2 DEF Fields
  <1>4. s.pc \in {"count", "row", "ids", "bridges"} /\ Serving(t)
    BY <1>1 DEF StatementFails, Serving
  <1>5. \/ s.pc = "row" /\ s.kind = "vadapter" /\ n = [f EXCEPT !.pc = "reply"]
        \/ n = [f EXCEPT !.pc = "reply", !.entries = <<>>,
                         !.size = IF f.kind = "bridge" THEN 1 ELSE 0]
        \/ s.pc = "ids" /\ n = [f EXCEPT !.pc = "row"]
        \/ s.pc = "ids" /\ n = Entered(f)
    BY <1>1, <1>3, StepFacts DEF StatementFails
  <1>6. CASE s.pc = "row" /\ s.kind = "vadapter" /\ n = [f EXCEPT !.pc = "reply"]
    <2>1. Failing(n, s) /\ n.pc = "reply" /\ n.entries = s.entries /\ n.size = s.size
      BY <1>3, <1>6 DEF Failing, Fields
    <2> QED
      BY <1>1, <1>4, <1>6, <2>1, CutShortOK
  <1>7. CASE n = [f EXCEPT !.pc = "reply", !.entries = <<>>,
                           !.size = IF f.kind = "bridge" THEN 1 ELSE 0]
    <2>1. /\ Failing(n, s) /\ n.pc = "reply" /\ n.entries = <<>>
          /\ n.size = IF s.kind = "bridge" THEN 1 ELSE 0
      BY <1>3, <1>7 DEF Failing, Fields
    <2> QED
      BY <1>1, <1>4, <2>1, CutShortOK
  <1>8. CASE s.pc = "ids" /\ n = [f EXCEPT !.pc = "row"]
    <2>1. Resumed(n, s) /\ n.entries = s.entries /\ n.size = s.size /\ n.failed
      BY <1>3, <1>8 DEF Resumed, Fields
    <2> QED
      BY <1>1, <1>8, <2>1, SkippedOK
  <1>9. CASE s.pc = "ids" /\ n = Entered(f)
    <2>1. PICK e : e = [row |-> s.row, ids |-> s.ids]
      OBVIOUS
    <2>2. /\ Resumed(n, s) /\ n.entries = Append(s.entries, e)
          /\ n.size = EntrySize(s.size, e) /\ n.failed
      BY <1>3, <1>9, <2>1 DEF Entered, Resumed, Fields, EntrySize
    <2> QED
      BY <1>1, <1>9, <2>1, <2>2, EnteredOK
  <1> QED
    BY <1>5, <1>6, <1>7, <1>8, <1>9

-----------------------------------------------------------------------------
(* What a program is told. *)

(* A vfabric call that raises nothing has read every key. *)
LEMMA AllRead ==
    ASSUME NEW arg, ~Raised("vfabric", arg)
    PROVE  DOMAIN arg.dict \cap ToSet(VfabricKeys) \subseteq KeysRead("vfabric", arg.dict)
  <1>1. UnreadableAt("vfabric", arg.dict) = {}
    BY DEF Raised, ParseRaises
  <1>2. Keys("vfabric") = VfabricKeys
    BY DEF Keys
  <1>3. \A i \in DOMAIN VfabricKeys : VfabricKeys[i] \in DOMAIN arg.dict =>
           VfabricKeys[i] \in KeysRead("vfabric", arg.dict)
    BY <1>1, <1>2 DEF KeysRead
  <1> QED
    BY <1>3 DEF ToSet

(* What an exception says. *)
Telling(op, arg, result, exception) ==
    /\ result = Null => exception
    /\ exception /\ result # Null =>
          \/ Raised(op, arg) /\ op \in {"vadapter", "vfabric", "bridge"}
          \/ ~arg.isdict
    /\ ~exception /\ op = "vfabric" => ~Raised("vfabric", arg)

(* Such an answer is one that ExceptionExplained allows. *)
LEMMA TellingExplains ==
    ASSUME NEW t \in Threads, NEW op, NEW arg, NEW result, NEW exception,
           Telling(op, arg, result, exception),
           program'[t] = Returned(op, arg, result, exception)
    PROVE  ExplainedFor(t)'
  <1>1. /\ program'[t].op = op /\ program'[t].arg = arg /\ program'[t].result = result
        /\ program'[t].exception = exception
    BY DEF Returned
  <1>2. Raised(op, arg) => ~arg.isdict \/ (op = "vfabric" /\ UnreadableAt(op, arg.dict) # {})
    BY DEF Raised, ParseRaises
  <1>3. ~exception /\ op = "vfabric" =>
           DOMAIN arg.dict \cap ToSet(VfabricKeys) \subseteq KeysRead(op, arg.dict)
    BY AllRead DEF Telling
  <1> QED
    BY <1>1, <1>2, <1>3 DEF ExplainedFor, Telling

Columns(kind) == CASE kind = "vadapter" -> VadapterColumns
                   [] kind = "vfabric" -> VfabricColumns
                   [] kind = "bridge" -> BridgeColumns

(* No parser looks for what is in no dictionary. *)
LEMMA KeysReadFacts ==
    ASSUME NEW kind \in {"vadapter", "vfabric", "bridge"}, NEW dict
    PROVE  /\ KeysRead("vadapter", dict) \subseteq {"id", "protocol", "running_mode", "vfabric_id"}
           /\ KeysRead("vfabric", dict) \subseteq
                 {"id", "protocol", "running_mode", "primary_gateway", "backup_gateway",
                  "auto_failover"}
           /\ KeysRead("bridge", dict) \subseteq {"id", "running_mode", "vfm_guid"}
  BY DEF KeysRead, Keys, VadapterKeys, VfabricKeys, BridgeKeys

(* The where clause of a query, and the dictionary that was passed. *)
LEMMA WhereHas ==
    ASSUME NEW kind \in {"vadapter", "vfabric", "bridge"}, NEW arg, NEW attr, NEW row,
           DOMAIN row = Columns(kind),
           \A c \in Bits(kind, arg) : attr[c] = arg.dict[c],
           Where(kind, Bits(kind, arg), attr, row)
    PROVE  \A key \in Restricted(kind, row) \cap KeysRead(kind, arg.dict) :
              row[key] = arg.dict[key]
  <1>1. PICK read : read = KeysRead(kind, arg.dict)
    OBVIOUS
  <1>2. Bits(kind, arg) = read \ {"auto_failover"}
    BY <1>1 DEF Bits
  <1>3. SUFFICES ASSUME NEW key \in Restricted(kind, row), key \in read
                 PROVE  row[key] = arg.dict[key]
    BY <1>1
  <1>4. CASE kind = "vadapter"
    <2>1. key \in {"id", "protocol", "vfabric_id"}
      BY <1>3, <1>4 DEF Restricted, Columns, VadapterColumns
    <2> QED
      BY <1>2, <1>3, <1>4, <2>1 DEF Where, VadapterWhere, Equals
  <1>5. CASE kind = "vfabric"
    <2>1. key \in {"id", "primary_gateway"}
      BY <1>3, <1>5 DEF Restricted, Columns, VfabricColumns
    <2> QED
      BY <1>2, <1>3, <1>5, <2>1 DEF Where, VfabricWhere, Equals
  <1>6. CASE kind = "bridge"
    <2>1. key \in {"id", "vfm_guid"}
      BY <1>1, <1>3, <1>6, KeysReadFacts DEF Restricted, Columns, BridgeColumns
    <2> QED
      BY <1>2, <1>3, <1>6, <2>1 DEF Where, BridgeWhere, Equals
  <1> QED
    BY <1>4, <1>5, <1>6

(* The converse, but for what the where clauses cannot find. *)
LEMMA HasWhere ==
    ASSUME NEW kind \in {"vadapter", "vfabric", "bridge"}, NEW arg, NEW attr, NEW row,
           DOMAIN row = Columns(kind),
           \A c \in Bits(kind, arg) : attr[c] = arg.dict[c],
           \A key \in DOMAIN row \cap KeysRead(kind, arg.dict) :
              Structure(row)[key] = arg.dict[key],
           \A key \in DOMAIN row \cap KeysRead(kind, arg.dict) :
              \/ key = "backup_gateway" /\ "primary_gateway" \notin KeysRead(kind, arg.dict)
              \/ row[key] # NULL,
           kind = "bridge" =>
              ("vfm_guid" \in KeysRead(kind, arg.dict) => "id" \in KeysRead(kind, arg.dict)),
           kind = "vfabric" =>
              ("primary_gateway" \in KeysRead(kind, arg.dict) =>
                  "backup_gateway" \in KeysRead(kind, arg.dict))
    PROVE  Where(kind, Bits(kind, arg), attr, row)
  <1>1. PICK read : read = KeysRead(kind, arg.dict)
    OBVIOUS
  <1>2. Bits(kind, arg) = read \ {"auto_failover"}
    BY <1>1 DEF Bits
  <1>3. \A c \in DOMAIN row :
           /\ c \in read /\ c # "auto_failover"
           /\ ~(c = "backup_gateway" /\ "primary_gateway" \notin read)
           => Equals(row[c], attr[c])
    BY <1>1, <1>2 DEF Structure, Equals
  <1>4. CASE kind = "vadapter"
    BY <1>2, <1>3, <1>4 DEF Where, VadapterWhere, Columns, VadapterColumns, Equals
  <1>5. CASE kind = "vfabric"
    BY <1>1, <1>2, <1>3, <1>5 DEF Where, VfabricWhere, Columns, VfabricColumns, Equals
  <1>6. CASE kind = "bridge"
    BY <1>1, <1>2, <1>3, <1>6 DEF Where, BridgeWhere, Columns, BridgeColumns, Equals
  <1> QED
    BY <1>4, <1>5, <1>6

(* A row of a kind has its columns. *)
LEMMA ColumnsOfKind ==
    ASSUME NEW kind \in {"vadapter", "vfabric", "bridge"}, NEW rows,
           \A row \in rows : DOMAIN row \in {VadapterColumns, VfabricColumns, BridgeColumns},
           NEW row \in OfKind(kind, rows)
    PROVE  DOMAIN row = Columns(kind)
  BY DEF OfKind, Columns, VadapterColumns, VfabricColumns, BridgeColumns

(* A thread whose query is over. *)
LEMMA DoneOK ==
    ASSUME NEW t \in Threads, ThreadOK(t), serving[t].pc = "reply", UNCHANGED tables,
           span'[t] = span[t], serving'[t] = [serving[t] EXCEPT !.pc = "done"]
    PROVE  ThreadOK(t)'
  <1>1. PICK s, n : s = serving[t] /\ n = serving'[t]
    OBVIOUS
  <1>2. QueryOK(t) /\ Packed(t) /\ Roomy(t)
    BY DEF ThreadOK
  <1>3. DOMAIN s = Fields /\ s.pc = "reply" /\ n = [s EXCEPT !.pc = "done"]
    BY <1>1, <1>2 DEF QueryOK
  <1>4. /\ DOMAIN n = Fields /\ n.pc = "done"
        /\ n.kind = s.kind /\ n.bits = s.bits /\ n.attr = s.attr
        /\ n.entries = s.entries /\ n.cursor = s.cursor /\ n.size = s.size
        /\ n.shifted = s.shifted /\ n.overrun = s.overrun /\ n.failed = s.failed
    BY <1>3 DEF Fields
  <1>5. ~Serving(t)'
    BY <1>1, <1>4 DEF Serving
  <1>6. /\ \A kind : Cells(kind)' = Cells(kind)
        /\ Undisturbed(t)' = Undisturbed(t)
    BY SameSelects DEF Cells, Undisturbed
  <1>7. QueryOK(t)'
    <2>1. n.entries \in Seq([row : Structures(span[t].ever), ids : Seq(Cells(n.kind))])
      BY <1>1, <1>2, <1>4 DEF QueryOK
    <2>2. n.size \in Nat /\ n.cursor \in Nat
          /\ n.kind \in {"vadapter", "vfabric", "online", "bridge"}
      BY <1>1, <1>2, <1>4 DEF QueryOK
    <2>3. n.kind = "vadapter" => /\ n.size = 3 * Len(n.entries)
                                 /\ \A i \in DOMAIN n.entries : n.entries[i].ids = <<>>
      BY <1>1, <1>2, <1>4 DEF QueryOK
    <2> QED
      BY <1>1, <1>4, <1>6, <2>1, <2>2, <2>3 DEF QueryOK
  <1>8. Packed(t)'
    BY <1>1, <1>2, <1>3, <1>4 DEF Packed
  <1>9. Roomy(t)'
    BY <1>1, <1>2, <1>4, <1>6 DEF Roomy
  <1> QED
    BY <1>5, <1>7, <1>8, <1>9 DEF ThreadOK, Asked, Spanned, Found, Complete, Listed

(* The structure is that of a row that has what was asked for. *)
Exhibits(t, structure) ==
    \E row \in OfKind(serving[t].kind, span[t].ever) :
       /\ structure = Structure(row)
       /\ Has(t, row, Restricted(serving[t].kind, row))

(* What an inventory query has found when it replies. *)
LEMMA RepliesExactly ==
    ASSUME Wide, NEW t \in Threads, ThreadOK(t), serving[t].pc = "reply",
           serving[t].kind # "online", ~serving[t].failed
    PROVE  /\ \A i \in DOMAIN serving[t].entries :
                 Exhibits(t, serving[t].entries[i].row)
           /\ \A row \in OfKind(serving[t].kind, span[t].kept) :
                 Has(t, Structure(row), DOMAIN row) /\ ~Unfindable(t, row) =>
                    \E i \in DOMAIN serving[t].entries :
                       serving[t].entries[i].row.id = row.id
  <1>1. PICK s, arg, read : /\ s = serving[t] /\ arg = program[t].arg
                            /\ read = KeysRead(s.kind, arg.dict)
    OBVIOUS
  <1>2. s.pc = "reply" /\ s.kind \in {"vadapter", "vfabric", "bridge"} /\ ~s.failed /\ Serving(t)
    BY <1>1 DEF ThreadOK, QueryOK, Serving
  <1>3. /\ s.bits = Bits(s.kind, arg)
        /\ \A c \in Bits(s.kind, arg) : s.attr[c] = arg.dict[c]
    BY <1>1, <1>2 DEF ThreadOK, Asked
  <1>4. /\ \A row \in span[t].ever :
              DOMAIN row \in {VadapterColumns, VfabricColumns, BridgeColumns}
        /\ span[t].kept \subseteq span[t].ever
    BY <1>2 DEF ThreadOK, Spanned
  <1>5. ASSUME NEW i \in DOMAIN s.entries
        PROVE  Exhibits(t, s.entries[i].row)
    <2>1. Matches(s.entries[i].row, s.kind, s.bits, s.attr, span[t].ever)
      BY <1>1, <1>2, <1>5 DEF ThreadOK, Found
    <2>2. PICK row \in OfKind(s.kind, span[t].ever) :
             /\ s.entries[i].row = Structure(row)
             /\ Where(s.kind, s.bits, s.attr, row)
      BY <2>1 DEF Matches
    <2>3. DOMAIN row = Columns(s.kind)
      BY <1>2, <1>4, <2>2, ColumnsOfKind
    <2>4. \A key \in Restricted(s.kind, row) \cap KeysRead(s.kind, arg.dict) :
             row[key] = arg.dict[key]
      BY <1>2, <1>3, <2>2, <2>3, WhereHas
    <2> QED
      BY <1>1, <2>2, <2>4 DEF Has, Exhibits
  <1>6. ASSUME NEW row \in OfKind(s.kind, span[t].kept),
               Has(t, Structure(row), DOMAIN row), ~Unfindable(t, row)
        PROVE  \E i \in DOMAIN s.entries : s.entries[i].row.id = row.id
    <2>1. row \in OfKind(s.kind, span[t].ever)
      BY <1>4, OfKindMonotone
    <2>2. DOMAIN row = Columns(s.kind)
      BY <1>2, <1>4, <2>1, ColumnsOfKind
    <2>3. /\ \A key \in DOMAIN row \cap read : Structure(row)[key] = arg.dict[key]
          /\ \A key \in DOMAIN row \cap read :
                \/ key = "backup_gateway" /\ "primary_gateway" \notin read
                \/ row[key] # NULL
          /\ s.kind = "bridge" => ("vfm_guid" \in read => "id" \in read)
          /\ s.kind = "vfabric" => ("primary_gateway" \in read => "backup_gateway" \in read)
          /\ ~(s.kind = "vfabric" /\ row.protocol \notin {VFM_PROTOCOL_EN, VFM_PROTOCOL_FC})
      BY <1>1, <1>6 DEF Has, Unfindable
    <2>4. Where(s.kind, s.bits, s.attr, row)
      BY <1>1, <1>2, <1>3, <2>2, <2>3, HasWhere
    <2> QED
      BY <1>1, <1>2, <2>3, <2>4 DEF ThreadOK, Complete
  <1> QED
    BY <1>1, <1>5, <1>6

(* The ids that an entry of a vfabric has by then. *)
LEMMA RepliesIds ==
    ASSUME Wide, NEW t \in Threads, ThreadOK(t), serving[t].pc = "reply",
           serving[t].kind = "vfabric", ~serving[t].failed,
           NEW i \in DOMAIN serving[t].entries, NEW ids, NEW id,
           ids = serving[t].entries[i].ids, id = serving[t].entries[i].row.id
    PROVE  /\ ToSet(ids) \subseteq IdsIn(span[t].ever, id) \cup {Unset}
           /\ Unset \in ToSet(ids) => ~Undisturbed(t) \/ serving[t].shifted
           /\ Undisturbed(t) /\ ~serving[t].shifted =>
                 /\ ToSet(ids) = IdsIn(span[t].kept, id)
                 /\ Len(ids) = Cardinality(ToSet(ids))
  <1>1. Serving(t)
    BY DEF Serving
  <1>2. Lists(t, ids, id)
    BY <1>1 DEF ThreadOK, Listed
  <1>3. Undisturbed(t) => Unset \notin IdsIn(span[t].kept, id)
    <2>1. Undisturbed(t) => IdsIn(span[t].kept, id) = {row.id : row \in Attached(id)}
      BY <1>1, AttachedFacts DEF ThreadOK, Wide
    <2>2. \A row \in Attached(id) : row.id \in Nat
      BY DEF Wide, TablesOK, IsTable, Attached
    <2> QED
      BY <2>1, <2>2, UnsetAssumption
  <1> QED
    BY <1>2, <1>3 DEF Lists

(* An inventory call returns: the client takes out of the message the      *)
(* entries that were packed, and shows them by id.                         *)
LEMMA InventoryReturnsOK ==
    ASSUME Wide, NEW t \in Threads, ThreadOK(t), InventoryReturns(t)
    PROVE  ThreadOK(t)' /\ Promised(t)'
  <1>1. PICK s, n, p, q : /\ s = serving[t] /\ n = serving'[t]
                          /\ p = program[t] /\ q = program'[t]
    OBVIOUS
  <1>2. s.pc = "reply" /\ s.kind # "online" /\ UNCHANGED <<tables, span>>
    BY <1>1 DEF InventoryReturns, At, Unwritten
  <1>3. DOMAIN s = Fields /\ s.kind \in {"vadapter", "vfabric", "bridge"}
    BY <1>1, <1>2 DEF ThreadOK, QueryOK
  <1>4. n = [s EXCEPT !.pc = "done"]
    BY <1>1 DEF InventoryReturns, Wide
  <1>5. /\ n.pc = "done" /\ n.kind = s.kind /\ n.shifted = s.shifted
        /\ n.overrun = s.overrun /\ n.failed = s.failed
    BY <1>3, <1>4 DEF Fields
  <1>6. ThreadOK(t)'
    BY <1>1, <1>2, <1>4, DoneOK
  <1>7. PICK R, C, size : /\ R = Structures(span[t].ever) /\ C = Cells(s.kind)
                          /\ size = s.size /\ size \in Nat
                          /\ s.entries \in Seq(Entry(R, C))
    <2>1. s.size \in Nat /\ s.entries \in Seq(Entry(Structures(span[t].ever), Cells(s.kind)))
      BY <1>1 DEF ThreadOK, QueryOK, Entry
    <2> QED
      BY <2>1
  <1>8. UnmarshallResponse(s.kind, MarshallResponse(s.kind, s.entries, s.size)) = s.entries
    <2>1. Len(MarshallResponse(s.kind, s.entries, size)) = MarshalledLength(s.kind, size)
      BY <1>1, <1>2, <1>7 DEF ThreadOK, Packed
    <2>2. UnmarshallResponse(s.kind, MarshallResponse(s.kind, s.entries, size)) = s.entries
      BY <1>7, <2>1, RoundTrip
    <2> QED
      BY <1>7, <2>2
  <1>9. PICK D, result, exception :
           /\ D = ResultDictionary(s.kind, s.entries)
           /\ result = IF s.entries = <<>> THEN Null ELSE [dictionary |-> D]
           /\ exception = (s.entries = <<>> \/ Raised(p.op, p.arg))
    OBVIOUS
  <1>10. q = Returned(p.op, p.arg, result, exception)
    BY <1>1, <1>8, <1>9 DEF InventoryReturns, Wide
  <1>11. /\ q.arg = p.arg /\ q.result = result /\ q.op = p.op /\ q.exception = exception
         /\ q.pc = "returned"
    BY <1>10 DEF Returned
  <1>12. p.op = s.kind
    BY <1>1, <1>2 DEF ThreadOK, Asked, Serving
  <1>13. DOMAIN s.entries = 1..Len(s.entries)
    BY <1>7, LenProperties
  <1>14. Result(t)' = IF s.entries = <<>> THEN <<>> ELSE D
    <2>1. s.entries # <<>> => result # Null /\ result.dictionary = D
      BY <1>9 DEF Null
    <2> QED
      BY <1>1, <1>9, <1>11, <2>1 DEF Result
  <1>15. ASSUME NEW id \in DOMAIN Result(t)'
         PROVE  \E i \in DOMAIN s.entries :
                   /\ s.entries[i].row.id = id
                   /\ Shows(s.kind, (Result(t)')[id], s.entries[i])
    <2>1. s.entries # <<>>
      BY <1>14, <1>15
    <2>2. Result(t)' = D
      BY <1>14, <2>1
    <2> QED
      <3>1. PICK X, kind, entries : X = Entry(R, C) /\ kind = s.kind /\ entries = s.entries
        OBVIOUS
      <3>2. id \in DOMAIN ResultDictionary(kind, entries)
        BY <1>9, <1>15, <2>2, <3>1
      <3>3. \E i \in 1..Len(entries) :
               /\ entries[i].row.id = id
               /\ Shows(kind, ResultDictionary(kind, entries)[id], entries[i])
        <4>1. entries \in Seq(X) /\ kind \in {"vadapter", "vfabric", "bridge"}
          BY <1>3, <1>7, <3>1
        <4> QED
          BY <3>2, <4>1, DictionaryFacts
      <3> QED
        BY <1>9, <1>13, <2>2, <3>1, <3>3
  <1>16. ASSUME NEW i \in DOMAIN s.entries
         PROVE  s.entries[i].row.id \in DOMAIN Result(t)'
    <2>1. s.entries # <<>>
      BY <1>16
    <2> QED
      BY <1>3, <1>7, <1>9, <1>13, <1>14, <1>16, <2>1, DictionaryFacts
  <1>17. ExactFor(t)'
    <2>1. SUFFICES ASSUME ~s.failed
                   PROVE  ExactFor(t)'
      BY <1>1, <1>5 DEF ExactFor, Answered
    <2>2. /\ \A i \in DOMAIN s.entries :
                Exhibits(t, s.entries[i].row)
          /\ \A row \in OfKind(s.kind, span[t].kept) :
                Has(t, Structure(row), DOMAIN row) /\ ~Unfindable(t, row) =>
                   \E i \in DOMAIN s.entries : s.entries[i].row.id = row.id
      BY <1>1, <1>2, <2>1, RepliesExactly
    <2>3. /\ \A row, keys : Has(t, row, keys)' = Has(t, row, keys)
          /\ \A row : Unfindable(t, row)' = Unfindable(t, row)
      BY <1>1, <1>5, <1>11 DEF Has, Unfindable
    <2>4. ASSUME NEW id \in DOMAIN Result(t)'
          PROVE  /\ (Result(t)')[id].row.id = id
                 /\ Exhibits(t, (Result(t)')[id].row)
      <3>1. PICK i \in DOMAIN s.entries :
               /\ s.entries[i].row.id = id
               /\ (Result(t)')[id].row = s.entries[i].row
        BY <1>15, <2>4 DEF Shows
      <3> QED
        BY <2>2, <3>1
    <2>5. ASSUME NEW row \in OfKind(s.kind, span[t].kept),
                 Has(t, Structure(row), DOMAIN row), ~Unfindable(t, row)
          PROVE  row.id \in DOMAIN Result(t)'
      BY <1>16, <2>2, <2>5
    <2> QED
      BY <1>1, <1>2, <1>5, <2>3, <2>4, <2>5 DEF ExactFor, Exhibits
  <1>18. AttachedFor(t)'
    <2>1. SUFFICES ASSUME ~s.failed, s.kind = "vfabric", NEW id \in DOMAIN Result(t)',
                          NEW listed, listed = (Result(t)')[id].vadapter_id
                   PROVE  /\ ToSet(listed) \subseteq IdsIn(span[t].ever, id) \cup {Unset}
                          /\ Unset \in ToSet(listed) => ~Undisturbed(t) \/ s.shifted
                          /\ Undisturbed(t) /\ ~s.shifted =>
                                /\ ToSet(listed) = IdsIn(span[t].kept, id)
                                /\ Len(listed) = Cardinality(ToSet(listed))
      BY <1>1, <1>2, <1>5 DEF AttachedFor, Answered, Undisturbed
    <2>2. PICK i \in DOMAIN s.entries :
             s.entries[i].row.id = id /\ listed = s.entries[i].ids
      BY <1>15, <2>1 DEF Shows
    <2> QED
      BY <1>1, <1>2, <2>1, <2>2, RepliesIds
  <1>19. ExplainedFor(t)'
    <2>1. Telling(p.op, p.arg, result, exception)
      BY <1>3, <1>9, <1>12 DEF Telling, Null
    <2> QED
      BY <1>9, <1>11, <2>1, <1>10, <1>1, TellingExplains
  <1> QED
    BY <1>6, <1>17, <1>18, <1>19 DEF Promised

(* A dictionary is not NULL. *)
LEMMA IdIsNoNull ==
    ASSUME NEW id
    PROVE  IdDictionary(id) # Null
  <1>1. DOMAIN IdDictionary(id) = {"id"} /\ DOMAIN Null = {"null"}
    BY DEF IdDictionary, Null
  <1> QED
    BY <1>1

(* An online call returns. *)
LEMMA VadapterOnlineReturnsOK ==
    ASSUME Wide, NEW t \in Threads, ThreadOK(t), VadapterOnlineReturns(t)
    PROVE  ThreadOK(t)' /\ Promised(t)'
  <1>1. PICK s, n, p, q : /\ s = serving[t] /\ n = serving'[t]
                          /\ p = program[t] /\ q = program'[t]
    OBVIOUS
  <1>2. s.pc = "reply" /\ s.kind = "online" /\ UNCHANGED <<tables, span>>
    BY <1>1 DEF VadapterOnlineReturns, At, Unwritten
  <1>3. DOMAIN s = Fields
    BY <1>1, <1>2 DEF ThreadOK, QueryOK
  <1>4. n = [s EXCEPT !.pc = "done"]
    BY <1>1 DEF VadapterOnlineReturns, Wide
  <1>5. n.kind = "online"
    BY <1>2, <1>3, <1>4 DEF Fields
  <1>6. ThreadOK(t)'
    BY <1>1, <1>2, <1>4, DoneOK
  <1>7. p.op = "online"
    BY <1>1, <1>2 DEF ThreadOK, Asked, Serving
  <1>8. PICK result, exception :
           /\ result = IdDictionary(IdGiven(p.arg)) /\ exception = ~p.arg.isdict
           /\ q = Returned(p.op, p.arg, result, exception)
    BY <1>1 DEF VadapterOnlineReturns, Wide
  <1>9. Telling(p.op, p.arg, result, exception)
    BY <1>7, <1>8, IdIsNoNull DEF Telling
  <1>10. ExplainedFor(t)'
    BY <1>1, <1>8, <1>9, TellingExplains
  <1>11. ~Answered(t)'
    BY <1>1, <1>5 DEF Answered
  <1> QED
    BY <1>6, <1>10, <1>11 DEF Promised, ExactFor, AttachedFor

(* A call that is answered at once. *)
LEMMA AnswerFacts ==
    ASSUME Wide, NEW t \in Threads, NEW op, NEW arg, NEW result, NEW exception,
           Telling(op, arg, result, exception),
           Answer(t, Returned(op, arg, result, exception))
    PROVE  /\ Good(t)'
           /\ DOMAIN serving' = Threads /\ DOMAIN program' = Threads
           /\ \A u \in Threads : u # t =>
                 serving'[u] = serving[u] /\ program'[u] = program[u]
  <1>1. /\ DOMAIN serving' = Threads /\ DOMAIN program' = Threads
        /\ \A u \in Threads : u # t =>
              serving'[u] = serving[u] /\ program'[u] = program[u]
        /\ serving'[t] = Idle
        /\ program'[t] = Returned(op, arg, result, exception)
    BY DEF Answer, Wide
  <1>2. ExplainedFor(t)'
    BY <1>1, TellingExplains
  <1>3. serving'[t].pc = "idle"
    BY <1>1 DEF Idle
  <1>4. ~Answered(t)'
    BY <1>3 DEF Answered
  <1> QED
    BY <1>1, <1>2, <1>3, <1>4 DEF Good, Promised, ExactFor, AttachedFor

(* A step that writes nothing keeps the tables. *)
LEMMA UnwrittenWide ==
    ASSUME Wide, UNCHANGED tables, span' = span,
           DOMAIN serving' = Threads, DOMAIN program' = Threads
    PROVE  Wide'
  BY SameTables DEF Wide

(* A call that is answered at once and writes nothing. *)
LEMMA QuietAnswer ==
    ASSUME Wide, \A u \in Threads : Good(u), NEW t \in Threads,
           NEW op, NEW arg, NEW result, NEW exception,
           Telling(op, arg, result, exception),
           Answer(t, Returned(op, arg, result, exception)), Unwritten
    PROVE  Wide' /\ \A u \in Threads : Good(u)'
  <1>1. /\ Good(t)'
        /\ DOMAIN serving' = Threads /\ DOMAIN program' = Threads
        /\ \A u \in Threads : u # t =>
              serving'[u] = serving[u] /\ program'[u] = program[u]
    BY AnswerFacts
  <1>2. UNCHANGED tables /\ span' = span
    BY DEF Unwritten
  <1>3. ASSUME NEW u \in Threads, u # t
        PROVE  Good(u)'
    BY <1>1, <1>2, <1>3, OthersQuiet
  <1>4. Wide'
    BY <1>1, <1>2, UnwrittenWide
  <1> QED
    BY <1>1, <1>3, <1>4

(* A call that is answered at once and writes. *)
LEMMA WriteAnswer ==
    ASSUME Wide, \A u \in Threads : Good(u), NEW t \in Threads,
           NEW op, NEW arg, NEW result, NEW exception,
           Telling(op, arg, result, exception),
           Answer(t, Returned(op, arg, result, exception)),
           NEW vadapters, NEW vfabrics, Write(vadapters, vfabrics),
           IsTable(vadapters, VadapterColumns), IsTable(vfabrics, VfabricColumns),
           \A row \in vadapters \cup vfabrics : row.id # 0
    PROVE  Wide' /\ \A u \in Threads : Good(u)'
  <1>1. /\ Good(t)'
        /\ DOMAIN serving' = Threads /\ DOMAIN program' = Threads
        /\ \A u \in Threads : u # t =>
              serving'[u] = serving[u] /\ program'[u] = program[u]
    BY AnswerFacts
  <1>2. /\ vfm_vadapter_attr' = vadapters
        /\ vfm_vfabric_attr' = vfabrics
        /\ vfm_bridge_device' = vfm_bridge_device
    BY DEF Write
  <1>3. TablesOK'
    BY <1>2 DEF Wide, TablesOK, IsTable, VadapterColumns, VfabricColumns, BridgeColumns
  <1>4. Rows' = vadapters \cup vfabrics \cup vfm_bridge_device
    BY <1>2 DEF Rows
  <1>5. DOMAIN span' = Threads /\ \A u \in Threads : Witnesses(u)
    BY <1>4 DEF Write, Witnesses
  <1>6. ASSUME NEW u \in Threads, u # t
        PROVE  Good(u)'
    BY <1>1, <1>2, <1>3, <1>5, <1>6, OthersWrite DEF Wide
  <1> QED
    BY <1>1, <1>3, <1>5, <1>6 DEF Wide

(* A call that is served step by step. *)
LEMMA QueryBegins ==
    ASSUME Wide, \A u \in Threads : Good(u), NEW t \in Threads,
           NEW kind \in {"vadapter", "vfabric", "online", "bridge"}, NEW bits, NEW attr,
           NEW arg, Begin(t, kind, bits, attr), Wait(t, kind, arg),
           kind # "online" => bits = Bits(kind, arg) /\ \A c \in bits : attr[c] = arg.dict[c]
    PROVE  Wide' /\ \A u \in Threads : Good(u)'
  <1>1. /\ UNCHANGED tables
        /\ DOMAIN serving' = Threads /\ DOMAIN span' = Threads
        /\ \A u \in Threads : u # t => serving'[u] = serving[u] /\ span'[u] = span[u]
    BY DEF Begin, Wide, tables
  <1>2. /\ DOMAIN program' = Threads
        /\ program'[t] = [pc |-> "waiting", op |-> kind, arg |-> arg]
        /\ \A u \in Threads : u # t => program'[u] = program[u]
    BY DEF Wait, Wide
  <1>3. ThreadOK(t)'
    BY <1>2, BeginOK
  <1>4. Promised(t)'
    <2>1. ~Answered(t)' /\ ExplainedFor(t)'
      BY <1>2 DEF Answered, ExplainedFor
    <2> QED
      BY <2>1 DEF Promised, ExactFor, AttachedFor
  <1>5. ASSUME NEW u \in Threads, u # t
        PROVE  Good(u)'
    BY <1>1, <1>2, <1>5, OthersQuiet
  <1>6. Wide'
    BY <1>1, <1>2, SameTables DEF Wide
  <1> QED
    BY <1>3, <1>4, <1>5, <1>6 DEF Good

(* A program takes a step. *)

(* get_vadapter_data, get_vfabric_data, get_bridge_data. *)
LEMMA SelectInventoryOK ==
    ASSUME Wide, \A u \in Threads : Good(u), NEW t \in Threads,
           NEW kind \in {"vadapter", "vfabric", "bridge"}, NEW arg, NEW garbage,
           SelectInventory(t, kind, arg, garbage)
    PROVE  Wide' /\ \A u \in Threads : Good(u)'
  <1>1. PICK bits, attr : bits = Bits(kind, arg) /\ attr = AttrOf(kind, arg, garbage)
    OBVIOUS
  <1>2. Begin(t, kind, bits, attr) /\ Wait(t, kind, arg)
    BY <1>1 DEF SelectInventory
  <1>3. ASSUME NEW c \in bits
        PROVE  attr[c] = arg.dict[c]
    BY <1>1, <1>3 DEF AttrOf, Value, Bits
  <1>4. kind \in {"vadapter", "vfabric", "online", "bridge"}
    OBVIOUS
  <1> QED
    BY <1>1, <1>2, <1>3, <1>4, QueryBegins

(* A vadapter is created: the row gets a new id. *)
LEMMA VadapterCreateOK ==
    ASSUME Wide, \A u \in Threads : Good(u), NEW t \in Threads, NEW arg, NEW garbage,
           VadapterCreate(t, arg, garbage)
    PROVE  Wide' /\ \A u \in Threads : Good(u)'
  <1>1. PICK row : row = [id |-> NextId(vfm_vadapter_attr), vfabric_id |-> NULL,
                          protocol |-> Value("vadapter", arg, "protocol", garbage)]
    OBVIOUS
  <1>2. PICK result, exception :
           result = IdDictionary(row.id) /\ exception = Raised("vadapter", arg)
    OBVIOUS
  <1>3. /\ Answer(t, Returned("vadapter", arg, result, exception))
        /\ Write(vfm_vadapter_attr \cup {row}, vfm_vfabric_attr)
    BY <1>1, <1>2 DEF VadapterCreate
  <1>4. Telling("vadapter", arg, result, exception)
    BY <1>2, IdIsNoNull DEF Telling
  <1>5. IsTable(vfm_vadapter_attr, VadapterColumns) /\ IsTable(vfm_vfabric_attr, VfabricColumns)
        /\ \A r \in vfm_vadapter_attr \cup vfm_vfabric_attr : r.id # 0
    BY DEF Wide, TablesOK
  <1>6. DOMAIN row = VadapterColumns /\ row.id = NextId(vfm_vadapter_attr)
    BY <1>1 DEF VadapterColumns
  <1>7. row.id # 0
    BY <1>5, <1>6, NextIdFacts
  <1>8. IsTable(vfm_vadapter_attr \cup {row}, VadapterColumns)
    BY <1>5, <1>6, TableWithRow
  <1>9. \A r \in (vfm_vadapter_attr \cup {row}) \cup vfm_vfabric_attr : r.id # 0
    BY <1>5, <1>7
  <1> QED
    BY <1>3, <1>4, <1>5, <1>8, <1>9, WriteAnswer

(* A vfabric is created. *)
LEMMA VfabricCreateOK ==
    ASSUME Wide, \A u \in Threads : Good(u), NEW t \in Threads, NEW arg, NEW garbage,
           VfabricCreate(t, arg, garbage)
    PROVE  Wide' /\ \A u \in Threads : Good(u)'
  <1>1. PICK row : row = [id |-> NextId(vfm_vfabric_attr),
                          primary_gateway |-> NULL, backup_gateway |-> NULL,
                          protocol |-> Value("vfabric", arg, "protocol", garbage)]
    OBVIOUS
  <1>2. PICK result, exception :
           result = IdDictionary(row.id) /\ exception = Raised("vfabric", arg)
    OBVIOUS
  <1>3. /\ Answer(t, Returned("vfabric", arg, result, exception))
        /\ Write(vfm_vadapter_attr, vfm_vfabric_attr \cup {row})
    BY <1>1, <1>2 DEF VfabricCreate
  <1>4. Telling("vfabric", arg, result, exception)
    BY <1>2, IdIsNoNull DEF Telling
  <1>5. IsTable(vfm_vadapter_attr, VadapterColumns) /\ IsTable(vfm_vfabric_attr, VfabricColumns)
        /\ \A r \in vfm_vadapter_attr \cup vfm_vfabric_attr : r.id # 0
    BY DEF Wide, TablesOK
  <1>6. DOMAIN row = VfabricColumns /\ row.id = NextId(vfm_vfabric_attr)
    BY <1>1 DEF VfabricColumns
  <1>7. row.id # 0
    BY <1>5, <1>6, NextIdFacts
  <1>8. IsTable(vfm_vfabric_attr \cup {row}, VfabricColumns)
    BY <1>5, <1>6, TableWithRow
  <1>9. \A r \in vfm_vadapter_attr \cup (vfm_vfabric_attr \cup {row}) : r.id # 0
    BY <1>5, <1>7
  <1> QED
    BY <1>3, <1>4, <1>5, <1>8, <1>9, WriteAnswer

(* A vadapter is changed: the columns that an update sets are not the id. *)
LEMMA VadapterEditOK ==
    ASSUME Wide, \A u \in Threads : Good(u), NEW t \in Threads, NEW arg, NEW garbage,
           VadapterEdit(t, arg, garbage)
    PROVE  Wide' /\ \A u \in Threads : Good(u)'
  <1>1. PICK id, columns :
           /\ id = Value("vadapter", arg, "id", garbage)
           /\ columns = Bits("vadapter", arg) \cap {"protocol", "vfabric_id"}
    OBVIOUS
  <1>2. PICK result, exception :
           /\ result = IF columns = {} THEN Null ELSE IdDictionary(id)
           /\ exception = (columns = {} \/ Raised("vadapter", arg))
    OBVIOUS
  <1>3. /\ Answer(t, Returned("vadapter", arg, result, exception))
        /\ Write(Updated(vfm_vadapter_attr, id, columns, arg), vfm_vfabric_attr)
    BY <1>1, <1>2 DEF VadapterEdit
  <1>4. Telling("vadapter", arg, result, exception)
    BY <1>2, IdIsNoNull DEF Telling
  <1>5. IsTable(vfm_vadapter_attr, VadapterColumns) /\ IsTable(vfm_vfabric_attr, VfabricColumns)
        /\ \A r \in vfm_vadapter_attr \cup vfm_vfabric_attr : r.id # 0
    BY DEF Wide, TablesOK
  <1>6. "id" \in VadapterColumns /\ "id" \notin columns
    BY <1>1 DEF VadapterColumns
  <1>7. PICK rows : rows = Updated(vfm_vadapter_attr, id, columns, arg)
    OBVIOUS
  <1>8. /\ IsTable(rows, VadapterColumns)
        /\ \A row \in rows : \E old \in vfm_vadapter_attr : row.id = old.id
    BY <1>5, <1>6, <1>7, TableUpdated
  <1>9. \A row \in rows \cup vfm_vfabric_attr : row.id # 0
    BY <1>5, <1>8
  <1> QED
    BY <1>3, <1>4, <1>5, <1>7, <1>8, <1>9, WriteAnswer

(* A vfabric is changed. *)
LEMMA VfabricEditOK ==
    ASSUME Wide, \A u \in Threads : Good(u), NEW t \in Threads, NEW arg, NEW garbage,
           VfabricEdit(t, arg, garbage)
    PROVE  Wide' /\ \A u \in Threads : Good(u)'
  <1>1. PICK id, columns :
           /\ id = Value("vfabric", arg, "id", garbage)
           /\ columns = Bits("vfabric", arg)
                           \cap {"protocol", "primary_gateway", "backup_gateway"}
    OBVIOUS
  <1>2. PICK result, exception :
           result = IdDictionary(id) /\ exception = Raised("vfabric", arg)
    OBVIOUS
  <1>3. /\ Answer(t, Returned("vfabric", arg, result, exception))
        /\ Write(vfm_vadapter_attr, Updated(vfm_vfabric_attr, id, columns, arg))
    BY <1>1, <1>2 DEF VfabricEdit
  <1>4. Telling("vfabric", arg, result, exception)
    BY <1>2, IdIsNoNull DEF Telling
  <1>5. IsTable(vfm_vadapter_attr, VadapterColumns) /\ IsTable(vfm_vfabric_attr, VfabricColumns)
        /\ \A r \in vfm_vadapter_attr \cup vfm_vfabric_attr : r.id # 0
    BY DEF Wide, TablesOK
  <1>6. "id" \in VfabricColumns /\ "id" \notin columns
    BY <1>1 DEF VfabricColumns
  <1>7. PICK rows : rows = Updated(vfm_vfabric_attr, id, columns, arg)
    OBVIOUS
  <1>8. /\ IsTable(rows, VfabricColumns)
        /\ \A row \in rows : \E old \in vfm_vfabric_attr : row.id = old.id
    BY <1>5, <1>6, <1>7, TableUpdated
  <1>9. \A row \in vfm_vadapter_attr \cup rows : row.id # 0
    BY <1>5, <1>8
  <1> QED
    BY <1>3, <1>4, <1>5, <1>7, <1>8, <1>9, WriteAnswer

(* A vadapter is brought online. *)
LEMMA VadapterOnlineOK ==
    ASSUME Wide, \A u \in Threads : Good(u), NEW t \in Threads, NEW arg,
           VadapterOnline(t, arg)
    PROVE  Wide' /\ \A u \in Threads : Good(u)'
  <1>1. CASE Answer(t, Returned("online", arg, Null, TRUE)) /\ Unwritten
    <2>1. Telling("online", arg, Null, TRUE)
      BY DEF Telling
    <2> QED
      BY <1>1, <2>1, QuietAnswer
  <1>2. CASE /\ Answer(t, Returned("online", arg, IdDictionary(IdGiven(arg)), ~arg.isdict))
             /\ Unwritten
    <2>1. Telling("online", arg, IdDictionary(IdGiven(arg)), ~arg.isdict)
      BY IdIsNoNull DEF Telling
    <2> QED
      BY <1>2, <2>1, QuietAnswer
  <1>3. ASSUME NEW row \in vfm_vadapter_attr, Wait(t, "online", arg),
               Begin(t, "online", {"id"}, [id |-> Structure(row).vfabric_id])
        PROVE  Wide' /\ \A u \in Threads : Good(u)'
    <2>1. PICK kind, bits, attr :
             kind = "online" /\ bits = {"id"} /\ attr = [id |-> Structure(row).vfabric_id]
      OBVIOUS
    <2>2. kind \in {"vadapter", "vfabric", "online", "bridge"}
      BY <2>1
    <2>3. Wait(t, kind, arg) /\ Begin(t, kind, bits, attr)
      BY <1>3, <2>1
    <2>4. kind # "online" => bits = Bits(kind, arg) /\ \A c \in bits : attr[c] = arg.dict[c]
      BY <2>1
    <2> QED
      BY <2>2, <2>3, <2>4, QueryBegins
  <1> QED
    BY <1>1, <1>2, <1>3 DEF VadapterOnline

(* A vfabric is brought online. *)
LEMMA VfabricOnlineOK ==
    ASSUME Wide, \A u \in Threads : Good(u), NEW t \in Threads, NEW arg,
           VfabricOnline(t, arg)
    PROVE  Wide' /\ \A u \in Threads : Good(u)'
  <1>1. PICK error \in BOOLEAN :
           Answer(t, Returned("online", arg,
                       IF error THEN Null ELSE IdDictionary(IdGiven(arg)),
                       error \/ ~arg.isdict))
    BY DEF VfabricOnline
  <1>2. PICK result, exception :
           /\ result = IF error THEN Null ELSE IdDictionary(IdGiven(arg))
           /\ exception = (error \/ ~arg.isdict)
    OBVIOUS
  <1>3. Answer(t, Returned("online", arg, result, exception)) /\ Unwritten
    BY <1>1, <1>2 DEF VfabricOnline
  <1>4. Telling("online", arg, result, exception)
    BY <1>2, IdIsNoNull DEF Telling
  <1> QED
    BY <1>3, <1>4, QuietAnswer

(* No connection, or no answer. *)
LEMMA CallFailsOK ==
    ASSUME Wide, \A u \in Threads : Good(u), NEW t \in Threads, CallFails(t)
    PROVE  Wide' /\ \A u \in Threads : Good(u)'
  <1>1. PICK arg : arg = [isdict |-> TRUE, dict |-> <<>>]
    OBVIOUS
  <1>2. Answer(t, Returned("failed", arg, Null, TRUE)) /\ Unwritten
    BY <1>1 DEF CallFails
  <1>3. Telling("failed", arg, Null, TRUE)
    BY DEF Telling
  <1> QED
    BY <1>2, <1>3, QuietAnswer

(* A program that dies is told nothing. *)
LEMMA UnparsedCallOK ==
    ASSUME Wide, \A u \in Threads : Good(u), NEW t \in Threads, UnparsedCall(t)
    PROVE  Wide' /\ \A u \in Threads : Good(u)'
  <1>1. Answer(t, Ended) /\ UNCHANGED tables /\ span' = span /\ Unwritten
    BY DEF UnparsedCall, Unwritten
  <1>2. /\ DOMAIN serving' = Threads /\ DOMAIN program' = Threads
        /\ \A u \in Threads : u # t =>
              serving'[u] = serving[u] /\ program'[u] = program[u]
        /\ serving'[t] = Idle
        /\ program'[t] = Ended
    BY <1>1 DEF Answer, Wide
  <1>3. Good(t)'
    <2>1. serving'[t].pc = "idle" /\ program'[t].pc # "returned"
      BY <1>2 DEF Idle, Ended
    <2> QED
      BY <2>1 DEF Good, Promised, ExactFor, AttachedFor, ExplainedFor, Answered
  <1>4. ASSUME NEW u \in Threads, u # t
        PROVE  Good(u)'
    BY <1>1, <1>2, <1>4, OthersQuiet
  <1>5. Wide'
    BY <1>1, <1>2, UnwrittenWide
  <1> QED
    BY <1>3, <1>4, <1>5

(* Every call. *)
LEMMA CallOK ==
    ASSUME Wide, \A u \in Threads : Good(u), NEW t \in Threads, Call(t)
    PROVE  Wide' /\ \A u \in Threads : Good(u)'
  BY SelectInventoryOK, VadapterCreateOK, VadapterEditOK, VfabricCreateOK, VfabricEditOK,
     VadapterOnlineOK, VfabricOnlineOK, CallFailsOK, UnparsedCallOK
     DEF Call

(* The VFM takes a step. *)

(* What such a step leaves alone. *)
Stepped(t) ==
    /\ DOMAIN serving' = Threads
    /\ \A u \in Threads : u # t => serving'[u] = serving[u]
    /\ UNCHANGED tables
    /\ span' = span
    /\ serving'[t].pc # "done"

(* Every step to anything but the end of the query is one. *)
LEMMA SteppedBy ==
    ASSUME Wide, NEW t \in Threads, NEW next, Step(t, next), next.pc # "done"
    PROVE  Stepped(t)
  BY StepFacts DEF Stepped

(* The steps of a query are such steps. *)
LEMMA ServeSteps ==
    ASSUME Wide, NEW t \in Threads, Serve(t), ThreadOK(t)
    PROVE  Stepped(t)
  <1>1. PICK s : s = serving[t]
    OBVIOUS
  <1>2. DOMAIN s = Fields
    BY <1>1 DEF ThreadOK, QueryOK
  <1>3. CASE Count(t)
    <2>1. PICK next : next = [s EXCEPT !.pc = "row", !.room = Cardinality(Selected(t))]
      OBVIOUS
    <2>2. Step(t, next) /\ next.pc = "row"
      BY <1>1, <1>2, <1>3, <2>1 DEF Count, Fields
    <2> QED
      BY <2>2, SteppedBy
  <1>4. CASE ProcessVadapterInventory(t)
    <2>1. PICK row : NextEntry(t, s, row)
      BY <1>1, <1>4, ProcessVadapterInventoryIs
    <2>2. PICK next : next = [s EXCEPT
                        !.cursor  = row.id,
                        !.entries = Append(@, [row |-> Structure(row), ids |-> <<>>]),
                        !.size    = 3 * (Len(s.entries) + 1),
                        !.overrun = @ \/ Len(s.entries) >= s.room]
      OBVIOUS
    <2>3. s.pc = "row"
      BY <1>1, <1>4 DEF ProcessVadapterInventory, At
    <2>4. Step(t, next) /\ next.pc = "row"
      <3>1. Step(t, next)
        BY <2>1, <2>2 DEF NextEntry
      <3>2. next.pc = "row"
        BY <1>2, <2>2, <2>3 DEF Fields
      <3> QED
        BY <3>1, <3>2
    <2> QED
      BY <2>4, SteppedBy
  <1>5. CASE ProcessVfabric(t)
    <2>1. \E next : Step(t, next) /\ next.pc = "ids"
      <3>1. PICK row \in NextRow(Selected(t), s.cursor), offset \in Offsets :
               RoomFor(t, s, row, offset)
        BY <1>1, <1>5, ProcessVfabricIs
      <3>2. PICK num : num = IF s.kind = "online" THEN 0 ELSE Cardinality(Attached(row.id))
        OBVIOUS
      <3>3. PICK next :
               next = [s EXCEPT !.pc = "ids", !.cursor = row.id, !.row = Structure(row),
                                !.ids = [i \in 1..num |-> Unset], !.pos = offset,
                                !.inner = 0, !.shifted = @ \/ offset # 0]
        OBVIOUS
      <3>4. Step(t, next)
        BY <3>1, <3>2, <3>3 DEF RoomFor
      <3>5. next.pc = "ids"
        BY <1>2, <3>3 DEF Fields
      <3> QED
        BY <3>4, <3>5
    <2> QED
      BY <2>1, SteppedBy
  <1>6. CASE ProcessVadapterId(t)
    <2>1. \E next : Step(t, next) /\ next.pc = s.pc
      <3>1. PICK row : IdWritten(t, s, row)
        BY <1>1, <1>6, ProcessVadapterIdIs
      <3>2. PICK next : next = [s EXCEPT
                     !.inner = row.id,
                     !.ids = IF s.pos < Len(@) THEN [@ EXCEPT ![s.pos + 1] = row.id]
                             ELSE @,
                     !.pos = @ + 1,
                     !.overrun = @ \/ s.pos >= Len(s.ids)]
        OBVIOUS
      <3>3. Step(t, next)
        BY <3>1, <3>2 DEF IdWritten
      <3>4. next.pc = s.pc
        BY <1>2, <3>2 DEF Fields
      <3> QED
        BY <3>3, <3>4
    <2>2. s.pc = "ids"
      BY <1>1, <1>6 DEF ProcessVadapterId, At
    <2> QED
      BY <2>1, <2>2, SteppedBy
  <1>7. CASE PopulateVfabricProtocolInformation(t)
    <2>1. PICK next : /\ next = IF s.row.protocol \in {VFM_PROTOCOL_EN, VFM_PROTOCOL_FC}
                                 THEN Entered(s) ELSE [s EXCEPT !.pc = "row"]
                      /\ Step(t, next)
      BY <1>1, <1>7 DEF PopulateVfabricProtocolInformation
    <2>2. next.pc = "row"
      BY <1>2, <2>1 DEF Entered, Fields
    <2> QED
      BY <2>1, <2>2, SteppedBy
  <1>8. CASE EndOfRows(t)
    <2>1. PICK next : next = [s EXCEPT !.pc = "reply"]
      OBVIOUS
    <2>2. Step(t, next) /\ next.pc = "reply"
      BY <1>1, <1>2, <1>8, <2>1 DEF EndOfRows, Fields
    <2> QED
      BY <2>2, SteppedBy
  <1>9. CASE PopulateBridgeInformation(t)
    <2>1. \E next : Step(t, next) /\ next.pc = "reply"
      <3>1. PICK entries : Step(t, [s EXCEPT !.pc = "reply", !.entries = entries,
                                             !.size = BridgeDataSize(entries)])
        BY <1>1, <1>9 DEF PopulateBridgeInformation
      <3>2. PICK next : next = [s EXCEPT !.pc = "reply", !.entries = entries,
                                         !.size = BridgeDataSize(entries)]
        OBVIOUS
      <3>3. Step(t, next) /\ next.pc = "reply"
        BY <1>2, <3>1, <3>2 DEF Fields
      <3> QED
        BY <3>3
    <2> QED
      BY <2>1, SteppedBy
  <1>10. CASE StatementFails(t)
    <2>1. PICK f, none : /\ f = [s EXCEPT !.failed = TRUE]
                         /\ none = [f EXCEPT !.pc = "reply", !.entries = <<>>,
                                             !.size = IF f.kind = "bridge" THEN 1 ELSE 0]
      OBVIOUS
    <2>2. PICK next : /\ Step(t, next)
                      /\ next \in {[f EXCEPT !.pc = "reply"], none,
                                   [f EXCEPT !.pc = "row"], Entered(f)}
      BY <1>1, <1>10, <2>1 DEF StatementFails
    <2>3. next.pc \in {"reply", "row"}
      BY <1>2, <2>1, <2>2 DEF Entered, Fields
    <2> QED
      BY <2>2, <2>3, SteppedBy
  <1> QED
    BY <1>3, <1>4, <1>5, <1>6, <1>7, <1>8, <1>9, <1>10 DEF Serve

(* Every step of a query. *)
LEMMA ServeOK ==
    ASSUME Wide, \A u \in Threads : Good(u), NEW t \in Threads, Serve(t),
           UNCHANGED <<program, queries, updates>>
    PROVE  Wide' /\ \A u \in Threads : Good(u)'
  <1>1. serving[t].pc # "idle"
    BY DEF Serve, Count, ProcessVadapterInventory, ProcessVfabric, ProcessVadapterId,
           PopulateVfabricProtocolInformation, EndOfRows, PopulateBridgeInformation,
           StatementFails, At
  <1>2. ThreadOK(t) /\ Promised(t)
    BY <1>1 DEF Good
  <1>3. Stepped(t)
    BY <1>2, ServeSteps
  <1>4. Steady(t)
    BY <1>3 DEF Stepped, Steady
  <1>5. ThreadOK(t)'
    BY <1>2, <1>4, CountOK, ProcessVadapterInventoryOK, ProcessVfabricOK, ProcessVadapterIdOK,
       PopulateVfabricProtocolInformationOK, EndOfRowsOK, PopulateBridgeInformationOK,
       StatementFailsOK DEF Serve
  <1>6. Promised(t)'
    <2>1. ~Answered(t)'
      BY <1>3 DEF Stepped, Answered
    <2>2. ExplainedFor(t)'
      BY <1>2 DEF Promised, ExplainedFor
    <2> QED
      BY <2>1, <2>2 DEF Promised, ExactFor, AttachedFor
  <1>7. ASSUME NEW u \in Threads, u # t
        PROVE  Good(u)'
    BY <1>3, <1>7, OthersQuiet DEF Stepped
  <1>8. Wide'
    BY <1>3, UnwrittenWide DEF Stepped, Wide
  <1> QED
    BY <1>5, <1>6, <1>7, <1>8 DEF Good

-----------------------------------------------------------------------------
(* The invariant. *)

(* The VFM starts with idle threads and tables that an earlier run has     *)
(* left.                                                                   *)
LEMMA InitHolds ==
    Init => IInv
  <1>1. SUFFICES ASSUME Init PROVE Wide /\ \A t \in Threads : Good(t)
    BY IInvIsGood
  <1>2. TablesOK
    BY <1>1, InitialDbsAssumption DEF Init, InitInventory, TablesOK
  <1>3. Wide
    BY <1>1, <1>2 DEF Wide, Init, InitInventory
  <1>4. ASSUME NEW t \in Threads
        PROVE  Good(t)
    <2>1. serving[t].pc = "idle" /\ program[t].pc = "idle"
      BY <1>1 DEF Init, InitInventory, Idle
    <2> QED
      BY <2>1, PromisedWaiting DEF Good
  <1> QED
    BY <1>3, <1>4

(* The same after a step. *)
LEMMA IInvThen ==
    ASSUME Wide', \A t \in Threads : Good(t)'
    PROVE  IInv'
  <1>1. \A t \in Threads : ExactFor(t)' /\ AttachedFor(t)' /\ ExplainedFor(t)'
    BY DEF Good, Promised
  <1>2. InventoryExact'
    BY <1>1 DEF InventoryExact, ExactFor
  <1>3. IdsAttached'
    BY <1>1 DEF IdsAttached, AttachedFor, IdsIn
  <1>4. ExceptionExplained'
    BY <1>1 DEF ExceptionExplained, ExplainedFor
  <1> QED
    BY <1>2, <1>3, <1>4 DEF IInv, Wide, Good

(* Every step keeps the invariant. *)
LEMMA NextKeeps ==
    IInv /\ [Next]_vars => IInv'
  <1>1. SUFFICES ASSUME Wide, \A t \in Threads : Good(t), [Next]_vars
                 PROVE  Wide' /\ \A t \in Threads : Good(t)'
    BY IInvIsGood, IInvThen
  <1>2. CASE UNCHANGED vars
    <2>1. UNCHANGED tables /\ UNCHANGED <<serving, span, program>>
      BY <1>2 DEF vars, inventoryVars
    <2>2. Wide'
      BY <1>1, <2>1, UnwrittenWide DEF Wide
    <2> QED
      BY <1>1, <2>1, <2>2, OthersQuiet
  <1>3. ASSUME NEW t \in Threads, Call(t)
        PROVE  Wide' /\ \A u \in Threads : Good(u)'
    BY <1>1, <1>3, CallOK
  <1>4. ASSUME NEW t \in Threads, Serve(t), UNCHANGED <<program, queries, updates>>
        PROVE  Wide' /\ \A u \in Threads : Good(u)'
    BY <1>1, <1>4, ServeOK
  <1>5. ASSUME NEW t \in Threads, InventoryReturns(t) \/ VadapterOnlineReturns(t)
        PROVE  Wide' /\ \A u \in Threads : Good(u)'
    <2>1. serving[t].pc = "reply"
      BY <1>5 DEF InventoryReturns, VadapterOnlineReturns, At
    <2>2. ThreadOK(t)
      BY <1>1, <2>1 DEF Good
    <2>3. ThreadOK(t)' /\ Promised(t)'
      BY <1>1, <1>5, <2>2, InventoryReturnsOK, VadapterOnlineReturnsOK
    <2>4. /\ UNCHANGED tables /\ span' = span
          /\ DOMAIN serving' = Threads /\ DOMAIN program' = Threads
          /\ \A u \in Threads : u # t =>
                serving'[u] = serving[u] /\ program'[u] = program[u]
      BY <1>1, <1>5 DEF InventoryReturns, VadapterOnlineReturns, Unwritten, Wide
    <2>5. ASSUME NEW u \in Threads, u # t
          PROVE  Good(u)'
      BY <1>1, <2>4, <2>5, OthersQuiet
    <2>6. Wide'
      BY <1>1, <2>4, UnwrittenWide
    <2> QED
      BY <2>3, <2>5, <2>6 DEF Good
  <1> QED
    BY <1>1, <1>2, <1>3, <1>4, <1>5 DEF Next

(* Every step of the programs and of the threads that serve them keeps     *)
(* what IInv says of the tables, of each query and of each answer.         *)
THEOREM Invariance == Spec => []IInv
  BY InitHolds, NextKeeps, PTL DEF Spec

(* What the callbacks of a query write lies in the memory allocated for    *)
(* it, but for the three ways out that WritesInside names, and the message *)
(* has the length vfm_marshall_response has computed: whatever rows there  *)
(* are and however the statements of the threads interleave.               *)
THEOREM QueriesWriteInside == Spec => []WritesInside
  <1>1. IInv => WritesInside
    <2>1. ASSUME IInv, NEW t \in Threads, serving[t].pc # "idle"
          PROVE  Roomy(t) /\ Packed(t)
      BY <2>1 DEF IInv, ThreadOK
    <2> QED
      BY <2>1 DEF WritesInside, Roomy, Packed
  <1> QED
    BY <1>1, Invariance, PTL

(* The dictionary of an inventory call holds what was asked for: nothing   *)
(* but rows that were in the table during the query, and every row that    *)
(* was there throughout.                                                   *)
THEOREM ExactInventories == Spec => []InventoryExact
  <1>1. IInv => InventoryExact
    BY DEF IInv
  <1> QED
    BY <1>1, Invariance, PTL

(* The vadapter ids that a vfabric is shown with are those of vadapters    *)
(* attached to it, and all of them when nothing was written meanwhile.     *)
THEOREM AttachedIds == Spec => []IdsAttached
  <1>1. IInv => IdsAttached
    BY DEF IInv
  <1> QED
    BY <1>1, Invariance, PTL

(* A wrapper that returns NULL has set an exception, and one that sets an  *)
(* exception without has parsed what it was given only in part.            *)
THEOREM ExplainedExceptions == Spec => []ExceptionExplained
  <1>1. IInv => ExceptionExplained
    BY DEF IInv
  <1> QED
    BY <1>1, Invariance, PTL
=============================================================================
