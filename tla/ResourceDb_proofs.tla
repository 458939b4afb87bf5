-------------------------- MODULE ResourceDb_proofs --------------------------
(***************************************************************************)
(* Proofs about the resource database, for any number of processors,       *)
(* clients, MACs and requests, and any database to start with that an      *)
(* earlier run can have left.                                              *)
(***************************************************************************)
EXTENDS ResourceDb, FiniteSetTheorems, TLAPS

(* A table whose ids are 1..n, one row each, has n rows. *)
LEMMA DenseSize ==
    ASSUME NEW T, NEW n \in Nat, Ids(T) = 1..n,
           \A r, s \in T : r.id = s.id => r = s
    PROVE  IsFiniteSet(T) /\ Cardinality(T) = n /\ Dense(T)
  <1> DEFINE f == [r \in T |-> r.id]
  <1>1. f \in Injection(T, 1..n)
    BY DEF Injection, IsInjective, Ids
  <1>2. f \in Surjection(T, 1..n)
    BY DEF Surjection, Ids
  <1>3. IsFiniteSet(1..n) /\ Cardinality(1..n) = n
    BY FS_Interval
  <1>4. IsFiniteSet(T) /\ Cardinality(T) = Cardinality(1..n)
    BY <1>1, <1>2, <1>3, FS_Injection
  <1> QED
    BY <1>3, <1>4 DEF Dense

(* generate_*_id returns the number of rows, plus one. *)
LEMMA NextIdIsSize ==
    ASSUME NEW T, IsFiniteSet(T), Dense(T)
    PROVE  /\ Cardinality(T) \in Nat
           /\ NextId(T) = Cardinality(T) + 1
  <1>1. Cardinality(T) \in Nat
    BY FS_CardinalityType
  <1>2. CASE T = {}
    BY <1>2, FS_EmptySet DEF NextId
  <1>3. CASE T # {}
    <2>1. Cardinality(T) # 0
      BY <1>3, FS_EmptySet
    <2>2. Ids(T) = 1..Cardinality(T)
      BY DEF Dense
    <2>3. MaxId(T) = Cardinality(T)
      BY <1>1, <2>1, <2>2 DEF MaxId
    <2> QED
      BY <1>1, <1>3, <2>3 DEF NextId
  <1> QED
    BY <1>1, <1>2, <1>3

(* An insert with an id that is at most the next one keeps the ids dense,  *)
(* whether the row is entered or refused.                                  *)
LEMMA InsertKeepsDense ==
    ASSUME NEW T, IsFiniteSet(T), Dense(T),
           NEW row, row.id \in 1..(Cardinality(T) + 1)
    PROVE  /\ IsFiniteSet(Insert(T, row)) /\ Dense(Insert(T, row))
           /\ Cardinality(T) \in Nat /\ Cardinality(Insert(T, row)) \in Nat
           /\ Cardinality(T) <= Cardinality(Insert(T, row))
  <1> DEFINE n == Cardinality(T)
  <1>1. n \in Nat
    BY FS_CardinalityType
  <1>2. CASE row.id \in Ids(T)
    BY <1>1, <1>2 DEF Insert
  <1>3. CASE row.id \notin Ids(T)
    <2>1. row.id = n + 1
      BY <1>1, <1>3 DEF Dense
    <2>2. Ids(T \cup {row}) = Ids(T) \cup {row.id}
      BY DEF Ids
    <2>3. Ids(T \cup {row}) = 1..(n + 1)
      <3>1. 1..(n + 1) = (1..n) \cup {n + 1}
        BY <1>1
      <3> QED
        BY <2>1, <2>2, <3>1 DEF Dense
    <2>4. \A r, s \in T \cup {row} : r.id = s.id => r = s
      BY <1>3 DEF Dense, Ids
    <2>5. /\ IsFiniteSet(T \cup {row}) /\ Dense(T \cup {row})
          /\ Cardinality(T \cup {row}) = n + 1
      BY <1>1, <2>3, <2>4, DenseSize
    <2> QED
      BY <1>1, <1>3, <2>5 DEF Insert
  <1> QED
    BY <1>2, <1>3

(* An update that keeps the id of every row keeps the ids dense. *)
LEMMA UpdateKeepsDense ==
    ASSUME NEW T, IsFiniteSet(T), Dense(T), NEW U,
           \A r \in T : \E u \in U : u.id = r.id,
           \A u \in U : \E r \in T : r.id = u.id,
           \A u, v \in U : u.id = v.id => u = v
    PROVE  IsFiniteSet(U) /\ Dense(U) /\ Cardinality(U) = Cardinality(T)
  <1>1. Cardinality(T) \in Nat
    BY FS_CardinalityType
  <1>2. Ids(U) = Ids(T)
    BY DEF Ids
  <1> QED
    BY <1>1, <1>2, DenseSize DEF Dense

(* The vadapter that is brought online next is one of those left. *)
LEMMA FirstIsLeft ==
    ASSUME NEW T, T \subseteq Nat, T # {}
    PROVE  First(T) \in T
  <1>1. \E x \in T : \A y \in T : ~(<<y, x>> \in OpToRel(<, Nat))
    BY WFMin, NatLessThanWellFounded
  <1>2. \A x, y \in Nat : y < x => <<y, x>> \in OpToRel(<, Nat)
    BY Zenon DEF OpToRel
  <1>3. \E x \in T : \A y \in T : ~(y < x)
    BY <1>1, <1>2, Zenon
  <1>4. \E x \in T : \A y \in T : x <= y
    BY <1>3
  <1> QED
    BY <1>4, Zenon DEF First

(* What a thread has kept is told by where it is. *)
LEMMA RequestFields ==
    ASSUME NEW r \in Requests
    PROVE  /\ r.pc \in {"va_insert", "vf_insert"} => r.id \in Nat
           /\ r.pc \in {"vf_max", "vf_insert"} => r.protocol \in Protocols
           /\ r.pc \in {"online", "io_module"} =>
                 r \in OnlineRequests({"online", "io_module"}, Macs \cup {NoMac})
           /\ r.pc \in {"vfabric", "advertise"} =>
                 r \in OnlineRequests({"vfabric", "advertise"}, Macs)
  BY DEF Requests, Waiting, OnlineRequests

-----------------------------------------------------------------------------
(* The VFM starts with the tables of an earlier run and idle threads. *)
LEMMA InitInv == Init => IInv
  <1> SUFFICES ASSUME Init PROVE IInv
    OBVIOUS
  <1> PICK db \in InitialDbs :
              /\ vfm_io_module_attr = db.io_modules
              /\ vfm_vadapter_attr = db.vadapters
              /\ vfm_vfabric_attr = db.vfabrics
    BY DEF Init
  <1>1. TypeOK
    <2>1. crashed \in BOOLEAN
      BY Zenon DEF Init
    <2>2. OldNames \subseteq Names
      BY DEF Names
    <2> QED
      BY <2>1, <2>2, InitialDbsAssumption, BoundAssumption DEF Init, TypeOK
  <1>2. ThreadsOK
    BY DEF Init, ThreadsOK, Handlers, Requests
  <1>3. TablesFinite /\ IdsDense
    BY InitialDbsAssumption DEF TablesFinite, IdsDense
  <1>4. ChosenIds
    BY DEF Init, ChosenIds, Waiting
  <1>5. MacRowsPaidFor
    <2> SUFFICES ASSUME NEW mac \in Macs
                 PROVE  Cardinality(RowsOf(vfm_io_module_attr, mac))
                          + Cardinality(Entering(mac)) <= Cardinality(Processors)
      BY DEF MacRowsPaidFor
    <2>1. Cardinality(Entering(mac)) = 0
      BY FS_EmptySet DEF Init, Entering, Waiting
    <2>2. IsFiniteSet(RowsOf(vfm_io_module_attr, mac))
      BY <1>3, FS_Subset DEF TablesFinite, RowsOf
    <2> QED
      BY <2>1, <2>2, FS_CardinalityType, InitialDbsAssumption
  <1>6. NamesFresh
    BY InitialDbsAssumption, OldNamesAssumption
       DEF Init, NamesFresh, Answered, OldNames
  <1>7. CreatedIsReported /\ OnlineReported
    BY DEF Init, CreatedIsReported, OnlineReported
  <1> QED
    BY <1>1, <1>2, <1>3, <1>4, <1>5, <1>6, <1>7 DEF IInv

(* A step that only moves one client's thread on, to anything but an       *)
(* insert, disturbs nothing.                                               *)
LEMMA MoveInv ==
    ASSUME IInv, NEW c \in Clients, served[c] < MaxRequests,
           NEW r \in Requests, r.pc \notin {"va_insert", "vf_insert"},
           request' = [request EXCEPT ![c] = r],
           UNCHANGED <<tables, handler, served, replies>>,
           advertised' \subseteq Macs, crashed' \in BOOLEAN
    PROVE  IInv'
  <1> USE DEF IInv, tables
  <1>1. TypeOK'
    BY DEF TypeOK
  <1>2. ThreadsOK'
    BY DEF ThreadsOK
  <1>3. TablesFinite' /\ IdsDense'
    BY DEF TablesFinite, IdsDense, Dense, Ids
  <1>4. ChosenIds'
    BY DEF ChosenIds, ThreadsOK
  <1>5. MacRowsPaidFor'
    BY DEF MacRowsPaidFor, RowsOf, Entering
  <1>6. NamesFresh' /\ CreatedIsReported' /\ OnlineReported'
    BY DEF NamesFresh, Answered, CreatedIsReported, OnlineReported
  <1> QED
    BY <1>1, <1>2, <1>3, <1>4, <1>5, <1>6

(* Neither does answering a request that created nothing. *)
LEMMA ReplyInv ==
    ASSUME IInv, NEW c \in Clients, served[c] < MaxRequests,
           NEW op, op \notin {"create_vadapter", "create_vfabric"},
           NEW v, NEW active, NEW failed,
           op = "vfabric_online" =>
              /\ v = VPS_SUCCESS => active # {}
              /\ v # VPS_SUCCESS => active = {} \/ failed # {},
           AnswerOnline(c, op, v, active, failed),
           UNCHANGED <<tables, handler>>,
           advertised' \subseteq Macs, crashed' \in BOOLEAN
    PROVE  IInv'
  <1> USE DEF IInv, tables
  <1> PICK nm : nm = Name(c)
    OBVIOUS
  <1> DEFINE m == [name |-> nm, op |-> op, value |-> v, active |-> active,
                   failed |-> failed]
  <1>0. /\ request' = [request EXCEPT ![c] = Waiting]
        /\ served' = [served EXCEPT ![c] = @ + 1]
        /\ replies' = replies \cup {m}
    BY DEF AnswerOnline
  <1>1. TypeOK' /\ served[c] \in Nat /\ served'[c] = served[c] + 1
    BY <1>0, BoundAssumption DEF TypeOK
  <1>2. ThreadsOK'
    BY <1>0 DEF ThreadsOK, TypeOK, Requests
  <1>3. TablesFinite' /\ IdsDense'
    BY DEF TablesFinite, IdsDense, Dense, Ids
  <1>4. ChosenIds'
    BY <1>0 DEF ChosenIds, ThreadsOK, Waiting
  <1>5. MacRowsPaidFor'
    BY DEF MacRowsPaidFor, RowsOf, Entering
  <1>6. NamesFresh'
    <2>1. nm \in Names /\ Answered(nm)'
      BY <1>1 DEF Name, Names, Answered
    <2>2. \A name \in Names : Answered(name) => Answered(name)'
      BY <1>0, <1>1 DEF Answered, Names, OldNames, TypeOK
    <2> QED
      BY <1>0, <2>1, <2>2 DEF NamesFresh, TypeOK
  <1>7. CreatedIsReported'
    BY <1>0 DEF CreatedIsReported
  <1>8. OnlineReported'
    BY <1>0 DEF OnlineReported
  <1> QED
    BY <1>1, <1>2, <1>3, <1>4, <1>5, <1>6, <1>7, <1>8

(* The name of the request that is being served is new. *)
LEMMA NameIsNew ==
    ASSUME IInv, NEW c \in Clients
    PROVE  /\ Name(c) \in Names /\ Name(c) = <<c, served[c] + 1>>
           /\ served[c] \in Nat
           /\ \A m \in replies : m.name # Name(c)
           /\ \A row \in vfm_vadapter_attr : row.name # Name(c)
           /\ \A row \in vfm_vfabric_attr : row.name # Name(c)
  <1>1. served[c] \in Nat
    BY BoundAssumption DEF IInv, TypeOK
  <1>2. ~Answered(Name(c))
    BY <1>1 DEF Answered, Name
  <1> QED
    BY <1>1, <1>2 DEF IInv, NamesFresh, Name, Names

(* Choosing an id for a vadapter or a vfabric. *)
LEMMA MaxInv ==
    ASSUME IInv, NEW c \in Clients, MaxVadapter(c) \/ MaxVfabric(c)
    PROVE  IInv'
  <1> USE DEF IInv
  <1>0. PICK r \in Requests :
           /\ request' = [request EXCEPT ![c] = r]
           /\ r # Waiting
           /\ r.pc = "va_insert" =>
                 r.id \in 1..(Cardinality(vfm_vadapter_attr) + 1)
           /\ r.pc = "vf_insert" =>
                 r.id \in 1..(Cardinality(vfm_vfabric_attr) + 1)
    <2>1. CASE MaxVadapter(c)
      <3>1. NextId(vfm_vadapter_attr) = Cardinality(vfm_vadapter_attr) + 1
            /\ Cardinality(vfm_vadapter_attr) \in Nat
        BY NextIdIsSize DEF TablesFinite, IdsDense
      <3> DEFINE r == [pc |-> "va_insert", id |-> NextId(vfm_vadapter_attr)]
      <3>2. /\ r \in Requests /\ r.pc = "va_insert" /\ r # Waiting
            /\ r.id \in 1..(Cardinality(vfm_vadapter_attr) + 1)
        BY <3>1 DEF Requests, Waiting
      <3> QED
        BY <2>1, <3>2 DEF MaxVadapter
    <2>2. CASE MaxVfabric(c)
      <3>1. NextId(vfm_vfabric_attr) = Cardinality(vfm_vfabric_attr) + 1
            /\ Cardinality(vfm_vfabric_attr) \in Nat
        BY NextIdIsSize DEF TablesFinite, IdsDense
      <3>2. request[c].protocol \in Protocols
        BY <2>2, RequestFields DEF MaxVfabric, At, ThreadsOK
      <3> DEFINE r == [pc |-> "vf_insert", protocol |-> request[c].protocol,
                       id |-> NextId(vfm_vfabric_attr)]
      <3>3. /\ r \in Requests /\ r.pc = "vf_insert" /\ r # Waiting
            /\ r.id \in 1..(Cardinality(vfm_vfabric_attr) + 1)
        BY <3>1, <3>2 DEF Requests, Waiting
      <3> QED
        BY <2>2, <3>3 DEF MaxVfabric
    <2> QED
      BY <2>1, <2>2
  <1>1. /\ UNCHANGED <<tables, handler, served, replies, advertised, crashed>>
        /\ served[c] < MaxRequests
    BY DEF MaxVadapter, MaxVfabric, At, FipUnchanged, tables, ThreadsOK, Waiting
  <1>2. TypeOK'
    BY <1>1 DEF TypeOK, tables
  <1>3. ThreadsOK'
    BY <1>0, <1>1 DEF ThreadsOK
  <1>4. TablesFinite' /\ IdsDense'
    BY <1>1 DEF TablesFinite, IdsDense, Dense, Ids, tables
  <1>5. ChosenIds'
    BY <1>0, <1>1 DEF ChosenIds, ThreadsOK, tables
  <1>6. MacRowsPaidFor'
    BY <1>1 DEF MacRowsPaidFor, RowsOf, Entering, tables
  <1>7. NamesFresh' /\ CreatedIsReported' /\ OnlineReported'
    BY <1>1 DEF NamesFresh, Answered, CreatedIsReported, OnlineReported, tables
  <1> QED
    BY <1>2, <1>3, <1>4, <1>5, <1>6, <1>7

(* Entering a vadapter: the row may be refused, and then the client is not *)
(* told an id.                                                             *)
LEMMA InsertVadapterInv ==
    ASSUME IInv, NEW c \in Clients, InsertVadapter(c)
    PROVE  IInv'
  <1> USE DEF IInv
  <1> PICK nm : nm = Name(c)
    OBVIOUS
  <1> PICK row : row = [id |-> request[c].id, name |-> nm, io_module_id |-> 0,
                        vfabric_id |-> 0]
    OBVIOUS
  <1> PICK v : v = IF InsertError(vfm_vadapter_attr, row) = VPS_SUCCESS
                     THEN row.id ELSE InsertError(vfm_vadapter_attr, row)
    OBVIOUS
  <1> DEFINE m == [name |-> nm, op |-> "create_vadapter", value |-> v,
                   active |-> {}, failed |-> {}]
  <1>0. /\ request[c].pc = "va_insert"
        /\ vfm_vadapter_attr' = Insert(vfm_vadapter_attr, row)
        /\ request' = [request EXCEPT ![c] = Waiting]
        /\ served' = [served EXCEPT ![c] = @ + 1]
        /\ replies' = replies \cup {m}
        /\ UNCHANGED <<vfm_io_module_attr, vfm_vfabric_attr, handler,
                       advertised, crashed>>
    BY DEF InsertVadapter, At, Answer, AnswerOnline, FipUnchanged
  <1>1. /\ served[c] \in Nat /\ served[c] < MaxRequests
        /\ served'[c] = served[c] + 1
        /\ nm \in Names /\ nm = <<c, served[c] + 1>>
    BY <1>0, NameIsNew DEF ThreadsOK, TypeOK, Waiting
  <1>2. row.id \in Nat /\ row.id \in 1..(Cardinality(vfm_vadapter_attr) + 1)
    BY <1>0, RequestFields DEF ThreadsOK, ChosenIds
  <1>3. \A x \in vfm_vadapter_attr' : x \in vfm_vadapter_attr \/ x = row
    BY <1>0 DEF Insert
  <1>4. TypeOK'
    <2>1. row \in [id : Nat, name : Names, io_module_id : Nat, vfabric_id : Nat]
      BY <1>1, <1>2
    <2> QED
      BY <1>0, <1>1, <1>3, <2>1, BoundAssumption DEF TypeOK
  <1>5. ThreadsOK'
    BY <1>0, <1>1 DEF ThreadsOK, TypeOK, Requests
  <1>6. /\ IsFiniteSet(vfm_vadapter_attr') /\ Dense(vfm_vadapter_attr')
        /\ Cardinality(vfm_vadapter_attr) \in Nat
        /\ Cardinality(vfm_vadapter_attr') \in Nat
        /\ Cardinality(vfm_vadapter_attr) <= Cardinality(vfm_vadapter_attr')
    BY <1>0, <1>2, InsertKeepsDense DEF TablesFinite, IdsDense
  <1>7. TablesFinite' /\ IdsDense'
    BY <1>0, <1>6 DEF TablesFinite, IdsDense, Dense, Ids
  <1>8. ChosenIds'
    BY <1>0, <1>6 DEF ChosenIds, ThreadsOK, Waiting
  <1>9. MacRowsPaidFor'
    BY <1>0 DEF MacRowsPaidFor, RowsOf, Entering
  <1>10. NamesFresh'
    <2>1. nm \in Names /\ Answered(nm)' /\ row.name = nm
      BY <1>1 DEF Answered
    <2>2. \A name \in Names : Answered(name) => Answered(name)'
      BY <1>0, <1>1 DEF Answered, Names, OldNames, TypeOK
    <2> QED
      BY <1>0, <1>3, <2>1, <2>2 DEF NamesFresh, TypeOK
  <1>11. CreatedIsReported'
    <2>1. row \in vfm_vadapter_attr' => v = row.id
      BY <1>0, NameIsNew DEF Insert, InsertError, VPS_SUCCESS
    <2>2. m.name = nm /\ m.op = "create_vadapter" /\ m.value = v
      OBVIOUS
    <2> QED
      BY <1>0, <1>3, <2>1, <2>2, NameIsNew DEF CreatedIsReported
  <1>12. OnlineReported'
    BY <1>0 DEF OnlineReported
  <1> QED
    BY <1>4, <1>5, <1>7, <1>8, <1>9, <1>10, <1>11, <1>12

(* Entering a vfabric: the client is told the id all the same, but then no *)
(* row has its name.                                                       *)
LEMMA InsertVfabricInv ==
    ASSUME IInv, NEW c \in Clients, InsertVfabric(c)
    PROVE  IInv'
  <1> USE DEF IInv
  <1> PICK nm : nm = Name(c)
    OBVIOUS
  <1> PICK row : row = [id |-> request[c].id, name |-> nm,
                        protocol |-> request[c].protocol]
    OBVIOUS
  <1> DEFINE m == [name |-> nm, op |-> "create_vfabric", value |-> row.id,
                   active |-> {}, failed |-> {}]
  <1>0. /\ request[c].pc = "vf_insert"
        /\ vfm_vfabric_attr' = Insert(vfm_vfabric_attr, row)
        /\ request' = [request EXCEPT ![c] = Waiting]
        /\ served' = [served EXCEPT ![c] = @ + 1]
        /\ replies' = replies \cup {m}
        /\ UNCHANGED <<vfm_io_module_attr, vfm_vadapter_attr, handler,
                       advertised, crashed>>
    BY DEF InsertVfabric, At, Answer, AnswerOnline, FipUnchanged
  <1>1. /\ served[c] \in Nat /\ served[c] < MaxRequests
        /\ served'[c] = served[c] + 1
        /\ nm \in Names /\ nm = <<c, served[c] + 1>>
    BY <1>0, NameIsNew DEF ThreadsOK, TypeOK, Waiting
  <1>2. /\ row.id \in Nat /\ row.protocol \in Protocols
        /\ row.id \in 1..(Cardinality(vfm_vfabric_attr) + 1)
    BY <1>0, RequestFields DEF ThreadsOK, ChosenIds
  <1>3. \A x \in vfm_vfabric_attr' : x \in vfm_vfabric_attr \/ x = row
    BY <1>0 DEF Insert
  <1>4. TypeOK'
    <2>1. row \in [id : Nat, name : Names, protocol : Protocols]
      BY <1>1, <1>2
    <2> QED
      BY <1>0, <1>1, <1>3, <2>1, BoundAssumption DEF TypeOK
  <1>5. ThreadsOK'
    BY <1>0, <1>1 DEF ThreadsOK, TypeOK, Requests
  <1>6. /\ IsFiniteSet(vfm_vfabric_attr') /\ Dense(vfm_vfabric_attr')
        /\ Cardinality(vfm_vfabric_attr) \in Nat
        /\ Cardinality(vfm_vfabric_attr') \in Nat
        /\ Cardinality(vfm_vfabric_attr) <= Cardinality(vfm_vfabric_attr')
    BY <1>0, <1>2, InsertKeepsDense DEF TablesFinite, IdsDense
  <1>7. TablesFinite' /\ IdsDense'
    BY <1>0, <1>6 DEF TablesFinite, IdsDense, Dense, Ids
  <1>8. ChosenIds'
    BY <1>0, <1>6 DEF ChosenIds, ThreadsOK, Waiting
  <1>9. MacRowsPaidFor'
    BY <1>0 DEF MacRowsPaidFor, RowsOf, Entering
  <1>10. NamesFresh'
    <2>1. nm \in Names /\ Answered(nm)' /\ row.name = nm
      BY <1>1 DEF Answered
    <2>2. \A name \in Names : Answered(name) => Answered(name)'
      BY <1>0, <1>1 DEF Answered, Names, OldNames, TypeOK
    <2> QED
      BY <1>0, <1>3, <2>1, <2>2 DEF NamesFresh, TypeOK
  <1>11. CreatedIsReported'
    <2>1. m.name = nm /\ m.op = "create_vfabric" /\ m.value = row.id
      OBVIOUS
    <2> QED
      BY <1>0, <1>3, <2>1, NameIsNew DEF CreatedIsReported
  <1>12. OnlineReported'
    BY <1>0 DEF OnlineReported
  <1> QED
    BY <1>4, <1>5, <1>7, <1>8, <1>9, <1>10, <1>11, <1>12

(* An update of the vadapters keeps their ids and names. *)
LEMMA EditVadapterInv ==
    ASSUME IInv, NEW c \in Clients, NEW id \in Refs, NEW v \in Refs,
           NEW column \in {"io_module_id", "vfabric_id"},
           EditVadapter(c, id, column, v)
    PROVE  IInv'
  <1> USE DEF IInv
  <1> DEFINE T == vfm_vadapter_attr
             Row == [id : Nat, name : Names, io_module_id : Nat, vfabric_id : Nat]
             Update(row) == IF row.id = id THEN [row EXCEPT ![column] = v] ELSE row
  <1> PICK nm : nm = Name(c)
    OBVIOUS
  <1> DEFINE m == [name |-> nm, op |-> "edit_vadapter", value |-> VPS_SUCCESS,
                   active |-> {}, failed |-> {}]
  <1>0. /\ served[c] < MaxRequests
        /\ T' = {Update(row) : row \in T}
        /\ request' = [request EXCEPT ![c] = Waiting]
        /\ served' = [served EXCEPT ![c] = @ + 1]
        /\ replies' = replies \cup {m}
        /\ UNCHANGED <<vfm_io_module_attr, vfm_vfabric_attr, handler,
                       advertised, crashed>>
    BY DEF EditVadapter, Answer, AnswerOnline, FipUnchanged
  <1>1. /\ served[c] \in Nat /\ served'[c] = served[c] + 1
        /\ nm \in Names /\ nm = <<c, served[c] + 1>>
    BY <1>0, NameIsNew DEF TypeOK
  <1>2. \A row \in T : /\ Update(row) \in Row
                       /\ Update(row).id = row.id
                       /\ Update(row).name = row.name
    BY BoundAssumption DEF TypeOK, Refs
  <1> HIDE DEF Update
  <1>3. \A x \in T' : \E row \in T : x.id = row.id /\ x.name = row.name
    BY <1>0, <1>2
  <1>4. TypeOK'
    BY <1>0, <1>1, <1>2, BoundAssumption DEF TypeOK
  <1>5. ThreadsOK'
    BY <1>0, <1>1 DEF ThreadsOK, TypeOK, Requests
  <1>6. /\ IsFiniteSet(T') /\ Dense(T') /\ Cardinality(T') = Cardinality(T)
    <2>1. \A r \in T : \E u \in T' : u.id = r.id
      BY <1>0, <1>2
    <2>2. \A x, y \in T' : x.id = y.id => x = y
      BY <1>0, <1>2 DEF IdsDense, Dense
    <2>3. IsFiniteSet(T) /\ Dense(T)
      BY DEF TablesFinite, IdsDense
    <2> HIDE DEF T
    <2> QED
      BY <1>3, <2>1, <2>2, <2>3, UpdateKeepsDense
  <1>7. TablesFinite' /\ IdsDense'
    BY <1>0, <1>6 DEF TablesFinite, IdsDense, Dense, Ids
  <1>8. ChosenIds'
    BY <1>0, <1>6 DEF ChosenIds, ThreadsOK, Waiting
  <1>9. MacRowsPaidFor'
    BY <1>0 DEF MacRowsPaidFor, RowsOf, Entering
  <1>10. NamesFresh'
    <2>1. nm \in Names /\ Answered(nm)' /\ m.name = nm
      BY <1>1 DEF Answered
    <2>2. \A name \in Names : Answered(name) => Answered(name)'
      BY <1>0, <1>1 DEF Answered, Names, OldNames, TypeOK
    <2>3. \A row \in T' : Answered(row.name)'
      BY <1>3, <2>2 DEF NamesFresh, TypeOK
    <2> QED
      BY <1>0, <2>1, <2>2, <2>3 DEF NamesFresh, TypeOK
  <1>11. CreatedIsReported'
    BY <1>0, <1>3 DEF CreatedIsReported
  <1>12. OnlineReported'
    BY <1>0 DEF OnlineReported
  <1> QED
    BY <1>4, <1>5, <1>7, <1>8, <1>9, <1>10, <1>11, <1>12

(* So does an update of the vfabrics. *)
LEMMA EditVfabricInv ==
    ASSUME IInv, NEW c \in Clients, NEW id \in Refs,
           NEW protocol \in Protocols, EditVfabric(c, id, protocol)
    PROVE  IInv'
  <1> USE DEF IInv
  <1> DEFINE T == vfm_vfabric_attr
             Row == [id : Nat, name : Names, protocol : Protocols]
             Update(row) == IF row.id = id THEN [row EXCEPT !.protocol = protocol]
                                           ELSE row
  <1> PICK nm : nm = Name(c)
    OBVIOUS
  <1> DEFINE m == [name |-> nm, op |-> "edit_vfabric", value |-> VPS_SUCCESS,
                   active |-> {}, failed |-> {}]
  <1>0. /\ served[c] < MaxRequests
        /\ T' = {Update(row) : row \in T}
        /\ request' = [request EXCEPT ![c] = Waiting]
        /\ served' = [served EXCEPT ![c] = @ + 1]
        /\ replies' = replies \cup {m}
        /\ UNCHANGED <<vfm_io_module_attr, vfm_vadapter_attr, handler,
                       advertised, crashed>>
    BY DEF EditVfabric, Answer, AnswerOnline, FipUnchanged
  <1>1. /\ served[c] \in Nat /\ served'[c] = served[c] + 1
        /\ nm \in Names /\ nm = <<c, served[c] + 1>>
    BY <1>0, NameIsNew DEF TypeOK
  <1>2. \A row \in T : /\ Update(row) \in Row
                       /\ Update(row).id = row.id
                       /\ Update(row).name = row.name
    BY BoundAssumption DEF TypeOK, Refs
  <1> HIDE DEF Update
  <1>3. \A x \in T' : \E row \in T : x.id = row.id /\ x.name = row.name
    BY <1>0, <1>2
  <1>4. TypeOK'
    BY <1>0, <1>1, <1>2, BoundAssumption DEF TypeOK
  <1>5. ThreadsOK'
    BY <1>0, <1>1 DEF ThreadsOK, TypeOK, Requests
  <1>6. /\ IsFiniteSet(T') /\ Dense(T') /\ Cardinality(T') = Cardinality(T)
    <2>1. \A r \in T : \E u \in T' : u.id = r.id
      BY <1>0, <1>2
    <2>2. \A x, y \in T' : x.id = y.id => x = y
      BY <1>0, <1>2 DEF IdsDense, Dense
    <2>3. IsFiniteSet(T) /\ Dense(T)
      BY DEF TablesFinite, IdsDense
    <2> HIDE DEF T
    <2> QED
      BY <1>3, <2>1, <2>2, <2>3, UpdateKeepsDense
  <1>7. TablesFinite' /\ IdsDense'
    BY <1>0, <1>6 DEF TablesFinite, IdsDense, Dense, Ids
  <1>8. ChosenIds'
    BY <1>0, <1>6 DEF ChosenIds, ThreadsOK, Waiting
  <1>9. MacRowsPaidFor'
    BY <1>0 DEF MacRowsPaidFor, RowsOf, Entering
  <1>10. NamesFresh'
    <2>1. nm \in Names /\ Answered(nm)' /\ m.name = nm
      BY <1>1 DEF Answered
    <2>2. \A name \in Names : Answered(name) => Answered(name)'
      BY <1>0, <1>1 DEF Answered, Names, OldNames, TypeOK
    <2>3. \A row \in T' : Answered(row.name)'
      BY <1>3, <2>2 DEF NamesFresh, TypeOK
    <2> QED
      BY <1>0, <2>1, <2>2, <2>3 DEF NamesFresh, TypeOK
  <1>11. CreatedIsReported'
    BY <1>0, <1>3 DEF CreatedIsReported
  <1>12. OnlineReported'
    BY <1>0 DEF OnlineReported
  <1> QED
    BY <1>4, <1>5, <1>7, <1>8, <1>9, <1>10, <1>11, <1>12

(* __vadapter_online is done with a vadapter: the thread goes on with the  *)
(* next one, or answers.                                                   *)
LEMMA ReturnsInv ==
    ASSUME IInv, NEW c \in Clients,
           request[c].pc \in {"online", "io_module", "vfabric", "advertise"},
           NEW err \in Int, Returns(c, err),
           UNCHANGED <<tables, handler, crashed>>, advertised' \subseteq Macs
    PROVE  IInv'
  <1> DEFINE r == request[c]
             id == First(r.todo)
             active == IF err = VPS_SUCCESS THEN r.active \cup {id} ELSE r.active
             failed == IF err = VPS_SUCCESS THEN r.failed ELSE r.failed \cup {id}
  <1>1. /\ r.op \in {"vadapter_online", "vfabric_online"}
        /\ r.todo \subseteq Nat /\ r.todo # {}
        /\ r.active \subseteq Nat /\ r.failed \subseteq Nat
    BY RequestFields DEF IInv, ThreadsOK, OnlineRequests
  <1>2. id \in r.todo
    BY <1>1, FirstIsLeft
  <1>3. served[c] < MaxRequests /\ crashed' \in BOOLEAN
    BY DEF IInv, ThreadsOK, Waiting, TypeOK
  <1>4. CASE r.todo # {id}
    <2> DEFINE next == Online(r.op, r.todo \ {id}, active, failed)
    <2>1. /\ request' = [request EXCEPT ![c] = next]
          /\ UNCHANGED <<served, replies>>
      BY <1>4 DEF Returns
    <2>2. next \in OnlineRequests({"online", "io_module"}, Macs \cup {NoMac})
      <3>1. r.todo \ {id} \in (SUBSET Nat) \ {{}}
        BY <1>1, <1>2, <1>4
      <3>2. active \in SUBSET Nat /\ failed \in SUBSET Nat
        BY <1>1, <1>2
      <3> HIDE DEF r, id, active, failed
      <3> QED
        BY <1>1, <3>1, <3>2 DEF Online, OnlineRequests
    <2>3. next.pc = "online" /\ next \in Requests
      BY <2>2 DEF Online, Requests
    <2> HIDE DEF next
    <2> QED
      BY <1>3, <2>1, <2>3, MoveInv
  <1>5. CASE r.todo = {id}
    <2> DEFINE v == IF r.op = "vadapter_online" THEN VPS_SUCCESS ELSE err
    <2>1. AnswerOnline(c, r.op, v, active, failed)
      BY <1>5 DEF Returns
    <2>2. /\ err = VPS_SUCCESS => active # {}
          /\ err # VPS_SUCCESS => failed # {}
      OBVIOUS
    <2>3. r.op = "vfabric_online" => v = err
      OBVIOUS
    <2> HIDE DEF active, failed, v
    <2> QED
      BY <1>1, <1>3, <2>1, <2>2, <2>3, ReplyInv
  <1> QED
    BY <1>4, <1>5

(* The steps of bringing vadapters online. *)
LEMMA OnlineInv ==
    ASSUME IInv, NEW c \in Clients,
           \/ SelectVadapter(c) \/ SelectIoModule(c)
           \/ SelectVfabric(c) \/ Advertise(c)
    PROVE  IInv'
  <1> USE DEF At, OnlineUnchanged, FipUnchanged, tables
  <1>0. /\ request \in [Clients -> Requests] /\ request[c] \in Requests
        /\ request[c].pc # "wait" => served[c] < MaxRequests
        /\ advertised \subseteq Macs /\ crashed \in BOOLEAN
    BY DEF IInv, ThreadsOK, TypeOK, Waiting
  <1>a. ASSUME Returns(c, VFM_ERROR_IOMODULE),
               request[c].pc \in {"online", "io_module"},
               UNCHANGED <<tables, handler, crashed>>, advertised' \subseteq Macs
        PROVE  IInv'
    <2>1. VFM_ERROR_IOMODULE \in Int
      BY DEF VFM_ERROR_IOMODULE
    <2> HIDE DEF tables
    <2> QED
      BY <1>a, <2>1, ReturnsInv
  <1>1. CASE SelectVadapter(c)
    <2> USE <1>1 DEF SelectVadapter
    <2>0. request[c] \in OnlineRequests({"online", "io_module"},
                                        Macs \cup {NoMac})
      BY <1>0, RequestFields
    <2>1. ASSUME NEW row \in vfm_vadapter_attr,
                 request' = [request EXCEPT ![c].pc = "io_module",
                                ![c].io_module_id = row.io_module_id,
                                ![c].vfabric_id = row.vfabric_id],
                 UNCHANGED <<served, replies>>
          PROVE  IInv'
      <3> DEFINE r == [request[c] EXCEPT !.pc = "io_module",
                         !.io_module_id = row.io_module_id,
                         !.vfabric_id = row.vfabric_id]
      <3>1. r \in OnlineRequests({"online", "io_module"}, Macs \cup {NoMac})
        BY <2>0 DEF IInv, TypeOK, OnlineRequests
      <3>2. r \in Requests /\ r.pc = "io_module"
        BY <2>0, <3>1 DEF Requests, OnlineRequests
      <3>3. request' = [request EXCEPT ![c] = r]
        BY <1>0, <2>1
      <3> HIDE DEF r
      <3> QED
        BY <1>0, <2>1, <3>2, <3>3, MoveInv
    <2>2. CASE Returns(c, VFM_ERROR_IOMODULE)
      BY <1>0, <1>a, <2>2
    <2> QED
      BY <2>1, <2>2
  <1>2. CASE SelectIoModule(c)
    <2> USE <1>2 DEF SelectIoModule
    <2>0. request[c] \in OnlineRequests({"online", "io_module"},
                                        Macs \cup {NoMac})
      BY <1>0, RequestFields
    <2>1. ASSUME NEW row \in vfm_io_module_attr,
                 request' = [request EXCEPT ![c].pc = "vfabric",
                                            ![c].mac = row.mac],
                 UNCHANGED <<served, replies>>
          PROVE  IInv'
      <3> DEFINE r == [request[c] EXCEPT !.pc = "vfabric", !.mac = row.mac]
      <3>1. r \in OnlineRequests({"vfabric", "advertise"}, Macs)
        BY <2>0 DEF IInv, TypeOK, OnlineRequests
      <3>2. r \in Requests /\ r.pc = "vfabric"
        BY <2>0, <3>1 DEF Requests, OnlineRequests
      <3>3. request' = [request EXCEPT ![c] = r]
        BY <1>0, <2>1
      <3> HIDE DEF r
      <3> QED
        BY <1>0, <2>1, <3>2, <3>3, MoveInv
    <2>2. CASE Returns(c, VFM_ERROR_IOMODULE)
      BY <1>0, <1>a, <2>2
    <2> QED
      BY <2>1, <2>2
  <1>3. CASE SelectVfabric(c)
    <2> USE <1>3 DEF SelectVfabric
    <2>0. request[c] \in OnlineRequests({"vfabric", "advertise"}, Macs)
      BY <1>0, RequestFields
    <2>1. PICK r \in Requests : /\ r.pc \in {"vfabric", "advertise"}
                                /\ request' = [request EXCEPT ![c] = r]
      <3>1. CASE request' = [request EXCEPT ![c].pc = "advertise"]
        <4> DEFINE r == [request[c] EXCEPT !.pc = "advertise"]
        <4>1. r \in OnlineRequests({"vfabric", "advertise"}, Macs)
          BY <2>0 DEF OnlineRequests
        <4>2. r \in Requests /\ r.pc = "advertise"
          BY <2>0, <4>1 DEF Requests, OnlineRequests
        <4>3. request' = [request EXCEPT ![c] = r]
          BY <1>0, <3>1
        <4> QED
          BY <4>2, <4>3
      <3>2. CASE UNCHANGED request
        BY <1>0, <3>2
      <3> QED
        BY <3>1, <3>2
    <2>2. crashed' \in BOOLEAN
      BY <1>0
    <2> QED
      BY <1>0, <2>1, <2>2, MoveInv
  <1>4. CASE Advertise(c)
    <2>1. request[c].mac \in Macs
      BY <1>0, <1>4, RequestFields DEF Advertise, OnlineRequests
    <2> QED
      BY <1>0, <1>4, <2>1, ReturnsInv DEF Advertise, VPS_SUCCESS
  <1> QED
    BY <1>1, <1>2, <1>3, <1>4

(* A host's I/O module: looking it up, choosing its id and entering it. *)
LEMMA DiscoveryInv ==
    ASSUME IInv, NEW p \in Processors, Discovery(p)
    PROVE  IInv'
  <1> USE DEF IInv
  <1> DEFINE T == vfm_io_module_attr
  <1>0. /\ UNCHANGED <<vfm_vadapter_attr, vfm_vfabric_attr, request, served,
                       replies, advertised, crashed>>
        /\ handler[p] \in Handlers
    BY DEF Discovery, Solicitation, LookUpMac, MaxIoModule, InsertIoModule,
           ApiUnchanged, ThreadsOK
  <1>1. NamesFresh' /\ CreatedIsReported' /\ OnlineReported'
    BY <1>0 DEF NamesFresh, Answered, CreatedIsReported, OnlineReported
  <1>2. /\ IsFiniteSet(T) /\ Dense(T) /\ Cardinality(T) \in Nat
        /\ NextId(T) = Cardinality(T) + 1
    BY NextIdIsSize DEF TablesFinite, IdsDense
  <1>3. ASSUME UNCHANGED vfm_io_module_attr, NEW h \in Handlers,
               handler' = [handler EXCEPT ![p] = h],
               h.pc = "insert" => h.id \in 1..(Cardinality(T) + 1)
        PROVE  TypeOK' /\ ThreadsOK' /\ TablesFinite' /\ IdsDense' /\ ChosenIds'
    <2>1. TypeOK' /\ ThreadsOK'
      BY <1>0, <1>3 DEF TypeOK, ThreadsOK
    <2>2. TablesFinite' /\ IdsDense'
      BY <1>0, <1>3 DEF TablesFinite, IdsDense, Dense, Ids
    <2>3. ChosenIds'
      BY <1>0, <1>3 DEF ChosenIds, ThreadsOK
    <2> QED
      BY <2>1, <2>2, <2>3
  <1>4. ASSUME UNCHANGED vfm_io_module_attr,
               \A mac \in Macs : Entering(mac)' = Entering(mac)
        PROVE  MacRowsPaidFor'
    BY <1>4 DEF MacRowsPaidFor, RowsOf
  <1>5. ASSUME NEW mac \in Macs, Solicitation(p, mac) PROVE IInv'
    <2> DEFINE h == [pc |-> "by_mac", mac |-> mac]
    <2>1. /\ handler' = [handler EXCEPT ![p] = h] /\ handler[p].pc = "wait"
          /\ UNCHANGED vfm_io_module_attr
          /\ h \in Handlers /\ h.pc = "by_mac"
      BY <1>5 DEF Solicitation, Handlers, Waiting
    <2>2. \A x \in Macs : Entering(x)' = Entering(x)
      BY <2>1 DEF Entering, ThreadsOK
    <2> QED
      BY <1>1, <1>3, <1>4, <2>1, <2>2
  <1>6. CASE LookUpMac(p)
    <2>1. handler[p].pc = "by_mac" /\ handler[p].mac \in Macs
      BY <1>0, <1>6 DEF LookUpMac, Handlers, Waiting
    <2>2. CASE \E row \in T : row.mac = handler[p].mac
      <3>1. /\ handler' = [handler EXCEPT ![p] = Waiting]
            /\ UNCHANGED vfm_io_module_attr
            /\ Waiting \in Handlers /\ Waiting.pc = "wait"
        BY <1>6, <2>2 DEF LookUpMac, Handlers, Waiting
      <3>2. \A x \in Macs : Entering(x)' = Entering(x)
        BY <2>1, <3>1 DEF Entering, ThreadsOK
      <3> QED
        BY <1>1, <1>3, <1>4, <3>1, <3>2
    <2>3. CASE ~ \E row \in T : row.mac = handler[p].mac
      <3> DEFINE h == [pc |-> "max", mac |-> handler[p].mac]
      <3>1. /\ handler' = [handler EXCEPT ![p] = h]
            /\ UNCHANGED vfm_io_module_attr
            /\ h \in Handlers /\ h.pc = "max" /\ h.mac = handler[p].mac
        BY <1>6, <2>1, <2>3 DEF LookUpMac, Handlers
      <3>2. MacRowsPaidFor'
        <4> SUFFICES ASSUME NEW mac \in Macs
                     PROVE  Cardinality(RowsOf(T', mac)) + Cardinality(Entering(mac)')
                              <= Cardinality(Processors)
          BY DEF MacRowsPaidFor
        <4>1. CASE mac = handler[p].mac
          <5>1. Cardinality(RowsOf(T', mac)) = 0
            <6>1. RowsOf(T', mac) = {}
              BY <2>3, <3>1, <4>1 DEF RowsOf
            <6> QED
              BY <6>1, FS_EmptySet
          <5>2. Entering(mac)' \in SUBSET Processors
            BY DEF Entering
          <5>3. /\ IsFiniteSet(Entering(mac)')
                /\ Cardinality(Entering(mac)') <= Cardinality(Processors)
            BY <5>2, FS_Subset, ProcessorsAssumption
          <5>4. Cardinality(Entering(mac)') \in Nat
            BY <5>3, FS_CardinalityType
          <5> QED
            BY <5>1, <5>3, <5>4
        <4>2. CASE mac # handler[p].mac
          <5>1. Entering(mac)' = Entering(mac)
            BY <2>1, <3>1, <4>2 DEF Entering, ThreadsOK
          <5> QED
            BY <3>1, <5>1 DEF MacRowsPaidFor
        <4> QED
          BY <4>1, <4>2
      <3> QED
        BY <1>1, <1>3, <3>1, <3>2
    <2> QED
      BY <2>2, <2>3
  <1>7. CASE MaxIoModule(p)
    <2>1. handler[p].pc = "max" /\ handler[p].mac \in Macs
      BY <1>0, <1>7 DEF MaxIoModule, Handlers, Waiting
    <2> DEFINE h == [pc |-> "insert", mac |-> handler[p].mac, id |-> NextId(T)]
    <2>2. /\ handler' = [handler EXCEPT ![p] = h]
          /\ UNCHANGED vfm_io_module_attr
          /\ h \in Handlers /\ h.pc = "insert" /\ h.mac = handler[p].mac
          /\ h.id \in 1..(Cardinality(T) + 1)
      BY <1>2, <1>7, <2>1 DEF MaxIoModule, Handlers
    <2> HIDE DEF h
    <2>3. \A x \in Macs : Entering(x)' = Entering(x)
      BY <2>1, <2>2 DEF Entering, ThreadsOK
    <2> QED
      BY <1>1, <1>3, <1>4, <2>2, <2>3
  <1>8. CASE InsertIoModule(p)
    <2> PICK row : row = [id |-> handler[p].id, mac |-> handler[p].mac]
      OBVIOUS
    <2>1. /\ handler[p].pc = "insert" /\ row \in [id : Nat, mac : Macs]
          /\ row.id \in 1..(Cardinality(T) + 1) /\ row.mac = handler[p].mac
      BY <1>0, <1>8 DEF InsertIoModule, Handlers, Waiting, ChosenIds
    <2>2. /\ T' = Insert(T, row)
          /\ handler' = [handler EXCEPT ![p] = Waiting]
      BY <1>8 DEF InsertIoModule
    <2>3. /\ IsFiniteSet(T') /\ Dense(T') /\ Cardinality(T') \in Nat
          /\ Cardinality(T) <= Cardinality(T')
      BY <1>2, <2>1, <2>2, InsertKeepsDense
    <2>4. TypeOK'
      BY <1>0, <2>1, <2>2 DEF TypeOK, Insert
    <2>5. ThreadsOK'
      BY <1>0, <2>2 DEF ThreadsOK, Handlers
    <2>6. TablesFinite' /\ IdsDense'
      BY <1>0, <2>3 DEF TablesFinite, IdsDense, Dense, Ids
    <2>7. ChosenIds'
      BY <1>0, <1>2, <2>2, <2>3 DEF ChosenIds, ThreadsOK, Waiting
    <2>8. MacRowsPaidFor'
      <3> SUFFICES ASSUME NEW mac \in Macs
                   PROVE  Cardinality(RowsOf(T', mac)) + Cardinality(Entering(mac)')
                            <= Cardinality(Processors)
        BY DEF MacRowsPaidFor
      <3>1. /\ IsFiniteSet(RowsOf(T, mac)) /\ IsFiniteSet(Entering(mac))
            /\ Cardinality(RowsOf(T, mac)) \in Nat
            /\ Cardinality(Entering(mac)) \in Nat
            /\ Cardinality(Processors) \in Nat
        BY <1>2, FS_Subset, FS_CardinalityType, ProcessorsAssumption
           DEF RowsOf, Entering
      <3>2. CASE mac = row.mac
        <4>1. p \in Entering(mac) /\ Entering(mac)' = Entering(mac) \ {p}
          BY <2>1, <2>2, <3>2 DEF Entering, ThreadsOK, Waiting
        <4>2. Cardinality(Entering(mac)') = Cardinality(Entering(mac)) - 1
          BY <3>1, <4>1, FS_RemoveElement
        <4>3. \/ RowsOf(T', mac) = RowsOf(T, mac)
              \/ RowsOf(T', mac) = RowsOf(T, mac) \cup {row}
          BY <2>2, <3>2 DEF RowsOf, Insert
        <4>4. /\ Cardinality(RowsOf(T', mac)) \in Nat
              /\ Cardinality(RowsOf(T', mac)) <= Cardinality(RowsOf(T, mac)) + 1
          <5> DEFINE R == RowsOf(T, mac)
          <5>1. /\ IsFiniteSet(R \cup {row})
                /\ Cardinality(R \cup {row}) =
                      IF row \in R THEN Cardinality(R) ELSE Cardinality(R) + 1
            <6> HIDE DEF R
            <6> QED
              BY <3>1, FS_AddElement DEF R
          <5>2. /\ Cardinality(R \cup {row}) \in Nat
                /\ Cardinality(R \cup {row}) <= Cardinality(R) + 1
            BY <3>1, <5>1
          <5>3. Cardinality(R) <= Cardinality(R) + 1
            BY <3>1
          <5> QED
            BY <3>1, <4>3, <5>2, <5>3, Zenon
        <4> QED
          BY <3>1, <4>2, <4>4 DEF MacRowsPaidFor
      <3>3. CASE mac # row.mac
        <4>1. Entering(mac)' = Entering(mac)
          BY <2>1, <2>2, <3>3 DEF Entering, ThreadsOK, Waiting
        <4>2. RowsOf(T', mac) = RowsOf(T, mac)
          BY <2>2, <3>3 DEF RowsOf, Insert
        <4> QED
          BY <4>1, <4>2 DEF MacRowsPaidFor
      <3> QED
        BY <3>2, <3>3
    <2> QED
      BY <1>1, <2>4, <2>5, <2>6, <2>7, <2>8
  <1> QED
    BY <1>5, <1>6, <1>7, <1>8 DEF Discovery

(* A request is accepted, or answered without a statement that matters.    *)
LEMMA SimpleInv ==
    ASSUME IInv, NEW c \in Clients,
           \/ CreateVadapter(c) \/ EditNothing(c) \/ EditEnAttr(c)
           \/ NoVadapter(c)
           \/ \E protocol \in Protocols : CreateVfabric(c, protocol)
           \/ \E id \in Refs : VadapterOnline(c, id) \/ VfabricOnline(c, id)
    PROVE  IInv'
  <1>0. advertised \subseteq Macs /\ crashed \in BOOLEAN
    BY DEF IInv, TypeOK
  <1>1. ASSUME NEW req \in Requests, Accept(c, req),
               req.pc \notin {"va_insert", "vf_insert"}
        PROVE  IInv'
    <2>1. /\ UNCHANGED <<tables, handler, served, replies>>
          /\ served[c] < MaxRequests
          /\ request' = [request EXCEPT ![c] = req]
          /\ advertised' \subseteq Macs /\ crashed' \in BOOLEAN
      BY <1>0, <1>1 DEF Accept, FipUnchanged, tables
    <2> QED
      BY <1>1, <2>1, MoveInv
  <1>2. ASSUME NEW op \in {"edit_vadapter", "edit_vfabric", "edit_en_attr",
                           "vfabric_online"},
               NEW v \in Int, Answer(c, op, v), served[c] < MaxRequests,
               op = "vfabric_online" => v # VPS_SUCCESS,
               UNCHANGED <<tables, handler, advertised, crashed>>
        PROVE  IInv'
    <2>1. AnswerOnline(c, op, v, {}, {})
      BY <1>2 DEF Answer
    <2>2. op \notin {"create_vadapter", "create_vfabric"}
      BY <1>2
    <2> QED
      BY <1>0, <1>2, <2>1, <2>2, ReplyInv
  <1>3. CASE CreateVadapter(c)
    BY <1>1, <1>3 DEF CreateVadapter, Requests
  <1>4. CASE EditNothing(c) \/ EditEnAttr(c)
    <2>1. /\ UNCHANGED <<tables, handler, advertised, crashed>>
          /\ served[c] < MaxRequests
      BY <1>4 DEF EditNothing, EditEnAttr, FipUnchanged, tables
    <2>2. PICK op \in {"edit_vadapter", "edit_vfabric", "edit_en_attr"},
               v \in Int : Answer(c, op, v)
      BY <1>4 DEF EditNothing, EditEnAttr, VPS_SUCCESS, VPS_DBERROR
    <2> QED
      BY <1>2, <2>1, <2>2
  <1>5. CASE NoVadapter(c)
    <2>1. /\ UNCHANGED <<tables, handler, advertised, crashed>>
          /\ served[c] < MaxRequests
      BY <1>5 DEF NoVadapter, At, FipUnchanged, tables, IInv, ThreadsOK, Waiting
    <2>2. PICK v \in Int : v # VPS_SUCCESS /\ Answer(c, "vfabric_online", v)
      BY <1>5 DEF NoVadapter, VFM_ERROR_VFABRIC, VPS_SUCCESS
    <2> QED
      BY <1>2, <2>1, <2>2
  <1>6. ASSUME NEW protocol \in Protocols, CreateVfabric(c, protocol)
        PROVE  IInv'
    BY <1>1, <1>6 DEF CreateVfabric, Requests
  <1>7. ASSUME NEW op \in {"vadapter_online", "vfabric_online"}, NEW todo,
               todo \subseteq Nat, todo # {}, Accept(c, Online(op, todo, {}, {}))
        PROVE  IInv'
    <2>1. Online(op, todo, {}, {}) \in
             OnlineRequests({"online", "io_module"}, Macs \cup {NoMac})
      BY <1>7 DEF Online, OnlineRequests
    <2>2. /\ Online(op, todo, {}, {}) \in Requests
          /\ Online(op, todo, {}, {}).pc = "online"
      BY <2>1 DEF Requests, Online
    <2> QED
      BY <1>1, <1>7, <2>2
  <1>8. ASSUME NEW id \in Refs, VadapterOnline(c, id) PROVE IInv'
    <2>1. {id} \subseteq Nat /\ {id} # {}
      BY BoundAssumption DEF Refs
    <2> QED
      BY <1>7, <1>8, <2>1 DEF VadapterOnline
  <1>9. ASSUME NEW id \in Refs, VfabricOnline(c, id) PROVE IInv'
    <2> DEFINE mine == {row \in vfm_vadapter_attr : row.vfabric_id = id}
    <2>1. CASE mine = {}
      BY <1>1, <1>9, <2>1 DEF VfabricOnline, Requests
    <2>2. CASE mine # {}
      <3>1. Ids(mine) \subseteq Nat /\ Ids(mine) # {}
        BY <2>2 DEF Ids, IInv, TypeOK
      <3>2. Accept(c, Online("vfabric_online", Ids(mine), {}, {}))
        BY <1>9, <2>2 DEF VfabricOnline
      <3> HIDE DEF mine
      <3> QED
        BY <1>7, <3>1, <3>2
    <2> QED
      BY <2>1, <2>2
  <1> QED
    BY <1>3, <1>4, <1>5, <1>6, <1>8, <1>9

-----------------------------------------------------------------------------
(* Tables, replies and what the threads have chosen agree in every         *)
(* reachable state, however the statements of the threads interleave.      *)
THEOREM Invariance == Spec => []IInv
  <1>1. IInv /\ [Next]_vars => IInv'
    <2> SUFFICES ASSUME IInv, [Next]_vars PROVE IInv'
      OBVIOUS
    <2>1. ASSUME NEW p \in Processors, Discovery(p) PROVE IInv'
      BY <2>1, DiscoveryInv
    <2>2. ASSUME NEW c \in Clients, Api(c) PROVE IInv'
      BY <2>2, MaxInv, InsertVadapterInv, InsertVfabricInv, EditVadapterInv,
         EditVfabricInv, OnlineInv, SimpleInv DEF Api
    <2>3. CASE UNCHANGED vars
      BY <2>3 DEF vars, tables, IInv, TypeOK, ThreadsOK, TablesFinite, IdsDense,
                  Dense, Ids, ChosenIds, MacRowsPaidFor, RowsOf, Entering,
                  NamesFresh, Answered, CreatedIsReported, OnlineReported
    <2> QED
      BY <2>1, <2>2, <2>3 DEF Next
  <1> QED
    BY <1>1, InitInv, PTL DEF Spec

(* Although generate_*_id and the insert are separate statements, no id of *)
(* any table is ever skipped or given to two rows.                         *)
THEOREM IdsStayDense == Spec => []IdsDense
  BY Invariance, PTL DEF IInv

(* However many processors look a MAC up at once, it is entered at most    *)
(* once by each of them.                                                   *)
THEOREM MacRowsStayBounded == Spec => []MacRowsBounded
  <1>1. IInv => MacRowsBounded
    <2> SUFFICES ASSUME IInv, NEW mac \in Macs
                 PROVE  Cardinality(RowsOf(vfm_io_module_attr, mac))
                          <= Cardinality(Processors)
      BY DEF MacRowsBounded
    <2>1. /\ IsFiniteSet(RowsOf(vfm_io_module_attr, mac))
          /\ IsFiniteSet(Entering(mac))
      BY FS_Subset, ProcessorsAssumption
         DEF IInv, TablesFinite, RowsOf, Entering
    <2>2. /\ Cardinality(RowsOf(vfm_io_module_attr, mac)) \in Nat
          /\ Cardinality(Entering(mac)) \in Nat
          /\ Cardinality(Processors) \in Nat
      BY <2>1, FS_CardinalityType, ProcessorsAssumption
    <2> QED
      BY <2>2 DEF IInv, MacRowsPaidFor
  <1> QED
    BY <1>1, Invariance, PTL

(* A client that has had a create answered was told the id of the row that *)
(* bears its name, if there is one.                                        *)
THEOREM CreateReported == Spec => []CreatedIsReported
  BY Invariance, PTL DEF IInv

(* What the answer to vfabric_online says of the vadapters it was about.   *)
THEOREM VfabricOnlineReported == Spec => []OnlineReported
  BY Invariance, PTL DEF IInv
=============================================================================
