------------------------- MODULE ApiSession_proofs --------------------------
(***************************************************************************)
(* Proofs about the management API, for any number of clients, connections *)
(* and calls, every length of the listener's arrays and of the answers.    *)
(***************************************************************************)
EXTENDS ApiSession, SequenceTheorems, TLAPS

-----------------------------------------------------------------------------
(* Operators. *)

LEMMA TypeFacts ==
    /\ NoSocket \notin Conns /\ Unconnected \notin Conns /\ Conns \subseteq Nat
    /\ NewProcess \in Processes /\ NewProcess.pc = "idle"
    /\ NewProcess.sockfd = NoSocket
    /\ NoThread \in ServerThreads /\ NoThread.pc = "none" /\ NoThread.size # "set"
    /\ NoConn \in Connections /\ NoConn.peer = "none" /\ NoConn.at = "closed"
    /\ NoConn.sync /\ NoConn.requests = <<>> /\ NoConn.answers = <<>>
    /\ 0 \in 0..MaxCalls /\ 0 \in 0..MaxConns /\ 0 \in 0..(MAX_CLIENT - 1)
  <1>1. /\ NoSocket \notin Conns /\ Unconnected \notin Conns /\ Conns \subseteq Nat
        /\ 0 \in 0..MaxCalls /\ 0 \in 0..MaxConns /\ 0 \in 0..(MAX_CLIENT - 1)
    BY BoundAssumption, ClientAssumption DEF NoSocket, Unconnected, Conns
  <1>2. NewProcess \in Processes /\ NewProcess.pc = "idle"
        /\ NewProcess.sockfd = NoSocket
    BY <1>1 DEF NewProcess, Processes
  <1>3. NoThread \in ServerThreads /\ NoThread.pc = "none" /\ NoThread.size # "set"
    BY <1>1 DEF NoThread, ServerThreads
  <1>4. NoConn \in Connections /\ NoConn.peer = "none" /\ NoConn.at = "closed"
        /\ NoConn.requests = <<>> /\ NoConn.answers = <<>>
    <2>1. <<>> \in Seq(Requests) /\ <<>> \in Seq(AllPieces)
      OBVIOUS
    <2> QED
      BY <2>1 DEF NoConn, Connections
  <1>5. NoConn.sync
    BY Zenon DEF NoConn
  <1> QED
    BY <1>1, <1>2, <1>3, <1>4, <1>5

(* What a handler can answer is an answer, and has a first piece. *)
LEMMA AnswerFacts ==
    ASSUME NEW r \in Requests, NEW a, IsAnswerTo(r, a)
    PROVE  /\ a \in Answers /\ a.req = r /\ a # NoAnswer /\ a.len \in Nat \ {0}
           /\ r.call \in Reporting => StubResult(r.call, a) = a.failed
  <1>1. PICK failed \in BOOLEAN, len \in Lengths(r.call) :
           a = Answer(r, AnswerOpcode(r.call, failed), failed, len)
    BY DEF IsAnswerTo
  <1>2. r.call \in Calls /\ r.call \in Stubs
    BY CallsAssumption DEF Requests
  <1>3. AnswerOpcode(r.call, failed) \in Opcodes
    BY <1>2 DEF AnswerOpcode, Opcodes
  <1>4. len \in 1..MaxLen
    BY LengthAssumption DEF Lengths
  <1>5. /\ a \in Answers /\ a.req = r /\ a # NoAnswer /\ a.len \in Nat \ {0}
        /\ a.failed = failed /\ a.opcode = AnswerOpcode(r.call, failed)
    BY <1>1, <1>3, <1>4 DEF Answers, Answer, NoAnswer
  <1>6. ASSUME r.call \in Reporting PROVE StubResult(r.call, a) = a.failed
    <2>1. CASE r.call \in {vfm_vadapter_edit_general_attr, vfm_vfabric_edit_general_attr}
      <3>1. r.call.returns = "value"
        BY <2>1 DEF vfm_vadapter_edit_general_attr, vfm_vfabric_edit_general_attr, Stub
      <3> QED
        BY <3>1 DEF StubResult
    <2>2. CASE r.call = vfm_vfabric_online
      <3>1. r.call.returns # "value" /\ r.call.opcode # "ERROR"
        BY <2>2 DEF vfm_vfabric_online, Stub
      <3>2. a.opcode = "ERROR" <=> failed
        BY <1>5, <2>2, <3>1 DEF AnswerOpcode
      <3> QED
        BY <1>5, <3>1, <3>2, Zenon DEF StubResult, unmarshall_response
    <2> QED
      BY <1>6, <2>1, <2>2 DEF Reporting
  <1> QED
    BY <1>5, <1>6

(* The stream of one answer. *)
LEMMA PiecesFacts ==
    ASSUME NEW a \in Answers
    PROVE  /\ Pieces(a) \in Seq(AllPieces) /\ Pieces(a) # <<>>
           /\ Len(Pieces(a)) = a.len /\ a.len \in Nat \ {0}
           /\ Head(Pieces(a)) = [answer |-> a, part |-> 1]
           /\ Pieces(a)[1].answer = a
  <1>1. a.len \in 1..MaxLen
    BY DEF Answers
  <1>2. \A i \in 1..a.len : [answer |-> a, part |-> i] \in AllPieces
    BY <1>1, LengthAssumption DEF AllPieces
  <1>3. Pieces(a) \in [1..a.len -> AllPieces]
    BY <1>2 DEF Pieces
  <1>4. Pieces(a) \in Seq(AllPieces) /\ Len(Pieces(a)) = a.len
    BY <1>1, <1>3
  <1>5. Pieces(a)[1] = [answer |-> a, part |-> 1]
    BY <1>1 DEF Pieces
  <1>6. Head(Pieces(a)) = Pieces(a)[1] /\ Pieces(a) # <<>>
    BY <1>1, <1>4, EmptySeq
  <1> QED
    BY <1>1, <1>4, <1>5, <1>6

-----------------------------------------------------------------------------
(* Threads of the VFM. *)

(* A connection stays in order when neither it nor its thread nor its      *)
(* client changes.                                                         *)
LEMMA OrderedFrame ==
    ASSUME NEW k \in Conns, conn'[k] = conn[k],
           thread'[k].pc = thread[k].pc, thread'[k].req = thread[k].req,
           conn[k].peer = "open" =>
              client'[conn[k].client] = client[conn[k].client],
           Ordered(k)
    PROVE  Ordered(k)'
  BY DEF Ordered, Busy, OnlyAnswer, Request

(* What remains to be shown of a step of the thread of one connection. *)
LEMMA ThreadStep ==
    ASSUME IInv, NEW k \in Conns,
           UNCHANGED <<client, made, listener, client_no, c_sockfd, last, calls>>,
           conn' \in [Conns -> Connections], thread' \in [Conns -> ServerThreads],
           \A j \in Conns : j # k => conn'[j] = conn[j] /\ thread'[j] = thread[j],
           conn[k].at = "accepted", conn'[k].at = "accepted",
           conn'[k].client = conn[k].client,
           conn'[k].peer = "open" <=> conn[k].peer = "open",
           thread'[k].pc \in {"handle", "send"} => thread'[k].req \in Requests,
           ThreadOK(k)', Ordered(k)'
    PROVE  IInv'
  <1>1. TypeOK'
    BY DEF IInv, TypeOK, Request
  <1>2. k <= made
    <2>1. made \in Int /\ k \in Int
      BY TypeFacts DEF IInv, TypeOK
    <2>2. k > made => conn[k] = NoConn
      BY DEF IInv, SocketsOK
    <2> QED
      BY <2>1, <2>2, TypeFacts
  <1>3. SocketsOK'
    <2>1. /\ made \in Int /\ \A j \in Conns : j \in Int
          /\ \A j \in Conns : /\ conn'[j].client = conn[j].client
                              /\ conn'[j].peer = "open" <=> conn[j].peer = "open"
                              /\ j > made => conn'[j] = conn[j]
      BY <1>2, TypeFacts DEF IInv, TypeOK
    <2>2. SocketsOK
      BY DEF IInv
    <2> QED
      BY <2>1, <2>2 DEF SocketsOK
  <1>4. \A j \in Conns : ThreadOK(j)' /\ Ordered(j)'
    <2> SUFFICES ASSUME NEW j \in Conns, j # k PROVE ThreadOK(j)' /\ Ordered(j)'
      OBVIOUS
    <2>1. ThreadOK(j)'
      <3>1. ThreadOK(j) /\ conn'[j] = conn[j] /\ thread'[j] = thread[j]
        BY DEF IInv
      <3> QED
        BY <3>1 DEF ThreadOK
    <2>2. Ordered(j)'
      BY OrderedFrame DEF IInv
    <2> QED
      BY <2>1, <2>2
  <1>5. AnswerIsOurs' /\ OutcomeReported'
    BY DEF IInv, AnswerIsOurs, OutcomeReported, SocketsOK
  <1> QED
    BY <1>1, <1>3, <1>4, <1>5 DEF IInv

(* A thread that runs serves its own, accepted connection. *)
LEMMA ThreadHere ==
    ASSUME IInv, NEW k \in Conns, thread[k].pc # "none"
    PROVE  /\ thread[k] \in ServerThreads /\ conn[k] \in Connections
           /\ conn[k].at = "accepted" /\ ThreadOK(k) /\ Ordered(k)
           /\ conn[k].sync \in BOOLEAN
           /\ thread[k].pc \in {"recv", "handle", "send"} => thread[k].sock_fd = k
           /\ thread[k].pc \in {"handle", "send"} => thread[k].req \in Requests
           /\ conn \in [Conns -> Connections] /\ thread \in [Conns -> ServerThreads]
  <1>1. /\ conn \in [Conns -> Connections] /\ thread \in [Conns -> ServerThreads]
        /\ ThreadOK(k) /\ Ordered(k)
        /\ thread[k].pc \in {"handle", "send"} => thread[k].req \in Requests
    BY DEF IInv, TypeOK
  <1>2. thread[k] \in ServerThreads /\ conn[k] \in Connections
    BY <1>1
  <1>3. conn[k].sync \in BOOLEAN
    BY <1>2 DEF Connections
  <1>4. /\ conn[k].at = "accepted"
        /\ thread[k].pc \in {"recv", "handle", "send"} => thread[k].sock_fd = k
    BY <1>1 DEF ThreadOK
  <1> QED
    BY <1>1, <1>2, <1>3, <1>4

(* The thread of a connection changes its own state and nothing else. *)
LEMMA OneThread ==
    ASSUME IInv, NEW k \in Conns, thread[k].pc # "none",
           NEW t \in ServerThreads, thread' = [thread EXCEPT ![k] = t]
    PROVE  /\ thread' \in [Conns -> ServerThreads] /\ thread'[k] = t
           /\ \A j \in Conns : j # k => thread'[j] = thread[j]
  BY ThreadHere

LEMMA ThreadStartInv ==
    ASSUME IInv, NEW k \in Conns, ThreadStart(k) PROVE IInv'
  <1> DEFINE t == [thread[k] EXCEPT !.pc = "recv", !.sock_fd = k]
  <1>1. thread[k].pc = "start"
    BY DEF ThreadStart, Running
  <1>2. /\ thread[k] \in ServerThreads /\ conn[k].at = "accepted"
        /\ ThreadOK(k) /\ Ordered(k)
    BY <1>1, ThreadHere
  <1>3. c_sockfd[thread[k].arg] = k /\ thread[k].size # "set" /\ listener # "down"
    BY <1>1, <1>2 DEF ThreadOK
  <1>4. /\ t \in ServerThreads /\ t.pc = "recv" /\ t.sock_fd = k
        /\ t.size = thread[k].size /\ t.req = thread[k].req
    BY <1>2 DEF ServerThreads
  <1>5. thread' = [thread EXCEPT ![k] = t]
    BY <1>3 DEF ThreadStart
  <1> HIDE DEF t
  <1>6. /\ thread' \in [Conns -> ServerThreads] /\ thread'[k] = t
        /\ \A j \in Conns : j # k => thread'[j] = thread[j]
    BY <1>1, <1>4, <1>5, OneThread
  <1>7. /\ UNCHANGED <<client, made, conn, listener, client_no, c_sockfd, last, calls>>
        /\ conn' \in [Conns -> Connections]
    BY DEF ThreadStart, IInv, TypeOK
  <1>8. ThreadOK(k)'
    BY <1>2, <1>3, <1>4, <1>6, <1>7 DEF ThreadOK
  <1>9. Ordered(k)'
    BY <1>1, <1>2, <1>4, <1>6, <1>7 DEF Ordered, Busy, Request, OnlyAnswer
  <1> QED
    BY <1>2, <1>4, <1>6, <1>7, <1>8, <1>9, ThreadStep

LEMMA ThreadRecvInv ==
    ASSUME IInv, NEW k \in Conns, ThreadRecv(k) PROVE IInv'
  <1> DEFINE r == Head(conn[k].requests)
             t == [thread[k] EXCEPT !.pc = "handle", !.req = r]
             x == [conn[k] EXCEPT !.requests = <<>>]
  <1>1. thread[k].pc = "recv"
    BY DEF ThreadRecv, Running
  <1>2. /\ thread[k] \in ServerThreads /\ conn[k] \in Connections
        /\ conn[k].at = "accepted" /\ ThreadOK(k) /\ Ordered(k)
        /\ thread[k].sock_fd = k /\ conn \in [Conns -> Connections]
    BY <1>1, ThreadHere
  <1>3. /\ conn[k].requests # <<>> /\ thread' = [thread EXCEPT ![k] = t]
        /\ conn' = [conn EXCEPT ![k] = x]
        /\ UNCHANGED <<client, made, listener, client_no, c_sockfd, last, calls>>
    BY <1>2 DEF ThreadRecv
  <1>4. r \in Requests /\ \A q : conn[k].requests = <<q>> => r = q
    <2>1. conn[k].requests \in Seq(Requests)
      BY <1>2 DEF Connections
    <2> QED
      BY <1>3, <2>1, HeadTailProperties
  <1>5. /\ t \in ServerThreads /\ t.pc = "handle" /\ t.sock_fd = k
        /\ t.size = thread[k].size /\ t.req = r
    BY <1>2, <1>4 DEF ServerThreads
  <1>6. /\ x \in Connections /\ x.requests = <<>> /\ x.answers = conn[k].answers
        /\ x.at = "accepted" /\ x.peer = conn[k].peer /\ x.client = conn[k].client
        /\ x.sync = conn[k].sync
    <2>1. <<>> \in Seq(Requests)
      OBVIOUS
    <2> QED
      BY <1>2, <2>1 DEF Connections
  <1> HIDE DEF t, x, r
  <1>7. /\ thread' \in [Conns -> ServerThreads] /\ thread'[k] = t
        /\ \A j \in Conns : j # k => thread'[j] = thread[j]
        /\ conn' \in [Conns -> Connections] /\ conn'[k] = x
        /\ \A j \in Conns : j # k => conn'[j] = conn[j]
    BY <1>1, <1>2, <1>3, <1>5, <1>6, OneThread
  <1>8. ThreadOK(k)'
    BY <1>1, <1>2, <1>3, <1>5, <1>6, <1>7 DEF ThreadOK
  <1>9. Ordered(k)'
    BY <1>1, <1>2, <1>3, <1>4, <1>5, <1>6, <1>7 DEF Ordered, Busy, Request, OnlyAnswer
  <1> QED
    BY <1>2, <1>3, <1>4, <1>5, <1>6, <1>7, <1>8, <1>9, ThreadStep

(* recv returns 0, or send fails. *)
LEMMA ThreadEndsInv ==
    ASSUME IInv, NEW k \in Conns, ThreadEof(k) \/ SendAnswerFails(k) PROVE IInv'
  <1> DEFINE t == [thread[k] EXCEPT !.pc = "ended"]
  <1>1. /\ thread[k].pc \in {"recv", "send"} /\ thread' = [thread EXCEPT ![k] = t]
        /\ UNCHANGED <<client, made, conn, listener, client_no, c_sockfd, last, calls>>
    BY DEF ThreadEof, SendAnswerFails, Running
  <1>2. /\ thread[k] \in ServerThreads /\ conn[k].at = "accepted"
        /\ ThreadOK(k) /\ Ordered(k) /\ conn \in [Conns -> Connections]
    BY <1>1, ThreadHere
  <1>3. /\ t \in ServerThreads /\ t.pc = "ended"
    BY <1>2 DEF ServerThreads
  <1> HIDE DEF t
  <1>4. /\ thread' \in [Conns -> ServerThreads] /\ thread'[k] = t
        /\ \A j \in Conns : j # k => thread'[j] = thread[j]
    BY <1>1, <1>3, OneThread
  <1>5. ThreadOK(k)'
    BY <1>1, <1>2, <1>3, <1>4 DEF ThreadOK
  <1>6. Ordered(k)'
    BY <1>1, <1>2, <1>3, <1>4 DEF Ordered, Busy, Request, OnlyAnswer
  <1> QED
    BY <1>1, <1>2, <1>3, <1>4, <1>5, <1>6, ThreadStep

LEMMA HandleInv ==
    ASSUME IInv, NEW k \in Conns, unmarshall_request(k) PROVE IInv'
  <1> DEFINE r == thread[k].req
  <1>1. /\ thread[k].pc = "handle"
        /\ UNCHANGED <<client, made, conn, listener, client_no, c_sockfd, last, calls>>
    BY DEF unmarshall_request, Running
  <1>2. /\ thread[k] \in ServerThreads /\ conn[k].at = "accepted"
        /\ ThreadOK(k) /\ Ordered(k) /\ conn \in [Conns -> Connections]
        /\ r \in Requests /\ thread[k].sock_fd = k
    BY <1>1, ThreadHere
  <1>3. ASSUME NEW t \in ServerThreads, thread' = [thread EXCEPT ![k] = t],
               t.pc = "send", t.sock_fd = k, t.req = r,
               t.size = "set" => IsAnswerTo(r, t.pack)
        PROVE  IInv'
    <2>1. /\ thread' \in [Conns -> ServerThreads] /\ thread'[k] = t
          /\ \A j \in Conns : j # k => thread'[j] = thread[j]
      BY <1>1, <1>3, OneThread
    <2>2. ThreadOK(k)'
      BY <1>1, <1>2, <1>3, <2>1 DEF ThreadOK
    <2>3. Ordered(k)'
      BY <1>1, <1>2, <1>3, <2>1 DEF Ordered, Busy, Request, OnlyAnswer
    <2> QED
      BY <1>1, <1>2, <1>3, <2>1, <2>2, <2>3, ThreadStep
  <1>4. ASSUME NEW failed \in BOOLEAN, NEW len \in Lengths(r.call),
               thread' = [thread EXCEPT ![k].pc = "send", ![k].size = "set",
                     ![k].pack = Answer(r, AnswerOpcode(r.call, failed), failed, len)]
        PROVE  IInv'
    <2> DEFINE a == Answer(r, AnswerOpcode(r.call, failed), failed, len)
               t == [thread[k] EXCEPT !.pc = "send", !.size = "set", !.pack = a]
    <2>1. IsAnswerTo(r, a)
      BY DEF IsAnswerTo
    <2>2. a \in Answers
      BY <1>2, <2>1, AnswerFacts
    <2> HIDE DEF a
    <2>3. /\ t \in ServerThreads /\ t.pc = "send" /\ t.sock_fd = k /\ t.req = r
          /\ t.pack = a
      BY <1>2, <2>2 DEF ServerThreads
    <2>4. thread' = [thread EXCEPT ![k] = t]
      BY <1>4 DEF a
    <2> QED
      BY <1>3, <2>1, <2>3, <2>4
  <1>5. ASSUME thread' = [thread EXCEPT ![k].pc = "send"] PROVE IInv'
    <2> DEFINE t == [thread[k] EXCEPT !.pc = "send"]
    <2>1. /\ t \in ServerThreads /\ t.pc = "send" /\ t.sock_fd = k /\ t.req = r
          /\ t.size # "set"
      BY <1>1, <1>2 DEF ServerThreads, ThreadOK
    <2> QED
      BY <1>3, <1>5, <2>1
  <1> QED
    BY <1>4, <1>5 DEF unmarshall_request

(* The end of the loop, whatever became of the answer. *)
LEMMA LoopsInv ==
    ASSUME IInv, NEW k \in Conns, thread[k].pc = "send", Loops(k),
           UNCHANGED <<client, made, listener, client_no, c_sockfd, last, calls>>,
           NEW x \in Connections, conn' = [conn EXCEPT ![k] = x],
           x.at = "accepted", x.client = conn[k].client,
           x.peer = "open" <=> conn[k].peer = "open",
           x.sync => /\ conn[k].sync
                     /\ x.requests = conn[k].requests
                     /\ x.answers = <<>>
                        \/ \E a : /\ IsAnswerTo(thread[k].req, a) /\ a.len <= BufLen
                                  /\ x.answers = Pieces(a)
    PROVE  IInv'
  <1> DEFINE t == [thread[k] EXCEPT !.pc = "recv", !.size = "zero",
                                    !.req = NoRequest, !.pack = NoAnswer]
  <1>1. /\ thread[k] \in ServerThreads /\ conn[k].at = "accepted"
        /\ ThreadOK(k) /\ Ordered(k) /\ conn \in [Conns -> Connections]
        /\ thread[k].req \in Requests /\ thread[k].sock_fd = k
    BY ThreadHere
  <1>2. /\ t \in ServerThreads /\ t.pc = "recv" /\ t.sock_fd = k /\ t.size # "set"
    BY <1>1 DEF ServerThreads
  <1>3. thread' = [thread EXCEPT ![k] = t]
    BY DEF Loops
  <1> HIDE DEF t
  <1>4. /\ thread' \in [Conns -> ServerThreads] /\ thread'[k] = t
        /\ \A j \in Conns : j # k => thread'[j] = thread[j]
        /\ conn' \in [Conns -> Connections] /\ conn'[k] = x
        /\ \A j \in Conns : j # k => conn'[j] = conn[j]
    BY <1>1, <1>2, <1>3, OneThread
  <1>5. ThreadOK(k)'
    BY <1>1, <1>2, <1>4 DEF ThreadOK
  <1>6. Ordered(k)'
    <2> SUFFICES ASSUME x.sync
                 PROVE  /\ x.requests = <<>>
                        /\ x.peer = "open" =>
                             /\ client[x.client].pc = "recv"
                             /\ x.answers # <<>> =>
                                  LET b == x.answers[1].answer
                                  IN  /\ IsAnswerTo(Request(x.client), b)
                                      /\ b.len <= BufLen /\ x.answers = Pieces(b)
      BY <1>2, <1>4 DEF Ordered, Busy, Request, OnlyAnswer
    <2>1. /\ conn[k].sync /\ x.requests = <<>>
          /\ conn[k].peer = "open" => /\ client[conn[k].client].pc = "recv"
                                      /\ thread[k].req = Request(conn[k].client)
      BY <1>1 DEF Ordered, Busy
    <2>2. ASSUME NEW a, IsAnswerTo(thread[k].req, a), a.len <= BufLen,
                 x.answers = Pieces(a)
          PROVE  x.answers[1].answer = a
      BY <1>1, <2>2, AnswerFacts, PiecesFacts
    <2> QED
      BY <2>1, <2>2
  <1> QED
    BY <1>1, <1>2, <1>4, <1>5, <1>6, ThreadStep

LEMMA SendAnswerInv ==
    ASSUME IInv, NEW k \in Conns, SendAnswer(k) PROVE IInv'
  <1> DEFINE a == thread[k].pack
             old == conn[k].answers
  <1>1. /\ thread[k].pc = "send" /\ thread[k].size = "set" /\ Loops(k)
        /\ UNCHANGED <<client, made, listener, client_no, c_sockfd, last, calls>>
    BY DEF SendAnswer, Running
  <1>2. /\ conn[k] \in Connections /\ conn[k].at = "accepted"
        /\ ThreadOK(k) /\ Ordered(k) /\ conn[k].sync \in BOOLEAN
        /\ thread[k].req \in Requests /\ thread[k].sock_fd = k
    BY <1>1, ThreadHere
  <1>3. IsAnswerTo(thread[k].req, a)
    BY <1>1, <1>2 DEF ThreadOK
  <1>4. a \in Answers
    BY <1>2, <1>3, AnswerFacts
  <1>5. Pieces(a) \in Seq(AllPieces) /\ Len(Pieces(a)) = a.len /\ a.len \in Nat
    BY <1>4, PiecesFacts
  <1>6. conn[k].sync => old = <<>>
    BY <1>1, <1>2 DEF Ordered, Busy
  <1>7. CASE /\ conn[k].peer = "open"
             /\ conn' = [conn EXCEPT ![k].answers = @ \o Pieces(a),
                                     ![k].sync = @ /\ Len(Pieces(a)) <= BufLen]
    <2> DEFINE s == conn[k].sync /\ Len(Pieces(a)) <= BufLen
               x == [conn[k] EXCEPT !.answers = old \o Pieces(a), !.sync = s]
    <2>1. old \in Seq(AllPieces)
      BY <1>2 DEF Connections
    <2>2. old \o Pieces(a) \in Seq(AllPieces) /\ <<>> \o Pieces(a) = Pieces(a)
      BY <1>5, <2>1, ConcatProperties, ConcatEmptySeq
    <2>3. s \in BOOLEAN
      BY Zenon
    <2>4. conn' = [conn EXCEPT ![k] = x]
      BY <1>7, Zenon
    <2>5. s => conn[k].sync /\ a.len <= BufLen /\ old = <<>>
      BY <1>5, <1>6
    <2> HIDE DEF s
    <2>6. /\ x \in Connections /\ x.at = "accepted" /\ x.client = conn[k].client
          /\ x.peer = conn[k].peer /\ x.requests = conn[k].requests
          /\ x.answers = old \o Pieces(a) /\ x.sync = s
      BY <1>2, <2>2, <2>3 DEF Connections
    <2> HIDE DEF x
    <2> QED
      BY <1>1, <1>3, <2>2, <2>4, <2>5, <2>6, LoopsInv
  <1>8. CASE /\ conn[k].peer \in {"fin", "pipe"}
             /\ conn' = [conn EXCEPT ![k].peer = "pipe"]
    <2> DEFINE x == [conn[k] EXCEPT !.peer = "pipe"]
    <2>1. /\ x \in Connections /\ x.at = "accepted" /\ x.client = conn[k].client
          /\ x.peer = "pipe" /\ x.requests = conn[k].requests
          /\ x.answers = old /\ x.sync = conn[k].sync
          /\ conn' = [conn EXCEPT ![k] = x]
      BY <1>2, <1>8 DEF Connections
    <2> HIDE DEF x
    <2>2. x.peer = "open" <=> conn[k].peer = "open"
      BY <1>8, <2>1
    <2>3. x.sync => /\ conn[k].sync
                    /\ x.requests = conn[k].requests
                    /\ x.answers = <<>>
      BY <1>6, <2>1
    <2> QED
      BY <1>1, <2>1, <2>2, <2>3, LoopsInv, Zenon
  <1>9. \/ /\ conn[k].peer = "open"
           /\ conn' = [conn EXCEPT ![k].answers = @ \o Pieces(a),
                                   ![k].sync = @ /\ Len(Pieces(a)) <= BufLen]
        \/ /\ conn[k].peer \in {"fin", "pipe"}
           /\ conn' = [conn EXCEPT ![k].peer = "pipe"]
    BY <1>2, Zenon DEF SendAnswer, Sent
  <1> QED
    BY <1>7, <1>8, <1>9

(* The request has no handler: from now on the connection is out of step.  *)
LEMMA SendWrongInv ==
    ASSUME IInv, NEW k \in Conns, SendNothing(k) \/ SendGarbage(k) PROVE IInv'
  <1> DEFINE old == conn[k].answers
  <1>1. /\ thread[k].pc = "send" /\ thread[k].size # "set"
        /\ UNCHANGED <<client, made, listener, client_no, c_sockfd, last, calls>>
    BY DEF SendNothing, SendGarbage, Running
  <1>2. /\ conn[k] \in Connections /\ conn[k].at = "accepted"
        /\ ThreadOK(k) /\ Ordered(k) /\ thread[k] \in ServerThreads
        /\ thread[k].req \in Requests /\ thread[k].sock_fd = k
        /\ conn \in [Conns -> Connections]
    BY <1>1, ThreadHere
  <1>3. Garbage \in AllPieces
    BY LengthAssumption DEF Garbage, AllPieces
  <1>4. old \in Seq(AllPieces) /\ Append(old, Garbage) \in Seq(AllPieces)
    <2>1. old \in Seq(AllPieces)
      BY <1>2 DEF Connections
    <2> QED
      BY <1>3, <2>1, AppendProperties
  <1>5. ASSUME Loops(k), NEW peer \in {conn[k].peer, "pipe"},
               peer = "open" <=> conn[k].peer = "open",
               NEW answers \in Seq(AllPieces),
               conn' = [conn EXCEPT ![k].sync = FALSE, ![k].peer = peer,
                                    ![k].answers = answers]
        PROVE  IInv'
    <2> DEFINE x == [conn[k] EXCEPT !.sync = FALSE, !.peer = peer, !.answers = answers]
    <2>1. /\ x \in Connections /\ x.at = "accepted" /\ x.client = conn[k].client
          /\ x.peer = peer /\ conn' = [conn EXCEPT ![k] = x]
      BY <1>2, <1>5 DEF Connections
    <2>2. ~x.sync
      BY <1>2, Zenon DEF Connections
    <2> HIDE DEF x
    <2> QED
      BY <1>1, <1>5, <2>1, <2>2, LoopsInv
  <1>6. ASSUME thread' = [thread EXCEPT ![k].pc = "ended"],
               conn' = [conn EXCEPT ![k].sync = FALSE]
        PROVE  IInv'
    <2> DEFINE t == [thread[k] EXCEPT !.pc = "ended"]
               x == [conn[k] EXCEPT !.sync = FALSE]
    <2>1. /\ x \in Connections /\ x.at = "accepted" /\ x.client = conn[k].client
          /\ x.peer = conn[k].peer /\ x.requests = conn[k].requests
          /\ conn' = [conn EXCEPT ![k] = x]
      BY <1>2, <1>6 DEF Connections
    <2>2. ~x.sync
      BY <1>2, Zenon DEF Connections
    <2>3. t \in ServerThreads /\ t.pc = "ended" /\ thread' = [thread EXCEPT ![k] = t]
      BY <1>2, <1>6 DEF ServerThreads
    <2> HIDE DEF x, t
    <2>4. /\ thread' \in [Conns -> ServerThreads] /\ thread'[k] = t
          /\ \A j \in Conns : j # k => thread'[j] = thread[j]
          /\ conn' \in [Conns -> Connections] /\ conn'[k] = x
          /\ \A j \in Conns : j # k => conn'[j] = conn[j]
      BY <1>1, <1>2, <2>1, <2>3, OneThread
    <2>5. ThreadOK(k)' /\ Ordered(k)'
      BY <1>1, <1>2, <2>1, <2>2, <2>3, <2>4 DEF ThreadOK, Ordered
    <2> QED
      BY <1>1, <1>2, <2>1, <2>3, <2>4, <2>5, ThreadStep
  <1>7. CASE SendNothing(k)
    <2>1. conn' = [conn EXCEPT ![k].sync = FALSE, ![k].peer = conn[k].peer,
                               ![k].answers = old] /\ Loops(k)
      BY <1>2, <1>7 DEF SendNothing, Connections
    <2> QED
      BY <1>4, <1>5, <2>1
  <1>8. ASSUME conn[k].peer = "open", Loops(k),
               conn' = [conn EXCEPT ![k].sync = FALSE,
                                    ![k].answers = Append(@, Garbage)]
        PROVE  IInv'
    <2>1. conn' = [conn EXCEPT ![k].sync = FALSE, ![k].peer = conn[k].peer,
                               ![k].answers = Append(old, Garbage)]
      BY <1>2, <1>8 DEF Connections
    <2> QED
      BY <1>4, <1>5, <1>8, <2>1
  <1>9. ASSUME conn[k].peer \in {"fin", "pipe"}, Loops(k),
               conn' = [conn EXCEPT ![k].sync = FALSE, ![k].peer = "pipe"]
        PROVE  IInv'
    <2>1. conn' = [conn EXCEPT ![k].sync = FALSE, ![k].peer = "pipe",
                               ![k].answers = old]
      BY <1>2, <1>9 DEF Connections
    <2> QED
      BY <1>4, <1>5, <1>9, <2>1
  <1> QED
    BY <1>2, <1>6, <1>7, <1>8, <1>9 DEF SendGarbage

-----------------------------------------------------------------------------
(* The listener. *)

LEMMA ListenInv == ASSUME IInv, Listen PROVE IInv'
  <1>1. /\ UNCHANGED <<client, made, conn, thread, last, calls>>
        /\ listener = "down" /\ listener' = "listen" /\ client_no' = 0
        /\ c_sockfd' \in [0..(MAX_CLIENT - 1) -> {0} \cup Conns]
    BY DEF Listen
  <1>2. TypeOK'
    BY <1>1, ClientAssumption DEF IInv, TypeOK, Request
  <1>3. SocketsOK'
    BY <1>1 DEF IInv, SocketsOK
  <1>4. ASSUME NEW k \in Conns PROVE ThreadOK(k)' /\ Ordered(k)'
    <2>1. ThreadOK(k) /\ Ordered(k)
      BY DEF IInv
    <2>2. ThreadOK(k)'
      BY <1>1, <2>1 DEF ThreadOK
    <2> QED
      BY <1>1, <2>1, <2>2, OrderedFrame
  <1>5. AnswerIsOurs' /\ OutcomeReported'
    BY <1>1 DEF IInv, AnswerIsOurs, OutcomeReported
  <1> QED
    BY <1>2, <1>3, <1>4, <1>5 DEF IInv

(* The slot the listener fills is one no thread has still to read. *)
LEMMA AcceptInv ==
    ASSUME IInv, NEW k \in Waiting, Accept(k) PROVE IInv'
  <1> DEFINE x == [conn[k] EXCEPT !.at = "accepted"]
             t == [thread[k] EXCEPT !.pc = "start", !.arg = client_no]
  <1>1. /\ UNCHANGED <<client, made, listener, last, calls>>
        /\ listener = "listen" /\ client_no' = client_no + 1
        /\ c_sockfd' = [c_sockfd EXCEPT ![client_no] = k]
        /\ conn' = [conn EXCEPT ![k] = x] /\ thread' = [thread EXCEPT ![k] = t]
        /\ client_no < MAX_CLIENT
    BY DEF Accept
  <1>2. /\ k \in Conns /\ conn[k].at = "backlog" /\ conn[k] \in Connections
        /\ conn \in [Conns -> Connections] /\ thread \in [Conns -> ServerThreads]
        /\ thread[k] \in ServerThreads /\ ThreadOK(k) /\ Ordered(k)
        /\ client_no \in Nat /\ client_no \in 0..(MAX_CLIENT - 1)
        /\ c_sockfd \in [0..(MAX_CLIENT - 1) -> {0} \cup Conns]
    BY <1>1, ClientAssumption DEF Waiting, IInv, TypeOK
  <1>3. thread[k].pc = "none" /\ thread[k].size # "set"
    BY <1>2 DEF ThreadOK
  <1>4. /\ x \in Connections /\ x.at = "accepted" /\ x.client = conn[k].client
        /\ x.peer = conn[k].peer /\ x.requests = conn[k].requests
        /\ x.answers = conn[k].answers /\ x.sync = conn[k].sync
    BY <1>2 DEF Connections
  <1>5. /\ t \in ServerThreads /\ t.pc = "start" /\ t.arg = client_no
        /\ t.size = thread[k].size
    BY <1>2 DEF ServerThreads
  <1> HIDE DEF x, t
  <1>6. /\ conn' \in [Conns -> Connections] /\ conn'[k] = x
        /\ thread' \in [Conns -> ServerThreads] /\ thread'[k] = t
        /\ \A j \in Conns : j # k => conn'[j] = conn[j] /\ thread'[j] = thread[j]
        /\ c_sockfd' \in [0..(MAX_CLIENT - 1) -> {0} \cup Conns]
        /\ c_sockfd'[client_no] = k
        /\ \A i \in 0..(MAX_CLIENT - 1) : i # client_no => c_sockfd'[i] = c_sockfd[i]
    BY <1>1, <1>2, <1>4, <1>5
  <1>7. TypeOK'
    <2>1. client_no' \in 0..MAX_CLIENT
      BY <1>1, <1>2, ClientAssumption
    <2> QED
      BY <1>1, <1>5, <1>6, <2>1 DEF IInv, TypeOK, Request
  <1>8. SocketsOK'
    <2>1. SocketsOK /\ made \in Int /\ k \in Int
      BY <1>2, TypeFacts DEF IInv, TypeOK
    <2>2. ~(k > made)
      BY <1>2, <2>1, TypeFacts DEF SocketsOK
    <2>3. \A j \in Conns : /\ conn'[j].client = conn[j].client
                           /\ conn'[j].peer = conn[j].peer
                           /\ j > made => conn'[j] = conn[j]
      BY <1>4, <1>6, <2>2
    <2> QED
      BY <1>1, <2>1, <2>3 DEF SocketsOK
  <1>9. ASSUME NEW j \in Conns PROVE ThreadOK(j)' /\ Ordered(j)'
    <2>1. CASE j = k
      <3>1. ThreadOK(k)'
        BY <1>1, <1>2, <1>3, <1>4, <1>5, <1>6 DEF ThreadOK
      <3>2. Ordered(k)'
        BY <1>1, <1>2, <1>3, <1>4, <1>5, <1>6 DEF Ordered, Busy, OnlyAnswer, Request
      <3> QED
        BY <2>1, <3>1, <3>2
    <2>2. CASE j # k
      <3>1. ThreadOK(j) /\ Ordered(j) /\ thread[j].arg \in 0..(MAX_CLIENT - 1)
        BY <1>2 DEF IInv, ServerThreads
      <3>2. thread[j].pc = "start" =>
               /\ thread[j].arg < client_no + 1
               /\ c_sockfd'[thread[j].arg] = c_sockfd[thread[j].arg]
        BY <1>2, <1>6, <3>1, ClientAssumption DEF ThreadOK
      <3>3. ThreadOK(j)'
        BY <1>1, <1>6, <2>2, <3>1, <3>2 DEF ThreadOK
      <3> QED
        BY <1>1, <1>6, <2>2, <3>1, <3>3, OrderedFrame
    <2> QED
      BY <2>1, <2>2
  <1>10. AnswerIsOurs' /\ OutcomeReported'
    <2>1. \A j \in Conns : conn[j].at = "closed" => conn'[j].at = "closed"
      BY <1>2, <1>6
    <2> QED
      BY <1>1, <2>1 DEF IInv, AnswerIsOurs, OutcomeReported, SocketsOK
  <1> QED
    BY <1>7, <1>8, <1>9, <1>10 DEF IInv

LEMMA AcceptPastEndInv ==
    ASSUME IInv, NEW k \in Waiting, AcceptPastEnd(k) PROVE IInv'
  <1>1. /\ UNCHANGED <<client, made, conn, client_no, c_sockfd, thread, last, calls>>
        /\ listener = "listen" /\ listener' = "overrun"
    BY DEF AcceptPastEnd
  <1>2. TypeOK' /\ SocketsOK'
    BY <1>1 DEF IInv, TypeOK, SocketsOK, Request
  <1>3. ASSUME NEW j \in Conns PROVE ThreadOK(j)' /\ Ordered(j)'
    <2>1. ThreadOK(j) /\ Ordered(j)
      BY DEF IInv
    <2>2. ThreadOK(j)'
      BY <1>1, <2>1 DEF ThreadOK
    <2> QED
      BY <1>1, <2>1, <2>2, OrderedFrame
  <1>4. AnswerIsOurs' /\ OutcomeReported'
    BY <1>1 DEF IInv, AnswerIsOurs, OutcomeReported
  <1> QED
    BY <1>2, <1>3, <1>4 DEF IInv

(* The VFM ends: nothing is left on its side. *)
LEMMA VfmEndsInv == ASSUME IInv, VfmEnds PROVE IInv'
  <1>1. /\ UNCHANGED <<client, made, client_no, c_sockfd, last, calls>>
        /\ listener' = "down"
    BY DEF VfmEnds
  <1>2. conn \in [Conns -> Connections]
    BY DEF IInv, TypeOK
  <1>3. /\ conn' \in [Conns -> Connections]
        /\ \A k \in Conns :
              /\ conn'[k].at = "closed" /\ conn'[k].requests = <<>>
              /\ conn'[k].client = conn[k].client /\ conn'[k].peer = conn[k].peer
              /\ conn'[k].answers = conn[k].answers /\ conn'[k].sync = conn[k].sync
              /\ conn[k] = NoConn => conn'[k] = NoConn
    <2>1. ASSUME NEW k \in Conns
          PROVE  LET x == [conn[k] EXCEPT !.at = "closed", !.requests = <<>>]
                 IN  /\ x \in Connections
                     /\ x.at = "closed" /\ x.requests = <<>>
                     /\ x.client = conn[k].client /\ x.peer = conn[k].peer
                     /\ x.answers = conn[k].answers /\ x.sync = conn[k].sync
                     /\ conn[k] = NoConn => x = NoConn
      <3>1. conn[k] \in Connections /\ <<>> \in Seq(Requests)
        BY <1>2
      <3>2. ASSUME NEW y \in Connections, y.at = "closed", y.requests = <<>>
            PROVE  [y EXCEPT !.at = "closed", !.requests = <<>>] = y
        BY <3>2 DEF Connections
      <3>3. conn[k] = NoConn =>
                [conn[k] EXCEPT !.at = "closed", !.requests = <<>>] = NoConn
        BY <3>2, TypeFacts
      <3> QED
        BY <3>1, <3>3 DEF Connections
    <2> QED
      BY <2>1 DEF VfmEnds
  <1>4. /\ thread' \in [Conns -> ServerThreads]
        /\ \A k \in Conns : thread'[k].pc = "none" /\ thread'[k].size # "set"
    BY TypeFacts DEF VfmEnds
  <1>5. TypeOK'
    BY <1>1, <1>3, <1>4 DEF IInv, TypeOK, Request
  <1>6. SocketsOK'
    BY <1>1, <1>3 DEF IInv, SocketsOK
  <1>7. ASSUME NEW k \in Conns PROVE ThreadOK(k)' /\ Ordered(k)'
    <2>1. ThreadOK(k)'
      BY <1>3, <1>4 DEF ThreadOK
    <2>2. Ordered(k)
      BY DEF IInv
    <2>3. Ordered(k)'
      BY <1>1, <1>3, <1>4, <2>2 DEF Ordered, Busy, OnlyAnswer, Request
    <2> QED
      BY <2>1, <2>3
  <1>8. AnswerIsOurs' /\ OutcomeReported'
    BY <1>1, <1>3 DEF IInv, AnswerIsOurs, OutcomeReported, SocketsOK
  <1> QED
    BY <1>5, <1>6, <1>7, <1>8 DEF IInv

-----------------------------------------------------------------------------
(* Client processes. *)

(* A client and its connection. *)
LEMMA ClientHere ==
    ASSUME IInv, NEW c \in Clients
    PROVE  /\ client[c] \in Processes /\ client \in [Clients -> Processes]
           /\ conn \in [Conns -> Connections] /\ DOMAIN last = Clients
           /\ client[c].pc # "idle" => Request(c) \in Requests
           /\ client[c].pc = "recv" => client[c].sockfd \in Conns
           /\ \A k \in Conns : client[c].sockfd = k =>
                 /\ conn[k] \in Connections /\ conn[k].client = c
                 /\ conn[k].peer = "open" /\ Ordered(k) /\ ThreadOK(k)
                 /\ conn[k].sync \in BOOLEAN
           /\ \A k \in Conns : client[c].sockfd # k /\ conn[k].peer = "open" =>
                 conn[k].client # c
  <1>1. /\ client \in [Clients -> Processes] /\ conn \in [Conns -> Connections]
        /\ DOMAIN last = Clients
        /\ client[c].pc # "idle" => Request(c) \in Requests
    BY DEF IInv, TypeOK
  <1>2. /\ client[c].pc = "recv" => client[c].sockfd \in Conns
        /\ \A k \in Conns : client[c].sockfd = k =>
                 conn[k].client = c /\ conn[k].peer = "open"
        /\ \A k \in Conns : client[c].sockfd # k /\ conn[k].peer = "open" =>
                 conn[k].client # c
    BY DEF IInv, SocketsOK
  <1>3. \A k \in Conns : conn[k] \in Connections
    BY <1>1
  <1>4. \A k \in Conns : conn[k].sync \in BOOLEAN
    BY <1>3 DEF Connections
  <1>5. \A k \in Conns : Ordered(k) /\ ThreadOK(k)
    BY DEF IInv
  <1> QED
    BY <1>1, <1>2, <1>3, <1>4, <1>5

(* What remains to be shown of a step of a client that keeps its socket. *)
LEMMA ClientStep ==
    ASSUME IInv, NEW c \in Clients,
           UNCHANGED <<made, server>>, calls' \in 0..MaxCalls,
           client' \in [Clients -> Processes],
           \A d \in Clients : d # c => client'[d] = client[d],
           client'[c].sockfd = client[c].sockfd,
           client'[c].pc # "idle" => Request(c)' \in Requests,
           client'[c].pc = "recv" => client[c].sockfd \in Conns,
           DOMAIN last' = Clients,
           \A d \in Clients : d # c => last'[d] = last[d],
           last'[c].kind = "garbage" => client[c].sockfd \in Conns,
           last'[c].sync =>
              /\ last'[c].kind = "answer" =>
                    /\ last'[c].answer.req = last'[c].req
                    /\ last'[c].req.call \in Reporting =>
                          last'[c].err = last'[c].answer.failed
              /\ last'[c].kind = "garbage" => conn[client[c].sockfd].at = "closed",
           conn' \in [Conns -> Connections],
           \A j \in Conns : j # client[c].sockfd => conn'[j] = conn[j],
           \A j \in Conns : /\ conn'[j].client = conn[j].client
                            /\ conn'[j].peer = conn[j].peer
                            /\ conn'[j].at = conn[j].at
                            /\ conn[j].at = "closed" =>
                                  conn'[j].requests = conn[j].requests,
           \A k \in Conns : k = client[c].sockfd => Ordered(k)'
    PROVE  IInv'
  <1>0. UNCHANGED <<listener, client_no, c_sockfd, thread>>
    BY DEF server
  <1>2. TypeOK'
    <2>1. ASSUME NEW d \in Clients, client'[d].pc # "idle"
          PROVE  Request(d)' \in Requests
      <3>1. CASE d = c
        BY <2>1, <3>1
      <3>2. CASE d # c
        BY <2>1, <3>2 DEF Request, IInv, TypeOK
      <3> QED
        BY <3>1, <3>2
    <2> QED
      BY <1>0, <2>1 DEF IInv, TypeOK
  <1>3. SocketsOK'
    <2>1. SocketsOK /\ made \in Int /\ \A k \in Conns : k \in Int
      BY TypeFacts DEF IInv, TypeOK
    <2>2. \A d \in Clients : client'[d].sockfd = client[d].sockfd
      OBVIOUS
    <2>3. \A k \in Conns : k > made => conn'[k] = conn[k]
      BY <2>1 DEF SocketsOK
    <2>4. \A k \in Conns : k > made => conn'[k] = NoConn
      BY <2>1, <2>3 DEF SocketsOK
    <2>5. \A d \in Clients : client'[d].pc = "recv" \/ last'[d].kind = "garbage" =>
              client'[d].sockfd \in Conns
      BY <2>1 DEF SocketsOK
    <2> QED
      BY <2>1, <2>2, <2>4, <2>5 DEF SocketsOK
  <1>4. ASSUME NEW k \in Conns PROVE ThreadOK(k)' /\ Ordered(k)'
    <2>1. ThreadOK(k) /\ Ordered(k)
      BY DEF IInv
    <2>2. ThreadOK(k)'
      BY <1>0, <2>1 DEF ThreadOK
    <2>3. CASE k # client[c].sockfd
      <3>1. conn[k].peer = "open" => client'[conn[k].client] = client[conn[k].client]
        BY <2>3, ClientHere DEF IInv, SocketsOK
      <3> QED
        BY <1>0, <2>1, <2>2, <2>3, <3>1, OrderedFrame
    <2> QED
      BY <2>2, <2>3
  <1>5. AnswerIsOurs'
    <2> SUFFICES ASSUME NEW d \in Clients, last'[d].sync
                 PROVE  /\ last'[d].kind = "answer" => last'[d].answer.req = last'[d].req
                        /\ last'[d].kind = "garbage" =>
                              conn'[client'[d].sockfd].at = "closed"
      BY DEF AnswerIsOurs
    <2>1. CASE d = c
      BY <2>1
    <2>2. CASE d # c
      BY <2>2 DEF IInv, AnswerIsOurs, SocketsOK
    <2> QED
      BY <2>1, <2>2
  <1>6. OutcomeReported'
    <2> SUFFICES ASSUME NEW d \in Clients, last'[d].kind = "answer", last'[d].sync,
                        last'[d].req.call \in Reporting
                 PROVE  last'[d].err = last'[d].answer.failed
      BY DEF OutcomeReported
    <2>1. CASE d = c
      BY <2>1
    <2>2. CASE d # c
      BY <2>2 DEF IInv, OutcomeReported
    <2> QED
      BY <2>1, <2>2
  <1> QED
    BY <1>2, <1>3, <1>4, <1>5, <1>6 DEF IInv

LEMMA LastIs ==
    ASSUME IInv, NEW c \in Clients, NEW L, last' = [last EXCEPT ![c] = L]
    PROVE  /\ DOMAIN last' = Clients /\ last'[c] = L
           /\ \A d \in Clients : d # c => last'[d] = last[d]
  BY DEF IInv, TypeOK

LEMMA ClientIs ==
    ASSUME IInv, NEW c \in Clients, NEW P \in Processes,
           client' = [client EXCEPT ![c] = P]
    PROVE  /\ client' \in [Clients -> Processes] /\ client'[c] = P
           /\ \A d \in Clients : d # c => client'[d] = client[d]
           /\ Request(c)' = [client |-> c, n |-> P.n, call |-> P.call]
  <1>1. /\ client' \in [Clients -> Processes] /\ client'[c] = P
        /\ \A d \in Clients : d # c => client'[d] = client[d]
    BY DEF IInv, TypeOK
  <1> QED
    BY <1>1 DEF Request

(* The call ends, and the client's connection is empty. *)
LEMMA ReturnsInv ==
    ASSUME IInv, NEW c \in Clients, NEW kind, NEW answer, NEW err,
           Returns(c, kind, answer, err), UNCHANGED <<made, server, calls>>,
           client[c].pc # "idle",
           client[c].sockfd \in Conns =>
              LET k == client[c].sockfd
              IN  /\ conn[k].sync => /\ kind = "answer" =>
                                          /\ answer.req = Request(c)
                                          /\ client[c].call \in Reporting =>
                                                err = answer.failed
                                     /\ kind = "garbage" => conn[k].at = "closed"
                                     /\ ~Busy(k) /\ conn'[k].requests = <<>>
                                     /\ conn'[k].answers = <<>>
                  /\ conn'[k].sync = conn[k].sync,
           client[c].sockfd \notin Conns => kind \notin {"answer", "garbage"},
           conn' \in [Conns -> Connections],
           \A j \in Conns : j # client[c].sockfd => conn'[j] = conn[j],
           \A j \in Conns : /\ conn'[j].client = conn[j].client
                            /\ conn'[j].peer = conn[j].peer
                            /\ conn'[j].at = conn[j].at
                            /\ conn'[j].requests = conn[j].requests
    PROVE  IInv'
  <1> DEFINE P == [client[c] EXCEPT !.pc = "idle", !.n = 0, !.call = NoRequest]
             s == client[c].sockfd \in Conns => conn[client[c].sockfd].sync
             L == [kind |-> kind, req |-> Request(c), answer |-> answer,
                   err |-> err, sync |-> s]
  <1>1. /\ P \in Processes /\ P.pc = "idle" /\ P.sockfd = client[c].sockfd
    <2>1. client[c] \in Processes /\ 0 \in 0..MaxCalls
      BY ClientHere, TypeFacts
    <2> QED
      BY <2>1 DEF Processes
  <1>2. client' = [client EXCEPT ![c] = P]
    BY DEF Returns
  <1>3. last' = [last EXCEPT ![c] = L]
    BY Zenon DEF Returns
  <1>4. /\ L.kind = kind /\ L.req = Request(c) /\ L.answer = answer
        /\ L.err = err /\ L.req.call = client[c].call
    BY DEF Request
  <1>5. L.sync <=> s
    BY Zenon
  <1>6. \A k \in Conns : k = client[c].sockfd => Ordered(k)'
    BY <1>1, <1>2, ClientHere DEF Ordered, Busy, OnlyAnswer, server
  <1>7. calls' \in 0..MaxCalls
    BY DEF IInv, TypeOK
  <1> HIDE DEF L, P
  <1>8. L.sync => /\ L.kind = "answer" =>
                        /\ L.answer.req = L.req
                        /\ L.req.call \in Reporting => L.err = L.answer.failed
                  /\ L.kind = "garbage" => conn[P.sockfd].at = "closed"
    BY <1>1, <1>4, <1>5
  <1>9. L.kind = "garbage" => P.sockfd \in Conns
    BY <1>1, <1>4
  <1> HIDE DEF s
  <1>10. /\ client' \in [Clients -> Processes] /\ client'[c] = P
         /\ \A d \in Clients : d # c => client'[d] = client[d]
    BY <1>1, <1>2, ClientIs
  <1>11. /\ DOMAIN last' = Clients /\ last'[c] = L
         /\ \A d \in Clients : d # c => last'[d] = last[d]
    BY <1>3, LastIs
  <1>12. /\ client'[c].sockfd = client[c].sockfd /\ client'[c].pc = "idle"
         /\ last'[c].kind = "garbage" => client[c].sockfd \in Conns
         /\ last'[c].sync =>
               /\ last'[c].kind = "answer" =>
                     /\ last'[c].answer.req = last'[c].req
                     /\ last'[c].req.call \in Reporting =>
                           last'[c].err = last'[c].answer.failed
               /\ last'[c].kind = "garbage" =>
                     conn[client[c].sockfd].at = "closed"
    BY <1>1, <1>8, <1>9, <1>10, <1>11
  <1> QED
    BY <1>6, <1>7, <1>10, <1>11, <1>12, ClientStep

(* send or recv fails, or recv returns 0. *)
LEMMA FailsInv ==
    ASSUME IInv, NEW c \in Clients, SendFails(c) \/ RecvFails(c) \/ RecvEof(c)
    PROVE  IInv'
  <1>1. /\ UNCHANGED <<made, server, calls, conn>> /\ client[c].pc # "idle"
        /\ conn' \in [Conns -> Connections]
        /\ client[c].pc = "send" \/ (client[c].sockfd \in Conns
              /\ conn[client[c].sockfd].at = "closed"
              /\ conn[client[c].sockfd].answers = <<>>)
    BY ClientHere DEF SendFails, RecvFails, RecvEof
  <1>2. PICK kind \in {"send", "recv", "garbage"}, err \in BOOLEAN :
           /\ Returns(c, kind, NoAnswer, err)
           /\ kind = "garbage" => client[c].sockfd \in Conns
                                  /\ conn[client[c].sockfd].at = "closed"
    BY ClientHere DEF SendFails, RecvFails, RecvEof
  <1>3. ASSUME client[c].sockfd \in Conns
        PROVE  LET k == client[c].sockfd
               IN  conn[k].sync => ~Busy(k) /\ conn[k].requests = <<>>
                                   /\ conn[k].answers = <<>>
    <2> DEFINE k == client[c].sockfd
    <2>1. Ordered(k) /\ ThreadOK(k) /\ conn[k].client = c /\ conn[k].peer = "open"
      BY <1>3, ClientHere
    <2>2. CASE client[c].pc = "send"
      BY <2>1, <2>2 DEF Ordered
    <2>3. CASE conn[k].at = "closed" /\ conn[k].answers = <<>>
      BY <2>1, <2>3 DEF ThreadOK, Busy
    <2> QED
      BY <1>1, <2>2, <2>3
  <1> QED
    BY <1>1, <1>2, <1>3, ReturnsInv

LEMMA CallConnectedInv ==
    ASSUME IInv, NEW c \in Clients, NEW call \in Calls, CallConnected(c, call)
    PROVE  IInv'
  <1> DEFINE P == [pc |-> "send", sockfd |-> client[c].sockfd, n |-> calls + 1,
                   call |-> call]
  <1>1. /\ client[c].pc = "idle" /\ calls < MaxCalls /\ calls' = calls + 1
        /\ client' = [client EXCEPT ![c] = P] /\ last' = [last EXCEPT ![c] = NoCall]
        /\ UNCHANGED <<server, made, conn>>
    BY DEF CallConnected, StubCalled
  <1>2. calls + 1 \in 1..MaxCalls /\ calls + 1 \in 0..MaxCalls
    BY <1>1, BoundAssumption DEF IInv, TypeOK
  <1>3. client[c] \in Processes
    BY ClientHere
  <1>4. /\ P \in Processes /\ P.pc = "send" /\ P.sockfd = client[c].sockfd
        /\ P.n = calls + 1 /\ P.call = call
    BY <1>2, <1>3 DEF Processes
  <1>5. [client |-> c, n |-> P.n, call |-> P.call] \in Requests
    BY <1>2, <1>4 DEF Requests
  <1> HIDE DEF P
  <1>6. NoCall.kind = "none"
    BY DEF NoCall
  <1>7. ASSUME NEW k \in Conns, k = P.sockfd PROVE Ordered(k)'
    <2>1. Ordered(k) /\ conn[k].client = c /\ conn[k].peer = "open"
      BY <1>4, <1>7, ClientHere
    <2> QED
      BY <1>1, <2>1 DEF Ordered, Busy, OnlyAnswer, server
  <1>8. /\ client' \in [Clients -> Processes] /\ client'[c] = P
        /\ \A d \in Clients : d # c => client'[d] = client[d]
        /\ Request(c)' \in Requests
    BY <1>1, <1>4, <1>5, ClientIs
  <1>9. /\ DOMAIN last' = Clients /\ last'[c] = NoCall
        /\ \A d \in Clients : d # c => last'[d] = last[d]
    BY <1>1, LastIs
  <1>10. /\ client'[c].sockfd = client[c].sockfd /\ client'[c].pc = "send"
         /\ last'[c].kind = "none" /\ calls' \in 0..MaxCalls
         /\ conn \in [Conns -> Connections]
    BY <1>1, <1>2, <1>4, <1>6, <1>8, <1>9, ClientHere
  <1>11. \A k \in Conns : k = client[c].sockfd => Ordered(k)'
    BY <1>4, <1>7
  <1> QED
    BY <1>1, <1>8, <1>9, <1>10, <1>11, ClientStep

LEMMA SendInv == ASSUME IInv, NEW c \in Clients, Send(c) PROVE IInv'
  <1>0. PICK k : k = client[c].sockfd
    OBVIOUS
  <1>16. PICK r : r = Request(c)
    OBVIOUS
  <1> DEFINE P == [client[c] EXCEPT !.pc = "recv"]
             x == [conn[k] EXCEPT !.requests = Append(@, r)]
  <1>1. /\ client[c].pc = "send" /\ k \in Conns
        /\ client' = [client EXCEPT ![c] = P]
        /\ UNCHANGED <<made, server, last, calls>>
    BY <1>0 DEF Send
  <1>2. /\ client[c] \in Processes /\ client \in [Clients -> Processes]
        /\ conn[k] \in Connections /\ conn[k].client = c
        /\ conn[k].peer = "open" /\ Ordered(k) /\ ThreadOK(k) /\ r \in Requests
        /\ conn \in [Conns -> Connections] /\ DOMAIN last = Clients
    BY <1>0, <1>16, <1>1, ClientHere
  <1>3. /\ P \in Processes /\ P.pc = "recv" /\ P.sockfd = k
        /\ P.n = client[c].n /\ P.call = client[c].call
    BY <1>0, <1>2 DEF Processes
  <1>4. [client |-> c, n |-> P.n, call |-> P.call] = r
    BY <1>16, <1>3 DEF Request
  <1>5. client'[c] = P
    BY <1>1, <1>2
  <1> HIDE DEF P
  <1>6. Request(c)' = r
    BY <1>4, <1>5 DEF Request
  <1>7. conn[k].requests \in Seq(Requests)
    BY <1>2 DEF Connections
  <1>8. /\ Append(conn[k].requests, r) \in Seq(Requests)
        /\ conn[k].requests = <<>> => Append(conn[k].requests, r) = <<r>>
    <2>1. Append(<<>>, r) = <<r>>
      OBVIOUS
    <2> QED
      BY <1>2, <1>7, <2>1, AppendProperties
  <1>9. /\ x \in Connections /\ x.client = c /\ x.peer = "open"
        /\ x.at = conn[k].at /\ x.requests = Append(conn[k].requests, r)
        /\ x.answers = conn[k].answers /\ x.sync = conn[k].sync
    BY <1>2, <1>8 DEF Connections
  <1>10. conn' = IF conn[k].at = "closed" THEN conn ELSE [conn EXCEPT ![k] = x]
    BY <1>0, <1>16 DEF Send
  <1> HIDE DEF x
  <1>11. /\ conn' \in [Conns -> Connections]
         /\ conn'[k] = IF conn[k].at = "closed" THEN conn[k] ELSE x
         /\ \A j \in Conns : j # k => conn'[j] = conn[j]
    BY <1>1, <1>2, <1>9, <1>10
  <1>12. Ordered(k)'
    <2>1. conn[k].sync =>
             ~Busy(k) /\ conn[k].requests = <<>> /\ conn[k].answers = <<>>
      BY <1>1, <1>2 DEF Ordered
    <2>2. /\ conn'[k].sync = conn[k].sync /\ conn'[k].answers = conn[k].answers
          /\ conn'[k].client = c /\ conn'[k].peer = "open"
          /\ conn[k].requests = <<>> =>
                conn'[k].requests = <<>> \/ conn'[k].requests = <<r>>
      BY <1>2, <1>8, <1>9, <1>11
    <2>3. Busy(k)' <=> Busy(k)
      BY <1>1 DEF Busy, server
    <2>4. client'[c].pc = "recv"
      BY <1>3, <1>5
    <2> QED
      BY <1>6, <2>1, <2>2, <2>3, <2>4 DEF Ordered, OnlyAnswer
  <1>13. \A j \in Conns : /\ conn'[j].client = conn[j].client
                          /\ conn'[j].peer = conn[j].peer
                          /\ conn'[j].at = conn[j].at
                          /\ conn[j].at = "closed" =>
                                conn'[j].requests = conn[j].requests
    BY <1>2, <1>9, <1>11
  <1>14. calls' \in 0..MaxCalls
    BY <1>1 DEF IInv, TypeOK
  <1>15. ASSUME NEW l, l = last[c]
         PROVE  /\ l.kind = "garbage" => client[c].sockfd \in Conns
                /\ l.sync => /\ l.kind = "answer" =>
                                  /\ l.answer.req = l.req
                                  /\ l.req.call \in Reporting =>
                                        l.err = l.answer.failed
                             /\ l.kind = "garbage" =>
                                  conn[client[c].sockfd].at = "closed"
    BY <1>0, <1>1, <1>15 DEF IInv, AnswerIsOurs, OutcomeReported
  <1>17. /\ client' \in [Clients -> Processes]
         /\ \A d \in Clients : d # c => client'[d] = client[d]
         /\ client'[c].sockfd = client[c].sockfd
         /\ Request(c)' \in Requests /\ client[c].sockfd \in Conns
    BY <1>0, <1>1, <1>2, <1>3, <1>5, <1>6, ClientIs
  <1>18. /\ last' = last /\ DOMAIN last' = Clients
         /\ UNCHANGED <<made, server>>
    BY <1>1, <1>2
  <1>19. /\ last'[c].kind = "garbage" => client[c].sockfd \in Conns
         /\ last'[c].sync =>
               /\ last'[c].kind = "answer" =>
                     /\ last'[c].answer.req = last'[c].req
                     /\ last'[c].req.call \in Reporting =>
                           last'[c].err = last'[c].answer.failed
               /\ last'[c].kind = "garbage" =>
                     conn[client[c].sockfd].at = "closed"
    <2>1. last'[c] = last[c]
      BY <1>18
    <2> QED
      BY <1>15, <2>1
  <1>20. /\ \A j \in Conns : j # client[c].sockfd => conn'[j] = conn[j]
         /\ \A j \in Conns : j = client[c].sockfd => Ordered(j)'
    BY <1>0, <1>11, <1>12
  <1> QED
    BY <1>11, <1>13, <1>14, <1>17, <1>18, <1>19, <1>20, ClientStep

(* What a recv that takes the piece p returns. *)
Taken(c, p, kind, answer, err) ==
    /\ kind \in {"answer", "garbage"}
    /\ Returns(c, kind, answer, err)
    /\ kind = "answer" => /\ answer = p.answer
                          /\ err = StubResult(client[c].call, p.answer)
    /\ kind = "garbage" => ~IsWhole(p)

LEMMA RecvTakes ==
    ASSUME NEW c, Recv(c), NEW p, p = Head(conn[client[c].sockfd].answers)
    PROVE  \E kind, answer, err : Taken(c, p, kind, answer, err)
  <1> DEFINE Whole(x) == /\ IsWhole(x)
                         /\ Returns(c, "answer", x.answer, StubResult(client[c].call, x.answer))
             Partial(x) == /\ ~IsWhole(x)
                           /\ \E err : Returns(c, "garbage", NoAnswer, err)
  <1>1. \/ Whole(Head(conn[client[c].sockfd].answers))
        \/ Partial(Head(conn[client[c].sockfd].answers))
    BY Zenon DEF Recv
  <1> HIDE DEF Whole, Partial
  <1>2. Whole(p) \/ Partial(p)
    BY <1>1, Zenon
  <1>3. ASSUME Whole(p) PROVE \E kind, answer, err : Taken(c, p, kind, answer, err)
    <2>1. Taken(c, p, "answer", p.answer, StubResult(client[c].call, p.answer))
      BY <1>3, Zenon DEF Taken, Whole
    <2> QED
      BY <2>1, Zenon
  <1>4. ASSUME Partial(p) PROVE \E kind, answer, err : Taken(c, p, kind, answer, err)
    <2>1. PICK err : Returns(c, "garbage", NoAnswer, err) /\ ~IsWhole(p)
      BY <1>4, Zenon DEF Partial
    <2>2. Taken(c, p, "garbage", NoAnswer, err)
      BY <2>1, Zenon DEF Taken
    <2> QED
      BY <2>2, Zenon
  <1> QED
    BY <1>2, <1>3, <1>4, Zenon

(* recv.  On a connection in step the answer is taken whole. *)
LEMMA RecvInv == ASSUME IInv, NEW c \in Clients, Recv(c) PROVE IInv'
  <1>0. PICK k : k = client[c].sockfd
    OBVIOUS
  <1>1. /\ client[c].pc = "recv" /\ conn[k].answers # <<>>
        /\ UNCHANGED <<made, server, calls>>
    BY <1>0 DEF Recv
  <1>2. /\ k \in Conns /\ conn[k] \in Connections /\ conn[k].client = c
        /\ conn[k].peer = "open" /\ Ordered(k) /\ Request(c) \in Requests
        /\ conn \in [Conns -> Connections]
    BY <1>0, <1>1, ClientHere
  <1>3. PICK old : old = conn[k].answers
    OBVIOUS
  <1>4. PICK left : left = SubSeq(old, Take(k) + 1, Len(old))
    OBVIOUS
  <1>5. /\ old \in Seq(AllPieces) /\ Len(old) \in Nat
    <2>1. old \in Seq(AllPieces)
      BY <1>2, <1>3 DEF Connections
    <2> QED
      BY <2>1
  <1>6. Take(k) = IF Len(old) < BufLen THEN Len(old) ELSE BufLen
    BY <1>3 DEF Take
  <1>7. left \in Seq(AllPieces)
    <2>1. \A i \in (Take(k) + 1)..Len(old) : old[i] \in AllPieces
      BY <1>5, <1>6, LengthAssumption
    <2> QED
      BY <1>4, <1>5, <1>6, <2>1, SubSeqProperties, LengthAssumption
  <1> DEFINE x == [conn[k] EXCEPT !.answers = left]
  <1>8. /\ x \in Connections /\ x.client = c /\ x.peer = "open"
        /\ x.at = conn[k].at /\ x.requests = conn[k].requests
        /\ x.answers = left /\ x.sync = conn[k].sync
    BY <1>2, <1>7 DEF Connections
  <1>9. conn' = [conn EXCEPT ![k] = x]
    BY <1>0, <1>3, <1>4 DEF Recv
  <1> HIDE DEF x
  <1>10. /\ conn' \in [Conns -> Connections] /\ conn'[k] = x
         /\ \A j \in Conns : j # k => conn'[j] = conn[j]
    BY <1>2, <1>8, <1>9
  <1>11. PICK p : p = Head(old)
    OBVIOUS
  <1>12. ASSUME conn[k].sync
         PROVE  /\ IsWhole(p) /\ p.answer.req = Request(c)
                /\ client[c].call \in Reporting =>
                      StubResult(client[c].call, p.answer) = p.answer.failed
                /\ ~Busy(k) /\ conn[k].requests = <<>> /\ left = <<>>
    <2>1. PICK a : /\ IsAnswerTo(Request(c), a) /\ a.len <= BufLen
                   /\ old = Pieces(a)
      BY <1>1, <1>2, <1>3, <1>12 DEF Ordered, OnlyAnswer
    <2>2. /\ a \in Answers /\ a.req = Request(c)
          /\ Request(c).call \in Reporting =>
                StubResult(Request(c).call, a) = a.failed
      BY <1>2, <2>1, AnswerFacts
    <2>3. /\ p = [answer |-> a, part |-> 1] /\ Len(old) = a.len
      BY <1>11, <2>1, <2>2, PiecesFacts
    <2>4. Request(c).call = client[c].call
      BY DEF Request
    <2>5. IsWhole(p) /\ p.answer = a
      BY <2>1, <2>3 DEF IsWhole
    <2>6. Take(k) = Len(old)
      BY <1>5, <1>6, <2>1, <2>3, LengthAssumption
    <2>7. left = <<>>
      BY <1>4, <1>5, <2>6, SubSeqEmpty
    <2>8. ~Busy(k) /\ conn[k].requests = <<>>
      BY <1>1, <1>2, <1>12 DEF Ordered
    <2> QED
      BY <2>2, <2>4, <2>5, <2>7, <2>8
  <1>taken. PICK kind, answer, err : Taken(c, p, kind, answer, err)
    <2>1. p = Head(conn[client[c].sockfd].answers)
      BY <1>0, <1>3, <1>11
    <2> QED
      BY <2>1, RecvTakes
  <1>13. /\ kind \in {"answer", "garbage"}
         /\ Returns(c, kind, answer, err)
         /\ kind = "answer" => /\ answer = p.answer
                               /\ err = StubResult(client[c].call, p.answer)
         /\ kind = "garbage" => ~IsWhole(p)
    BY <1>taken, Zenon DEF Taken
  <1>14. conn[k].sync => /\ kind = "answer" =>
                              /\ answer.req = Request(c)
                              /\ client[c].call \in Reporting => err = answer.failed
                         /\ kind = "garbage" => conn[k].at = "closed"
                         /\ ~Busy(k) /\ conn'[k].requests = <<>>
                         /\ conn'[k].answers = <<>>
    BY <1>8, <1>10, <1>12, <1>13
  <1>15. conn'[k].sync = conn[k].sync
    BY <1>8, <1>10
  <1>16. /\ \A j \in Conns : /\ conn'[j].client = conn[j].client
                             /\ conn'[j].peer = conn[j].peer
                             /\ conn'[j].at = conn[j].at
                             /\ conn'[j].requests = conn[j].requests
         /\ \A j \in Conns : j # client[c].sockfd => conn'[j] = conn[j]
    BY <1>0, <1>2, <1>8, <1>10
  <1> QED
    BY <1>0, <1>1, <1>2, <1>10, <1>13, <1>14, <1>15, <1>16, ReturnsInv

(* What a step of a client promises of the last calls when its own is not *)
(* an answer and the connections of the others do not open again.         *)
LEMMA LastCallsKept ==
    ASSUME IInv, NEW c \in Clients, NEW L, L.kind \notin {"answer", "garbage"},
           last' = [last EXCEPT ![c] = L],
           \A d \in Clients : d # c => client'[d] = client[d],
           \A d \in Clients : d # c /\ client[d].sockfd \in Conns =>
              conn'[client[d].sockfd].at = conn[client[d].sockfd].at
    PROVE  /\ AnswerIsOurs' /\ OutcomeReported' /\ DOMAIN last' = Clients
           /\ last'[c] = L /\ \A d \in Clients : d # c => last'[d] = last[d]
  <1>1. /\ DOMAIN last' = Clients /\ last'[c] = L
        /\ \A d \in Clients : d # c => last'[d] = last[d]
    BY LastIs
  <1>2. AnswerIsOurs'
    <2> SUFFICES ASSUME NEW d \in Clients, last'[d].sync
                 PROVE  /\ last'[d].kind = "answer" => last'[d].answer.req = last'[d].req
                        /\ last'[d].kind = "garbage" =>
                              conn'[client'[d].sockfd].at = "closed"
      BY DEF AnswerIsOurs
    <2>1. CASE d = c
      BY <1>1, <2>1
    <2>2. CASE d # c
      BY <1>1, <2>2 DEF IInv, AnswerIsOurs, SocketsOK
    <2> QED
      BY <2>1, <2>2
  <1>3. OutcomeReported'
    <2> SUFFICES ASSUME NEW d \in Clients, last'[d].kind = "answer", last'[d].sync,
                        last'[d].req.call \in Reporting
                 PROVE  last'[d].err = last'[d].answer.failed
      BY DEF OutcomeReported
    <2>1. CASE d = c
      BY <1>1, <2>1
    <2>2. CASE d # c
      BY <1>1, <2>2 DEF IInv, OutcomeReported
    <2> QED
      BY <2>1, <2>2
  <1> QED
    BY <1>1, <1>2, <1>3

(* The connection is new: its number was never used, and it has no thread. *)
LEMMA CallConnectsInv ==
    ASSUME IInv, NEW c \in Clients, NEW call \in Calls, CallConnects(c, call)
    PROVE  IInv'
  <1> DEFINE P == [pc |-> "send", sockfd |-> made + 1, n |-> calls + 1,
                   call |-> call]
             x == [NoConn EXCEPT !.client = c, !.peer = "open", !.at = "backlog"]
  <1>0. PICK k : k = made + 1
    OBVIOUS
  <1>1. /\ client[c].pc = "idle" /\ calls < MaxCalls /\ calls' = calls + 1
        /\ client' = [client EXCEPT ![c] = P] /\ last' = [last EXCEPT ![c] = NoCall]
        /\ UNCHANGED server /\ client[c].sockfd = NoSocket /\ made < MaxConns
        /\ made' = k /\ conn' = [conn EXCEPT ![k] = x]
    BY <1>0 DEF CallConnects, StubCalled
  <1>2. UNCHANGED <<listener, client_no, c_sockfd, thread>>
    BY <1>1 DEF server
  <1>3. /\ calls + 1 \in 1..MaxCalls /\ calls + 1 \in 0..MaxCalls
        /\ made \in Nat /\ k \in Conns /\ k \in 0..MaxConns
    BY <1>0, <1>1, BoundAssumption DEF IInv, TypeOK, Conns
  <1>4. /\ conn \in [Conns -> Connections] /\ conn[k] = NoConn
        /\ ThreadOK(k) /\ SocketsOK
    BY <1>0, <1>3 DEF IInv, TypeOK, SocketsOK
  <1>5. thread[k].pc = "none" /\ thread[k].size # "set"
    BY <1>4, TypeFacts DEF ThreadOK
  <1>6. /\ x \in Connections /\ x.client = c /\ x.peer = "open"
        /\ x.at = "backlog" /\ x.requests = <<>> /\ x.answers = <<>>
    BY TypeFacts DEF Connections
  <1>7. P \in Processes /\ P.pc = "send" /\ P.sockfd = k
    BY <1>0, <1>3 DEF Processes
  <1>8. [client |-> c, n |-> P.n, call |-> P.call] \in Requests
    BY <1>3 DEF Requests
  <1> HIDE DEF P, x
  <1>9. /\ client' \in [Clients -> Processes] /\ client'[c] = P
        /\ \A d \in Clients : d # c => client'[d] = client[d]
        /\ Request(c)' \in Requests
    BY <1>1, <1>7, <1>8, ClientIs
  <1>10. /\ conn' \in [Conns -> Connections] /\ conn'[k] = x
         /\ \A j \in Conns : j # k => conn'[j] = conn[j]
    BY <1>1, <1>3, <1>4, <1>6
  <1>11. \A d \in Clients : client[d].sockfd \in Conns => client[d].sockfd # k
    BY <1>0, <1>3, <1>4, TypeFacts DEF SocketsOK
  <1>12. NoCall.kind = "none"
    BY DEF NoCall
  <1>13. /\ AnswerIsOurs' /\ OutcomeReported' /\ DOMAIN last' = Clients
         /\ last'[c] = NoCall /\ \A d \in Clients : d # c => last'[d] = last[d]
    BY <1>1, <1>9, <1>10, <1>11, <1>12, LastCallsKept
  <1>14. TypeOK'
    <2>1. ASSUME NEW d \in Clients, client'[d].pc # "idle"
          PROVE  Request(d)' \in Requests
      <3>1. CASE d = c
        BY <1>9, <3>1
      <3>2. CASE d # c
        BY <1>9, <2>1, <3>2 DEF Request, IInv, TypeOK
      <3> QED
        BY <3>1, <3>2
    <2> QED
      BY <1>1, <1>2, <1>3, <1>9, <1>10, <1>13, <2>1 DEF IInv, TypeOK
  <1>15. SocketsOK'
    <2>1. ASSUME NEW d \in Clients
          PROVE  /\ client'[d].sockfd \in Conns =>
                      /\ client'[d].sockfd <= made'
                      /\ conn'[client'[d].sockfd].client = d
                      /\ conn'[client'[d].sockfd].peer = "open"
                 /\ client'[d].pc = "recv" \/ last'[d].kind = "garbage" =>
                      client'[d].sockfd \in Conns
      <3>1. CASE d = c
        BY <1>0, <1>1, <1>3, <1>6, <1>7, <1>9, <1>10, <3>1
      <3>2. CASE d # c
        <4>1. client'[d] = client[d] /\ last'[d] = last[d]
          BY <1>9, <1>13, <3>2
        <4>2. client[d].sockfd \in Conns => conn'[client[d].sockfd] = conn[client[d].sockfd]
          BY <1>10, <1>11
        <4>3. /\ client[d].sockfd \in Conns =>
                    /\ client[d].sockfd <= made
                    /\ conn[client[d].sockfd].client = d
                    /\ conn[client[d].sockfd].peer = "open"
              /\ client[d].pc = "recv" \/ last[d].kind = "garbage" =>
                    client[d].sockfd \in Conns
          BY <1>4 DEF SocketsOK
        <4>4. \A i \in Conns : i <= made => i <= made'
          BY <1>0, <1>1, <1>3, TypeFacts
        <4>5. client[d].sockfd \in Conns =>
                 /\ client[d].sockfd <= made'
                 /\ conn'[client[d].sockfd].client = d
                 /\ conn'[client[d].sockfd].peer = "open"
          BY <4>2, <4>3, <4>4
        <4> QED
          BY <4>1, <4>3, <4>5
      <3> QED
        BY <3>1, <3>2
    <2>2. ASSUME NEW j \in Conns
          PROVE  /\ conn'[j].peer = "open" => /\ conn'[j].client \in Clients
                                              /\ client'[conn'[j].client].sockfd = j
                 /\ j > made' => conn'[j] = NoConn
      <3>1. CASE j = k
        BY <1>0, <1>1, <1>3, <1>6, <1>7, <1>9, <1>10, <3>1
      <3>2. CASE j # k
        <4>1. conn'[j] = conn[j] /\ (conn[j].peer = "open" => conn[j].client # c)
          BY <1>1, <1>4, <1>10, <3>2, TypeFacts DEF SocketsOK
        <4> QED
          BY <1>0, <1>1, <1>3, <1>4, <1>9, <4>1, TypeFacts DEF SocketsOK
      <3> QED
        BY <3>1, <3>2
    <2> QED
      BY <2>1, <2>2 DEF SocketsOK
  <1>16. ASSUME NEW j \in Conns PROVE ThreadOK(j)' /\ Ordered(j)'
    <2>1. CASE j = k
      <3>1. ThreadOK(k)'
        BY <1>2, <1>5, <1>6, <1>10 DEF ThreadOK
      <3>2. Ordered(k)'
        BY <1>2, <1>5, <1>6, <1>10 DEF Ordered, Busy, OnlyAnswer
      <3> QED
        BY <2>1, <3>1, <3>2
    <2>2. CASE j # k
      <3>1. ThreadOK(j) /\ Ordered(j)
        BY DEF IInv
      <3>2. conn[j].peer = "open" => client'[conn[j].client] = client[conn[j].client]
        BY <1>1, <1>4, <1>9, TypeFacts DEF SocketsOK
      <3>3. ThreadOK(j)'
        BY <1>2, <1>10, <2>2, <3>1 DEF ThreadOK
      <3> QED
        BY <1>2, <1>10, <2>2, <3>1, <3>2, <3>3, OrderedFrame
    <2> QED
      BY <2>1, <2>2
  <1> QED
    BY <1>13, <1>14, <1>15, <1>16 DEF IInv

(* connect is refused: the socket stays, with no connection behind it. *)
LEMMA CallRefusedInv ==
    ASSUME IInv, NEW c \in Clients, NEW call \in Calls, CallRefused(c, call)
    PROVE  IInv'
  <1> DEFINE P == [client[c] EXCEPT !.sockfd = Unconnected]
             L == [NoCall EXCEPT !.kind = "connect", !.err = TRUE]
  <1>1. /\ client[c].pc = "idle" /\ calls < MaxCalls /\ calls' = calls + 1
        /\ client' = [client EXCEPT ![c] = P] /\ last' = [last EXCEPT ![c] = L]
        /\ UNCHANGED <<made, conn, server>> /\ client[c].sockfd = NoSocket
    BY DEF CallRefused
  <1>2. UNCHANGED <<listener, client_no, c_sockfd, thread>>
    BY <1>1 DEF server
  <1>3. /\ calls + 1 \in 0..MaxCalls /\ SocketsOK
        /\ conn \in [Conns -> Connections]
    BY <1>1, BoundAssumption DEF IInv, TypeOK
  <1>4. P \in Processes /\ P.pc = "idle" /\ P.sockfd = Unconnected
    BY <1>1, ClientHere DEF Processes
  <1>5. L.kind = "connect"
    BY DEF NoCall
  <1> HIDE DEF P, L
  <1>6. /\ client' \in [Clients -> Processes] /\ client'[c] = P
        /\ \A d \in Clients : d # c => client'[d] = client[d]
    BY <1>1, <1>4, ClientIs
  <1>7. /\ AnswerIsOurs' /\ OutcomeReported' /\ DOMAIN last' = Clients
        /\ last'[c] = L /\ \A d \in Clients : d # c => last'[d] = last[d]
    BY <1>1, <1>5, <1>6, LastCallsKept
  <1>8. TypeOK'
    <2>1. ASSUME NEW d \in Clients, client'[d].pc # "idle"
          PROVE  Request(d)' \in Requests
      BY <1>4, <1>6, <2>1 DEF Request, IInv, TypeOK
    <2> QED
      BY <1>1, <1>2, <1>3, <1>6, <1>7, <2>1 DEF IInv, TypeOK
  <1>9. \A j \in Conns : conn[j].peer = "open" => conn[j].client # c
    BY <1>1, <1>3, TypeFacts DEF SocketsOK
  <1>10. SocketsOK'
    <2>1. client'[c].sockfd \notin Conns /\ client'[c].pc = "idle"
      BY <1>4, <1>6, TypeFacts
    <2>2. last'[c].kind = "connect"
      BY <1>5, <1>7
    <2> QED
      BY <1>1, <1>3, <1>6, <1>7, <1>9, <2>1, <2>2 DEF SocketsOK
  <1>11. ASSUME NEW j \in Conns PROVE ThreadOK(j)' /\ Ordered(j)'
    <2>1. ThreadOK(j) /\ Ordered(j)
      BY DEF IInv
    <2>2. conn[j].peer = "open" => client'[conn[j].client] = client[conn[j].client]
      BY <1>3, <1>6, <1>9 DEF SocketsOK
    <2>3. ThreadOK(j)'
      BY <1>1, <1>2, <2>1 DEF ThreadOK
    <2> QED
      BY <1>1, <1>2, <2>1, <2>2, <2>3, OrderedFrame
  <1> QED
    BY <1>7, <1>8, <1>10, <1>11 DEF IInv

(* A process ends.  What its connection still holds can be answered at     *)
(* most once, and after a reset not even that.                             *)
LEMMA EndsInv == ASSUME IInv, NEW c \in Clients, Ends(c) PROVE IInv'
  <1>0. PICK k : k = client[c].sockfd
    OBVIOUS
  <1>1. /\ client' = [client EXCEPT ![c] = NewProcess]
        /\ last' = [last EXCEPT ![c] = NoCall]
        /\ UNCHANGED <<made, server, calls>>
    BY DEF Ends
  <1>2. UNCHANGED <<listener, client_no, c_sockfd, thread>>
    BY <1>1 DEF server
  <1>3. conn \in [Conns -> Connections] /\ SocketsOK
    BY DEF IInv, TypeOK
  <1>4. /\ conn' \in [Conns -> Connections]
        /\ \A j \in Conns : j # k => conn'[j] = conn[j]
        /\ k \in Conns =>
              /\ conn'[k].peer \in {"fin", "rst", "pipe"}
              /\ conn'[k].peer = "pipe" => conn[k].answers # <<>>
              /\ conn'[k].answers = <<>> /\ conn'[k].requests = conn[k].requests
              /\ conn'[k].at = conn[k].at /\ conn'[k].client = conn[k].client
              /\ conn'[k].sync = conn[k].sync
    <2>1. CASE k \notin Conns
      BY <1>0, <1>3, <2>1 DEF Ends
    <2>2. CASE k \in Conns
      <3>1. PICK peer \in IF conn[k].answers = <<>> THEN {"fin"} ELSE {"rst", "pipe"} :
               conn' = [conn EXCEPT ![k].peer = peer, ![k].answers = <<>>]
        BY <1>0, <2>2 DEF Ends
      <3> DEFINE x == [conn[k] EXCEPT !.peer = peer, !.answers = <<>>]
      <3>2. conn' = [conn EXCEPT ![k] = x] /\ conn[k] \in Connections
        BY <1>3, <2>2, <3>1
      <3>3. /\ peer \in {"fin", "rst", "pipe"} /\ <<>> \in Seq(AllPieces)
            /\ peer = "pipe" => conn[k].answers # <<>>
        OBVIOUS
      <3>4. /\ x \in Connections /\ x.peer = peer /\ x.answers = <<>>
            /\ x.requests = conn[k].requests /\ x.at = conn[k].at
            /\ x.client = conn[k].client /\ x.sync = conn[k].sync
        BY <3>2, <3>3 DEF Connections
      <3> HIDE DEF x
      <3> QED
        BY <1>3, <2>2, <3>2, <3>3, <3>4
    <2> QED
      BY <2>1, <2>2
  <1>5. /\ client' \in [Clients -> Processes] /\ client'[c] = NewProcess
        /\ \A d \in Clients : d # c => client'[d] = client[d]
    BY <1>1, TypeFacts, ClientIs
  <1>6. NoCall.kind = "none"
    BY DEF NoCall
  <1>7. /\ \A d \in Clients : d # c /\ client[d].sockfd \in Conns =>
              client[d].sockfd # k
        /\ k \in Conns => k <= made
    BY <1>0, <1>3 DEF SocketsOK
  <1>8. \A d \in Clients : d # c /\ client[d].sockfd \in Conns =>
            conn'[client[d].sockfd] = conn[client[d].sockfd]
    BY <1>4, <1>7
  <1>9. /\ AnswerIsOurs' /\ OutcomeReported' /\ DOMAIN last' = Clients
        /\ last'[c] = NoCall /\ \A d \in Clients : d # c => last'[d] = last[d]
    BY <1>1, <1>5, <1>6, <1>8, LastCallsKept
  <1>10. TypeOK'
    <2>1. ASSUME NEW d \in Clients, client'[d].pc # "idle"
          PROVE  Request(d)' \in Requests
      BY <1>5, <2>1, TypeFacts DEF Request, IInv, TypeOK
    <2> QED
      BY <1>1, <1>2, <1>4, <1>5, <1>9, <2>1 DEF IInv, TypeOK
  <1>11. \A j \in Conns : j # k /\ conn[j].peer = "open" => conn[j].client # c
    BY <1>0, <1>3 DEF SocketsOK
  <1>12. SocketsOK'
    <2>1. /\ client'[c].sockfd \notin Conns /\ client'[c].pc = "idle"
          /\ last'[c].kind = "none"
      BY <1>5, <1>6, <1>9, TypeFacts
    <2>2. \A d \in Clients :
             /\ client'[d].sockfd \in Conns =>
                   /\ client'[d].sockfd <= made
                   /\ conn'[client'[d].sockfd].client = d
                   /\ conn'[client'[d].sockfd].peer = "open"
             /\ client'[d].pc = "recv" \/ last'[d].kind = "garbage" =>
                   client'[d].sockfd \in Conns
      BY <1>3, <1>5, <1>8, <1>9, <2>1 DEF SocketsOK
    <2>3. ASSUME NEW j \in Conns
          PROVE  /\ conn'[j].peer = "open" => /\ conn'[j].client \in Clients
                                              /\ client'[conn'[j].client].sockfd = j
                 /\ j > made => conn'[j] = NoConn
      <3>1. CASE j = k
        <4>1. ~(j > made)
          BY <1>7, <3>1, TypeFacts DEF IInv, TypeOK
        <4> QED
          BY <1>4, <3>1, <4>1
      <3>2. CASE j # k
        BY <1>3, <1>4, <1>5, <1>11, <3>2 DEF SocketsOK
      <3> QED
        BY <3>1, <3>2
    <2> QED
      BY <1>1, <2>2, <2>3 DEF SocketsOK
  <1>13. ASSUME NEW j \in Conns PROVE ThreadOK(j)' /\ Ordered(j)'
    <2>1. ThreadOK(j) /\ Ordered(j)
      BY DEF IInv
    <2>2. ThreadOK(j)'
      BY <1>2, <1>4, <2>1 DEF ThreadOK
    <2>3. CASE j = k
      <3>1. Busy(k)' <=> Busy(k)
        BY <1>2 DEF Busy
      <3> QED
        BY <1>4, <2>1, <2>2, <2>3, <3>1 DEF Ordered
    <2>4. CASE j # k
      <3>1. conn[j].peer = "open" => client'[conn[j].client] = client[conn[j].client]
        BY <1>3, <1>5, <1>11, <2>4 DEF SocketsOK
      <3> QED
        BY <1>2, <1>4, <2>1, <2>2, <2>4, <3>1, OrderedFrame
    <2> QED
      BY <2>3, <2>4
  <1> QED
    BY <1>9, <1>10, <1>12, <1>13 DEF IInv

-----------------------------------------------------------------------------
(* The whole system. *)

LEMMA InitInv == ASSUME Init PROVE IInv
  <1>1. /\ client \in [Clients -> Processes]
        /\ \A c \in Clients : client[c].pc = "idle" /\ client[c].sockfd \notin Conns
    BY TypeFacts DEF Init
  <1>2. /\ \A k \in Conns : conn[k] = NoConn /\ thread[k] = NoThread
        /\ conn \in [Conns -> Connections] /\ thread \in [Conns -> ServerThreads]
    BY TypeFacts DEF Init
  <1>3. DOMAIN last = Clients /\ \A c \in Clients : last[c].kind = "none"
    BY DEF Init, NoCall
  <1>4. TypeOK
    <2>1. \A k \in Conns : thread[k].pc = "none"
      BY <1>2, TypeFacts
    <2>2. 0 \in 0..MAX_CLIENT
      BY ClientAssumption
    <2>3. c_sockfd \in [0..(MAX_CLIENT - 1) -> {0} \cup Conns]
      BY DEF Init
    <2> QED
      BY <1>1, <1>2, <1>3, <2>1, <2>2, <2>3, TypeFacts DEF Init, TypeOK
  <1>5. SocketsOK
    BY <1>1, <1>2, <1>3, TypeFacts DEF SocketsOK
  <1>6. \A k \in Conns : ThreadOK(k) /\ Ordered(k)
    BY <1>2, TypeFacts DEF ThreadOK, Ordered, Busy
  <1>7. AnswerIsOurs /\ OutcomeReported
    BY <1>3 DEF AnswerIsOurs, OutcomeReported
  <1> QED
    BY <1>4, <1>5, <1>6, <1>7 DEF IInv

LEMMA StutterInv == ASSUME IInv, UNCHANGED vars PROVE IInv'
  <1>1. UNCHANGED <<client, made, conn, listener, client_no, c_sockfd, thread,
                    last, calls>>
    BY DEF vars
  <1>2. TypeOK' /\ SocketsOK'
    BY <1>1 DEF IInv, TypeOK, SocketsOK, Request
  <1>3. ASSUME NEW k \in Conns PROVE ThreadOK(k)' /\ Ordered(k)'
    <2>1. ThreadOK(k) /\ Ordered(k)
      BY DEF IInv
    <2>2. ThreadOK(k)'
      BY <1>1, <2>1 DEF ThreadOK
    <2> QED
      BY <1>1, <2>1, <2>2, OrderedFrame
  <1>4. AnswerIsOurs' /\ OutcomeReported'
    BY <1>1 DEF IInv, AnswerIsOurs, OutcomeReported
  <1> QED
    BY <1>2, <1>3, <1>4 DEF IInv

LEMMA StepInv == IInv /\ [Next]_vars => IInv'
  <1> SUFFICES ASSUME IInv, [Next]_vars PROVE IInv'
    OBVIOUS
  <1>1. ASSUME NEW c \in Clients, NEW call \in Calls, create_connection(c, call)
        PROVE  IInv'
    BY <1>1, CallConnectedInv, CallConnectsInv, CallRefusedInv DEF create_connection
  <1>2. ASSUME NEW c \in Clients, process_request(c) PROVE IInv'
    <2>1. CASE SendKills(c)
      BY <2>1, EndsInv DEF SendKills
    <2> QED
      BY <1>2, <2>1, SendInv, RecvInv, FailsInv DEF process_request
  <1>3. ASSUME NEW c \in Clients, ClientExit(c) PROVE IInv'
    BY <1>3, EndsInv DEF ClientExit
  <1>4. CASE cli_listener
    BY <1>4, ListenInv, AcceptInv, AcceptPastEndInv DEF cli_listener
  <1>5. CASE Stop
    BY <1>5, VfmEndsInv DEF Stop
  <1>6. ASSUME NEW k \in Conns, process_client_request(k) PROVE IInv'
    <2>1. CASE SendKillsVfm(k)
      BY <2>1, VfmEndsInv DEF SendKillsVfm
    <2> QED
      BY <1>6, <2>1, ThreadStartInv, ThreadRecvInv, ThreadEndsInv, HandleInv,
         SendAnswerInv, SendWrongInv DEF process_client_request
  <1>7. CASE UNCHANGED vars
    BY <1>7, StutterInv
  <1> QED
    BY <1>1, <1>2, <1>3, <1>4, <1>5, <1>6, <1>7 DEF Next

(* For any number of clients, connections and calls, and wherever clients  *)
(* and the VFM end, the inductive invariant holds.                         *)
THEOREM Invariance == Spec => []IInv
  <1>1. Init => IInv
    BY InitInv
  <1>2. IInv /\ [Next]_vars => IInv'
    BY StepInv
  <1> QED
    BY <1>1, <1>2, PTL DEF Spec

(* The slot of c_sockfd whose address cli_listener gave a thread still     *)
(* holds that thread's socket when process_client_request reads it.        *)
THEOREM ThreadsServeTheirOwn == Spec => []OwnSocket
  <1>1. IInv => OwnSocket
    BY DEF IInv, OwnSocket, ThreadOK
  <1> QED
    BY <1>1, Invariance, PTL

(* The one recv of process_request takes the answer to the request it has  *)
(* just sent, until an answer did not fit or a request got none.           *)
THEOREM AnswersAreOurs == Spec => []AnswerIsOurs
  <1>1. IInv => AnswerIsOurs
    BY DEF IInv
  <1> QED
    BY <1>1, Invariance, PTL

(* On a connection in step a client that ends cannot make the send of      *)
(* process_client_request raise SIGPIPE.                                   *)
THEOREM ClientCannotKill == Spec => []NoSigpipe
  <1>1. IInv => NoSigpipe
    BY DEF IInv, NoSigpipe, Ordered, Busy
  <1> QED
    BY <1>1, Invariance, PTL

(* The two edit stubs and vfm_vfabric_online return the handler's error.   *)
THEOREM OutcomesReported == Spec => []OutcomeReported
  <1>1. IInv => OutcomeReported
    BY DEF IInv
  <1> QED
    BY <1>1, Invariance, PTL

-----------------------------------------------------------------------------
(* The VFM and the stubs implement ApiCall. *)

(* A session, case by case, before and after a step. *)
LEMMA ViewIs ==
    ASSUME NEW c
    PROVE  /\ client[c].pc = "idle" =>
                 View(c) = [phase |-> "idle", told |-> Told(last[c])]
           /\ client[c].pc = "recv" /\ (InThread(c) \/ InStream(c)) =>
                 View(c) = [phase |-> "executed", call |-> client[c].call,
                            failed |-> Ready(c).failed]
           /\ /\ client[c].pc # "idle"
              /\ client[c].pc # "recv" \/ (~InThread(c) /\ ~InStream(c))
              => View(c) = [phase |-> IF Connected(c) THEN "called" ELSE "cut",
                            call |-> client[c].call]
  BY DEF View

LEMMA ViewIsNext ==
    ASSUME NEW c
    PROVE  /\ client'[c].pc = "idle" =>
                 View(c)' = [phase |-> "idle", told |-> Told(last'[c])]
           /\ client'[c].pc = "recv" /\ (InThread(c)' \/ InStream(c)') =>
                 View(c)' = [phase |-> "executed", call |-> client'[c].call,
                             failed |-> Ready(c)'.failed]
           /\ /\ client'[c].pc # "idle"
              /\ client'[c].pc # "recv" \/ (~InThread(c)' /\ ~InStream(c)')
              => View(c)' = [phase |-> IF Connected(c)' THEN "called" ELSE "cut",
                             call |-> client'[c].call]
  BY DEF View

(* The steps of the abstract call, in terms of the sessions. *)
LEMMA ServeIs ==
    ASSUME NEW c \in Clients
    PROVE  /\ \A told : \A call \in Calls :
                 /\ View(c) = [phase |-> "idle", told |-> told]
                 /\ \/ View(c)' = [phase |-> "called", call |-> call]
                    \/ View(c)' = [phase |-> "cut", call |-> call]
                 => Caller!Serve(c)
           /\ \A told :
                 /\ View(c) = [phase |-> "idle", told |-> told]
                 /\ View(c)' = [phase |-> "idle",
                                told |-> [kind |-> "failed", err |-> TRUE]]
                 => Caller!Serve(c)
           /\ \A call : \A failed \in BOOLEAN :
                 /\ View(c) = [phase |-> "called", call |-> call]
                 /\ failed => call \in Fallible
                 /\ View(c)' = [phase |-> "executed", call |-> call,
                                failed |-> failed]
                 => Caller!Serve(c)
           /\ \A call, failed :
                 /\ View(c) = [phase |-> "executed", call |-> call,
                               failed |-> failed]
                 /\ View(c)' = [phase |-> "idle",
                                told |-> [kind |-> "answer", call |-> call,
                                   failed |-> failed,
                                   err |-> failed /\ call \in Reporting]]
                 => Caller!Serve(c)
           /\ \A call, failed :
                 /\ \/ View(c) = [phase |-> "called", call |-> call]
                    \/ View(c) = [phase |-> "executed", call |-> call,
                                  failed |-> failed]
                 /\ View(c)' = [phase |-> "cut", call |-> call]
                 => Caller!Serve(c)
           /\ \A call : \A err \in BOOLEAN :
                 /\ View(c) = [phase |-> "cut", call |-> call]
                 /\ View(c)' = [phase |-> "idle",
                                told |-> [kind |-> "failed", err |-> err]]
                 => Caller!Serve(c)
           /\ View(c)' = [phase |-> "idle", told |-> [kind |-> "none"]]
                 => Caller!Restart(c)
  <1> USE DEF Caller!Serve, Caller!Becomes
  <1>0. [d \in Clients |-> View(d)][c] = View(c)
    OBVIOUS
  <1>1. ASSUME NEW told, NEW call \in Calls,
               View(c) = [phase |-> "idle", told |-> told],
               \/ View(c)' = [phase |-> "called", call |-> call]
               \/ View(c)' = [phase |-> "cut", call |-> call]
        PROVE  Caller!Serve(c)
    <2>1. CASE View(c)' = [phase |-> "called", call |-> call]
      <3>1. [d \in Clients |-> View(d)]'[c] = Caller!Called(call)
        BY <2>1 DEF Caller!Called
      <3>2. [d \in Clients |-> View(d)][c].phase = "idle"
        BY <1>1
      <3> QED
        BY <3>1, <3>2, Zenon DEF Caller!Call
    <2>2. CASE View(c)' = [phase |-> "cut", call |-> call]
      <3>1. [d \in Clients |-> View(d)]'[c] = Caller!CutOff(call)
        BY <2>2 DEF Caller!CutOff
      <3>2. [d \in Clients |-> View(d)][c].phase = "idle"
        BY <1>1
      <3> QED
        BY <3>1, <3>2, Zenon DEF Caller!Call
    <2> QED
      BY <1>1, <2>1, <2>2
  <1>2. ASSUME NEW told, View(c) = [phase |-> "idle", told |-> told],
               View(c)' = [phase |-> "idle",
                           told |-> [kind |-> "failed", err |-> TRUE]]
        PROVE  Caller!Serve(c)
    BY <1>2 DEF Caller!Call, Caller!Idle, Caller!Failed
  <1>3. ASSUME NEW call, NEW failed \in BOOLEAN, failed => call \in Fallible,
               View(c) = [phase |-> "called", call |-> call],
               View(c)' = [phase |-> "executed", call |-> call, failed |-> failed]
        PROVE  Caller!Serve(c)
    BY <1>3 DEF Caller!Execute, Caller!Executed
  <1>4. ASSUME NEW call, NEW failed,
               View(c) = [phase |-> "executed", call |-> call, failed |-> failed],
               View(c)' = [phase |-> "idle",
                           told |-> [kind |-> "answer", call |-> call,
                              failed |-> failed,
                              err |-> failed /\ call \in Reporting]]
        PROVE  Caller!Serve(c)
    BY <1>4 DEF Caller!Return, Caller!Idle, Caller!Answered
  <1>5. ASSUME NEW call, NEW failed,
               \/ View(c) = [phase |-> "called", call |-> call]
               \/ View(c) = [phase |-> "executed", call |-> call, failed |-> failed],
               View(c)' = [phase |-> "cut", call |-> call]
        PROVE  Caller!Serve(c)
    BY <1>5 DEF Caller!Cut, Caller!CutOff
  <1>6. ASSUME NEW call, NEW err \in BOOLEAN,
               View(c) = [phase |-> "cut", call |-> call],
               View(c)' = [phase |-> "idle",
                           told |-> [kind |-> "failed", err |-> err]]
        PROVE  Caller!Serve(c)
    BY <1>6 DEF Caller!Fail, Caller!Idle, Caller!Failed
  <1>7. ASSUME View(c)' = [phase |-> "idle", told |-> [kind |-> "none"]]
        PROVE  Caller!Restart(c)
    BY <1>7 DEF Caller!Restart, Caller!Idle, Caller!NoReport
  <1> QED
    BY <1>1, <1>2, <1>3, <1>4, <1>5, <1>6, <1>7, Zenon

(* What a stub returns of an answer: the handler's error, or none if the   *)
(* stub is not one that reports it.                                        *)
LEMMA ResultFacts ==
    ASSUME NEW r \in Requests, NEW a, IsAnswerTo(r, a)
    PROVE  /\ StubResult(r.call, a) = (a.failed /\ r.call \in Reporting)
           /\ a.failed \in BOOLEAN
  <1>1. PICK failed \in BOOLEAN, len \in Lengths(r.call) :
           a = Answer(r, AnswerOpcode(r.call, failed), failed, len)
    BY DEF IsAnswerTo
  <1>2. r.call \in Calls /\ r.call \in Stubs
    BY CallsAssumption DEF Requests
  <1>3. a.failed = failed /\ a.opcode = AnswerOpcode(r.call, failed)
    BY <1>1 DEF Answer
  <1>4. CASE r.call \in Reporting
    BY <1>3, <1>4, AnswerFacts, Zenon
  <1>5. CASE r.call \notin Reporting
    <2>1. \A s \in Stubs \ Reporting : s.returns # "value" /\ s.opcode # "ERROR"
      BY DEF Stubs, Reporting, Stub, vfm_vadapter_create,
             vfm_vadapter_edit_general_attr, vfm_vadapter_edit_protocol_attr,
             vfm_vadapter_online, vfm_vadapter_select_inventory,
             vfm_vadapter_destroy, vfm_vfabric_create,
             vfm_vfabric_edit_general_attr, vfm_vfabric_online,
             vfm_vfabric_select_inventory, vfm_bd_select_inventory
    <2>2. r.call.returns # "value" /\ r.call.opcode # "ERROR"
          /\ r.call # vfm_vfabric_online
      BY <1>2, <1>5, <2>1 DEF Reporting
    <2>3. a.opcode # "ERROR"
      BY <1>3, <2>2 DEF AnswerOpcode
    <2>4. StubResult(r.call, a) = FALSE
      BY <2>2, <2>3 DEF StubResult, unmarshall_response
    <2> QED
      BY <1>3, <1>5, <2>4, Zenon
  <1> QED
    BY <1>3, <1>4, <1>5

(* A step that touches neither a client nor its connection nor its thread  *)
(* leaves the session alone.                                               *)
LEMMA ViewFrame ==
    ASSUME IInv, NEW c \in Clients, client'[c] = client[c], last'[c] = last[c],
           \A k \in Conns : client[c].sockfd = k =>
              /\ conn'[k].answers = conn[k].answers /\ conn'[k].sync = conn[k].sync
              /\ conn'[k].at = "closed" <=> conn[k].at = "closed"
              /\ (thread'[k].pc = "send" /\ thread'[k].size = "set")
                    <=> (thread[k].pc = "send" /\ thread[k].size = "set")
              /\ thread[k].pc = "send" => thread'[k].pack = thread[k].pack
    PROVE  InStep(c)' = InStep(c) /\ View(c)' = View(c)
  <1>1. InStep(c)' = InStep(c)
    <2>1. CASE client[c].sockfd \in Conns
      BY <2>1, Zenon DEF InStep
    <2>2. CASE client[c].sockfd \notin Conns
      BY <2>2, Zenon DEF InStep
    <2> QED
      BY <2>1, <2>2
  <1>2. client[c].pc = "recv" => client[c].sockfd \in Conns
    BY ClientHere
  <1>3. Connected(c)' = Connected(c)
    BY DEF Connected
  <1>4. ASSUME client[c].pc = "recv"
        PROVE  /\ InStream(c)' = InStream(c) /\ InThread(c)' = InThread(c)
               /\ InStream(c) \/ InThread(c) => Ready(c)' = Ready(c)
    BY <1>2, <1>4 DEF InStream, InThread, Ready
  <1>5. View(c)' = View(c)
    <2>1. CASE client[c].pc = "idle"
      <3>1. View(c) = [phase |-> "idle", told |-> Told(last[c])]
        BY <2>1, ViewIs
      <3>2. View(c)' = [phase |-> "idle", told |-> Told(last'[c])]
        BY <2>1, ViewIsNext
      <3> QED
        BY <3>1, <3>2
    <2>2. CASE client[c].pc = "recv" /\ (InThread(c) \/ InStream(c))
      <3>1. View(c) = [phase |-> "executed", call |-> client[c].call,
                       failed |-> Ready(c).failed]
        BY <2>2, ViewIs
      <3>2. View(c)' = [phase |-> "executed", call |-> client'[c].call,
                        failed |-> Ready(c)'.failed]
        BY <1>4, <2>2, ViewIsNext
      <3> QED
        BY <1>4, <2>2, <3>1, <3>2
    <2>3. CASE /\ client[c].pc # "idle"
               /\ client[c].pc # "recv" \/ (~InThread(c) /\ ~InStream(c))
      BY <1>3, <1>4, <2>3, ViewIs, ViewIsNext
    <2> QED
      BY <2>1, <2>2, <2>3
  <1> QED
    BY <1>1, <1>5

(* What a step must do to the session of a client. *)
Kept(c) == InStep(c)' => \/ InStep(c) /\ (Caller!Serve(c) \/ View(c)' = View(c))
                         \/ Caller!Restart(c)

(* The thread of another connection leaves the session alone. *)
LEMMA OtherThreadKept ==
    ASSUME IInv, NEW c \in Clients, NEW k \in Conns, client[c].sockfd # k,
           UNCHANGED <<client, last>>,
           \A j \in Conns : j # k => conn'[j] = conn[j] /\ thread'[j] = thread[j]
    PROVE  Kept(c)
  <1>1. \A j \in Conns : client[c].sockfd = j =>
           conn'[j] = conn[j] /\ thread'[j] = thread[j]
    OBVIOUS
  <1>2. client'[c] = client[c] /\ last'[c] = last[c]
    OBVIOUS
  <1> QED
    BY <1>1, <1>2, ViewFrame DEF Kept

(* ... and so do the steps that take a request or end the thread. *)
LEMMA ThreadWaitsKept ==
    ASSUME IInv, NEW c \in Clients, NEW k \in Conns,
           ThreadStart(k) \/ ThreadRecv(k) \/ ThreadEof(k) \/ SendAnswerFails(k)
    PROVE  Kept(c)
  <1>1. thread[k].pc \in {"start", "recv", "send"}
    BY DEF ThreadStart, ThreadRecv, ThreadEof, SendAnswerFails, Running
  <1>2. /\ thread[k] \in ServerThreads /\ conn[k] \in Connections
        /\ thread[k].pc \in {"recv", "send"} => thread[k].sock_fd = k
        /\ conn \in [Conns -> Connections] /\ thread \in [Conns -> ServerThreads]
    BY <1>1, ThreadHere
  <1>3. /\ UNCHANGED <<client, last>>
        /\ \A j \in Conns : j # k => conn'[j] = conn[j] /\ thread'[j] = thread[j]
        /\ conn'[k].answers = conn[k].answers /\ conn'[k].sync = conn[k].sync
        /\ conn'[k].at = conn[k].at
        /\ thread'[k].pc # "send"
        /\ thread[k].pc # "send" \/ conn[k].peer = "rst"
    <2>1. CASE ThreadStart(k)
      BY <1>2, <2>1 DEF ThreadStart, Running, ServerThreads
    <2>2. CASE ThreadRecv(k)
      BY <1>1, <1>2, <2>2 DEF ThreadRecv, Running, ServerThreads, Connections
    <2>3. CASE ThreadEof(k)
      BY <1>2, <2>3 DEF ThreadEof, Running, ServerThreads
    <2>4. CASE SendAnswerFails(k)
      BY <1>1, <1>2, <2>4 DEF SendAnswerFails, Running, ServerThreads
    <2> QED
      BY <2>1, <2>2, <2>3, <2>4
  <1>4. CASE client[c].sockfd = k
    <2>1. thread[k].pc # "send"
      BY <1>3, <1>4, ClientHere
    <2>2. client'[c] = client[c] /\ last'[c] = last[c]
      BY <1>3
    <2>3. \A j \in Conns : client[c].sockfd = j => j = k
      BY <1>4
    <2> QED
      BY <1>3, <2>1, <2>2, <2>3, ViewFrame DEF Kept
  <1>5. CASE client[c].sockfd # k
    BY <1>3, <1>5, OtherThreadKept
  <1> QED
    BY <1>4, <1>5

(* The handler runs: the request of the call the client is in is executed. *)
LEMMA HandleKept ==
    ASSUME IInv, NEW c \in Clients, NEW k \in Conns, unmarshall_request(k)
    PROVE  Kept(c)
  <1> DEFINE r == thread[k].req
  <1>1. /\ thread[k].pc = "handle" /\ UNCHANGED <<client, conn, last>>
    BY DEF unmarshall_request, Running
  <1>2. /\ thread[k] \in ServerThreads /\ ThreadOK(k) /\ Ordered(k)
        /\ conn[k].at = "accepted" /\ r \in Requests
        /\ thread \in [Conns -> ServerThreads]
    BY <1>1, ThreadHere
  <1>3. \A j \in Conns : j # k => conn'[j] = conn[j] /\ thread'[j] = thread[j]
    BY <1>1, <1>2 DEF unmarshall_request
  <1>4. CASE client[c].sockfd # k
    BY <1>1, <1>3, <1>4, OtherThreadKept
  <1>5. ASSUME client[c].sockfd = k, InStep(c)'
        PROVE  InStep(c) /\ (Caller!Serve(c) \/ View(c)' = View(c))
    <2>1. InStep(c) /\ conn[k].sync
      BY <1>1, <1>5 DEF InStep
    <2>2. conn[k].client = c /\ conn[k].peer = "open"
      BY <1>5, ClientHere
    <2>3. /\ client[c].pc = "recv" /\ r.call = client[c].call
          /\ conn[k].answers = <<>>
      BY <1>1, <1>2, <2>1, <2>2 DEF Ordered, Busy, Request
    <2>4. ~InThread(c) /\ ~InStream(c) /\ Connected(c) /\ ~InStream(c)'
      BY <1>1, <1>2, <1>5, <2>3 DEF InThread, InStream, Connected
    <2>5. View(c) = [phase |-> "called", call |-> r.call]
      BY <2>3, <2>4, ViewIs
    <2>6. ASSUME NEW failed \in BOOLEAN, NEW len \in Lengths(r.call),
                 failed => CanFail(r.call),
                 thread' = [thread EXCEPT ![k].pc = "send", ![k].size = "set",
                       ![k].pack = Answer(r, AnswerOpcode(r.call, failed),
                                          failed, len)]
          PROVE  Caller!Serve(c)
      <3> DEFINE a == Answer(r, AnswerOpcode(r.call, failed), failed, len)
      <3>1. a.failed = failed
        BY DEF Answer
      <3> HIDE DEF a
      <3>2. thread' = [thread EXCEPT ![k].pc = "send", ![k].size = "set",
                                     ![k].pack = a]
        BY <2>6 DEF a
      <3>3. /\ thread'[k].pc = "send" /\ thread'[k].size = "set"
            /\ thread'[k].pack = a
        BY <1>2, <3>2 DEF ServerThreads
      <3>4. InThread(c)' /\ Ready(c)' = a
        BY <1>1, <1>5, <2>4, <3>3 DEF InThread, Ready
      <3>5. View(c)' = [phase |-> "executed", call |-> r.call, failed |-> failed]
        <4>1. client'[c].pc = "recv" /\ client'[c].call = r.call
          BY <1>1, <2>3
        <4>2. View(c)' = [phase |-> "executed", call |-> client'[c].call,
                          failed |-> Ready(c)'.failed]
          BY <3>4, <4>1, ViewIsNext
        <4> QED
          BY <3>1, <3>4, <4>1, <4>2
      <3>6. failed => r.call \in Fallible
        BY <1>2, <2>6 DEF Fallible, Requests
      <3> QED
        BY <2>5, <3>5, <3>6, ServeIs
    <2>7. ASSUME thread' = [thread EXCEPT ![k].pc = "send"]
          PROVE  View(c)' = View(c)
      <3>1. thread'[k].size # "set"
        BY <1>1, <1>2, <2>7 DEF ServerThreads, ThreadOK
      <3>2. ~InThread(c)' /\ Connected(c)'
        BY <1>1, <1>5, <2>4, <3>1 DEF InThread, Connected
      <3> QED
        BY <1>1, <2>3, <2>4, <2>5, <3>2, ViewIsNext
    <2> QED
      BY <2>1, <2>6, <2>7 DEF unmarshall_request
  <1> QED
    BY <1>4, <1>5 DEF Kept

(* The answer goes from the thread into the stream. *)
LEMMA SendAnswerKept ==
    ASSUME IInv, NEW c \in Clients, NEW k \in Conns, SendAnswer(k)
    PROVE  Kept(c)
  <1> DEFINE a == thread[k].pack
             old == conn[k].answers
  <1>1. /\ thread[k].pc = "send" /\ thread[k].size = "set" /\ Loops(k)
        /\ UNCHANGED <<client, last>>
    BY DEF SendAnswer, Running
  <1>2. /\ thread[k] \in ServerThreads /\ conn[k] \in Connections
        /\ ThreadOK(k) /\ Ordered(k)
        /\ thread[k].req \in Requests /\ thread[k].sock_fd = k
        /\ conn \in [Conns -> Connections] /\ thread \in [Conns -> ServerThreads]
    BY <1>1, ThreadHere
  <1>3. a \in Answers
    BY <1>1, <1>2, AnswerFacts DEF ThreadOK
  <1>4. /\ Pieces(a) \in Seq(AllPieces) /\ Pieces(a) # <<>>
        /\ Pieces(a)[1].answer = a
    BY <1>3, PiecesFacts
  <1>5. \A j \in Conns : j # k => conn'[j] = conn[j] /\ thread'[j] = thread[j]
    <2>1. \A j \in Conns : j # k => conn'[j] = conn[j]
      BY <1>2, Zenon DEF SendAnswer, Sent
    <2> QED
      BY <1>1, <1>2, <2>1 DEF Loops
  <1>6. CASE client[c].sockfd # k
    BY <1>1, <1>5, <1>6, OtherThreadKept
  <1>7. ASSUME client[c].sockfd = k, InStep(c)'
        PROVE  InStep(c) /\ View(c)' = View(c)
    <2>1. conn[k].client = c /\ conn[k].peer = "open"
      BY <1>7, ClientHere
    <2>2. conn' = [conn EXCEPT ![k].answers = @ \o Pieces(a),
                               ![k].sync = @ /\ Len(Pieces(a)) <= BufLen]
      BY <1>2, <2>1 DEF SendAnswer, Sent
    <2>3. conn'[k].answers = old \o Pieces(a)
      BY <1>2, <2>2, Zenon DEF Connections
    <2>4. conn'[k].sync => conn[k].sync
      <3> DEFINE s == conn[k].sync /\ Len(Pieces(a)) <= BufLen
      <3>1. conn' = [conn EXCEPT ![k] =
                [conn[k] EXCEPT !.answers = old \o Pieces(a), !.sync = s]]
        BY <2>2, Zenon
      <3> HIDE DEF s
      <3>2. conn'[k].sync = s
        BY <1>2, <3>1 DEF Connections
      <3> QED
        BY <3>2 DEF s
    <2>5. conn'[k].sync
      BY <1>1, <1>7 DEF InStep
    <2>6. InStep(c) /\ conn[k].sync
      BY <1>7, <2>4, <2>5 DEF InStep
    <2>7. client[c].pc = "recv" /\ old = <<>>
      BY <1>1, <1>2, <2>1, <2>6 DEF Ordered, Busy
    <2>8. conn'[k].answers = Pieces(a)
      BY <1>4, <2>3, <2>7, ConcatEmptySeq
    <2>9. InThread(c) /\ Ready(c) = a
      BY <1>1, <1>7, <2>7 DEF InThread, InStream, Ready
    <2>10. InStream(c)' /\ Ready(c)' = a
      BY <1>1, <1>4, <1>7, <2>8 DEF InStream, Ready
    <2> QED
      BY <1>1, <2>6, <2>7, <2>9, <2>10, ViewIs, ViewIsNext
  <1> QED
    BY <1>6, <1>7 DEF Kept

(* A request without a handler takes its connection out of step. *)
LEMMA SendWrongKept ==
    ASSUME IInv, NEW c \in Clients, NEW k \in Conns,
           SendNothing(k) \/ SendGarbage(k)
    PROVE  Kept(c)
  <1>1. thread[k].pc = "send" /\ UNCHANGED <<client, last>>
    BY DEF SendNothing, SendGarbage, Running
  <1>2. /\ thread[k].sock_fd = k /\ conn[k] \in Connections
        /\ conn \in [Conns -> Connections] /\ thread \in [Conns -> ServerThreads]
    BY <1>1, ThreadHere
  <1>3. \A j \in Conns : j # k => conn'[j] = conn[j] /\ thread'[j] = thread[j]
    BY <1>2 DEF SendNothing, SendGarbage, Loops
  <1>4. ~conn'[k].sync
    <2>1. CASE conn' = [conn EXCEPT ![k].sync = FALSE]
      BY <1>2, <2>1 DEF Connections
    <2>2. CASE conn' = [conn EXCEPT ![k].sync = FALSE,
                                    ![k].answers = Append(@, Garbage)]
      BY <1>2, <2>2 DEF Connections
    <2>3. CASE conn' = [conn EXCEPT ![k].sync = FALSE, ![k].peer = "pipe"]
      BY <1>2, <2>3 DEF Connections
    <2> QED
      BY <1>2, <2>1, <2>2, <2>3, Zenon DEF SendNothing, SendGarbage
  <1>5. CASE client[c].sockfd = k
    <2>1. ~InStep(c)'
      BY <1>1, <1>4, <1>5 DEF InStep
    <2> QED
      BY <2>1 DEF Kept
  <1> QED
    BY <1>1, <1>3, <1>5, OtherThreadKept

(* The VFM ends: a call is cut off, unless its answer is in the stream.    *)
LEMMA VfmEndsKept ==
    ASSUME IInv, NEW c \in Clients, VfmEnds
    PROVE  Kept(c)
  <1>1. /\ UNCHANGED <<client, last>> /\ conn \in [Conns -> Connections]
        /\ \A k \in Conns : client[c].sockfd = k => conn[k] \in Connections
    BY ClientHere DEF VfmEnds
  <1>2. \A k \in Conns : /\ conn'[k] = [conn[k] EXCEPT !.at = "closed",
                                                       !.requests = <<>>]
                         /\ thread'[k] = NoThread
    BY DEF VfmEnds
  <1>3. \A k \in Conns : client[c].sockfd = k =>
           /\ conn'[k].at = "closed" /\ conn'[k].answers = conn[k].answers
           /\ conn'[k].sync = conn[k].sync /\ thread'[k].pc = "none"
    <2>1. \A k \in Conns : client[c].sockfd = k =>
             /\ conn'[k].at = "closed" /\ conn'[k].answers = conn[k].answers
             /\ conn'[k].sync = conn[k].sync
      BY <1>1, <1>2 DEF Connections
    <2>2. \A k \in Conns : thread'[k].pc = "none"
      BY <1>2, TypeFacts
    <2> QED
      BY <2>1, <2>2
  <1>4. InStep(c)' => InStep(c)
    BY <1>1, <1>3, Zenon DEF InStep
  <1>5. ~Connected(c)'
    BY <1>1, <1>3 DEF Connected
  <1>6. ASSUME client[c].pc = "recv"
        PROVE  /\ ~InThread(c)' /\ InStream(c)' = InStream(c)
               /\ InStream(c) => Ready(c)' = Ready(c)
    <2>1. client[c].sockfd \in Conns
      BY <1>6, ClientHere
    <2> QED
      BY <1>1, <1>3, <2>1 DEF InThread, InStream, Ready
  <1>7. CASE client[c].pc = "idle"
    <2>1. View(c)' = View(c)
      BY <1>1, <1>7, ViewIs, ViewIsNext
    <2> QED
      BY <1>4, <2>1 DEF Kept
  <1>8. CASE client[c].pc = "recv" /\ InStream(c)
    <2>1. View(c) = [phase |-> "executed", call |-> client[c].call,
                     failed |-> Ready(c).failed]
      BY <1>8, ViewIs
    <2>2. View(c)' = [phase |-> "executed", call |-> client'[c].call,
                      failed |-> Ready(c)'.failed]
      BY <1>1, <1>6, <1>8, ViewIsNext
    <2>3. View(c)' = View(c)
      BY <1>1, <1>6, <1>8, <2>1, <2>2
    <2> QED
      BY <1>4, <2>3 DEF Kept
  <1>9. CASE /\ client[c].pc # "idle"
             /\ client[c].pc # "recv" \/ ~InStream(c)
    <2>1. View(c)' = [phase |-> "cut", call |-> client[c].call]
      <3>1. client'[c].pc # "recv" \/ (~InThread(c)' /\ ~InStream(c)')
        BY <1>1, <1>6, <1>9
      <3>2. View(c)' = [phase |-> IF Connected(c)' THEN "called" ELSE "cut",
                        call |-> client'[c].call]
        BY <1>1, <1>9, <3>1, ViewIsNext
      <3> QED
        BY <1>1, <1>5, <3>2
    <2>2. \/ View(c) = [phase |-> "called", call |-> client[c].call]
          \/ View(c) = [phase |-> "executed", call |-> client[c].call,
                        failed |-> Ready(c).failed]
          \/ View(c) = [phase |-> "cut", call |-> client[c].call]
      BY <1>9, ViewIs
    <2>3. Caller!Serve(c) \/ View(c)' = View(c)
      BY <2>1, <2>2, ServeIs
    <2> QED
      BY <1>4, <2>3 DEF Kept
  <1> QED
    BY <1>7, <1>8, <1>9

LEMMA ThreadKept ==
    ASSUME IInv, NEW c \in Clients, NEW k \in Conns, process_client_request(k)
    PROVE  Kept(c)
  BY ThreadWaitsKept, HandleKept, SendAnswerKept, SendWrongKept, VfmEndsKept
     DEF process_client_request, SendKillsVfm

LEMMA ListenerKept ==
    ASSUME IInv, NEW c \in Clients, cli_listener
    PROVE  Kept(c)
  <1>1. ASSUME UNCHANGED <<client, conn, thread, last>> PROVE Kept(c)
    <2>1. client'[c] = client[c] /\ last'[c] = last[c]
      BY <1>1
    <2> QED
      BY <1>1, <2>1, ViewFrame DEF Kept
  <1>2. ASSUME NEW k \in Waiting, Accept(k) PROVE Kept(c)
    <2>1. /\ k \in Conns /\ conn[k].at = "backlog" /\ conn[k] \in Connections
          /\ conn \in [Conns -> Connections] /\ thread \in [Conns -> ServerThreads]
          /\ thread[k] \in ServerThreads /\ ThreadOK(k)
      BY DEF Waiting, IInv, TypeOK
    <2>2. thread[k].pc = "none"
      BY <2>1 DEF ThreadOK
    <2>3. /\ UNCHANGED <<client, last>>
          /\ \A j \in Conns : j # k => conn'[j] = conn[j] /\ thread'[j] = thread[j]
          /\ conn'[k].answers = conn[k].answers /\ conn'[k].sync = conn[k].sync
          /\ conn'[k].at = "accepted" /\ thread'[k].pc = "start"
      BY <1>2, <2>1 DEF Accept, Connections, ServerThreads
    <2>4. client'[c] = client[c] /\ last'[c] = last[c]
      BY <2>3
    <2>5. \A j \in Conns : client[c].sockfd = j =>
              /\ conn'[j].answers = conn[j].answers /\ conn'[j].sync = conn[j].sync
              /\ conn'[j].at = "closed" <=> conn[j].at = "closed"
              /\ (thread'[j].pc = "send" /\ thread'[j].size = "set")
                    <=> (thread[j].pc = "send" /\ thread[j].size = "set")
              /\ thread[j].pc = "send" => thread'[j].pack = thread[j].pack
      BY <2>1, <2>2, <2>3
    <2> QED
      BY <2>4, <2>5, ViewFrame DEF Kept
  <1> QED
    BY <1>1, <1>2 DEF cli_listener, Listen, AcceptPastEnd

(* A step of one client leaves the session of another alone. *)
LEMMA OtherClientKept ==
    ASSUME IInv, NEW c \in Clients, NEW d \in Clients, c # d,
           \/ \E call \in Calls : create_connection(d, call)
           \/ process_request(d) \/ ClientExit(d)
    PROVE  Kept(c)
  <1> DEFINE s == client[d].sockfd
  <1>1. /\ client \in [Clients -> Processes] /\ DOMAIN last = Clients
        /\ conn \in [Conns -> Connections] /\ made \in Int
        /\ \A j \in Conns : j \in Int
    BY TypeFacts DEF IInv, TypeOK
  <1>2. \A j \in Conns : client[c].sockfd = j => j # s /\ j # made + 1
    <2>1. \A j \in Conns : client[c].sockfd = j => j <= made /\ conn[j].client = c
      BY DEF IInv, SocketsOK
    <2>2. \A j \in Conns : s = j => conn[j].client = d
      BY DEF IInv, SocketsOK
    <2> QED
      BY <1>1, <2>1, <2>2
  <1>3. /\ client'[c] = client[c] /\ last'[c] = last[c] /\ thread' = thread
        /\ \A j \in Conns : j # s /\ j # made + 1 => conn'[j] = conn[j]
    <2>1. CASE \E call \in Calls : create_connection(d, call)
      BY <1>1, <2>1 DEF create_connection, CallConnected, CallConnects,
                        CallRefused, StubCalled, server
    <2>2. CASE Send(d)
      <3>1. UNCHANGED <<thread, last>> /\ client'[c] = client[c]
        BY <1>1, <2>2 DEF Send, server
      <3>2. \A j \in Conns : j # s => conn'[j] = conn[j]
        BY <1>1, <2>2 DEF Send
      <3> QED
        BY <3>1, <3>2
    <2>3. CASE SendFails(d) \/ RecvFails(d) \/ RecvEof(d) \/ Recv(d)
      <3>1. \E kind, answer, err : Returns(d, kind, answer, err)
        BY <2>3, Zenon DEF SendFails, RecvFails, RecvEof, Recv
      <3>2. thread' = thread
        BY <2>3 DEF SendFails, RecvFails, RecvEof, Recv, server
      <3>3. \A j \in Conns : j # s => conn'[j] = conn[j]
        BY <1>1, <2>3 DEF SendFails, RecvFails, RecvEof, Recv
      <3> QED
        BY <1>1, <3>1, <3>2, <3>3 DEF Returns
    <2>4. CASE SendKills(d) \/ ClientExit(d)
      <3>1. Ends(d)
        BY <2>4 DEF SendKills, ClientExit
      <3> QED
        BY <1>1, <3>1 DEF Ends, server
    <2> QED
      BY <2>1, <2>2, <2>3, <2>4 DEF process_request
  <1>4. \A j \in Conns : client[c].sockfd = j => conn'[j] = conn[j]
    BY <1>2, <1>3
  <1> QED
    BY <1>3, <1>4, ViewFrame DEF Kept

(* A stub is called. *)
LEMMA CallKept ==
    ASSUME IInv, NEW c \in Clients, NEW call \in Calls, create_connection(c, call)
    PROVE  Kept(c)
  <1>1. client[c].pc = "idle"
    BY DEF create_connection, CallConnected, CallConnects, CallRefused, StubCalled
  <1>2. View(c) = [phase |-> "idle", told |-> Told(last[c])]
    BY <1>1, ViewIs
  <1>3. InStep(c)' => InStep(c)
    <2>1. CASE CallConnected(c, call)
      <3>1. client'[c].sockfd = client[c].sockfd /\ conn' = conn
        BY <2>1, ClientHere DEF CallConnected, StubCalled
      <3> QED
        BY <3>1 DEF InStep
    <2>2. CASE client[c].sockfd = NoSocket
      BY <2>2, TypeFacts DEF InStep
    <2> QED
      BY <2>1, <2>2 DEF create_connection, CallConnects, CallRefused
  <1>4. ASSUME NEW sockfd, StubCalled(c, call, sockfd) PROVE Caller!Serve(c)
    <2>1. client'[c].pc = "send" /\ client'[c].call = call
      BY <1>4, ClientHere DEF StubCalled
    <2>2. View(c)' = [phase |-> IF Connected(c)' THEN "called" ELSE "cut",
                      call |-> call]
      BY <2>1, ViewIsNext
    <2>3. \/ View(c)' = [phase |-> "called", call |-> call]
          \/ View(c)' = [phase |-> "cut", call |-> call]
      BY <2>2
    <2> QED
      BY <1>2, <2>3, ServeIs
  <1>5. ASSUME CallRefused(c, call) PROVE Caller!Serve(c)
    <2> DEFINE L == [NoCall EXCEPT !.kind = "connect", !.err = TRUE]
    <2>1. last' = [last EXCEPT ![c] = L]
      BY <1>5, Zenon DEF CallRefused
    <2>2. L.kind = "connect"
      BY DEF NoCall
    <2>3. L.err = TRUE
      BY Zenon DEF NoCall
    <2> HIDE DEF L
    <2>4. last'[c] = L /\ client'[c].pc = "idle"
      BY <1>1, <1>5, <2>1, LastIs, ClientHere DEF CallRefused, Processes
    <2>5. Told(L) = [kind |-> "failed", err |-> TRUE]
      BY <2>2, <2>3 DEF Told
    <2>6. View(c)' = [phase |-> "idle", told |-> [kind |-> "failed", err |-> TRUE]]
      BY <2>4, <2>5, ViewIsNext
    <2> QED
      BY <1>2, <2>6, ServeIs
  <1>6. Caller!Serve(c)
    BY <1>4, <1>5 DEF create_connection, CallConnected, CallConnects
  <1> QED
    BY <1>3, <1>6 DEF Kept

(* The request is sent: the call has not been executed yet. *)
LEMMA SendKept ==
    ASSUME IInv, NEW c \in Clients, Send(c) PROVE Kept(c)
  <1>0. PICK k : k = client[c].sockfd
    OBVIOUS
  <1>1. /\ client[c].pc = "send" /\ k \in Conns /\ UNCHANGED <<thread, last>>
        /\ client' = [client EXCEPT ![c].pc = "recv"]
    BY <1>0 DEF Send, server
  <1>2. /\ conn \in [Conns -> Connections] /\ conn[k] \in Connections
        /\ client[c] \in Processes /\ client \in [Clients -> Processes]
        /\ conn[k].client = c /\ conn[k].peer = "open" /\ Ordered(k)
    BY <1>0, <1>1, ClientHere
  <1>3. /\ client'[c].pc = "recv" /\ client'[c].sockfd = k
        /\ client'[c].call = client[c].call
    BY <1>0, <1>1, <1>2 DEF Processes
  <1>4. /\ conn'[k].answers = conn[k].answers /\ conn'[k].sync = conn[k].sync
        /\ conn'[k].at = conn[k].at
    <2>1. \/ conn' = conn
          \/ conn' = [conn EXCEPT ![k].requests = Append(@, Request(c))]
      BY <1>0 DEF Send
    <2> QED
      BY <1>1, <1>2, <2>1 DEF Connections
  <1>5. ASSUME InStep(c)' PROVE InStep(c) /\ View(c)' = View(c)
    <2>1. InStep(c) /\ conn[k].sync
      BY <1>0, <1>1, <1>3, <1>4, <1>5 DEF InStep
    <2>2. ~Busy(k) /\ conn[k].answers = <<>>
      BY <1>1, <1>2, <2>1 DEF Ordered
    <2>3. ~InThread(c)' /\ ~InStream(c)'
      BY <1>1, <1>3, <1>4, <2>2 DEF InThread, InStream, Busy
    <2>4. Connected(c)' = Connected(c)
      BY <1>0, <1>3, <1>4 DEF Connected
    <2>5. View(c) = [phase |-> IF Connected(c) THEN "called" ELSE "cut",
                     call |-> client[c].call]
      BY <1>1, ViewIs
    <2>6. View(c)' = [phase |-> IF Connected(c)' THEN "called" ELSE "cut",
                      call |-> client'[c].call]
      BY <1>3, <2>3, ViewIsNext
    <2> QED
      BY <1>3, <2>1, <2>4, <2>5, <2>6
  <1> QED
    BY <1>5 DEF Kept

(* How a call that returns is told. *)
LEMMA ReturnsIs ==
    ASSUME IInv, NEW c \in Clients, NEW kind, NEW answer, NEW err,
           Returns(c, kind, answer, err), UNCHANGED thread,
           \A k \in Conns : client[c].sockfd = k => conn'[k].sync = conn[k].sync
    PROVE  /\ InStep(c)' => InStep(c)
           /\ kind \in {"send", "recv", "garbage"} =>
                 View(c)' = [phase |-> "idle",
                             told |-> [kind |-> "failed", err |-> err]]
           /\ kind = "answer" =>
                 View(c)' = [phase |-> "idle",
                             told |-> [kind |-> "answer", call |-> client[c].call,
                                failed |-> answer.failed, err |-> err]]
  <1> DEFINE s == client[c].sockfd \in Conns => conn[client[c].sockfd].sync
             L == [kind |-> kind, req |-> Request(c), answer |-> answer,
                   err |-> err, sync |-> s]
  <1>1. client'[c].pc = "idle" /\ client'[c].sockfd = client[c].sockfd
    BY ClientHere DEF Returns, Processes
  <1>2. last' = [last EXCEPT ![c] = L]
    BY Zenon DEF Returns
  <1>3. /\ L.kind = kind /\ L.answer = answer /\ L.err = err
        /\ L.req.call = client[c].call
    BY DEF Request
  <1> HIDE DEF L
  <1>4. last'[c] = L
    BY <1>2, LastIs
  <1>5. View(c)' = [phase |-> "idle", told |-> Told(L)]
    BY <1>1, <1>4, ViewIsNext
  <1>6. kind \in {"send", "recv", "garbage"} =>
            Told(L) = [kind |-> "failed", err |-> err]
    BY <1>3 DEF Told
  <1>7. kind = "answer" =>
            Told(L) = [kind |-> "answer", call |-> client[c].call,
                       failed |-> answer.failed, err |-> err]
    BY <1>3 DEF Told
  <1>8. InStep(c)' => InStep(c)
    BY <1>1, Zenon DEF InStep
  <1> QED
    BY <1>5, <1>6, <1>7, <1>8

(* send or recv fails, or recv returns 0: the call had been cut off. *)
LEMMA FailsKept ==
    ASSUME IInv, NEW c \in Clients, SendFails(c) \/ RecvFails(c) \/ RecvEof(c)
    PROVE  Kept(c)
  <1>1. UNCHANGED <<thread, conn>> /\ client[c].pc # "idle"
    BY DEF SendFails, RecvFails, RecvEof, server
  <1>2. PICK kind \in {"send", "recv", "garbage"}, err \in BOOLEAN :
           Returns(c, kind, NoAnswer, err)
    BY Zenon DEF SendFails, RecvFails, RecvEof
  <1>3. ~Connected(c)
    BY DEF SendFails, RecvFails, RecvEof, Connected
  <1>4. client[c].pc # "recv" \/ (~InThread(c) /\ ~InStream(c))
    <2>1. ASSUME client[c].pc = "recv"
          PROVE  ~InThread(c) /\ ~InStream(c)
      <3>1. /\ client[c].sockfd \in Conns /\ ThreadOK(client[c].sockfd)
            /\ conn[client[c].sockfd].at = "closed"
            /\ conn[client[c].sockfd].answers = <<>>
        BY <2>1, ClientHere DEF SendFails, RecvFails, RecvEof
      <3> QED
        BY <3>1 DEF ThreadOK, InThread, InStream
    <2> QED
      BY <2>1
  <1>5. View(c) = [phase |-> "cut", call |-> client[c].call]
    BY <1>1, <1>3, <1>4, ViewIs
  <1>6. /\ InStep(c)' => InStep(c)
        /\ View(c)' = [phase |-> "idle", told |-> [kind |-> "failed", err |-> err]]
    BY <1>1, <1>2, ReturnsIs
  <1>7. Caller!Serve(c)
    BY <1>5, <1>6, ServeIs
  <1> QED
    BY <1>6, <1>7 DEF Kept

(* recv takes the answer, all of it, and the stub returns it. *)
LEMMA RecvKept ==
    ASSUME IInv, NEW c \in Clients, Recv(c) PROVE Kept(c)
  <1>0. PICK k : k = client[c].sockfd
    OBVIOUS
  <1>1. client[c].pc = "recv" /\ conn[k].answers # <<>> /\ UNCHANGED thread
    BY <1>0 DEF Recv, server
  <1>2. /\ k \in Conns /\ conn[k] \in Connections /\ conn[k].client = c
        /\ conn[k].peer = "open" /\ Ordered(k) /\ Request(c) \in Requests
        /\ conn \in [Conns -> Connections]
    BY <1>0, <1>1, ClientHere
  <1>3. conn'[k].sync = conn[k].sync
    BY <1>0, <1>2 DEF Recv, Connections
  <1>4. ASSUME InStep(c)' PROVE InStep(c) /\ Caller!Serve(c)
    <2>0. PICK p : p = Head(conn[k].answers)
      OBVIOUS
    <2>taken. PICK kind, answer, err : Taken(c, p, kind, answer, err)
      <3>1. p = Head(conn[client[c].sockfd].answers)
        BY <1>0, <2>0
      <3> QED
        BY <3>1, RecvTakes
    <2>1. /\ kind \in {"answer", "garbage"}
          /\ Returns(c, kind, answer, err)
          /\ kind = "answer" => /\ answer = p.answer
                                /\ err = StubResult(client[c].call, p.answer)
          /\ kind = "garbage" => ~IsWhole(p)
      BY <2>taken, Zenon DEF Taken
    <2>2. InStep(c) /\ conn[k].sync
      <3>1. InStep(c)
        BY <1>0, <1>1, <1>3, <1>4, <2>1, ReturnsIs
      <3> QED
        BY <1>0, <1>2, <3>1 DEF InStep
    <2>3. PICK a : /\ IsAnswerTo(Request(c), a) /\ a.len <= BufLen
                   /\ conn[k].answers = Pieces(a)
      BY <1>1, <1>2, <2>2 DEF Ordered, OnlyAnswer
    <2>4. a \in Answers /\ Request(c).call = client[c].call
      BY <1>2, <2>3, AnswerFacts DEF Request
    <2>5. Head(conn[k].answers) = [answer |-> a, part |-> 1]
          /\ conn[k].answers[1].answer = a
      BY <2>3, <2>4, PiecesFacts
    <2>6. kind = "answer" /\ answer = a /\ err = StubResult(client[c].call, a)
      BY <2>0, <2>1, <2>3, <2>5 DEF IsWhole
    <2>7. err = (a.failed /\ client[c].call \in Reporting)
      BY <1>2, <2>3, <2>4, <2>6, ResultFacts
    <2>8. InStream(c) /\ Ready(c) = a
      BY <1>0, <1>1, <2>5 DEF InStream, Ready
    <2>9. View(c) = [phase |-> "executed", call |-> client[c].call,
                     failed |-> a.failed]
      BY <1>1, <2>8, ViewIs
    <2>10. View(c)' = [phase |-> "idle",
                       told |-> [kind |-> "answer", call |-> client[c].call,
                          failed |-> a.failed, err |-> err]]
      BY <1>0, <1>1, <1>3, <2>1, <2>6, ReturnsIs
    <2>11. View(c)' = [phase |-> "idle",
                       told |-> [kind |-> "answer", call |-> client[c].call,
                          failed |-> a.failed,
                          err |-> a.failed /\ client[c].call \in Reporting]]
      BY <2>7, <2>10, Zenon
    <2> QED
      BY <2>2, <2>9, <2>11, ServeIs
  <1> QED
    BY <1>4 DEF Kept

(* The process ends, and another starts afresh. *)
LEMMA EndsKept ==
    ASSUME IInv, NEW c \in Clients, Ends(c) PROVE Kept(c)
  <1>1. client'[c].pc = "idle"
    BY ClientHere, TypeFacts DEF Ends
  <1>2. last'[c] = NoCall
    BY LastIs DEF Ends
  <1>3. NoCall.kind = "none"
    BY DEF NoCall
  <1>4. View(c)' = [phase |-> "idle", told |-> [kind |-> "none"]]
    BY <1>1, <1>2, <1>3, ViewIsNext DEF Told
  <1> QED
    BY <1>4, ServeIs DEF Kept

LEMMA StepKept ==
    ASSUME IInv, [Next]_vars, NEW c \in Clients PROVE Kept(c)
  <1>1. ASSUME NEW d \in Clients,
               \/ \E call \in Calls : create_connection(d, call)
               \/ process_request(d) \/ ClientExit(d)
        PROVE  Kept(c)
    <2>1. CASE d = c
      <3>1. CASE \E call \in Calls : create_connection(c, call)
        BY <3>1, CallKept
      <3>2. CASE Ends(c)
        BY <3>2, EndsKept
      <3>3. SendKills(c) \/ ClientExit(c) => Ends(c)
        BY DEF SendKills, ClientExit
      <3> QED
        BY <1>1, <2>1, <3>1, <3>2, <3>3, SendKept, RecvKept, FailsKept
           DEF process_request
    <2>2. CASE d # c
      BY <1>1, <2>2, OtherClientKept
    <2> QED
      BY <2>1, <2>2
  <1>2. CASE UNCHANGED vars
    <2>1. UNCHANGED <<client, conn, thread, last>>
      BY <1>2 DEF vars
    <2>2. client'[c] = client[c] /\ last'[c] = last[c]
      BY <2>1
    <2> QED
      BY <2>1, <2>2, ViewFrame DEF Kept
  <1> QED
    BY <1>1, <1>2, ListenerKept, VfmEndsKept, ThreadKept DEF Next, Stop

(* The view of the sessions is that of a call of the management API: what  *)
(* the stubs, cli_listener and the threads do between create_connection    *)
(* and the return of a stub amounts to one execution of the request or to  *)
(* a failure the end of the VFM explains, for as long as every answer fits *)
(* one recv and no request goes without one.                               *)
THEOREM ApiCallImplemented == Spec => ImplementsApiCall
  <1>1. ASSUME Init PROVE Caller!CallInit
    <2>1. ASSUME NEW c \in Clients
          PROVE  /\ View(c) = [phase |-> "idle", told |-> [kind |-> "none"]]
                 /\ InStep(c) = TRUE
      <3>1. client[c] = NewProcess /\ last[c] = NoCall
        BY <1>1 DEF Init
      <3>2. client[c].pc = "idle" /\ client[c].sockfd \notin Conns
        BY <3>1, TypeFacts
      <3>3. Told(last[c]) = [kind |-> "none"]
        BY <3>1 DEF NoCall, Told
      <3>4. InStep(c) = TRUE
        BY <3>2, Zenon DEF InStep
      <3> QED
        BY <3>2, <3>3, <3>4, ViewIs
    <2>2. [c \in Clients |-> View(c)] =
              [c \in Clients |-> [phase |-> "idle", told |-> [kind |-> "none"]]]
      BY <2>1
    <2>3. [c \in Clients |-> InStep(c)] = [c \in Clients |-> TRUE]
      BY <2>1, Zenon
    <2> QED
      BY <2>2, <2>3, Zenon DEF Caller!CallInit, Caller!Idle, Caller!NoReport
  <1>2. ASSUME IInv, [Next]_vars PROVE Caller!CallNext
    <2> SUFFICES ASSUME NEW c \in Clients, [d \in Clients |-> InStep(d)]'[c]
                 PROVE  \/ /\ [d \in Clients |-> InStep(d)][c]
                           /\ \/ Caller!Serve(c)
                              \/ UNCHANGED [d \in Clients |-> View(d)][c]
                        \/ Caller!Restart(c)
      BY Zenon DEF Caller!CallNext
    <2>1. Kept(c)
      BY <1>2, StepKept
    <2>2. [d \in Clients |-> InStep(d)]'[c] = InStep(c)'
      BY Zenon
    <2>3. [d \in Clients |-> InStep(d)][c] = InStep(c)
      BY Zenon
    <2>4. View(c)' = View(c) => UNCHANGED [d \in Clients |-> View(d)][c]
      OBVIOUS
    <2> QED
      BY <2>1, <2>2, <2>3, <2>4, Zenon DEF Kept
  <1> QED
    BY <1>1, <1>2, Invariance, PTL DEF Spec, ImplementsApiCall, Caller!CallSpec
=============================================================================
