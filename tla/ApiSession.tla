----------------------------- MODULE ApiSession -----------------------------
(***************************************************************************)
(* The management API.  A client process (the command line interface, or   *)
(* any program that links vfmapi) calls a stub; the stub connects once     *)
(* (create_connection), sends its request and takes one recv for the       *)
(* answer (process_request, unmarshall_response).  In the VFM cli_listener *)
(* accepts connections and starts a thread for each, which receives,       *)
(* handles and answers one request after the other                         *)
(* (process_client_request, unmarshall_request, vfm_marshall_response).    *)
(*                                                                         *)
(* A connection is a stream in each direction.  The unit of the answers'   *)
(* stream is the piece [n, part]; one recv takes at most BufLen of them    *)
(* (BUFFER_SIZE), and only an inventory can be longer.  Requests are small *)
(* and one recv of the server takes all that have arrived.  What the       *)
(* handlers do to the database is in ResourceDb; here a handler fails or   *)
(* succeeds.                                                               *)
(*                                                                         *)
(* Bytes that are not a header read as any header, and memory past the end *)
(* of a buffer as anything: the stub then returns anything or crashes.     *)
(***************************************************************************)
EXTENDS Integers, Sequences

CONSTANTS Clients,      \* client programs
          Calls,        \* the stubs they call, a subset of Stubs
          MAX_CLIENT,   \* length of c_sockfd and req_tid
          BufLen,       \* pieces of an answer one recv takes (BUFFER_SIZE)
          MaxLen,       \* pieces of the longest inventory
          MaxConns,     \* connections made
          MaxCalls,     \* calls of the stubs
          MaxExits,     \* client processes that end
          MaxStops      \* stops of the VFM

(* The stubs: the module and the operation in the control header, and      *)
(* whether the stub returns the value in the answer or only the error of   *)
(* unmarshall_response.                                                    *)
Stub(mod, opcode, returns) ==
    [mod |-> mod, opcode |-> opcode, returns |-> returns]

vfm_vadapter_create             == Stub("VADAPTER", "CREATE", "err")
vfm_vadapter_edit_general_attr  == Stub("VADAPTER", "EDIT", "value")
vfm_vadapter_edit_protocol_attr == Stub("VADAPTER", "EDIT_PROTOCOL_ATTR", "err")
vfm_vadapter_online             == Stub("VADAPTER", "ONLINE", "err")
vfm_vadapter_select_inventory   == Stub("VADAPTER", "QUERY_INVENTORY", "err")
vfm_vadapter_destroy            == Stub("VADAPTER", "DESTROY", "err")
vfm_vfabric_create              == Stub("VFABRIC", "CREATE", "err")
vfm_vfabric_edit_general_attr   == Stub("VFABRIC", "EDIT", "value")
vfm_vfabric_online              == Stub("VFABRIC", "ONLINE", "err")
vfm_vfabric_select_inventory    == Stub("VFABRIC", "QUERY_INVENTORY", "err")
vfm_bd_select_inventory         == Stub("BRIDGE_DEVICE", "QUERY_INVENTORY", "err")

Stubs == {vfm_vadapter_create, vfm_vadapter_edit_general_attr,
          vfm_vadapter_edit_protocol_attr, vfm_vadapter_online,
          vfm_vadapter_select_inventory, vfm_vadapter_destroy,
          vfm_vfabric_create, vfm_vfabric_edit_general_attr,
          vfm_vfabric_online, vfm_vfabric_select_inventory,
          vfm_bd_select_inventory}

ASSUME CallsAssumption == Calls \subseteq Stubs
ASSUME LengthAssumption == BufLen \in Nat \ {0} /\ MaxLen \in Nat \ {0}
ASSUME ClientAssumption == MAX_CLIENT \in Nat \ {0}
ASSUME BoundAssumption  == {MaxConns, MaxCalls, MaxExits, MaxStops} \subseteq Nat

(* Values of sockfd: not created, created and not connected, or the number *)
(* of a connection.                                                        *)
NoSocket == -1
Unconnected == 0
Conns == 1..MaxConns

(* A request is known by its client and the number of the call.            *)
Requests == [client : Clients, n : 1..MaxCalls, call : Calls]
NoRequest == [n |-> 0]

(* An answer: the request it is for, its opcode, the error or success its  *)
(* value stands for, and its length.                                       *)
Answer(req, opcode, failed, len) ==
    [req |-> req, opcode |-> opcode, failed |-> failed, len |-> len]
NoAnswer == [len |-> 0]
Pieces(a) == [i \in 1..a.len |-> [answer |-> a, part |-> i]]

(* The bytes of an uninitialised pack, if the address in it can be read.   *)
Garbage == [answer |-> NoAnswer, part |-> 0]

VARIABLES
    client,     \* the client processes
    made,       \* connections made so far
    conn,       \* the connections
    listener,   \* "down", "listen", or "overrun": a slot past the arrays
    client_no,  \* of cli_listener
    c_sockfd,   \* of cli_listener
    thread,     \* the thread of each connection
    last,       \* history: how each client's last call ended
    calls,      \* calls so far, which number the requests
    exits, stops

vars == <<client, made, conn, listener, client_no, c_sockfd, thread, last,
          calls, exits, stops>>
server == <<listener, client_no, c_sockfd, thread>>

NewProcess == [pc |-> "idle", sockfd |-> NoSocket, n |-> 0, call |-> NoRequest]

(* sync: every answer so far fitted one recv and no request was left       *)
(* without an answer.  peer is the client's end as the VFM meets it: open, *)
(* or closed ("fin": a send still succeeds, and is answered by a reset;    *)
(* "rst": reset, a send fails; "pipe": reset after the close, a send       *)
(* raises SIGPIPE).                                                        *)
NoConn == [client |-> NoSocket, peer |-> "none", at |-> "closed",
           requests |-> <<>>, answers |-> <<>>, sync |-> TRUE]

(* arg is the slot of c_sockfd the thread is given, sock_fd what it read   *)
(* from it.  pack.size starts as garbage.                                  *)
NoThread == [pc |-> "none", arg |-> 0, sock_fd |-> 0, req |-> NoRequest,
             size |-> "garbage", pack |-> NoAnswer]

NoCall == [kind |-> "none", req |-> NoRequest, answer |-> NoAnswer, err |-> FALSE,
           sync |-> TRUE]

Init ==
    /\ client = [c \in Clients |-> NewProcess]
    /\ made = 0
    /\ conn = [k \in Conns |-> NoConn]
    /\ listener = "down" /\ client_no = 0
    /\ c_sockfd = [i \in 0..(MAX_CLIENT - 1) |-> 0]
    /\ thread = [k \in Conns |-> NoThread]
    /\ last = [c \in Clients |-> NoCall]
    /\ calls = 0 /\ exits = 0 /\ stops = 0

-----------------------------------------------------------------------------
(* Clients. *)

Request(c) == [client |-> c, n |-> client[c].n, call |-> client[c].call]

(* The call ends: kind says how, err is what the stub returns.             *)
Returns(c, kind, answer, err) ==
    LET k == client[c].sockfd
    IN /\ client' = [client EXCEPT ![c].pc = "idle", ![c].n = 0,
                                   ![c].call = NoRequest]
       /\ last' = [last EXCEPT ![c] =
                    [kind |-> kind, req |-> Request(c), answer |-> answer,
                     err |-> err, sync |-> k \in Conns => conn[k].sync]]

StubCalled(c, call, sockfd) ==
    /\ client[c].pc = "idle" /\ calls < MaxCalls
    /\ client' = [client EXCEPT ![c] = [pc |-> "send", sockfd |-> sockfd,
                                        n |-> calls + 1, call |-> call]]
    /\ calls' = calls + 1
    /\ last' = [last EXCEPT ![c] = NoCall]
    /\ UNCHANGED <<server, exits, stops>>

(* A stub is called.  create_connection returns the socket it has made     *)
(* before, or connects (the kernel completes the connection before the     *)
(* listener accepts it), or keeps a socket that connect refused.           *)
CallConnected(c, call) ==
    /\ client[c].sockfd # NoSocket
    /\ StubCalled(c, call, client[c].sockfd)
    /\ UNCHANGED <<made, conn>>

CallConnects(c, call) ==
    /\ client[c].sockfd = NoSocket /\ listener = "listen" /\ made < MaxConns
    /\ StubCalled(c, call, made + 1)
    /\ made' = made + 1
    /\ conn' = [conn EXCEPT ![made + 1] =
                  [NoConn EXCEPT !.client = c, !.peer = "open", !.at = "backlog"]]

CallRefused(c, call) ==
    /\ client[c].pc = "idle" /\ calls < MaxCalls
    /\ client[c].sockfd = NoSocket /\ listener = "down"
    /\ client' = [client EXCEPT ![c].sockfd = Unconnected]
    /\ calls' = calls + 1
    /\ last' = [last EXCEPT ![c] = [NoCall EXCEPT !.kind = "connect", !.err = TRUE]]
    /\ UNCHANGED <<made, conn, server, exits, stops>>

(* process_request: send.  To a peer that has closed it succeeds until the *)
(* reset has come back.                                                    *)
Send(c) ==
    LET k == client[c].sockfd
    IN /\ client[c].pc = "send" /\ k \in Conns
       /\ client' = [client EXCEPT ![c].pc = "recv"]
       /\ conn' = IF conn[k].at = "closed" THEN conn
                  ELSE [conn EXCEPT ![k].requests = Append(@, Request(c))]
       /\ UNCHANGED <<made, server, last, calls, exits, stops>>

SendFails(c) ==
    LET k == client[c].sockfd
    IN /\ client[c].pc = "send"
       /\ k \in Conns => conn[k].at = "closed"
       /\ Returns(c, "send", NoAnswer, TRUE)
       /\ UNCHANGED <<made, conn, server, calls, exits, stops>>

(* unmarshall_response: the error of the call, as far as it is known here. *)
unmarshall_response(a) == a.opcode = "ERROR" /\ a.failed

StubResult(call, a) ==
    IF call.returns = "value" THEN a.failed ELSE unmarshall_response(a)

Take(k) == IF Len(conn[k].answers) < BufLen THEN Len(conn[k].answers) ELSE BufLen

IsWhole(p) == p.part = 1 /\ p.answer.len <= BufLen

(* Seeded fault: the answer is looked at and left in the stream.           *)
Recv_Peek(c) ==
    LET k == client[c].sockfd
        p == Head(conn[k].answers)
    IN /\ client[c].pc = "recv" /\ conn[k].answers # <<>>
       /\ Returns(c, "answer", p.answer, p.answer # NoAnswer /\ p.answer.failed)
       /\ UNCHANGED <<made, conn, server, calls, exits, stops>>

(* ... and recv.  The answer is what is first in the stream.               *)
Recv(c) ==
    LET k == client[c].sockfd
        p == Head(conn[k].answers)
    IN /\ client[c].pc = "recv" /\ conn[k].answers # <<>>
       /\ conn' = [conn EXCEPT ![k].answers = SubSeq(@, Take(k) + 1, Len(@))]
       /\ \/ /\ IsWhole(p)
             /\ Returns(c, "answer", p.answer, StubResult(client[c].call, p.answer))
          \/ /\ ~IsWhole(p)
             /\ \E err \in BOOLEAN : Returns(c, "garbage", NoAnswer, err)
       /\ UNCHANGED <<made, server, calls, exits, stops>>

(* The server has closed and what it had sent is read: recv fails, or      *)
(* returns 0 and the stub reads an empty buffer.                           *)
RecvFails(c) ==
    LET k == client[c].sockfd
    IN /\ client[c].pc = "recv" /\ conn[k].at = "closed" /\ conn[k].answers = <<>>
       /\ Returns(c, "recv", NoAnswer, TRUE)
       /\ UNCHANGED <<made, conn, server, calls, exits, stops>>

RecvEof(c) ==
    LET k == client[c].sockfd
    IN /\ client[c].pc = "recv" /\ conn[k].at = "closed" /\ conn[k].answers = <<>>
       /\ \E err \in BOOLEAN : Returns(c, "garbage", NoAnswer, err)
       /\ UNCHANGED <<made, conn, server, calls, exits, stops>>

(* The process ends and another one is started in its place.  The kernel   *)
(* closes its socket; what it has not read makes that a reset, which comes *)
(* after the close if the bytes were still under way.                      *)
Ends(c) ==
    LET k == client[c].sockfd
    IN /\ client' = [client EXCEPT ![c] = NewProcess]
       /\ \/ k \notin Conns /\ conn' = conn
          \/ /\ k \in Conns
             /\ \E peer \in IF conn[k].answers = <<>> THEN {"fin"}
                            ELSE {"rst", "pipe"} :
                   conn' = [conn EXCEPT ![k].peer = peer, ![k].answers = <<>>]
       /\ last' = [last EXCEPT ![c] = NoCall]
       /\ UNCHANGED <<made, server, calls, stops>>

(* In or out of a call: it is stopped, or it crashed on garbage.           *)
ClientExit(c) ==
    /\ exits < MaxExits
    /\ exits' = exits + 1
    /\ Ends(c)

(* The send of SendFails raises SIGPIPE, which ends a process that does    *)
(* not ignore it.                                                          *)
SendKills(c) ==
    LET k == client[c].sockfd
    IN /\ client[c].pc = "send"
       /\ k \in Conns => conn[k].at = "closed"
       /\ Ends(c)
       /\ UNCHANGED exits

-----------------------------------------------------------------------------
(* The listener. *)

Listen ==
    /\ listener = "down"
    /\ listener' = "listen"
    /\ client_no' = 0
    /\ c_sockfd' = [i \in 0..(MAX_CLIENT - 1) |-> 0]
    /\ UNCHANGED <<client, made, conn, thread, last, calls, exits, stops>>

Waiting == {k \in Conns : conn[k].at = "backlog"}

(* Seeded fault: the slot of the last connection is used again.            *)
Accept_SameSlot(k) ==
    /\ listener = "listen" /\ client_no < MAX_CLIENT
    /\ conn' = [conn EXCEPT ![k].at = "accepted"]
    /\ c_sockfd' = [c_sockfd EXCEPT ![client_no] = k]
    /\ thread' = [thread EXCEPT ![k].pc = "start", ![k].arg = client_no]
    /\ UNCHANGED <<client, made, listener, client_no, last, calls, exits, stops>>

(* The socket goes to the next slot and the thread gets the slot's         *)
(* address.  Slots are not used again.                                     *)
Accept(k) ==
    /\ listener = "listen" /\ client_no < MAX_CLIENT
    /\ conn' = [conn EXCEPT ![k].at = "accepted"]
    /\ c_sockfd' = [c_sockfd EXCEPT ![client_no] = k]
    /\ thread' = [thread EXCEPT ![k].pc = "start", ![k].arg = client_no]
    /\ client_no' = client_no + 1
    /\ UNCHANGED <<client, made, listener, last, calls, exits, stops>>

(* accept returns into c_sockfd[MAX_CLIENT].                               *)
AcceptPastEnd(k) ==
    /\ listener = "listen" /\ client_no >= MAX_CLIENT
    /\ listener' = "overrun"
    /\ UNCHANGED <<client, made, conn, client_no, c_sockfd, thread, last, calls, exits,
                   stops>>

(* The VFM ends and the kernel closes its sockets.                         *)
VfmEnds ==
    /\ listener' = "down"
    /\ conn' = [k \in Conns |-> [conn[k] EXCEPT !.at = "closed", !.requests = <<>>]]
    /\ thread' = [k \in Conns |-> NoThread]
    /\ UNCHANGED <<client, made, client_no, c_sockfd, last, calls, exits>>

(* Ctrl-c.                                                                 *)
Stop ==
    /\ listener = "listen" /\ stops < MaxStops
    /\ stops' = stops + 1
    /\ VfmEnds

-----------------------------------------------------------------------------
(* The threads of process_client_request. *)

Running(k, pc) == listener # "overrun" /\ thread[k].pc = pc

ThreadStart(k) ==
    /\ Running(k, "start")
    /\ thread' = [thread EXCEPT ![k].pc = "recv",
                                ![k].sock_fd = c_sockfd[thread[k].arg]]
    /\ UNCHANGED <<client, made, conn, listener, client_no, c_sockfd, last,
                   calls, exits, stops>>

(* One recv takes every request that has arrived; the first is handled.    *)
ThreadRecv(k) ==
    LET s == thread[k].sock_fd
    IN /\ Running(k, "recv") /\ conn[s].requests # <<>>
       /\ thread' = [thread EXCEPT ![k].pc = "handle",
                                   ![k].req = Head(conn[s].requests)]
       /\ conn' = [conn EXCEPT ![s].requests = <<>>]
       /\ UNCHANGED <<client, made, listener, client_no, c_sockfd, last, calls, exits,
                      stops>>

(* Seeded fault: a recv of 0 is tried again.                               *)
ThreadEof_Retry(k) ==
    LET s == thread[k].sock_fd
    IN /\ Running(k, "recv") /\ conn[s].requests = <<>> /\ conn[s].peer # "open"
       /\ UNCHANGED vars

ThreadEof(k) ==
    LET s == thread[k].sock_fd
    IN /\ Running(k, "recv") /\ conn[s].requests = <<>> /\ conn[s].peer # "open"
       /\ thread' = [thread EXCEPT ![k].pc = "ended"]
       /\ UNCHANGED <<client, made, conn, listener, client_no, c_sockfd, last,
                      calls, exits, stops>>

(* Which requests unmarshall_request has a case for, which of them can     *)
(* fail, and how long their answers can be.                                *)
Handled(call) == call.opcode # "DESTROY"
CanFail(call) == call.opcode # "QUERY_INVENTORY" /\ call # vfm_vfabric_create
Lengths(call) == IF call.opcode = "QUERY_INVENTORY" THEN 1..MaxLen ELSE {1}

(* Seeded fault: the error of a vfabric's online is dropped as well.       *)
AnswerOpcode_Dropped(call, failed) == call.opcode

(* The handler's error becomes the opcode of the answer for one call only; *)
(* in the others it is the value, if it is there at all.                   *)
AnswerOpcode(call, failed) ==
    IF call = vfm_vfabric_online /\ failed THEN "ERROR" ELSE call.opcode

(* The handler runs and vfm_marshall_response fills pack; without a        *)
(* handler pack stays as it is.                                            *)
unmarshall_request(k) ==
    LET r == thread[k].req
    IN /\ Running(k, "handle")
       /\ \/ /\ Handled(r.call)
             /\ \E failed \in BOOLEAN, len \in Lengths(r.call) :
                   /\ failed => CanFail(r.call)
                   /\ thread' = [thread EXCEPT ![k].pc = "send", ![k].size = "set",
                          ![k].pack = Answer(r, AnswerOpcode(r.call, failed),
                                             failed, len)]
          \/ /\ ~Handled(r.call)
             /\ thread' = [thread EXCEPT ![k].pc = "send"]
       /\ UNCHANGED <<client, made, conn, listener, client_no, c_sockfd, last,
                      calls, exits, stops>>

Loops(k) == thread' = [thread EXCEPT ![k].pc = "recv", ![k].size = "zero",
                                     ![k].req = NoRequest, ![k].pack = NoAnswer]

(* What is sent reaches the client, or its kernel, which answers with a    *)
(* reset.                                                                  *)
Sent(k, pieces) ==
    LET s == thread[k].sock_fd
    IN \/ conn[s].peer = "open" /\ conn' = [conn EXCEPT ![s].answers = @ \o pieces,
                                            ![s].sync = @ /\ Len(pieces) <= BufLen]
       \/ conn[s].peer \in {"fin", "pipe"} /\ conn' = [conn EXCEPT ![s].peer = "pipe"]

(* Seeded fault: the control header and the data are sent one by one.      *)
SendAnswer_InTwo(k) ==
    LET a == thread[k].pack
    IN /\ Running(k, "send") /\ thread[k].size = "set"
       /\ \/ /\ a.opcode # "DATA"
             /\ Sent(k, <<>>)
             /\ thread' = [thread EXCEPT ![k].pack.opcode = "DATA"]
          \/ /\ a.opcode = "DATA"
             /\ Sent(k, Pieces(a))
             /\ Loops(k)
       /\ UNCHANGED <<client, made, listener, client_no, c_sockfd, last, calls, exits,
                      stops>>

SendAnswer(k) ==
    /\ Running(k, "send") /\ thread[k].size = "set"
    /\ Sent(k, Pieces(thread[k].pack))
    /\ Loops(k)
    /\ UNCHANGED <<client, made, listener, client_no, c_sockfd, last, calls, exits,
                   stops>>

SendAnswerFails(k) ==
    LET s == thread[k].sock_fd
    IN /\ Running(k, "send") /\ thread[k].size = "set" /\ conn[s].peer = "rst"
       /\ thread' = [thread EXCEPT ![k].pc = "ended"]
       /\ UNCHANGED <<client, made, conn, listener, client_no, c_sockfd, last,
                      calls, exits, stops>>

(* send raises SIGPIPE, which nothing ignores: the VFM ends.               *)
SendKillsVfm(k) ==
    LET s == thread[k].sock_fd
    IN /\ Running(k, "send") /\ thread[k].size \in {"set", "garbage"}
       /\ conn[s].peer = "pipe"
       /\ VfmEnds
       /\ UNCHANGED stops

(* pack.size is 0, or garbage that is not positive: nothing is sent.       *)
SendNothing(k) ==
    LET s == thread[k].sock_fd
    IN /\ Running(k, "send") /\ thread[k].size \in {"zero", "garbage"}
       /\ conn' = [conn EXCEPT ![s].sync = FALSE]
       /\ Loops(k)
       /\ UNCHANGED <<client, made, listener, client_no, c_sockfd, last, calls, exits,
                      stops>>

(* pack is garbage and its size positive: bytes of the process are sent,   *)
(* or its address cannot be read and the thread ends without closing the   *)
(* socket.                                                                 *)
SendGarbage(k) ==
    LET s == thread[k].sock_fd
    IN /\ Running(k, "send") /\ thread[k].size = "garbage"
       /\ \/ /\ conn[s].peer = "open"
             /\ conn' = [conn EXCEPT ![s].sync = FALSE,
                                     ![s].answers = Append(@, Garbage)]
             /\ Loops(k)
          \/ /\ conn[s].peer \in {"fin", "pipe"}
             /\ conn' = [conn EXCEPT ![s].sync = FALSE, ![s].peer = "pipe"]
             /\ Loops(k)
          \/ /\ conn' = [conn EXCEPT ![s].sync = FALSE]
             /\ thread' = [thread EXCEPT ![k].pc = "ended"]
       /\ UNCHANGED <<client, made, listener, client_no, c_sockfd, last, calls, exits,
                      stops>>

-----------------------------------------------------------------------------
(* Seeded fault: a recv that fails is tried again.                         *)
process_request_Retry(c) == Send(c) \/ SendFails(c) \/ Recv(c)

process_request(c) ==
    Send(c) \/ SendFails(c) \/ Recv(c) \/ RecvFails(c) \/ RecvEof(c)
    \/ SendKills(c)
create_connection(c, call) ==
    CallConnected(c, call) \/ CallConnects(c, call) \/ CallRefused(c, call)

process_client_request(k) ==
    \/ ThreadStart(k) \/ ThreadRecv(k) \/ ThreadEof(k)
    \/ unmarshall_request(k)
    \/ SendAnswer(k) \/ SendAnswerFails(k) \/ SendNothing(k) \/ SendGarbage(k)
    \/ SendKillsVfm(k)

cli_listener == Listen \/ \E k \in Waiting : Accept(k) \/ AcceptPastEnd(k)

Next ==
    \/ \E c \in Clients : \/ \E call \in Calls : create_connection(c, call)
                          \/ process_request(c)
                          \/ ClientExit(c)
    \/ cli_listener
    \/ Stop
    \/ \E k \in Conns : process_client_request(k)

Spec == Init /\ [][Next]_vars

(* Threads and processes run, and a VFM that stopped is started again.     *)
(* Nobody need call, exit or stop.                                         *)
FairSpec ==
    /\ Spec
    /\ WF_vars(cli_listener)
    /\ \A k \in Conns : WF_vars(process_client_request(k))
    /\ \A c \in Clients : WF_vars(process_request(c))

-----------------------------------------------------------------------------
(* What the handler of a request can answer. *)
IsAnswerTo(r, a) ==
    \E failed \in BOOLEAN, len \in Lengths(r.call) :
        a = Answer(r, AnswerOpcode(r.call, failed), failed, len)

Opcodes == {"ERROR"} \cup {stub.opcode : stub \in Stubs}
Answers == [req : Requests, opcode : Opcodes, failed : BOOLEAN, len : 1..MaxLen]
AllPieces == [answer : Answers \cup {NoAnswer}, part : 0..MaxLen]

Processes ==
    [pc : {"idle", "send", "recv"}, sockfd : {NoSocket, Unconnected} \cup Conns,
     n : 0..MaxCalls, call : Calls \cup {NoRequest}]
Connections ==
    [client : Clients \cup {NoSocket}, peer : {"none", "open", "fin", "rst", "pipe"},
     at : {"backlog", "accepted", "closed"}, requests : Seq(Requests),
     answers : Seq(AllPieces), sync : BOOLEAN]
ServerThreads ==
    [pc : {"none", "start", "recv", "handle", "send", "ended"},
     arg : 0..(MAX_CLIENT - 1), sock_fd : {0} \cup Conns,
     req : Requests \cup {NoRequest}, size : {"garbage", "set", "zero"},
     pack : Answers \cup {NoAnswer}]

(* Types: in particular client_no stays within c_sockfd and req_tid while  *)
(* the listener is counted as running.                                     *)
TypeOK ==
    /\ client \in [Clients -> Processes]
    /\ \A c \in Clients : client[c].pc # "idle" => Request(c) \in Requests
    /\ made \in 0..MaxConns
    /\ conn \in [Conns -> Connections]
    /\ listener \in {"down", "listen", "overrun"}
    /\ client_no \in 0..MAX_CLIENT
    /\ c_sockfd \in [0..(MAX_CLIENT - 1) -> {0} \cup Conns]
    /\ thread \in [Conns -> ServerThreads]
    /\ \A k \in Conns : thread[k].pc \in {"handle", "send"} =>
                            thread[k].req \in Requests
    /\ DOMAIN last = Clients
    /\ calls \in 0..MaxCalls

(* A thread reads its socket from the listener's array after the listener  *)
(* has moved on, and still serves the connection it was made for.          *)
OwnSocket ==
    \A k \in Conns : thread[k].pc \in {"recv", "handle", "send"} =>
                         /\ thread[k].sock_fd = k
                         /\ conn[k].at = "accepted"

(* As long as every answer fits one recv and no request goes without, a    *)
(* stub returns the answer to its own request, or fails; it returns        *)
(* garbage only when the VFM at the other end has ended.                   *)
AnswerIsOurs ==
    \A c \in Clients :
        last[c].sync =>
            /\ last[c].kind = "answer" => last[c].answer.req = last[c].req
            /\ last[c].kind = "garbage" => conn[client[c].sockfd].at = "closed"

(* A client that ends in the middle of a call cannot take the VFM with it: *)
(* a thread has an answer to send on a connection on which send raises     *)
(* SIGPIPE only if the connection was out of step before.                  *)
NoSigpipe ==
    \A k \in Conns :
        thread[k].pc \in {"handle", "send"} /\ conn[k].peer = "pipe" => ~conn[k].sync

(* The error of a handler reaches the caller of the two edit calls and of  *)
(* vfm_vfabric_online.                                                     *)
Reporting == {vfm_vadapter_edit_general_attr, vfm_vfabric_edit_general_attr,
              vfm_vfabric_online}
OutcomeReported ==
    \A c \in Clients :
        last[c].kind = "answer" /\ last[c].sync /\ last[c].req.call \in Reporting =>
            last[c].err = last[c].answer.failed

(* A call returns, unless the request got no answer or an earlier one did  *)
(* not fit, or the listener has run past its arrays.                       *)
InStep(c) == client[c].sockfd \in Conns => conn[client[c].sockfd].sync
CallReturns ==
    \A c \in Clients :
        client[c].pc = "recv" ~> \/ client[c].pc # "recv"
                                 \/ ~InStep(c)
                                 \/ listener = "overrun"

(* The thread of a client that is gone ends.                               *)
ThreadsEnd ==
    \A k \in Conns :
        thread[k].pc # "none" /\ conn[k].peer # "open"
            ~> thread[k].pc \in {"none", "ended"} \/ listener = "overrun"

-----------------------------------------------------------------------------
(* The inductive invariant. *)

(* A process and its connection belong to each other. *)
SocketsOK ==
    /\ \A c \in Clients :
          /\ client[c].sockfd \in Conns =>
                /\ client[c].sockfd <= made
                /\ conn[client[c].sockfd].client = c
                /\ conn[client[c].sockfd].peer = "open"
          /\ client[c].pc = "recv" \/ last[c].kind = "garbage" =>
                client[c].sockfd \in Conns
    /\ \A k \in Conns :
          /\ conn[k].peer = "open" => /\ conn[k].client \in Clients
                                      /\ client[conn[k].client].sockfd = k
          /\ k > made => conn[k] = NoConn

(* A thread is that of an accepted connection; until it has read its slot  *)
(* of c_sockfd nobody writes there.                                        *)
ThreadOK(k) ==
    /\ thread[k].pc # "none" => conn[k].at = "accepted" /\ listener # "down"
    /\ thread[k].pc = "start" => /\ thread[k].arg < client_no
                                 /\ c_sockfd[thread[k].arg] = k
    /\ thread[k].pc \in {"recv", "handle", "send"} => thread[k].sock_fd = k
    /\ thread[k].pc \in {"none", "start", "recv", "handle"} => thread[k].size # "set"
    /\ thread[k].pc = "send" /\ thread[k].size = "set" =>
          IsAnswerTo(thread[k].req, thread[k].pack)
    /\ conn[k].at = "closed" => conn[k].requests = <<>>

(* On a connection in step there is one request or answer under way, that  *)
(* of the call its client is in; what is left of it once the client has    *)
(* gone is answered at most once.                                          *)
Busy(k) == thread[k].pc \in {"handle", "send"}

OnlyAnswer(k, r) ==
    conn[k].answers # <<>> =>
        LET a == conn[k].answers[1].answer
        IN  IsAnswerTo(r, a) /\ a.len <= BufLen /\ conn[k].answers = Pieces(a)

Ordered(k) ==
    conn[k].sync =>
        /\ Busy(k) => conn[k].requests = <<>> /\ conn[k].answers = <<>>
        /\ conn[k].answers # <<>> => conn[k].requests = <<>>
        /\ conn[k].peer = "pipe" => ~Busy(k) /\ conn[k].requests = <<>>
        /\ conn[k].peer = "open" =>
              LET r == Request(conn[k].client)
              IN  /\ \/ client[conn[k].client].pc = "recv"
                     \/ ~Busy(k) /\ conn[k].requests = <<>> /\ conn[k].answers = <<>>
                  /\ Busy(k) => thread[k].req = r
                  /\ conn[k].requests # <<>> => conn[k].requests = <<r>>
                  /\ OnlyAnswer(k, r)

IInv == /\ TypeOK
        /\ SocketsOK
        /\ \A k \in Conns : ThreadOK(k) /\ Ordered(k)
        /\ AnswerIsOurs /\ OutcomeReported

-----------------------------------------------------------------------------
(* The VFM and the stubs implement the abstract call.  Its request has     *)
(* been executed when the answer is in the thread's hands or the stream.   *)
InThread(c) == LET t == thread[client[c].sockfd] IN t.pc = "send" /\ t.size = "set"
InStream(c) == conn[client[c].sockfd].answers # <<>>
Ready(c) == IF InStream(c) THEN conn[client[c].sockfd].answers[1].answer
                           ELSE thread[client[c].sockfd].pack
Connected(c) == /\ client[c].sockfd \in Conns
                /\ conn[client[c].sockfd].at # "closed"

Told(l) ==
    CASE l.kind = "none"   -> [kind |-> "none"]
      [] l.kind = "answer" -> [kind |-> "answer", call |-> l.req.call,
                               failed |-> l.answer.failed, err |-> l.err]
      [] OTHER             -> [kind |-> "failed", err |-> l.err]

View(c) ==
    CASE client[c].pc = "idle" -> [phase |-> "idle", told |-> Told(last[c])]
      [] client[c].pc = "recv" /\ (InThread(c) \/ InStream(c)) ->
            [phase |-> "executed", call |-> client[c].call, failed |-> Ready(c).failed]
      [] OTHER -> [phase |-> IF Connected(c) THEN "called" ELSE "cut",
                   call |-> client[c].call]

Fallible == {call \in Calls : CanFail(call)}

Caller == INSTANCE ApiCall WITH session <- [c \in Clients |-> View(c)],
                                inStep  <- [c \in Clients |-> InStep(c)]

(* As long as every answer fits one recv and no request goes without one,  *)
(* a request that is answered was executed once, after the call and before *)
(* the stub returned, and the stub returns what came of it; a stub fails   *)
(* only when the VFM has ended or was not there.                           *)
ImplementsApiCall == Caller!CallSpec
=============================================================================
