------------------------------ MODULE FcLogin -------------------------------
(***************************************************************************)
(* Logins to the Fibre Channel fabric.  At start-up the VFM logs in for    *)
(* the gateway (main, create_vfm_flogi).  A host's FLOGI is forwarded as   *)
(* an FDISC under an exchange id of the VFM (create_packet_ex); the        *)
(* fabric's answer is returned to the host under the host's own id         *)
(* (process_fc_response, prepare_fdisc_res).  Other FC frames are refused  *)
(* when they are for the gateway (create_reject_els) and passed to a host  *)
(* otherwise (process_fc_els_res).                                         *)
(*                                                                         *)
(* The processors take frames from the task queue, here the sequence       *)
(* pending (TaskQueue implements it).  They share the exchange table of    *)
(* ReqMap, whose mutex covers one table operation and no more: an entry's  *)
(* pointer is used after get_entry_from_map has released it.  Memory that  *)
(* was freed reads as any request.                                         *)
(*                                                                         *)
(* The fabric is external: it answers a login it receives at most once,    *)
(* accepting it with an FC id for the port that logged in, rejecting it,   *)
(* or with another LS code.  A login has no FC id yet, so its S_ID is 0    *)
(* (prepare_fc_hdr), and that is the D_ID of a reject.  A request or its   *)
(* answer can be lost, and an answer can arrive twice.  Two things are     *)
(* assumed of an answer: it is long enough for its FC header, for          *)
(* process_fc_response ignores what read_fc_hdr returns, and it has the    *)
(* OX_ID of the login, which is a slot, for get_entry_from_map and         *)
(* remove_entry_from_map do not check that theirs is in the table.         *)
(***************************************************************************)
EXTENDS ReqMap, Sequences

CONSTANTS Processors,   \* the threads that run start_processor
          Hosts,        \* hosts, and the FC ids the fabric gives them
          FpHosts,      \* the hosts whose FLOGI sets FP; the others set SP
          VFM,          \* the VFM itself, and the FC id the fabric gives it
          NoId,         \* FC id 0
          OtherCodes,   \* LS codes of answers, other than accept and reject
          MaxLogins,    \* logins of each host
          MaxDup, MaxLost, MaxEls

ASSUME IdAssumption == /\ VFM \notin Hosts
                       /\ NoId \notin Hosts \cup {VFM}
                       /\ FpHosts \subseteq Hosts
ASSUME CodeAssumption == OtherCodes \cap {"ACC", "RJT"} = {}
ASSUME BoundAssumption == {MaxLogins, MaxDup, MaxLost, MaxEls} \subseteq Nat

Ports == Hosts \cup {VFM}

(* Flags of the FIP control header. *)
SET_FP == 32768
SET_SP == 16384
SET_F  == 1

(* What a req_entry_map holds: the requester's MAC, its own OX_ID, the     *)
(* control flags of its FLOGI, and the flag that marks the VFM's own.      *)
HostRequest(h, n) ==
    [mac |-> h, oxid |-> n, flag |-> 0,
     ctrl_flags |-> IF h \in FpHosts THEN SET_FP ELSE SET_SP]
VfmRequest == [mac |-> VFM, oxid |-> 1, flag |-> 1, ctrl_flags |-> 0]
Logins == {HostRequest(h, n) : h \in Hosts, n \in 1..MaxLogins}

ASSUME LoginAssumption == Logins \cup {VfmRequest} = Requests

(* Frames.  A response has the F_Port as S_ID; req is the login it         *)
(* answers.  An ELS frame has another S_ID.                                *)
Verdicts == {"ACC", "RJT"}
LsCodes == Verdicts \cup OtherCodes
OxIds == Slots \ {0}
Responses == [kind : {"response"}, did : Ports \cup {NoId},
              oxid : OxIds, ls : LsCodes, req : Requests]
Flogi(r)  == [kind |-> "flogi", req |-> r]
Els(id)   == [kind |-> "els", did |-> id]
Flogis == [kind : {"flogi"}, req : Logins]
ElsFrames == [kind : {"els"}, did : Ports]
Frames == Responses \cup Flogis \cup ElsFrames
NoTask == [kind |-> "none"]

(* A processor: where it is, its frame, vfm_gen_oxid of create_packet_ex,  *)
(* the pointer process_fc_response got from the table, and what            *)
(* prepare_fdisc_res has copied from it.                                   *)
NoHeader == [oxid |-> 0, flags |-> 0]
Idle == [pc |-> "get", task |-> NoTask, gen_oxid |-> 0, entry |-> NULL,
         header |-> NoHeader]

VARIABLES
    g_gw_src_id,    \* the gateway's FC id, NoId until it has logged in
    main,           \* where the main thread is
    main_oxid,      \* the main thread's fc_header.ox_id
    pending,        \* the task queue
    thread,         \* the processors
    status,         \* "up", "exited" (exit(1)) or "crashed" (null pointer)
    fabric,         \* logins the fabric has received and not answered
    answered,       \* history: the fabric's answers
    replies,        \* history: FLOGI responses sent to hosts
    logins,         \* FLOGIs sent by each host
    dups, lost, els,\* frames duplicated, lost, and ELS frames sent
    swallowed,      \* history: logins whose response was taken for an ELS
    overflowed      \* history: some login found the exchange table full

mainvars == <<main, main_oxid>>
network == <<fabric, answered, logins, dups, lost, els>>
history == <<swallowed, overflowed>>
vars == <<mapvars, g_gw_src_id, mainvars, pending, thread, status, replies,
          network, history>>

Init ==
    /\ MapInit
    /\ g_gw_src_id = NoId
    /\ main = "flogi" /\ main_oxid = 0
    /\ pending = <<>>
    /\ thread = [p \in Processors |-> Idle]
    /\ status = "up"
    /\ fabric = {} /\ answered = {}
    /\ replies = {}
    /\ logins = [h \in Hosts |-> 0]
    /\ dups = 0 /\ lost = 0 /\ els = 0
    /\ swallowed = {} /\ overflowed = FALSE

-----------------------------------------------------------------------------
(* The main thread: create_vfm_flogi enters the login in the table, sends  *)
(* it and sleeps; send_gw_ad follows whatever the fabric has answered.     *)

EnterLogin(r, oxid) ==
    /\ \E a \in Addrs : add_entry_to_map(r, oxid, a)
    /\ overflowed' = (overflowed \/ Full)
    /\ UNCHANGED swallowed

SendLogin(oxid, r) == fabric' = fabric \cup {[oxid |-> oxid, req |-> r]}

VfmFlogiAdd ==
    /\ status = "up" /\ main = "flogi"
    /\ main' = "flogi_send"
    /\ \E oxid \in Slots : /\ EnterLogin(VfmRequest, oxid)
                           /\ main_oxid' = oxid
    /\ UNCHANGED <<g_gw_src_id, pending, thread, status, replies, network>>

VfmFlogiSend ==
    /\ status = "up" /\ main = "flogi_send"
    /\ main' = "advertise"
    /\ SendLogin(main_oxid, VfmRequest)
    /\ UNCHANGED <<mapvars, g_gw_src_id, main_oxid, pending, thread, status,
                   replies, answered, logins, dups, lost, els, history>>

SendGwAd ==
    /\ status = "up" /\ main = "advertise"
    /\ main' = "sleep"
    /\ UNCHANGED <<mapvars, g_gw_src_id, main_oxid, pending, thread, status,
                   replies, network, history>>

-----------------------------------------------------------------------------
(* Processors: get_task_from_queue, then the handler of the frame. *)

At(p, where) == status = "up" /\ thread[p].pc = where

Becomes(p, t) == thread' = [thread EXCEPT ![p] = t]
Goto(p, where) == thread' = [thread EXCEPT ![p].pc = where]

GetTask(p) ==
    /\ At(p, "get")
    /\ pending # <<>>
    /\ Becomes(p, [Idle EXCEPT !.pc = Head(pending).kind,
                               !.task = Head(pending)])
    /\ pending' = Tail(pending)
    /\ UNCHANGED <<mapvars, g_gw_src_id, mainvars, status, replies, network,
                   history>>

(* create_packet_ex: the host's login is entered in the table under an id  *)
(* of the VFM, and sent on as an FDISC with that id.                       *)
FlogiAdd(p) ==
    /\ At(p, "flogi")
    /\ \E oxid \in Slots :
          /\ EnterLogin(thread[p].task.req, oxid)
          /\ Becomes(p, [thread[p] EXCEPT !.pc = "fdisc", !.gen_oxid = oxid])
    /\ UNCHANGED <<g_gw_src_id, mainvars, pending, status, replies, network>>

(* Seeded fault: the host's own OX_ID goes to the fabric. *)
FdiscSend_HostOxid(p) ==
    /\ At(p, "fdisc")
    /\ SendLogin(thread[p].task.req.oxid, thread[p].task.req)
    /\ Becomes(p, Idle)
    /\ UNCHANGED <<mapvars, g_gw_src_id, mainvars, pending, status, replies,
                   answered, logins, dups, lost, els, history>>

FdiscSend(p) ==
    /\ At(p, "fdisc")
    /\ SendLogin(thread[p].gen_oxid, thread[p].task.req)
    /\ Becomes(p, Idle)
    /\ UNCHANGED <<mapvars, g_gw_src_id, mainvars, pending, status, replies,
                   answered, logins, dups, lost, els, history>>

(* process_fc_response.  A frame for the gateway's FC id is taken for a    *)
(* request and rejected, whatever it is; before the gateway has logged in  *)
(* that id is 0.                                                           *)
IsForGateway(p) == thread[p].task.did = g_gw_src_id

RejectEls(p) ==
    /\ At(p, "els")
    /\ IsForGateway(p)
    /\ Becomes(p, Idle)
    /\ UNCHANGED <<mapvars, g_gw_src_id, mainvars, pending, status, replies,
                   network, history>>

RejectResponse(p) ==
    /\ At(p, "response")
    /\ IsForGateway(p)
    /\ swallowed' = swallowed \cup {thread[p].task.req}
    /\ Becomes(p, Idle)
    /\ UNCHANGED <<mapvars, g_gw_src_id, mainvars, pending, status, replies,
                   network, overflowed>>

(* process_fc_els_res: any other frame that is not from the F_Port goes to *)
(* the host side.                                                          *)
PassEls(p) ==
    /\ At(p, "els")
    /\ ~IsForGateway(p)
    /\ Becomes(p, Idle)
    /\ UNCHANGED <<mapvars, g_gw_src_id, mainvars, pending, status, replies,
                   network, history>>

AcceptResponse(p) ==
    /\ At(p, "response")
    /\ ~IsForGateway(p)
    /\ Goto(p, "lookup")
    /\ UNCHANGED <<mapvars, g_gw_src_id, mainvars, pending, status, replies,
                   network, history>>

Lookup(p) ==
    /\ At(p, "lookup")
    /\ Becomes(p, [thread[p] EXCEPT
                      !.pc = "entry",
                      !.entry = get_entry_from_map(thread[p].task.oxid)])
    /\ UNCHANGED <<mapvars, g_gw_src_id, mainvars, pending, status, replies,
                   network, history>>

(* What reading *entry can yield: the entry, or anything once it is freed. *)
Reads(a) == IF entries[a] = NoRequest THEN Requests ELSE {entries[a]}

(* entry->flag is read through a null pointer. *)
NullEntry(p) ==
    /\ At(p, "entry")
    /\ thread[p].entry = NULL
    /\ status' = "crashed"
    /\ UNCHANGED <<mapvars, g_gw_src_id, mainvars, pending, thread, replies,
                   network, history>>

(* The answer to the VFM's own FLOGI: exit on a reject; anything else is   *)
(* taken for an accept, and the gateway's FC id is known from now on.      *)
VfmRjt(p) ==
    /\ At(p, "entry") /\ thread[p].entry # NULL
    /\ \E e \in Reads(thread[p].entry) : e.flag = 1
    /\ thread[p].task.ls = "RJT"
    /\ status' = "exited"
    /\ UNCHANGED <<mapvars, g_gw_src_id, mainvars, pending, thread, replies,
                   network, history>>

(* Seeded faults: entry->flag is not tested; the entry is not removed.     *)
VfmAcc_AnyLogin(p) ==
    /\ At(p, "entry") /\ thread[p].entry # NULL
    /\ thread[p].task.ls # "RJT"
    /\ g_gw_src_id' = thread[p].task.did
    /\ Goto(p, "remove")
    /\ UNCHANGED <<mapvars, mainvars, pending, status, replies, network,
                   history>>
VfmAcc_KeepsEntry(p) ==
    /\ At(p, "entry") /\ thread[p].entry # NULL
    /\ \E e \in Reads(thread[p].entry) : e.flag = 1
    /\ thread[p].task.ls # "RJT"
    /\ g_gw_src_id' = thread[p].task.did
    /\ Becomes(p, Idle)
    /\ UNCHANGED <<mapvars, mainvars, pending, status, replies, network,
                   history>>

VfmAcc(p) ==
    /\ At(p, "entry") /\ thread[p].entry # NULL
    /\ \E e \in Reads(thread[p].entry) : e.flag = 1
    /\ thread[p].task.ls # "RJT"
    /\ g_gw_src_id' = thread[p].task.did
    /\ Goto(p, "remove")
    /\ UNCHANGED <<mapvars, mainvars, pending, status, replies, network,
                   history>>

(* The OX_ID and the control flags of a response; SET_F is or-ed in. *)
ResHeader(e) ==
    [oxid |-> e.oxid,
     flags |-> e.ctrl_flags + (IF e.ctrl_flags % 2 = 1 THEN 0 ELSE SET_F)]

(* Seeded faults: rejects are not among the cases of the switch; the entry *)
(* is removed before its last use.                                         *)
FillResponse_NoRjt(p) ==
    /\ At(p, "entry") /\ thread[p].entry # NULL
    /\ thread[p].task.ls \in Verdicts
    /\ \E e \in Reads(thread[p].entry) :
          /\ e.flag # 1
          /\ Becomes(p, [thread[p] EXCEPT
                !.pc = IF thread[p].task.ls = "RJT" THEN "remove" ELSE "reply",
                !.header = ResHeader(e)])
    /\ UNCHANGED <<mapvars, g_gw_src_id, mainvars, pending, status, replies,
                   network, history>>
FillResponse_FreesEntry(p) ==
    /\ At(p, "entry") /\ thread[p].entry # NULL
    /\ thread[p].task.ls \in Verdicts
    /\ \E e \in Reads(thread[p].entry) :
          /\ e.flag # 1
          /\ Becomes(p, [thread[p] EXCEPT !.pc = "reply",
                                          !.header = ResHeader(e)])
    /\ remove_entry_from_map(thread[p].task.oxid)
    /\ UNCHANGED <<g_gw_src_id, mainvars, pending, status, replies, network,
                   history>>

(* The answer to a host's login.  The switch has no default: a code that   *)
(* is neither of the two is not passed on, but the entry is removed.       *)
NoVerdict(p) ==
    /\ At(p, "entry") /\ thread[p].entry # NULL
    /\ \E e \in Reads(thread[p].entry) : e.flag # 1
    /\ thread[p].task.ls \notin Verdicts
    /\ Goto(p, "remove")
    /\ UNCHANGED <<mapvars, g_gw_src_id, mainvars, pending, status, replies,
                   network, history>>

(* prepare_fdisc_res copies the host's OX_ID and flags from the entry ...  *)
FillResponse(p) ==
    /\ At(p, "entry") /\ thread[p].entry # NULL
    /\ thread[p].task.ls \in Verdicts
    /\ \E e \in Reads(thread[p].entry) :
          /\ e.flag # 1
          /\ Becomes(p, [thread[p] EXCEPT !.pc = "reply",
                                          !.header = ResHeader(e)])
    /\ UNCHANGED <<mapvars, g_gw_src_id, mainvars, pending, status, replies,
                   network, history>>

(* control_hdr.flags && SET_FP, a logical and: the MAC granted is made     *)
(* from the FC id when any flag is set, else it is the host's vhba_mac.    *)
GrantedMac(flags, did, mac) ==
    IF flags # 0 /\ SET_FP # 0 THEN <<"fpma", did>> ELSE <<"vhba_mac", mac>>

(* Seeded fault: the host is told that its login was accepted, always. *)
SendResponse_AlwaysAcc(p) ==
    /\ At(p, "reply")
    /\ \E e \in Reads(thread[p].entry) :
          replies' = replies \cup
              {[to |-> e.mac, oxid |-> thread[p].header.oxid,
                ls |-> "ACC", req |-> thread[p].task.req,
                granted |-> GrantedMac(thread[p].header.flags,
                                      thread[p].task.did, e.mac)]}
    /\ Goto(p, "remove")
    /\ UNCHANGED <<mapvars, g_gw_src_id, mainvars, pending, status, network,
                   history>>

(* ... builds the response and sends it to the MAC in the entry. *)
SendResponse(p) ==
    /\ At(p, "reply")
    /\ \E e \in Reads(thread[p].entry) :
          replies' = replies \cup
              {[to |-> e.mac, oxid |-> thread[p].header.oxid,
                ls |-> thread[p].task.ls, req |-> thread[p].task.req,
                granted |-> GrantedMac(thread[p].header.flags,
                                      thread[p].task.did, e.mac)]}
    /\ Goto(p, "remove")
    /\ UNCHANGED <<mapvars, g_gw_src_id, mainvars, pending, status, network,
                   history>>

RemoveEntry(p) ==
    /\ At(p, "remove")
    /\ remove_entry_from_map(thread[p].task.oxid)
    /\ Becomes(p, Idle)
    /\ UNCHANGED <<g_gw_src_id, mainvars, pending, status, replies, network,
                   history>>

process_fc_response(p) ==
    \/ RejectEls(p) \/ RejectResponse(p)
    \/ PassEls(p)
    \/ AcceptResponse(p) \/ Lookup(p) \/ NullEntry(p)
    \/ VfmRjt(p) \/ VfmAcc(p)
    \/ NoVerdict(p) \/ FillResponse(p) \/ SendResponse(p)
    \/ RemoveEntry(p)

-----------------------------------------------------------------------------
(* Hosts and fabric.  What they send goes through the sniffer into the     *)
(* task queue.                                                             *)

HostFlogi(h) ==
    /\ status = "up"
    /\ logins[h] < MaxLogins
    /\ logins' = [logins EXCEPT ![h] = @ + 1]
    /\ pending' = Append(pending, Flogi(HostRequest(h, logins[h] + 1)))
    /\ UNCHANGED <<mapvars, g_gw_src_id, mainvars, thread, status, replies,
                   fabric, answered, dups, lost, els, history>>

Response(x, ls) ==
    [kind |-> "response", oxid |-> x.oxid, ls |-> ls, req |-> x.req,
     did |-> IF ls = "RJT" THEN NoId ELSE x.req.mac]

FabricAnswers(x, ls) ==
    /\ status = "up"
    /\ fabric' = fabric \ {x}
    /\ answered' = answered \cup {Response(x, ls)}
    /\ pending' = Append(pending, Response(x, ls))
    /\ UNCHANGED <<mapvars, g_gw_src_id, mainvars, thread, status, replies,
                   logins, dups, lost, els, history>>

AnswerAgain(f) ==
    /\ status = "up"
    /\ dups < MaxDup
    /\ dups' = dups + 1
    /\ pending' = Append(pending, f)
    /\ UNCHANGED <<mapvars, g_gw_src_id, mainvars, thread, status, replies,
                   fabric, answered, logins, lost, els, history>>

LoginLost(x) ==
    /\ status = "up"
    /\ lost < MaxLost
    /\ lost' = lost + 1
    /\ fabric' = fabric \ {x}
    /\ UNCHANGED <<mapvars, g_gw_src_id, mainvars, pending, thread, status,
                   replies, answered, logins, dups, els, history>>

(* Another port sends an ELS frame to a port that has logged in. *)
FabricEls(id) ==
    /\ status = "up"
    /\ els < MaxEls
    /\ \E f \in answered : f.did = id
    /\ els' = els + 1
    /\ pending' = Append(pending, Els(id))
    /\ UNCHANGED <<mapvars, g_gw_src_id, mainvars, thread, status, replies,
                   fabric, answered, logins, dups, lost, history>>

-----------------------------------------------------------------------------
Main == VfmFlogiAdd \/ VfmFlogiSend \/ SendGwAd

Processor(p) ==
    \/ GetTask(p)
    \/ FlogiAdd(p)
    \/ FdiscSend(p)
    \/ process_fc_response(p)

Environment ==
    \/ \E h \in Hosts : HostFlogi(h)
    \/ \E x \in fabric, ls \in LsCodes : FabricAnswers(x, ls)
    \/ \E f \in answered : AnswerAgain(f)
    \/ \E x \in fabric : LoginLost(x)
    \/ \E id \in Ports : FabricEls(id)

Next ==
    \/ Main
    \/ \E p \in Processors : Processor(p)
    \/ Environment

Spec == Init /\ [][Next]_vars

(* The scheduler runs every thread: a step it can take, it takes. *)
Fairness ==
    /\ WF_vars(Main)
    /\ \A p \in Processors : WF_vars(Processor(p))

FairSpec == Spec /\ Fairness

-----------------------------------------------------------------------------
(* Where a processor that has taken a response can be. *)
Answering == {"response", "lookup", "entry", "reply", "remove"}

(* A processor's frame is of the kind its handler is for. *)
Threads ==
    {t \in [pc : {"get", "flogi", "fdisc", "els"} \cup Answering,
            task : Frames \cup {NoTask}, gen_oxid : Slots,
            entry : Addrs \cup {NULL}, header : [oxid : Nat, flags : Nat]] :
        /\ t.pc \in {"flogi", "fdisc"} => t.task \in Flogis
        /\ t.pc = "fdisc" => t.gen_oxid \in OxIds
        /\ t.pc = "els" => t.task \in ElsFrames
        /\ t.pc \in Answering => t.task \in Responses}

(* Types of the table, the threads and the frames: every exchange id in    *)
(* use is a slot of the table other than 0.                                *)
TypeOK ==
    /\ g_req_map \in [Slots -> Addrs \cup {NULL}]
    /\ entries \in [Addrs -> Requests \cup {NoRequest}]
    /\ vfm_oxid_index \in 1..MapLen
    /\ g_gw_src_id \in Ports \cup {NoId}
    /\ main \in {"flogi", "flogi_send", "advertise", "sleep"}
    /\ main_oxid \in Slots
    /\ main = "flogi_send" => main_oxid \in OxIds
    /\ pending \in Seq(Frames)
    /\ thread \in [Processors -> Threads]
    /\ logins \in [Hosts -> 0..MaxLogins]
    /\ dups \in Nat /\ lost \in Nat
    /\ status \in {"up", "exited", "crashed"}
    /\ fabric \subseteq [oxid : OxIds, req : Requests]
    /\ answered \subseteq Responses
    /\ swallowed \subseteq Requests
    /\ overflowed \in BOOLEAN

(* What the code relies on: no answer arrives twice and no login finds the *)
(* exchange table full.                                                    *)
Clean == dups = 0 /\ ~overflowed

Exchange(oxid, r) == [oxid |-> oxid, req |-> r]

(* The exchanges that have an id and are not over: about to be sent, at    *)
(* the fabric, answered and in the queue, or in a processor's hands.       *)
AboutToSend ==
    {Exchange(main_oxid, VfmRequest) : m \in {main} \cap {"flogi_send"}}
    \cup {Exchange(thread[p].gen_oxid, thread[p].task.req) :
              p \in {q \in Processors : thread[q].pc = "fdisc"}}
InQueue == {Exchange(pending[i].oxid, pending[i].req) :
                i \in {j \in DOMAIN pending : pending[j].kind = "response"}}
InHands == {Exchange(thread[p].task.oxid, thread[p].task.req) :
                p \in {q \in Processors : thread[q].pc \in Answering}}
InFlight == AboutToSend \cup fabric \cup InQueue \cup InHands

(* From add_entry_to_map to remove_entry_from_map the id of an exchange    *)
(* leads to its own login, whatever the other processor does meanwhile.    *)
ExchangeTracked ==
    Clean => \A x \in InFlight :
                 /\ g_req_map[x.oxid] # NULL
                 /\ entries[g_req_map[x.oxid]] = x.req

(* The pointer that process_fc_response uses after map_mutex is released   *)
(* is not null and not freed, and is the entry of the login being          *)
(* answered.                                                               *)
EntryIsOurs ==
    Clean => /\ status # "crashed"
             /\ \A p \in Processors : thread[p].pc \in {"entry", "reply"} =>
                    /\ thread[p].entry # NULL
                    /\ entries[thread[p].entry] = thread[p].task.req

(* A host gets answers to its own logins only, under its own OX_ID, and    *)
(* one answer to each; no two hosts are granted the same MAC.              *)
RepliesMatch ==
    Clean => /\ \A m \in replies : /\ m.req \in Logins
                                   /\ m.to = m.req.mac
                                   /\ m.oxid = m.req.oxid
             /\ \A m, n \in replies :
                    /\ m.req = n.req => m = n
                    /\ m.ls = "ACC" /\ m.granted = n.granted => m.to = n.to

(* Whatever the hosts' logins do to the table and however the processors   *)
(* interleave, the answer that sets the gateway's id or ends the VFM is    *)
(* the answer to the VFM's own login: the id is the one the fabric gave    *)
(* the VFM with an answer other than a reject, and the VFM has exited only *)
(* if its own login was rejected, never because of a host's.               *)
OwnAnswer(ls) == \E f \in answered : f.req = VfmRequest /\ f.ls \in ls
GatewayIdIsOurs ==
    Clean => /\ g_gw_src_id # NoId =>
                    g_gw_src_id = VFM /\ OwnAnswer(LsCodes \ {"RJT"})
             /\ status = "exited" => OwnAnswer({"RJT"})

(* An entry stays allocated without an exchange only when its login was    *)
(* lost, or rejected before the gateway had its FC id.                     *)
NoLeak ==
    Clean /\ lost = 0 =>
        \A a \in Addrs : entries[a] # NoRequest =>
            \/ \E x \in InFlight : g_req_map[x.oxid] = a
            \/ entries[a] \in swallowed

(* Every accept or reject of the fabric reaches the host that asked.  A    *)
(* reject that arrives before the gateway has its FC id is an exception:   *)
(* it is taken for a request to the gateway.                               *)
AnswerDelivered ==
    \A r \in Logins, ls \in Verdicts :
        (\E f \in answered : f.req = r /\ f.ls = ls)
            ~> \/ \E m \in replies : m.req = r /\ m.ls = ls
               \/ ls = "RJT" /\ r \in swallowed
               \/ ~Clean

(* Whatever arrives twice and however full the table is, its slots are     *)
(* live allocations and no two of them share one: an entry is freed once.  *)
TableIntact ==
    \A i \in Slots : g_req_map[i] # NULL =>
        /\ entries[g_req_map[i]] # NoRequest
        /\ \A j \in Slots : g_req_map[j] = g_req_map[i] => j = i

-----------------------------------------------------------------------------
(* The inductive invariant.  What the code relies on is that a login is in *)
(* one place at a time, for then no two exchanges in flight have the same  *)
(* id, and none is removed from the table but by the processor that        *)
(* answers it.                                                             *)

IsLogin(i) == pending[i].kind # "els"
Holds(p) == thread[p].pc \notin {"get", "els"}

OnePlace ==
    /\ \A i, j \in DOMAIN pending :
          IsLogin(i) /\ IsLogin(j) /\ pending[i].req = pending[j].req => i = j
    /\ \A p, q \in Processors :
          Holds(p) /\ Holds(q) /\ thread[p].task.req = thread[q].task.req => p = q
    /\ \A x, y \in fabric : x.req = y.req => x = y
    /\ \A i \in DOMAIN pending, p \in Processors :
          IsLogin(i) /\ Holds(p) => pending[i].req # thread[p].task.req
    /\ \A i \in DOMAIN pending, x \in fabric : IsLogin(i) => pending[i].req # x.req
    /\ \A p \in Processors, x \in fabric : Holds(p) => thread[p].task.req # x.req

(* Logins not sent yet are nowhere; those that were answered are with the  *)
(* processor that removes their entry, if anywhere.                        *)
Unsent == {r \in Requests :
              \/ r = VfmRequest /\ main \in {"flogi", "flogi_send"}
              \/ r # VfmRequest /\ r.oxid > logins[r.mac]}
Finished == {r \in Requests :
                \/ r = VfmRequest /\ g_gw_src_id # NoId
                \/ \E m \in replies : m.req = r}

UnsentNowhere ==
    \A r \in Unsent :
        /\ r \notin Finished
        /\ \A i \in DOMAIN pending : IsLogin(i) => pending[i].req # r
        /\ \A p \in Processors : Holds(p) => thread[p].task.req # r
        /\ \A x \in fabric : x.req # r

FinishedGone ==
    \A r \in Finished :
        /\ \A i \in DOMAIN pending : IsLogin(i) => pending[i].req # r
        /\ \A p \in Processors :
              Holds(p) /\ thread[p].task.req = r => thread[p].pc = "remove"
        /\ \A x \in fabric : x.req # r

(* A rejected login has no FC id, any other answer has the requester's.    *)
WellAddressed(f) == f.did = IF f.ls = "RJT" THEN NoId ELSE f.req.mac

ResponsesOK ==
    /\ \A i \in DOMAIN pending :
          pending[i].kind = "response" => WellAddressed(pending[i])
    /\ \A p \in Processors :
          /\ thread[p].pc \in Answering => WellAddressed(thread[p].task)
          /\ thread[p].pc \in Answering \ {"response"} /\ thread[p].task.ls = "RJT"
                => g_gw_src_id # NoId
          /\ thread[p].pc \in {"entry", "reply"} =>
                thread[p].entry = g_req_map[thread[p].task.oxid]
          /\ thread[p].pc = "reply" =>
                /\ thread[p].task.req # VfmRequest
                /\ thread[p].task.ls \in Verdicts
                /\ thread[p].header = ResHeader(thread[p].task.req)

RepliesOK ==
    \A m \in replies :
        /\ m.req \in Logins /\ m.to = m.req.mac /\ m.oxid = m.req.oxid
        /\ m.granted = <<"fpma", IF m.ls = "ACC" THEN m.req.mac ELSE NoId>>
        /\ \A n \in replies : m.req = n.req => m = n

CleanInv ==
    /\ OnePlace /\ UnsentNowhere /\ FinishedGone
    /\ ResponsesOK /\ RepliesOK
    /\ status = "up" /\ g_gw_src_id \in {NoId, VFM}

IInv == /\ TypeOK
        /\ TableIntact
        /\ Clean => CleanInv
        /\ ExchangeTracked
        /\ NoLeak

-----------------------------------------------------------------------------
(* The VFM implements the abstract login service. *)

(* What the implementation also needs: the answers about are the fabric's, *)
(* and a login that was answered is not asked about again.                 *)
AnsweredOnce ==
    /\ \A i \in DOMAIN pending :
          pending[i].kind = "response" => pending[i] \in answered
    /\ \A p \in Processors :
          thread[p].pc \in Answering => thread[p].task \in answered
    /\ \A f \in answered :
          /\ f.req \notin Unsent
          /\ \A i \in DOMAIN pending :
                pending[i].kind = "flogi" => pending[i].req # f.req
          /\ \A p \in Processors :
                thread[p].pc \in {"flogi", "fdisc"} => thread[p].task.req # f.req
          /\ \A x \in fabric : x.req # f.req
          /\ \A g \in answered : f.req = g.req => f = g

Asked == {r \in Logins : r.oxid <= logins[r.mac]}
Decided == {[req |-> f.req, ls |-> f.ls] : f \in {g \in answered : g.req \in Logins}}

Service == INSTANCE LoginService WITH asked <- Asked, decided <- Decided,
                                      sound <- Clean

(* As long as no answer comes twice and no login finds the table full, a   *)
(* host sees the queue, the processors and the exchange table as a service *)
(* that tells it, once and under its own OX_ID, what the fabric decided on *)
(* a login it sent: never another verdict, nor one before the fabric's.    *)
ImplementsLoginService == Service!ServiceSpec

(* sniffer.c on a reject of the VFM's own login: "VFM FLOGI(RJT)..         *)
(* Aborting!!".                                                            *)
VfmRejectAborts ==
    (\E f \in answered : f.req = VfmRequest /\ f.ls = "RJT")
        ~> status = "exited"
=============================================================================
