----------------------------- MODULE Lifecycle ------------------------------
(***************************************************************************)
(* The life of the VFM process: main reads vfm.config, opens the database  *)
(* and the log, starts the threads and logs in; the threads trace and      *)
(* query; SIGINT runs termination_handler on any one of them, which closes *)
(* the log and the database while the others run on (server.c, common.c).  *)
(*                                                                         *)
(* A thread has two contexts: its body, and the handler of SIGINT, during  *)
(* which the body stands still and a further SIGINT is blocked.            *)
(* vps_trace is four steps: g_logfile is read, localtime takes the lock of *)
(* the C library, which is not recursive, and leaves it, and the line is   *)
(* written.  Nor is the lock of the heap, which malloc and free take       *)
(* anywhere in a body, and fclose and sqlite3_close in the handler.  A     *)
(* query is the time between preparing and finalizing its statement;       *)
(* sqlite3_close refuses to close while there is one.                      *)
(***************************************************************************)
EXTENDS Config, FiniteSets

CONSTANTS Files,        \* the contents of vfm.config, << >> if there is none
          Interfaces,   \* the network interfaces the host has
          MaxSignals,   \* SIGINTs sent
          MaxUses       \* traces and queries of the threads main starts,
                        \* and allocations of any thread

ASSUME FilesAssumption == \A f \in Files : f \in Seq(Pieces)
ASSUME MaxSignalsAssumption == MaxSignals \in Nat /\ MaxUses \in Nat

Main       == "main"
Processors == {"process_packet_tid1", "process_packet_tid2"}
Listener   == "cli_listener_tid"
Sniffer    == "sniffer_tid"
Threads    == {Main, Listener, Sniffer} \cup Processors
Contexts   == Threads \X {"body", "handler"}
Nobody     == "nobody"

VPS_NO_LOGS == 0
VPS_ERROR   == 1
VPS_INFO    == 3

VARIABLES file,     \* vfm.config; << >> once main has gone past it
          read,     \* pieces of it that were read
          cfg,      \* the globals it fills
          pc,       \* where main is
          running,  \* the threads started
          handler,  \* where the handler of each thread is
          action,   \* what SIGINT does
          log,      \* g_logfile: null, open or closed
          db,       \* g_db: null, open, failed or closed
          closedBy, \* who closed the log and the database
          trace,    \* where each context is in vps_trace
          fp,       \* the stream each context is about to write to
          lock,     \* the contexts inside localtime, at most one
    heap,     \* the bodies inside malloc or free, at most one
          queries,  \* the threads with an unfinished statement
          sent,     \* the frames main has sent
          signals, uses,
          misused,  \* [user, closer]: a handle was used after it was closed
          over      \* how the process ended

vars == <<file, read, cfg, pc, running, handler, action, log, db, closedBy,
          trace, fp, lock, heap, queries, sent, signals, uses, misused, over>>

configVars == <<file, read, cfg>>
mainVars   == <<configVars, pc, running, sent>>
handleVars == <<log, db, closedBy, misused>>
traceVars  == <<trace, fp, lock, heap>>
signalVars == <<handler, action, signals>>

Init ==
    /\ file \in Files
    /\ read = 0
    /\ cfg = Defaults
    /\ pc = "start"
    /\ running = {Main}
    /\ handler = [t \in Threads |-> "no"]
    /\ action = "default"
    /\ log = "null"
    /\ db = "null"
    /\ closedBy = [h \in {"log", "db"} |-> Nobody]
    /\ trace = [c \in Contexts |-> "no"]
    /\ fp = [c \in Contexts |-> "stderr"]
    /\ lock = {}
    /\ heap = {}
    /\ queries = {}
    /\ sent = {}
    /\ signals = 0
    /\ uses = 0
    /\ misused = {}
    /\ over = "no"

-----------------------------------------------------------------------------
(* vps_trace *)

CanStep(c) ==
    /\ over = "no"
    /\ c[1] \in running
    /\ c[2] = "body" => handler[c[1]] = "no"

(* The context is in no call of vps_trace, malloc or free. *)
Free(c) == CanStep(c) /\ trace[c] = "no" /\ c \notin heap

Enabled(level) == cfg.loglevel # VPS_NO_LOGS /\ level <= cfg.loglevel

TraceBegin(c, level) ==
    IF Enabled(level)
      THEN /\ trace' = [trace EXCEPT ![c] = "begun"]
           /\ fp' = [fp EXCEPT ![c] = IF log = "null" THEN "stderr" ELSE "log"]
           /\ UNCHANGED <<lock, heap>>
      ELSE UNCHANGED traceVars

(* localtime *)
Localtime(c) ==
    /\ CanStep(c)
    /\ trace[c] = "begun"
    /\ lock = {}
    /\ lock' = {c}
    /\ trace' = [trace EXCEPT ![c] = "localtime"]
    /\ UNCHANGED <<mainVars, signalVars, handleVars, fp, heap, queries, uses,
                   over>>

LocaltimeReturns(c) ==
    /\ CanStep(c)
    /\ trace[c] = "localtime"
    /\ lock' = {}
    /\ trace' = [trace EXCEPT ![c] = "stamped"]
    /\ UNCHANGED <<mainVars, signalVars, handleVars, fp, heap, queries, uses,
                   over>>

(* What is closed is used: the process may die of it or go on. *)
Use(t, handle) ==
    IF closedBy[handle] # Nobody
      THEN /\ misused' = misused \cup {[user |-> t, closer |-> closedBy[handle]]}
           /\ over' \in {"no", "crashed"}
      ELSE UNCHANGED <<misused, over>>

WriteLine(c) ==
    /\ CanStep(c)
    /\ trace[c] = "stamped"
    /\ trace' = [trace EXCEPT ![c] = "no"]
    /\ fp' = [fp EXCEPT ![c] = "stderr"]
    /\ IF fp[c] = "log" THEN Use(c[1], "log") ELSE UNCHANGED <<misused, over>>
    /\ UNCHANGED <<mainVars, signalVars, log, db, closedBy, lock, heap,
                   queries, uses>>

-----------------------------------------------------------------------------
(* main *)

MainBody == <<Main, "body">>

MainAt(from, to) ==
    /\ pc = from
    /\ Free(MainBody)
    /\ pc' = to

(* signal(SIGINT, termination_handler), parse_options *)
InstallHandler ==
    /\ MainAt("start", "read_config")
    /\ action' = "handler"
    /\ UNCHANGED <<configVars, running, sent, handler, signals, handleVars,
                   traceVars, queries, uses, over>>

(* fgets returns the next piece. *)
MoreToRead == pc = "read_config" /\ read < Len(file)
piece == file[read + 1]

ReadPiece(c) ==
    /\ MainAt("read_config", "read_config")
    /\ read' = read + 1
    /\ cfg' = c
    /\ over' = IF IsOption(piece) /\ parse_address_aborts(piece) THEN "abort" ELSE "no"
    /\ UNCHANGED <<file, running, sent, signalVars, handleVars, traceVars,
                   queries, uses>>

ReadOption ==
    /\ MoreToRead
    /\ IsOption(piece) /\ ~piece.long
    /\ ReadPiece(process_config_line(cfg, piece))

SkipPiece == MoreToRead /\ ~IsOption(piece) /\ ReadPiece(cfg)

(* A name or a value too long for its buffer: the stack behind the buffer  *)
(* is overwritten.  The process dies, or the option is taken, or not.      *)
ReadTooLong ==
    /\ MoreToRead
    /\ IsOption(piece) /\ piece.long
    /\ ReadPiece(process_config_line(cfg, piece)) \/ ReadPiece(cfg)

DieTooLong ==
    /\ MoreToRead
    /\ IsOption(piece) /\ piece.long
    /\ MainAt("read_config", "read_config")
    /\ over' = "crashed"
    /\ UNCHANGED <<configVars, running, sent, signalVars, handleVars,
                   traceVars, queries, uses>>

(* print_and_validate_config, after the last line *)
Validate ==
    /\ MainAt("read_config", "configure_database")
    /\ file # << >>
    /\ read = Len(file)
    /\ over' = IF Validates(cfg) THEN "no" ELSE "abort"
    /\ UNCHANGED <<configVars, running, sent, signalVars, handleVars,
                   traceVars, queries, uses>>

(* Without vfm.config nothing is set but the level, and nothing validated. *)
NoConfig ==
    /\ MainAt("read_config", "configure_database")
    /\ file = << >>
    /\ cfg' = [cfg EXCEPT !.loglevel = VPS_INFO]
    /\ UNCHANGED <<file, read, running, sent, signalVars, handleVars,
                   traceVars, queries, uses, over>>

(* sqlite3_open; pre_initialization does not look at the result. *)
ConfigureDatabase ==
    /\ MainAt("configure_database", "init_log")
    /\ \/ db' = "open" /\ UNCHANGED traceVars
       \/ db' = "failed" /\ TraceBegin(MainBody, VPS_ERROR)
    /\ UNCHANGED <<configVars, running, sent, signalVars, log, closedBy,
                   misused, queries, uses, over>>

(* init_log: localtime, whose lock is as that of vps_trace; then fopen of  *)
(* the log, if it has a path.                                              *)
InitLogLocaltime ==
    /\ MainAt("init_log", "fopen_log")
    /\ lock = {}
    /\ lock' = {MainBody}
    /\ UNCHANGED <<configVars, running, sent, signalVars, handleVars, trace, fp,
                   heap, queries, uses, over>>

InitLog ==
    /\ MainAt("fopen_log", "configured")
    /\ lock' = {}
    /\ log' \in IF cfg.logfile = << >> THEN {"null"} ELSE {"null", "open"}
    /\ UNCHANGED <<configVars, running, sent, signalVars, db, closedBy,
                   misused, trace, fp, heap, queries, uses, over>>

(* memset of g_req_map, vps_trace; the end of pre_initialization *)
Configured ==
    /\ MainAt("configured", "initialization")
    /\ TraceBegin(MainBody, VPS_INFO)
    /\ UNCHANGED <<configVars, running, sent, signalVars, handleVars, queries,
                   uses, over>>

(* Seeded fault: the error of get_inf_property is traced and not returned. *)
InitializationFails_Ignored ==
    /\ MainAt("initialization", "process_packet_tid1")
    /\ cfg.protocol = "EN"
    /\ TraceBegin(MainBody, VPS_ERROR)
    /\ UNCHANGED <<configVars, running, sent, signalVars, handleVars, queries,
                   uses, over>>

(* get_inf_property has an error, as always when the interface does not    *)
(* exist, or else when socket or ioctl fails: main goes to out, and closes *)
(* nothing.                                                                *)
InitializationFails ==
    /\ MainAt("initialization", "out")
    /\ cfg.protocol = "EN"
    /\ TraceBegin(MainBody, VPS_ERROR)
    /\ UNCHANGED <<configVars, running, sent, signalVars, handleVars, queries,
                   uses, over>>

Out ==
    /\ MainAt("out", "out")
    /\ over' = "returned"
    /\ UNCHANGED <<configVars, running, sent, signalVars, handleVars,
                   traceVars, queries, uses>>

Initialization ==
    /\ MainAt("initialization", "process_packet_tid1")
    /\ cfg.protocol = "EN" => cfg.intf \in Interfaces
    /\ TraceBegin(MainBody, VPS_INFO)
    /\ UNCHANGED <<configVars, running, sent, signalVars, handleVars, queries,
                   uses, over>>

(* pthread_create.  The file is forgotten with the first one. *)
PthreadCreate(t, to) ==
    /\ MainAt(t, to)
    /\ running' = running \cup {t}
    /\ file' = << >>
    /\ read' = 0
    /\ UNCHANGED <<cfg, sent, signalVars, handleVars, traceVars, queries,
                   uses, over>>

StartThreads ==
    \/ PthreadCreate("process_packet_tid1", "process_packet_tid2")
    \/ PthreadCreate("process_packet_tid2", Listener)
    \/ PthreadCreate(Listener, IF cfg.remote = 1 /\ cfg.protocol = "EN"
                                 THEN Sniffer ELSE "sleep")
    \/ PthreadCreate(Sniffer, "create_vfm_flogi")

(* "--** SENDING VFM FLOGI **--", create_vfm_flogi, send_gw_ad *)
CreateVfmFlogi ==
    /\ MainAt("create_vfm_flogi", "send_gw_ad")
    /\ sent' = sent \cup {"flogi"}
    /\ TraceBegin(MainBody, VPS_ERROR)
    /\ UNCHANGED <<configVars, running, signalVars, handleVars, queries, uses,
                   over>>

SendGwAd ==
    /\ MainAt("send_gw_ad", "sleep")
    /\ sent' = sent \cup {"gw_ad"}
    /\ UNCHANGED <<configVars, running, signalVars, handleVars, traceVars,
                   queries, uses, over>>

ReadConfig == ReadOption \/ SkipPiece \/ ReadTooLong \/ DieTooLong
                \/ Validate \/ NoConfig

MainNext ==
    \/ InstallHandler
    \/ ReadConfig
    \/ ConfigureDatabase \/ InitLogLocaltime \/ InitLog \/ Configured
    \/ InitializationFails \/ Out \/ Initialization
    \/ StartThreads
    \/ CreateVfmFlogi \/ SendGwAd

-----------------------------------------------------------------------------
(* The other threads *)

Body(t) == <<t, "body">>

CanUse(t) ==
    /\ Free(Body(t))
    /\ t \notin queries
    /\ uses < MaxUses
    /\ uses' = uses + 1

ThreadTraces(t) ==
    /\ t # Main
    /\ CanUse(t)
    /\ Enabled(VPS_ERROR)
    /\ TraceBegin(Body(t), VPS_ERROR)
    /\ UNCHANGED <<mainVars, signalVars, handleVars, queries, over>>

(* vfmdb_prepare_query, vfmdb_execute_query: processors store what they    *)
(* discover, the threads of the listener serve the API.                    *)
Prepare(t) ==
    /\ t \in Processors \cup {Listener}
    /\ CanUse(t)
    /\ Use(t, "db")
    /\ queries' = IF db = "open" THEN queries \cup {t} ELSE queries
    /\ UNCHANGED <<mainVars, signalVars, log, db, closedBy, traceVars>>

Finalize(t) ==
    /\ t \in queries
    /\ Free(Body(t))
    /\ queries' = queries \ {t}
    /\ UNCHANGED <<mainVars, signalVars, handleVars, traceVars, uses, over>>

(* malloc or free, for as long as it holds the lock of the heap: main      *)
(* during the start-up, the threads whenever they run.                     *)
Allocate(t) ==
    /\ t = Main => pc # "sleep"
    /\ CanUse(t)
    /\ heap = {}
    /\ heap' = {Body(t)}
    /\ UNCHANGED <<mainVars, signalVars, handleVars, trace, fp, lock, queries,
                   over>>

Allocated(t) ==
    /\ Body(t) \in heap
    /\ CanStep(Body(t))
    /\ heap' = {}
    /\ UNCHANGED <<mainVars, signalVars, handleVars, trace, fp, lock, queries,
                   uses, over>>

-----------------------------------------------------------------------------
(* SIGINT *)

Sigint(t) ==
    /\ over = "no"
    /\ t \in running
    /\ handler[t] = "no"
    /\ signals < MaxSignals
    /\ signals' = signals + 1
    /\ IF action = "handler"
         THEN handler' = [handler EXCEPT ![t] = "entered"] /\ UNCHANGED over
         ELSE over' = "killed" /\ UNCHANGED handler
    /\ UNCHANGED <<mainVars, action, handleVars, traceVars, queries, uses>>

HandlerAt(t, from, to) ==
    /\ handler[t] = from
    /\ Free(<<t, "handler">>)
    /\ handler' = [handler EXCEPT ![t] = to]
    /\ UNCHANGED <<mainVars, signals, queries, uses>>

(* vps_trace(VPS_ERROR, "Ctrl-c") *)
HandlerTrace(t) ==
    /\ HandlerAt(t, "entered", "close_log")
    /\ TraceBegin(<<t, "handler">>, VPS_ERROR)
    /\ UNCHANGED <<action, handleVars, over>>

(* close_log: g_logfile is closed and not set to null. *)
CloseLog(t) ==
    /\ HandlerAt(t, "close_log", "close_db")
    /\ IF log = "null"
         THEN UNCHANGED <<log, closedBy, misused, over>>
         ELSE /\ heap = {}
              /\ Use(t, "log")
              /\ log' = "closed"
              /\ closedBy' = [closedBy EXCEPT !["log"] = t]
    /\ UNCHANGED <<action, db, traceVars>>

(* Seeded fault: the handler traces once more before it closes the         *)
(* database, and the log is closed by then.                                *)
CloseDb_Traces(t) ==
    /\ HandlerAt(t, "close_db", "default")
    /\ TraceBegin(<<t, "handler">>, VPS_ERROR)
    /\ UNCHANGED <<action, handleVars, over>>

(* sqlite3_close: nothing is done to a null handle or while there are      *)
(* unfinished statements.                                                  *)
CloseDb(t) ==
    /\ HandlerAt(t, "close_db", "default")
    /\ IF db = "null" \/ queries # {}
         THEN UNCHANGED <<db, closedBy, misused, over>>
         ELSE /\ heap = {}
              /\ Use(t, "db")
              /\ db' = "closed"
              /\ closedBy' = [closedBy EXCEPT !["db"] = t]
    /\ UNCHANGED <<action, log, traceVars>>

(* Seeded fault: the handler joins the other threads, which nobody stops.  *)
SetDefault_Joins(t) ==
    /\ running = {t}
    /\ HandlerAt(t, "default", "exit")
    /\ action' = "default"
    /\ UNCHANGED <<handleVars, traceVars, over>>

(* signal(SIGINT, SIG_DFL) *)
SetDefault(t) ==
    /\ HandlerAt(t, "default", "exit")
    /\ action' = "default"
    /\ UNCHANGED <<handleVars, traceVars, over>>

Exit(t) ==
    /\ HandlerAt(t, "exit", "exit")
    /\ over' = "exit"
    /\ UNCHANGED <<action, handleVars, traceVars>>

termination_handler(t) ==
    \/ HandlerTrace(t)
    \/ CloseLog(t)
    \/ CloseDb(t)
    \/ SetDefault(t)
    \/ Exit(t)

-----------------------------------------------------------------------------
vps_trace(c) == Localtime(c) \/ LocaltimeReturns(c) \/ WriteLine(c)

Next ==
    \/ MainNext
    \/ \E c \in Contexts : vps_trace(c)
    \/ \E t \in Threads : \/ ThreadTraces(t)
                          \/ Prepare(t)
                          \/ Finalize(t)
                          \/ Allocate(t)
                          \/ Allocated(t)
                          \/ Sigint(t)
                          \/ termination_handler(t)

Spec == Init /\ [][Next]_vars

(* A thread that is not waiting goes on; no SIGINT need ever come, and no  *)
(* thread need ever trace, query or allocate.                              *)
FairSpec ==
    /\ Spec
    /\ WF_vars(MainNext)
    /\ \A c \in Contexts : WF_vars(vps_trace(c))
    /\ \A t \in Threads :
          WF_vars(Finalize(t)) /\ WF_vars(Allocated(t)) /\ WF_vars(termination_handler(t))

-----------------------------------------------------------------------------
(* What is in effect when main has read vfm.config is what the last line   *)
(* for each option says, for paths with the exception of a path shorter    *)
(* than an earlier one and for all with that of lines that do not fit the  *)
(* buffers of read_config; and the VFM logs in, and is advertised, only    *)
(* as a remote VFM on Ethernet, on an interface that exists, with settings *)
(* that were validated and with the sniffer started.                       *)
StartsAsConfigured ==
    /\ /\ over = "no"
       /\ pc \in {"configure_database", "init_log", "fopen_log", "configured",
                  "initialization"}
       /\ file # << >> /\ Plain(file)
       => AsFileSays(file, Len(file), cfg) /\ Validates(cfg)
    /\ sent # {} =>
          /\ cfg.remote = 1 /\ cfg.protocol = "EN" /\ Validates(cfg)
          /\ cfg.intf \in Interfaces
          /\ Sniffer \in running

(* Closing the log and the database under the feet of running threads is   *)
(* the price of termination_handler, but it takes two threads: no thread   *)
(* ever writes to a log or queries a database it has closed itself, so     *)
(* that a SIGINT that finds main alone, at any point of the start-up, ends *)
(* the VFM without touching a closed or an unopened handle.                *)
MisuseTakesTwo == \A m \in misused : m.user # m.closer

(* SIGINT ends the VFM, however it falls between main's start-up, the      *)
(* threads' traces, queries and allocations and a second SIGINT on another *)
(* thread, unless it interrupts a thread inside localtime, malloc or free: *)
(* its handler, or that of another thread, may then wait for a lock that   *)
(* is never left.                                                          *)
InterruptedInside ==
    \E t \in Threads : handler[t] # "no" /\ <<t, "body">> \in lock \cup heap

SigintEnds ==
    (\E t \in Threads : handler[t] # "no")
        ~> (over # "no" \/ InterruptedInside)

-----------------------------------------------------------------------------
(* The inductive invariant. *)

TypeOK ==
    /\ file \in Files \cup {<< >>}
    /\ read \in 0..Len(file)
    /\ DOMAIN cfg = DOMAIN Defaults
    /\ handler \in [Threads -> {"no", "entered", "close_log", "close_db",
                                "default", "exit"}]
    /\ closedBy \in [{"log", "db"} -> Threads \cup {Nobody}]
    /\ trace \in [Contexts -> {"no", "begun", "localtime", "stamped"}]

(* The thread that closed a handle is past that point of its handler, and  *)
(* its handler traces no more.                                             *)
ClosersOK ==
    \A t \in Threads :
        /\ closedBy["log"] = t => handler[t] \in {"close_db", "default", "exit"}
        /\ closedBy["db"] = t => handler[t] \in {"default", "exit"}
        /\ handler[t] \in {"close_db", "default", "exit"} =>
              trace[<<t, "handler">>] = "no"

(* A path is no longer than one that the file gave it. *)
PathOK(n, type, path) ==
    /\ path \in Seq({"l", "s"})
    /\ path = << >> \/ \E i \in Named(file, n, type) :
                            Len(path) <= Len(Chars(file[i].value))

(* So far the last lines count; and what was read to the end is valid.     *)
ReadStages == {"configure_database", "init_log", "fopen_log", "configured",
               "initialization"}
ReadingOK ==
    /\ pc \in {"start", "read_config"} \cup ReadStages /\ file # << >> /\ Plain(file) =>
          /\ AsFileSays(file, read, cfg)
          /\ PathOK(read, "database", cfg.database)
          /\ PathOK(read, "logfile", cfg.logfile)
    /\ pc \in {"start", "read_config"} /\ read = 0 => cfg = Defaults
    /\ pc \in ReadStages /\ file # << >> => read = Len(file)

(* Each stage of main has what the stages before it have established; a    *)
(* VFM without a vfm.config has no protocol.                               *)
LoginStages == {"create_vfm_flogi", "send_gw_ad"}
StagesOK ==
    /\ over = "no" /\ pc \notin {"start", "read_config"} =>
          Validates(cfg) \/ cfg.protocol = "none"
    /\ over = "no" /\ pc \in ReadStages /\ file # << >> => Validates(cfg)
    /\ pc \in {Sniffer} \cup LoginStages => cfg.remote = 1 /\ cfg.protocol = "EN"
    /\ pc \notin {"start", "read_config", "out"} \cup ReadStages =>
          (cfg.protocol = "EN" => cfg.intf \in Interfaces)
    /\ pc \in LoginStages => Sniffer \in running
    /\ sent # {} => pc \in {"send_gw_ad", "sleep"}

IInv == /\ TypeOK
        /\ ClosersOK /\ MisuseTakesTwo
        /\ ReadingOK
        /\ StagesOK /\ StartsAsConfigured

=============================================================================
