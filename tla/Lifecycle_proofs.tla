-------------------------- MODULE Lifecycle_proofs --------------------------
(***************************************************************************)
(* Proofs about the life of the VFM process, for every content of          *)
(* vfm.config, every set of interfaces, and any number of SIGINTs, traces  *)
(* and queries.                                                            *)
(***************************************************************************)
EXTENDS Lifecycle, SequenceTheorems, TLAPS

-----------------------------------------------------------------------------
(* vfm.config. *)

(* What a piece does to each of the globals. *)
LEMMA PieceFacts ==
    ASSUME NEW c, DOMAIN c = DOMAIN Defaults, NEW p, NEW d,
           d = IF IsOption(p) THEN process_config_line(c, p) ELSE c
    PROVE  /\ DOMAIN d = DOMAIN Defaults
           /\ d.loglevel = IF IsOption(p) /\ p.type = "log_level"
                           THEN atoi(p.value) ELSE c.loglevel
           /\ d.local = IF IsOption(p) /\ p.type = "mgmt_mode_local"
                        THEN atoi(p.value) ELSE c.local
           /\ d.remote = IF IsOption(p) /\ p.type = "mgmt_mode_remote"
                         THEN atoi(p.value) ELSE c.remote
           /\ d.intf = IF IsOption(p) /\ p.type = "vfm_eth_intf"
                       THEN p.value ELSE c.intf
           /\ d.protocol = IF /\ IsOption(p) /\ p.type = "internal_protocol"
                              /\ p.value \in Protocols
                           THEN p.value ELSE c.protocol
           /\ d.database = IF IsOption(p) /\ p.type = "database"
                           THEN Overwrite(c.database, p.value) ELSE c.database
           /\ d.logfile = IF IsOption(p) /\ p.type = "logfile"
                          THEN Overwrite(c.logfile, p.value) ELSE c.logfile
  <1>1. CASE IsOption(p) /\ p.type = "log_level"
    BY <1>1 DEF process_config_line, Defaults
  <1>2. CASE IsOption(p) /\ p.type = "mgmt_mode_local"
    BY <1>2 DEF process_config_line, Defaults
  <1>3. CASE IsOption(p) /\ p.type = "mgmt_mode_remote"
    BY <1>3 DEF process_config_line, Defaults
  <1>4. CASE /\ IsOption(p) /\ p.type = "internal_protocol"
             /\ p.value \in Protocols
    BY <1>4 DEF process_config_line, Defaults
  <1>5. CASE IsOption(p) /\ p.type = "vfm_eth_intf"
    BY <1>5 DEF process_config_line, Defaults
  <1>6. CASE IsOption(p) /\ p.type = "fcoe_t11"
    BY <1>6 DEF process_config_line, Defaults
  <1>7. CASE IsOption(p) /\ p.type = "database"
    BY <1>7 DEF process_config_line, Defaults
  <1>8. CASE IsOption(p) /\ p.type = "logfile"
    BY <1>8 DEF process_config_line, Defaults
  <1>9. CASE /\ IsOption(p)
             /\ p.type \notin {"log_level", "mgmt_mode_local", "mgmt_mode_remote",
                               "vfm_eth_intf", "fcoe_t11", "database", "logfile"}
             /\ ~(p.type = "internal_protocol" /\ p.value \in Protocols)
    BY <1>9 DEF process_config_line
  <1>10. CASE ~IsOption(p)
    BY <1>10
  <1> QED
    BY <1>1, <1>2, <1>3, <1>4, <1>5, <1>6, <1>7, <1>8, <1>9, <1>10

(* One line more either is the last for an option or leaves the last line. *)
LEMMA LastLine ==
    ASSUME NEW f, NEW n \in Nat, NEW type
    PROVE  /\ f[n + 1].type = type /\ ~f[n + 1].hash =>
                 /\ LastText(f, n + 1, type) = f[n + 1].value
                 /\ Named(f, n + 1, type) = Named(f, n, type) \cup {n + 1}
           /\ ~(f[n + 1].type = type /\ ~f[n + 1].hash) =>
                 /\ Named(f, n + 1, type) = Named(f, n, type)
                 /\ LastText(f, n + 1, type) = LastText(f, n, type)
                 /\ Shortened(f, n + 1, type) <=> Shortened(f, n, type)
  <1>0. 1..(n + 1) = (1..n) \cup {n + 1}
    OBVIOUS
  <1>1. ASSUME f[n + 1].type = type, ~f[n + 1].hash
        PROVE  /\ LastText(f, n + 1, type) = f[n + 1].value
               /\ Named(f, n + 1, type) = Named(f, n, type) \cup {n + 1}
    <2>1. Named(f, n + 1, type) = Named(f, n, type) \cup {n + 1}
      BY <1>0, <1>1 DEF Named
    <2> DEFINE i == CHOOSE i \in Named(f, n + 1, type) :
                       \A j \in Named(f, n + 1, type) : j <= i
    <2>2. Named(f, n + 1, type) \subseteq 1..(n + 1)
      BY DEF Named
    <2>3. i \in Named(f, n + 1, type) /\ \A j \in Named(f, n + 1, type) : j <= i
      <3>1. n + 1 \in Named(f, n + 1, type)
        BY <2>1
      <3>2. \A j \in Named(f, n + 1, type) : j <= n + 1
        BY <2>2
      <3> QED
        BY <3>1, <3>2
    <2>4. i = n + 1
      BY <2>1, <2>2, <2>3
    <2> QED
      BY <2>1, <2>4 DEF LastText, LastOf
  <1>2. ASSUME ~(f[n + 1].type = type /\ ~f[n + 1].hash)
        PROVE  /\ Named(f, n + 1, type) = Named(f, n, type)
               /\ LastText(f, n + 1, type) = LastText(f, n, type)
               /\ Shortened(f, n + 1, type) <=> Shortened(f, n, type)
    <2>1. Named(f, n + 1, type) = Named(f, n, type)
      BY <1>0, <1>2 DEF Named
    <2>2. LastText(f, n + 1, type) = LastText(f, n, type)
      BY <2>1 DEF LastText
    <2> QED
      BY <2>1, <2>2 DEF Shortened
  <1> QED
    BY <1>1, <1>2

LEMMA CharsFacts ==
    ASSUME NEW text
    PROVE  Chars(text) \in Seq({"l", "s"}) /\ Len(Chars(text)) \in Nat
  <1>1. Chars(text) \in {<<"l", "l">>, <<"s">>, << >>}
    BY DEF Chars
  <1>2. /\ <<"l", "l">> \in Seq({"l", "s"}) /\ <<"s">> \in Seq({"l", "s"})
        /\ << >> \in Seq({"l", "s"})
    OBVIOUS
  <1>3. Chars(text) \in Seq({"l", "s"})
    BY <1>1, <1>2
  <1> QED
    BY <1>3, LenProperties

(* A text as long as the path replaces it; the path gets no longer than    *)
(* the longer of the two.                                                  *)
LEMMA OverwriteFacts ==
    ASSUME NEW path \in Seq({"l", "s"}), NEW text
    PROVE  /\ Overwrite(path, text) \in Seq({"l", "s"})
           /\ Len(path) <= Len(Chars(text)) => Overwrite(path, text) = Chars(text)
           /\ Len(path) > Len(Chars(text)) => Len(Overwrite(path, text)) = Len(path)
  <1> DEFINE m == Len(Chars(text))
             rest == SubSeq(path, m + 1, Len(path))
  <1>1. Chars(text) \in Seq({"l", "s"}) /\ m \in Nat /\ Len(path) \in Nat
    BY CharsFacts
  <1>2. \A i \in (m + 1)..Len(path) : path[i] \in {"l", "s"}
    BY <1>1
  <1>3. /\ rest \in Seq({"l", "s"})
        /\ Len(rest) = IF m + 1 <= Len(path) THEN Len(path) - (m + 1) + 1 ELSE 0
    BY <1>1, <1>2, SubSeqProperties
  <1>4. Len(path) <= m => rest = << >>
    BY <1>1, SubSeqEmpty
  <1>5. Overwrite(path, text) = Chars(text) \o rest
    BY DEF Overwrite
  <1> HIDE DEF rest, m
  <1>6. Chars(text) \o << >> = Chars(text)
    BY <1>1, ConcatEmptySeq
  <1>7. /\ Chars(text) \o rest \in Seq({"l", "s"})
        /\ Len(Chars(text) \o rest) = Len(Chars(text)) + Len(rest)
    BY <1>1, <1>3, ConcatProperties
  <1> QED
    BY <1>1, <1>3, <1>4, <1>5, <1>6, <1>7 DEF m

(* What has been read is in effect, with one more piece of a plain file. *)
Said(n, c) == /\ AsFileSays(file, n, c)
              /\ PathOK(n, "database", c.database)
              /\ PathOK(n, "logfile", c.logfile)

(* A path of the file, before and after a line that names it. *)
LEMMA PathLine ==
    ASSUME NEW n \in Nat, NEW type, NEW path, PathOK(n, type, path),
           ~Shortened(file, n, type) => path = Chars(LastText(file, n, type)),
           NEW new,
           new = IF file[n + 1].type = type /\ ~file[n + 1].hash
                 THEN Overwrite(path, file[n + 1].value) ELSE path
    PROVE  /\ PathOK(n + 1, type, new)
           /\ ~Shortened(file, n + 1, type) =>
                 new = Chars(LastText(file, n + 1, type))
  <1>1. CASE file[n + 1].type = type /\ ~file[n + 1].hash
    <2> DEFINE text == file[n + 1].value
    <2>1. /\ LastText(file, n + 1, type) = text
          /\ Named(file, n + 1, type) = Named(file, n, type) \cup {n + 1}
      BY <1>1, LastLine
    <2>2. path \in Seq({"l", "s"}) /\ Len(path) \in Nat
      BY DEF PathOK
    <2>3. /\ new \in Seq({"l", "s"})
          /\ Len(path) <= Len(Chars(text)) => new = Chars(text)
          /\ Len(path) > Len(Chars(text)) => Len(new) = Len(path)
      BY <1>1, <2>2, OverwriteFacts
    <2>4. Len(Chars(text)) \in Nat
      BY CharsFacts
    <2>5. PathOK(n + 1, type, new)
      <3>1. CASE Len(path) <= Len(Chars(text))
        BY <2>1, <2>3, <2>4, <3>1 DEF PathOK
      <3>2. CASE Len(path) > Len(Chars(text))
        <4>1. path # << >>
          BY <2>4, <3>2
        <4>2. PICK i \in Named(file, n, type) : Len(path) <= Len(Chars(file[i].value))
          BY <4>1 DEF PathOK
        <4> QED
          BY <2>1, <2>3, <3>2, <4>2 DEF PathOK
      <3> QED
        BY <2>2, <2>4, <3>1, <3>2
    <2>6. ASSUME ~Shortened(file, n + 1, type) PROVE new = Chars(text)
      <3>1. \A i \in Named(file, n, type) :
                Len(Chars(file[i].value)) <= Len(Chars(text))
        BY <2>1, <2>4, <2>6, CharsFacts DEF Shortened
      <3>2. Len(path) <= Len(Chars(text))
        <4>1. CASE path = << >>
          BY <2>4, <4>1
        <4>2. CASE path # << >>
          <5>1. PICK i \in Named(file, n, type) :
                   Len(path) <= Len(Chars(file[i].value))
            BY <4>2 DEF PathOK
          <5>2. Len(Chars(file[i].value)) \in Nat
            BY CharsFacts
          <5> QED
            BY <2>2, <2>4, <3>1, <5>1, <5>2
        <4> QED
          BY <4>1, <4>2
      <3> QED
        BY <2>3, <3>2
    <2> QED
      BY <2>1, <2>5, <2>6
  <1>2. CASE ~(file[n + 1].type = type /\ ~file[n + 1].hash)
    BY <1>2, LastLine DEF PathOK
  <1> QED
    BY <1>1, <1>2

LEMMA LineSaid ==
    ASSUME read \in Nat, NEW c, DOMAIN c = DOMAIN Defaults, Said(read, c),
           NEW d,
           d = IF IsOption(piece) THEN process_config_line(c, piece) ELSE c
    PROVE  Said(read + 1, d)
  <1> DEFINE Names(type) == piece.type = type /\ ~piece.hash
  <1>1. /\ d.loglevel = IF IsOption(piece) /\ piece.type = "log_level"
                        THEN atoi(piece.value) ELSE c.loglevel
        /\ d.local = IF IsOption(piece) /\ piece.type = "mgmt_mode_local"
                     THEN atoi(piece.value) ELSE c.local
        /\ d.remote = IF IsOption(piece) /\ piece.type = "mgmt_mode_remote"
                      THEN atoi(piece.value) ELSE c.remote
        /\ d.intf = IF IsOption(piece) /\ piece.type = "vfm_eth_intf"
                    THEN piece.value ELSE c.intf
        /\ d.protocol = IF /\ IsOption(piece) /\ piece.type = "internal_protocol"
                           /\ piece.value \in Protocols
                        THEN piece.value ELSE c.protocol
        /\ d.database = IF IsOption(piece) /\ piece.type = "database"
                        THEN Overwrite(c.database, piece.value) ELSE c.database
        /\ d.logfile = IF IsOption(piece) /\ piece.type = "logfile"
                       THEN Overwrite(c.logfile, piece.value) ELSE c.logfile
    BY PieceFacts
  <1>2. \A type : type # "" => (Names(type) <=> IsOption(piece) /\ piece.type = type)
    BY Zenon DEF IsOption
  <1>3. \A type : LastText(file, read + 1, type) =
                     IF Names(type) THEN piece.value ELSE LastText(file, read, type)
    BY LastLine DEF piece
  <1>4. ASSUME NEW type, NEW path, PathOK(read, type, path),
               ~Shortened(file, read, type) => path = Chars(LastText(file, read, type)),
               NEW new,
               new = IF Names(type) THEN Overwrite(path, piece.value) ELSE path
        PROVE  /\ PathOK(read + 1, type, new)
               /\ ~Shortened(file, read + 1, type) =>
                     new = Chars(LastText(file, read + 1, type))
    BY <1>4, PathLine DEF piece
  <1> HIDE DEF Names
  <1>5. /\ d.loglevel = IF Names("log_level") THEN atoi(piece.value) ELSE c.loglevel
        /\ d.local = IF Names("mgmt_mode_local") THEN atoi(piece.value) ELSE c.local
        /\ d.remote = IF Names("mgmt_mode_remote") THEN atoi(piece.value)
                      ELSE c.remote
        /\ d.intf = IF Names("vfm_eth_intf") THEN piece.value ELSE c.intf
        /\ d.protocol = IF Names("internal_protocol") /\ piece.value \in Protocols
                        THEN piece.value ELSE c.protocol
    BY <1>1, <1>2
  <1>6. /\ d.database = IF Names("database") THEN Overwrite(c.database, piece.value)
                        ELSE c.database
        /\ d.logfile = IF Names("logfile") THEN Overwrite(c.logfile, piece.value)
                       ELSE c.logfile
    BY <1>1, <1>2
  <1>7. /\ PathOK(read + 1, "database", d.database)
        /\ ~Shortened(file, read + 1, "database") =>
              d.database = Chars(LastText(file, read + 1, "database"))
        /\ PathOK(read + 1, "logfile", d.logfile)
        /\ ~Shortened(file, read + 1, "logfile") =>
              d.logfile = Chars(LastText(file, read + 1, "logfile"))
    BY <1>4, <1>6 DEF Said, AsFileSays
  <1>8. /\ d.loglevel = atoi(LastText(file, read + 1, "log_level"))
        /\ d.local = atoi(LastText(file, read + 1, "mgmt_mode_local"))
        /\ d.remote = atoi(LastText(file, read + 1, "mgmt_mode_remote"))
        /\ d.intf = LastText(file, read + 1, "vfm_eth_intf")
        /\ LastText(file, read + 1, "internal_protocol") \in Protocols =>
              d.protocol = LastText(file, read + 1, "internal_protocol")
    BY <1>3, <1>5 DEF Said, AsFileSays
  <1> QED
    BY <1>7, <1>8 DEF Said, AsFileSays

(* Before anything is read the globals are as they were compiled in. *)
LEMMA NothingSaid == Said(0, Defaults)
  <1>1. \A type : Named(file, 0, type) = {} /\ LastText(file, 0, type) = ""
    BY DEF Named, LastText, LastOf
  <1>2. atoi("") = 0 /\ Chars("") = << >>
    BY DEF atoi, Chars
  <1>3. "" \notin Protocols
    BY DEF Protocols
  <1>4. /\ Defaults.loglevel = 0 /\ Defaults.local = 0 /\ Defaults.remote = 0
        /\ Defaults.intf = "" /\ Defaults.database = << >>
        /\ Defaults.logfile = << >>
    BY DEF Defaults
  <1>5. AsFileSays(file, 0, Defaults)
    BY <1>1, <1>2, <1>3, <1>4 DEF AsFileSays
  <1>6. << >> \in Seq({"l", "s"})
    OBVIOUS
  <1> QED
    BY <1>4, <1>5, <1>6 DEF Said, PathOK

-----------------------------------------------------------------------------
(* The handlers, and what is closed. *)

LEMMA ContextFacts ==
    /\ \A t \in Threads : <<t, "handler">> \in Contexts /\ <<t, "body">> \in Contexts
    /\ \A c \in Contexts : c[1] \in Threads /\ c[2] \in {"body", "handler"}
                           /\ c = <<c[1], c[2]>>
    /\ MainBody \in Contexts /\ \A t : <<t, "handler">> # MainBody
    /\ Main \in Threads /\ Nobody \notin Threads
  <1>1. /\ \A t \in Threads : <<t, "handler">> \in Contexts /\ <<t, "body">> \in Contexts
        /\ \A c \in Contexts : c[1] \in Threads /\ c[2] \in {"body", "handler"}
                               /\ c = <<c[1], c[2]>>
    BY DEF Contexts
  <1>2. Main \in Threads /\ Nobody \notin Threads
    BY DEF Threads, Main, Nobody, Listener, Sniffer, Processors
  <1>3. \A t : <<t, "handler">> # MainBody
    BY DEF MainBody
  <1> QED
    BY <1>1, <1>2, <1>3 DEF MainBody

TraceStages == {"no", "begun", "localtime", "stamped"}

LEMMA TraceFacts ==
    ASSUME TypeOK, NEW c \in Contexts, NEW level, TraceBegin(c, level)
    PROVE  /\ trace' \in [Contexts -> TraceStages]
           /\ \A d \in Contexts : d # c => trace'[d] = trace[d]
  <1>1. trace \in [Contexts -> TraceStages]
    BY DEF TypeOK, TraceStages
  <1>2. trace' = trace \/ trace' = [trace EXCEPT ![c] = "begun"]
    BY DEF TraceBegin, traceVars
  <1> QED
    BY <1>1, <1>2 DEF TraceStages

(* A step that closes nothing, uses nothing that was closed and changes    *)
(* only the trace of a context that may step.                              *)
LEMMA ClosersKept ==
    ASSUME IInv, UNCHANGED <<handler, closedBy, misused>>,
           NEW c \in Contexts, CanStep(c), c[2] = "body",
           \A d \in Contexts : d # c => trace'[d] = trace[d]
    PROVE  ClosersOK' /\ MisuseTakesTwo'
  <1>1. \A t \in Threads : <<t, "handler">> \in Contexts /\ <<t, "handler">> # c
    BY ContextFacts
  <1> QED
    BY <1>1 DEF IInv, ClosersOK, MisuseTakesTwo

(* Nor do the steps of threads and handlers touch what main has done. *)
LEMMA MainKept ==
    ASSUME IInv, UNCHANGED mainVars, over' = "no" => over = "no"
    PROVE  ReadingOK' /\ StagesOK' /\ StartsAsConfigured'
  <1>1. UNCHANGED <<file, read, cfg, pc, running, sent>>
    BY DEF mainVars, configVars
  <1>2. ReadingOK'
    BY <1>1 DEF IInv, ReadingOK, PathOK
  <1>3. StagesOK'
    BY <1>1 DEF IInv, StagesOK
  <1>4. StartsAsConfigured'
    BY <1>1 DEF IInv, StartsAsConfigured
  <1> QED
    BY <1>2, <1>3, <1>4

(* A context that has closed a handle is not one that uses it. *)
LEMMA UseFacts ==
    ASSUME MisuseTakesTwo, NEW t \in Threads, NEW h \in {"log", "db"},
           closedBy[h] # t, Use(t, h)
    PROVE  MisuseTakesTwo'
  BY DEF MisuseTakesTwo, Use

LEMMA TypeKept ==
    ASSUME IInv, UNCHANGED mainVars
    PROVE  /\ file' \in Files \cup {<< >>} /\ read' \in 0..Len(file')
           /\ DOMAIN cfg' = DOMAIN Defaults
  BY DEF mainVars, configVars, IInv, TypeOK

LEMMA TraceStepInv ==
    ASSUME IInv, NEW c \in Contexts, vps_trace(c)
    PROVE  IInv'
  <1>1. /\ CanStep(c) /\ trace[c] # "no" /\ UNCHANGED <<mainVars, handler, closedBy>>
        /\ over = "no"
    BY DEF vps_trace, Localtime, LocaltimeReturns, WriteLine, signalVars, handleVars,
           CanStep
  <1>2. trace \in [Contexts -> TraceStages]
    BY DEF IInv, TypeOK, TraceStages
  <1>3. PICK s \in TraceStages : trace' = [trace EXCEPT ![c] = s]
    BY DEF vps_trace, Localtime, LocaltimeReturns, WriteLine, TraceStages
  <1>4. /\ trace' \in [Contexts -> TraceStages]
        /\ \A d \in Contexts : d # c => trace'[d] = trace[d]
    BY <1>2, <1>3
  <1>5. PICK t \in Threads, half \in {"body", "handler"} : c = <<t, half>>
    BY ContextFacts
  <1>6. handler[t] \notin {"close_db", "default", "exit"}
    <2>1. ASSUME handler[t] \in {"close_db", "default", "exit"} PROVE FALSE
      <3>1. half = "handler"
        BY <1>1, <1>5, <2>1 DEF CanStep
      <3> QED
        BY <1>1, <1>5, <2>1, <3>1 DEF IInv, ClosersOK
    <2> QED
      BY <2>1
  <1>7. ClosersOK'
    <2> SUFFICES ASSUME NEW u \in Threads
                 PROVE  /\ closedBy["log"] = u =>
                              handler[u] \in {"close_db", "default", "exit"}
                        /\ closedBy["db"] = u => handler[u] \in {"default", "exit"}
                        /\ handler[u] \in {"close_db", "default", "exit"} =>
                              trace'[<<u, "handler">>] = "no"
      BY <1>1 DEF ClosersOK
    <2>1. handler[u] \in {"close_db", "default", "exit"} => <<u, "handler">> # c
      BY <1>5, <1>6
    <2> QED
      BY <1>4, <2>1, ContextFacts DEF IInv, ClosersOK
  <1>8. MisuseTakesTwo'
    <2>1. closedBy["log"] # t
      BY <1>6 DEF IInv, ClosersOK
    <2>2. CASE misused' = misused
      BY <2>2 DEF IInv, MisuseTakesTwo
    <2>3. CASE Use(c[1], "log")
      BY <1>5, <2>1, <2>3, UseFacts DEF IInv
    <2> QED
      BY <2>2, <2>3 DEF vps_trace, Localtime, LocaltimeReturns, WriteLine, handleVars
  <1>9. TypeOK'
    BY <1>1, <1>4, TypeKept DEF IInv, TypeOK, TraceStages
  <1> QED
    BY <1>1, <1>7, <1>8, <1>9, MainKept DEF IInv

(* A thread that has entered its handler runs nothing else. *)
LEMMA ThreadInv ==
    ASSUME IInv, NEW t \in Threads,
           ThreadTraces(t) \/ Prepare(t) \/ Finalize(t) \/ Allocate(t) \/ Allocated(t)
    PROVE  IInv'
  <1>1. /\ CanStep(Body(t)) /\ UNCHANGED <<mainVars, handler, closedBy>> /\ over = "no"
    BY DEF ThreadTraces, Prepare, Finalize, Allocate, Allocated, CanUse, Free, signalVars,
       handleVars, CanStep
  <1>2. /\ Body(t) \in Contexts /\ Body(t)[2] = "body" /\ handler[t] = "no"
    BY <1>1, ContextFacts DEF Body, CanStep
  <1>3. /\ trace' \in [Contexts -> TraceStages]
        /\ \A d \in Contexts : d # Body(t) => trace'[d] = trace[d]
    <2>1. CASE ThreadTraces(t)
      BY <1>2, <2>1, TraceFacts DEF ThreadTraces, IInv
    <2>2. CASE UNCHANGED trace
      BY <2>2 DEF IInv, TypeOK, TraceStages
    <2> QED
      BY <2>1, <2>2 DEF Prepare, Finalize, Allocate, Allocated, traceVars
  <1>4. ClosersOK'
    <2>1. \A u \in Threads : <<u, "handler">> # Body(t)
      BY DEF Body
    <2> QED
      BY <1>1, <1>3, <2>1, ContextFacts DEF IInv, ClosersOK
  <1>5. MisuseTakesTwo'
    <2>1. closedBy["db"] # t
      BY <1>2 DEF IInv, ClosersOK
    <2>2. CASE misused' = misused
      BY <2>2 DEF IInv, MisuseTakesTwo
    <2>3. CASE Use(t, "db")
      BY <2>1, <2>3, UseFacts DEF IInv
    <2> QED
      BY <2>2, <2>3 DEF ThreadTraces, Prepare, Finalize, Allocate, Allocated, handleVars
  <1>6. TypeOK'
    BY <1>1, <1>3, TypeKept DEF IInv, TypeOK, TraceStages
  <1> QED
    BY <1>1, <1>4, <1>5, <1>6, MainKept DEF IInv

LEMMA SigintInv ==
    ASSUME IInv, NEW t \in Threads, Sigint(t)
    PROVE  IInv'
  <1>1. /\ UNCHANGED <<mainVars, closedBy, misused, trace>> /\ over = "no"
        /\ handler' = handler \/ handler' = [handler EXCEPT ![t] = "entered"]
        /\ handler[t] = "no"
    BY DEF Sigint, handleVars, traceVars
  <1>2. TypeOK'
    BY <1>1, TypeKept DEF IInv, TypeOK
  <1>3. ClosersOK' /\ MisuseTakesTwo'
    BY <1>1 DEF IInv, TypeOK, ClosersOK, MisuseTakesTwo
  <1> QED
    BY <1>1, <1>2, <1>3, MainKept DEF IInv

(* termination_handler goes forward: it traces, closes the log, closes the *)
(* database.                                                               *)
LEMMA HandlerInv ==
    ASSUME IInv, NEW t \in Threads, termination_handler(t)
    PROVE  IInv'
  <1> DEFINE c == <<t, "handler">>
  <1>1. /\ UNCHANGED mainVars /\ over = "no" /\ trace[c] = "no" /\ c \in Contexts
    BY ContextFacts DEF termination_handler, HandlerTrace, CloseLog, CloseDb,
       SetDefault, Exit, HandlerAt, Free, CanStep
  <1>2. /\ handler \in [Threads -> {"no", "entered", "close_log", "close_db",
                                    "default", "exit"}]
        /\ closedBy \in [{"log", "db"} -> Threads \cup {Nobody}]
        /\ trace \in [Contexts -> TraceStages] /\ ClosersOK /\ MisuseTakesTwo
    BY DEF IInv, TypeOK, TraceStages
  <1> HIDE DEF c
  <1>3. CASE HandlerTrace(t)
    <2>1. /\ handler[t] = "entered" /\ handler' = [handler EXCEPT ![t] = "close_log"]
          /\ UNCHANGED <<closedBy, misused>>
          /\ trace' \in [Contexts -> TraceStages]
          /\ \A d \in Contexts : d # c => trace'[d] = trace[d]
      BY <1>1, <1>3, TraceFacts DEF HandlerTrace, HandlerAt, handleVars, c, IInv
    <2>2. \A u \in Threads : u # t => <<u, "handler">> # c /\ <<u, "handler">> \in Contexts
      BY ContextFacts DEF c
    <2>3. ClosersOK' /\ MisuseTakesTwo'
      BY <1>2, <2>1, <2>2 DEF ClosersOK, MisuseTakesTwo
    <2> QED
      BY <1>1, <1>2, <2>1, <2>3, TypeKept, MainKept DEF IInv, TypeOK, TraceStages
  <1>4. CASE CloseLog(t)
    <2>1. /\ handler[t] = "close_log" /\ handler' = [handler EXCEPT ![t] = "close_db"]
          /\ UNCHANGED trace
          /\ \/ UNCHANGED <<closedBy, misused>>
             \/ Use(t, "log") /\ closedBy' = [closedBy EXCEPT !["log"] = t]
      BY <1>4 DEF CloseLog, HandlerAt, traceVars
    <2>2. closedBy["log"] # t
      BY <1>2, <2>1 DEF ClosersOK
    <2>3. MisuseTakesTwo'
      BY <1>2, <2>1, <2>2, UseFacts DEF MisuseTakesTwo
    <2>4. ClosersOK'
      BY <1>1, <1>2, <2>1 DEF ClosersOK, c
    <2> QED
      BY <1>1, <1>2, <2>1, <2>3, <2>4, TypeKept, MainKept DEF IInv, TypeOK, TraceStages
  <1>5. CASE CloseDb(t)
    <2>1. /\ handler[t] = "close_db" /\ handler' = [handler EXCEPT ![t] = "default"]
          /\ UNCHANGED trace
          /\ \/ UNCHANGED <<closedBy, misused>>
             \/ Use(t, "db") /\ closedBy' = [closedBy EXCEPT !["db"] = t]
      BY <1>5 DEF CloseDb, HandlerAt, traceVars
    <2>2. closedBy["db"] # t
      BY <1>2, <2>1 DEF ClosersOK
    <2>3. MisuseTakesTwo'
      BY <1>2, <2>1, <2>2, UseFacts DEF MisuseTakesTwo
    <2>4. ClosersOK'
      BY <1>1, <1>2, <2>1 DEF ClosersOK, c
    <2> QED
      BY <1>1, <1>2, <2>1, <2>3, <2>4, TypeKept, MainKept DEF IInv, TypeOK, TraceStages
  <1>6. CASE SetDefault(t) \/ Exit(t)
    <2>1. /\ handler[t] \in {"default", "exit"}
          /\ handler' = [handler EXCEPT ![t] = "exit"]
          /\ UNCHANGED <<trace, closedBy, misused>>
      BY <1>6 DEF SetDefault, Exit, HandlerAt, traceVars, handleVars
    <2>2. ClosersOK' /\ MisuseTakesTwo'
      BY <1>2, <2>1 DEF ClosersOK, MisuseTakesTwo
    <2> QED
      BY <1>1, <1>2, <2>1, <2>2, TypeKept, MainKept DEF IInv, TypeOK, TraceStages
  <1> QED
    BY <1>3, <1>4, <1>5, <1>6 DEF termination_handler

-----------------------------------------------------------------------------
(* main. *)

(* What a step of main leaves alone, whatever it reads or starts. *)
LEMMA MainFacts ==
    ASSUME IInv, NEW from, NEW to, MainAt(from, to), UNCHANGED handler,
           UNCHANGED <<closedBy, misused>>, trace' \in [Contexts -> TraceStages],
           \A d \in Contexts : d # MainBody => trace'[d] = trace[d]
    PROVE  /\ pc = from /\ pc' = to /\ over = "no"
           /\ ClosersOK' /\ MisuseTakesTwo'
           /\ file' \in Files \cup {<< >>} /\ read' \in 0..Len(file')
                 /\ DOMAIN cfg' = DOMAIN Defaults => TypeOK'
  <1>1. /\ pc = from /\ pc' = to /\ over = "no" /\ CanStep(MainBody)
    BY DEF MainAt, Free, CanStep
  <1>2. MainBody \in Contexts /\ MainBody[2] = "body"
    BY ContextFacts DEF MainBody
  <1>3. ClosersOK' /\ MisuseTakesTwo'
    BY <1>1, <1>2, ClosersKept
  <1>4. file' \in Files \cup {<< >>} /\ read' \in 0..Len(file')
           /\ DOMAIN cfg' = DOMAIN Defaults => TypeOK'
    BY DEF IInv, TypeOK, TraceStages
  <1> QED
    BY <1>1, <1>3, <1>4

(* The same for a step that traces or does not. *)
LEMMA MainTraces ==
    ASSUME IInv, NEW from, NEW to, MainAt(from, to), UNCHANGED handler,
           UNCHANGED <<closedBy, misused>>,
           UNCHANGED trace \/ \E level : TraceBegin(MainBody, level)
    PROVE  /\ pc = from /\ pc' = to /\ over = "no"
           /\ ClosersOK' /\ MisuseTakesTwo'
           /\ file' \in Files \cup {<< >>} /\ read' \in 0..Len(file')
                 /\ DOMAIN cfg' = DOMAIN Defaults => TypeOK'
  <1>1. /\ trace' \in [Contexts -> TraceStages]
        /\ \A d \in Contexts : d # MainBody => trace'[d] = trace[d]
    <2>1. CASE UNCHANGED trace
      BY <2>1 DEF IInv, TypeOK, TraceStages
    <2>2. CASE \E level : TraceBegin(MainBody, level)
      <3>1. PICK level : TraceBegin(MainBody, level)
        BY <2>2
      <3> QED
        BY <3>1, TraceFacts, ContextFacts DEF IInv
    <2> QED
      BY <2>1, <2>2
  <1> QED
    BY <1>1, MainFacts

LEMMA InstallHandlerInv ==
    ASSUME IInv, InstallHandler
    PROVE  IInv'
  <1>1. /\ MainAt("start", "read_config")
        /\ UNCHANGED <<file, read, cfg, running, sent, handler, closedBy, misused,
                       trace, over>>
    BY DEF InstallHandler, configVars, handleVars, traceVars
  <1>2. pc = "start" /\ pc' = "read_config" /\ ClosersOK' /\ MisuseTakesTwo' /\ TypeOK'
    BY <1>1, MainTraces DEF IInv, TypeOK
  <1>3. ReadingOK'
    BY <1>1, <1>2 DEF IInv, ReadingOK, PathOK, ReadStages
  <1>4. StagesOK' /\ StartsAsConfigured'
    BY <1>1, <1>2 DEF IInv, StagesOK, StartsAsConfigured, ReadStages, LoginStages,
       Sniffer
  <1> QED
    BY <1>2, <1>3, <1>4 DEF IInv

LEMMA FileFacts ==
    ASSUME TypeOK
    PROVE  /\ read \in 0..Len(file) /\ Len(file) \in Nat /\ DOMAIN file = 1..Len(file)
           /\ file = << >> => read = 0
  <1>1. << >> \in Seq(Pieces) /\ Len(<< >>) = 0
    OBVIOUS
  <1>2. file \in Files \/ file = << >>
    BY DEF TypeOK
  <1>3. file \in Seq(Pieces)
    BY <1>1, <1>2, FilesAssumption
  <1>4. Len(file) \in Nat /\ DOMAIN file = 1..Len(file)
    BY <1>3, LenProperties
  <1> QED
    BY <1>1, <1>4 DEF TypeOK

(* A piece is read: it is taken, or passed over. *)
LEMMA ReadPieceInv ==
    ASSUME IInv, NEW c, MoreToRead, ReadPiece(c), DOMAIN c = DOMAIN Defaults,
           \/ piece.long
           \/ IsOption(piece) /\ c = process_config_line(cfg, piece)
           \/ ~IsOption(piece) /\ c = cfg
    PROVE  IInv'
  <1>1. /\ MainAt("read_config", "read_config")
        /\ read' = read + 1 /\ cfg' = c
        /\ UNCHANGED <<file, running, sent, handler, closedBy, misused, trace>>
    BY DEF ReadPiece, signalVars, handleVars, traceVars
  <1>2. /\ read \in 0..Len(file) /\ read < Len(file)
        /\ Len(file) \in Nat /\ DOMAIN file = 1..Len(file)
    BY FileFacts DEF IInv, MoreToRead
  <1>3. read' \in 0..Len(file') /\ read' # 0 /\ read \in Nat
    BY <1>1, <1>2
  <1>4. /\ pc = "read_config" /\ pc' = "read_config"
        /\ ClosersOK' /\ MisuseTakesTwo' /\ TypeOK'
    BY <1>1, <1>3, MainTraces DEF IInv, TypeOK
  <1>5. ASSUME file # << >>, Plain(file) PROVE Said(read + 1, cfg')
    <2>1. Said(read, cfg)
      BY <1>4, <1>5 DEF IInv, ReadingOK, Said
    <2>2. read + 1 \in DOMAIN file
      BY <1>2
    <2>3. ~piece.long
      BY <1>5, <2>2 DEF Plain, piece
    <2> QED
      BY <1>1, <1>3, <2>1, <2>3, LineSaid DEF IInv, TypeOK
  <1>6. ReadingOK'
    <2>1. ASSUME file # << >>, Plain(file)
          PROVE  /\ AsFileSays(file, read, cfg)'
                 /\ PathOK(read, "database", cfg.database)'
                 /\ PathOK(read, "logfile", cfg.logfile)'
      BY <1>1, <1>5, <2>1 DEF Said, PathOK
    <2>2. (file # << >> /\ Plain(file))' => file # << >> /\ Plain(file)
      BY <1>1
    <2> QED
      BY <1>3, <1>4, <2>1, <2>2 DEF ReadingOK, ReadStages
  <1>7. StagesOK' /\ StartsAsConfigured'
    BY <1>1, <1>4 DEF IInv, StagesOK, StartsAsConfigured, ReadStages, LoginStages,
       Sniffer
  <1> QED
    BY <1>4, <1>6, <1>7 DEF IInv

LEMMA ReadConfigInv ==
    ASSUME IInv, ReadConfig
    PROVE  IInv'
  <1>1. /\ DOMAIN cfg = DOMAIN Defaults
        /\ IsOption(piece) => DOMAIN process_config_line(cfg, piece) = DOMAIN Defaults
    BY PieceFacts DEF IInv, TypeOK
  <1>2. CASE ReadOption
    BY <1>1, <1>2, ReadPieceInv DEF ReadOption
  <1>3. CASE SkipPiece
    BY <1>1, <1>3, ReadPieceInv DEF SkipPiece
  <1>4. CASE ReadTooLong
    BY <1>1, <1>4, ReadPieceInv DEF ReadTooLong
  <1>5. CASE DieTooLong
    <2>1. /\ MainAt("read_config", "read_config") /\ over' = "crashed"
          /\ UNCHANGED <<file, read, cfg, running, sent, handler, closedBy, misused,
                         trace>>
      BY <1>5 DEF DieTooLong, configVars, signalVars, handleVars, traceVars
    <2>2. /\ pc = "read_config" /\ pc' = "read_config"
          /\ ClosersOK' /\ MisuseTakesTwo' /\ TypeOK'
      BY <2>1, MainTraces DEF IInv, TypeOK
    <2>3. ReadingOK'
      BY <2>1, <2>2 DEF IInv, ReadingOK, PathOK, ReadStages
    <2>4. StagesOK' /\ StartsAsConfigured'
      BY <2>1, <2>2 DEF IInv, StagesOK, StartsAsConfigured, ReadStages, LoginStages,
         Sniffer
    <2> QED
      BY <2>2, <2>3, <2>4 DEF IInv
  <1>6. CASE Validate
    <2>1. /\ MainAt("read_config", "configure_database")
          /\ file # << >> /\ read = Len(file)
          /\ over' = "no" => Validates(cfg)
          /\ UNCHANGED <<file, read, cfg, running, sent, handler, closedBy, misused,
                         trace>>
      BY <1>6 DEF Validate, configVars, signalVars, handleVars, traceVars
    <2>2. /\ pc = "read_config" /\ pc' = "configure_database"
          /\ ClosersOK' /\ MisuseTakesTwo' /\ TypeOK'
      BY <2>1, MainTraces DEF IInv, TypeOK
    <2>3. ReadingOK'
      BY <2>1, <2>2 DEF IInv, ReadingOK, PathOK, ReadStages
    <2>4. StagesOK'
      BY <2>1, <2>2 DEF IInv, StagesOK, ReadStages, LoginStages, Sniffer
    <2>5. StartsAsConfigured'
      <3>1. file # << >> /\ Plain(file) => AsFileSays(file, Len(file), cfg)
        BY <2>1, <2>2 DEF IInv, ReadingOK
      <3>2. sent = {}
        BY <2>2 DEF IInv, StagesOK
      <3> QED
        BY <2>1, <3>1, <3>2 DEF StartsAsConfigured
    <2> QED
      BY <2>2, <2>3, <2>4, <2>5 DEF IInv
  <1>7. CASE NoConfig
    <2>1. /\ MainAt("read_config", "configure_database") /\ file = << >>
          /\ cfg' = [cfg EXCEPT !.loglevel = VPS_INFO]
          /\ UNCHANGED <<file, read, running, sent, handler, closedBy, misused,
                         trace, over>>
      BY <1>7 DEF NoConfig, signalVars, handleVars, traceVars
    <2>2. cfg = Defaults
      BY <2>1, FileFacts DEF IInv, ReadingOK, MainAt
    <2>3. DOMAIN cfg' = DOMAIN Defaults /\ cfg'.protocol = "none"
      BY <2>1, <2>2 DEF Defaults
    <2>4. /\ pc = "read_config" /\ pc' = "configure_database"
          /\ ClosersOK' /\ MisuseTakesTwo' /\ TypeOK'
      BY <2>1, <2>3, MainTraces DEF IInv, TypeOK
    <2>5. sent = {}
      BY <2>4 DEF IInv, StagesOK
    <2>6. ReadingOK'
      BY <2>1, <2>4 DEF ReadingOK, ReadStages
    <2>7. StagesOK' /\ StartsAsConfigured'
      BY <2>1, <2>3, <2>4, <2>5 DEF StagesOK, StartsAsConfigured, ReadStages,
         LoginStages, Sniffer
    <2> QED
      BY <2>4, <2>6, <2>7 DEF IInv
  <1> QED
    BY <1>2, <1>3, <1>4, <1>5, <1>6, <1>7 DEF ReadConfig

(* A stage of the start-up after the file is read changes no option, and   *)
(* goes on only with what the stages before it have established.           *)
LEMMA StageInv ==
    ASSUME IInv, NEW from \in ReadStages, NEW to, MainAt(from, to),
           UNCHANGED <<file, read, cfg, running, sent, handler, closedBy, misused, over>>,
           UNCHANGED trace \/ \E level : TraceBegin(MainBody, level),
           \/ to \in ReadStages \cup {"out"}
           \/ to = "process_packet_tid1" /\ (cfg.protocol = "EN" => cfg.intf \in Interfaces)
    PROVE  IInv'
  <1>1. /\ pc = from /\ pc' = to /\ over = "no"
        /\ ClosersOK' /\ MisuseTakesTwo' /\ TypeOK'
    BY MainTraces DEF IInv, TypeOK
  <1>2. ReadingOK'
    BY <1>1 DEF IInv, ReadingOK, PathOK, ReadStages
  <1>3. StagesOK' /\ StartsAsConfigured'
    <2>1. sent = {}
      BY <1>1 DEF IInv, StagesOK, ReadStages
    <2>2. StagesOK'
      BY <1>1, <2>1 DEF IInv, StagesOK, ReadStages, LoginStages, Sniffer
    <2>3. StartsAsConfigured'
      BY <1>1, <2>1 DEF IInv, StartsAsConfigured, ReadStages
    <2> QED
      BY <2>2, <2>3
  <1> QED
    BY <1>1, <1>2, <1>3 DEF IInv

LEMMA StartUpInv ==
    ASSUME IInv,
           \/ ConfigureDatabase \/ InitLogLocaltime \/ InitLog \/ Configured
           \/ InitializationFails \/ Initialization
    PROVE  IInv'
  <1>1. UNCHANGED <<file, read, cfg, running, sent, handler, closedBy, misused, over>>
    BY DEF ConfigureDatabase, InitLogLocaltime, InitLog, Configured, InitializationFails, Initialization,
       configVars, signalVars, handleVars
  <1>2. CASE ConfigureDatabase
    <2>1. /\ MainAt("configure_database", "init_log")
          /\ UNCHANGED trace \/ \E level : TraceBegin(MainBody, level)
      BY <1>2 DEF ConfigureDatabase, traceVars
    <2> QED
      BY <1>1, <2>1, StageInv DEF ReadStages
  <1>7. CASE InitLogLocaltime
    <2>1. MainAt("init_log", "fopen_log") /\ UNCHANGED trace
      BY <1>7 DEF InitLogLocaltime
    <2> QED
      BY <1>1, <2>1, StageInv DEF ReadStages
  <1>3. CASE InitLog
    <2>1. MainAt("fopen_log", "configured") /\ UNCHANGED trace
      BY <1>3 DEF InitLog
    <2> QED
      BY <1>1, <2>1, StageInv DEF ReadStages
  <1>4. CASE Configured
    <2>1. /\ MainAt("configured", "initialization")
          /\ \E level : TraceBegin(MainBody, level)
      BY <1>4 DEF Configured
    <2> QED
      BY <1>1, <2>1, StageInv DEF ReadStages
  <1>5. CASE InitializationFails
    <2>1. MainAt("initialization", "out") /\ \E level : TraceBegin(MainBody, level)
      BY <1>5 DEF InitializationFails
    <2> QED
      BY <1>1, <2>1, StageInv DEF ReadStages
  <1>6. CASE Initialization
    <2>1. /\ MainAt("initialization", "process_packet_tid1")
          /\ cfg.protocol = "EN" => cfg.intf \in Interfaces
          /\ \E level : TraceBegin(MainBody, level)
      BY <1>6 DEF Initialization
    <2> QED
      BY <1>1, <2>1, StageInv DEF ReadStages
  <1> QED
    BY <1>2, <1>3, <1>4, <1>5, <1>6, <1>7

LEMMA OutInv ==
    ASSUME IInv, Out
    PROVE  IInv'
  <1>1. /\ MainAt("out", "out") /\ over' = "returned"
        /\ UNCHANGED <<file, read, cfg, running, sent, handler, closedBy, misused, trace>>
    BY DEF Out, configVars, signalVars, handleVars, traceVars
  <1>2. /\ pc = "out" /\ pc' = "out"
        /\ ClosersOK' /\ MisuseTakesTwo' /\ TypeOK'
    BY <1>1, MainTraces DEF IInv, TypeOK
  <1>3. ReadingOK' /\ StagesOK' /\ StartsAsConfigured'
    BY <1>1, <1>2 DEF IInv, ReadingOK, StagesOK, StartsAsConfigured, ReadStages,
       LoginStages, Sniffer
  <1> QED
    BY <1>2, <1>3 DEF IInv

LEMMA StartThreadsInv ==
    ASSUME IInv, StartThreads
    PROVE  IInv'
  <1> DEFINE Tids == {"process_packet_tid1", "process_packet_tid2", Listener, Sniffer}
  <1>1. PICK t \in Tids, to \in (Tids \cup {"sleep", "create_vfm_flogi"}) :
           /\ PthreadCreate(t, to)
           /\ to = Sniffer => cfg.remote = 1 /\ cfg.protocol = "EN"
           /\ to = "create_vfm_flogi" => t = Sniffer
    BY DEF StartThreads, Listener, Sniffer
  <1>2. /\ MainAt(t, to) /\ running' = running \cup {t} /\ file' = << >> /\ read' = 0
        /\ UNCHANGED <<cfg, sent, handler, closedBy, misused, trace, over>>
    BY <1>1 DEF PthreadCreate, signalVars, handleVars, traceVars
  <1>3. Len(<< >>) = 0
    OBVIOUS
  <1>4. file' \in Files \cup {<< >>} /\ read' \in 0..Len(file') /\ DOMAIN cfg' = DOMAIN Defaults
    BY <1>2, <1>3 DEF IInv, TypeOK
  <1>5. /\ pc = t /\ pc' = to /\ over = "no"
        /\ ClosersOK' /\ MisuseTakesTwo' /\ TypeOK'
    BY <1>2, <1>4, MainTraces
  <1>6. sent = {}
    BY <1>5 DEF IInv, StagesOK, Listener, Sniffer
  <1>7. ReadingOK'
    BY <1>2, <1>5 DEF ReadingOK, ReadStages, Listener, Sniffer
  <1>8. StagesOK'
    BY <1>1, <1>2, <1>5, <1>6 DEF IInv, StagesOK, ReadStages, LoginStages, Listener, Sniffer
  <1>9. StartsAsConfigured'
    BY <1>2, <1>5, <1>6 DEF StartsAsConfigured, Listener, Sniffer
  <1> QED
    BY <1>5, <1>7, <1>8, <1>9 DEF IInv

LEMMA LoginInv ==
    ASSUME IInv, CreateVfmFlogi \/ SendGwAd
    PROVE  IInv'
  <1>1. PICK from \in LoginStages, to \in {"send_gw_ad", "sleep"} :
           /\ MainAt(from, to)
           /\ UNCHANGED <<file, read, cfg, running, handler, closedBy, misused, over>>
           /\ UNCHANGED trace \/ \E level : TraceBegin(MainBody, level)
    BY DEF CreateVfmFlogi, SendGwAd, LoginStages, configVars, signalVars, handleVars,
       traceVars
  <1>2. /\ pc = from /\ pc' = to /\ over = "no"
        /\ ClosersOK' /\ MisuseTakesTwo' /\ TypeOK'
    BY <1>1, MainTraces DEF IInv, TypeOK
  <1>3. /\ cfg.remote = 1 /\ cfg.protocol = "EN" /\ Validates(cfg)
        /\ cfg.intf \in Interfaces /\ Sniffer \in running
    BY <1>2 DEF IInv, StagesOK, ReadStages, LoginStages
  <1>4. ReadingOK' /\ StagesOK'
    BY <1>1, <1>2, <1>3 DEF IInv, ReadingOK, StagesOK, ReadStages, LoginStages, Sniffer
  <1>5. StartsAsConfigured'
    BY <1>1, <1>2, <1>3 DEF StartsAsConfigured
  <1> QED
    BY <1>2, <1>4, <1>5 DEF IInv

-----------------------------------------------------------------------------

LEMMA InitInv ==
    ASSUME Init
    PROVE  IInv
  <1>1. TypeOK
    <2>1. read \in 0..Len(file)
      <3>1. file \in Seq(Pieces)
        BY FilesAssumption DEF Init
      <3>2. Len(file) \in Nat
        BY <3>1, LenProperties
      <3> QED
        BY <3>2 DEF Init
    <2> QED
      BY <2>1 DEF Init, TypeOK
  <1>2. ClosersOK /\ MisuseTakesTwo
    BY ContextFacts DEF Init, ClosersOK, MisuseTakesTwo
  <1>3. ReadingOK
    BY NothingSaid DEF Init, ReadingOK, Said, ReadStages
  <1>4. StagesOK /\ StartsAsConfigured
    BY DEF Init, StagesOK, StartsAsConfigured, ReadStages, LoginStages, Sniffer
  <1> QED
    BY <1>1, <1>2, <1>3, <1>4 DEF IInv

LEMMA StepInv ==
    ASSUME IInv, [Next]_vars
    PROVE  IInv'
  <1>1. CASE MainNext
    BY <1>1, InstallHandlerInv, ReadConfigInv, StartUpInv, OutInv, StartThreadsInv,
       LoginInv DEF MainNext
  <1>2. CASE \E c \in Contexts : vps_trace(c)
    BY <1>2, TraceStepInv
  <1>3. CASE \E t \in Threads : \/ ThreadTraces(t)
                                \/ Prepare(t)
                                \/ Finalize(t)
                                \/ Allocate(t)
                                \/ Allocated(t)
                                \/ Sigint(t)
                                \/ termination_handler(t)
    BY <1>3, ThreadInv, SigintInv, HandlerInv
  <1>4. CASE UNCHANGED vars
    <2>1. UNCHANGED <<mainVars, handler, closedBy, trace, misused, over>>
      BY <1>4 DEF vars, mainVars, configVars
    <2>2. TypeOK' /\ ClosersOK' /\ MisuseTakesTwo'
      BY <2>1, TypeKept DEF IInv, TypeOK, ClosersOK, MisuseTakesTwo
    <2> QED
      BY <2>1, <2>2, MainKept DEF IInv
  <1> QED
    BY <1>1, <1>2, <1>3, <1>4 DEF Next

(* The inductive invariant: what has been read of vfm.config is in effect, *)
(* each stage of the start-up has what the stages before it established,   *)
(* and a thread that closed a handle is past using it.                     *)
THEOREM Invariance == Spec => []IInv
  <1>1. Init => IInv
    BY InitInv
  <1>2. IInv /\ [Next]_vars => IInv'
    BY StepInv
  <1> QED
    BY <1>1, <1>2, PTL DEF Spec

(* The VFM runs with what the last line for each option of vfm.config says *)
(* (but for the shortened paths and the lines that are too long), and logs *)
(* in only as a validated remote VFM on an Ethernet interface of the host. *)
THEOREM ConfigTakesEffect == Spec => []StartsAsConfigured
  <1>1. IInv => StartsAsConfigured
    BY DEF IInv
  <1> QED
    BY <1>1, Invariance, PTL

(* No thread uses the log or the database after closing it itself in       *)
(* termination_handler, wherever SIGINTs fall.                             *)
THEOREM OwnHandlesAreSafe == Spec => []MisuseTakesTwo
  <1>1. IInv => MisuseTakesTwo
    BY DEF IInv
  <1> QED
    BY <1>1, Invariance, PTL

=============================================================================
