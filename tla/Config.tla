------------------------------- MODULE Config -------------------------------
(***************************************************************************)
(* vfm.config and the globals it fills (config.c).  fgets hands read_config *)
(* a line in pieces of at most 99 characters; each piece is taken for a    *)
(* line of its own.  The file is the sequence of its pieces.  A piece is   *)
(* abstracted to whether it holds a '#', the name before its '=' and the   *)
(* text behind it, both trimmed, whether one of the two is too long for    *)
(* type[50], value[50], the temp[30] of str_trim or g_if_name[10], and     *)
(* whether it continues the line of the piece before it.                   *)
(***************************************************************************)
EXTENDS Integers, Sequences

Types == {"log_level", "mgmt_mode_local", "mgmt_mode_remote",
          "internal_protocol", "gw_mac", "vfm_eth_intf", "fcoe_t11",
          "database", "logfile"}

(* A piece without '=' has the type "". *)
Piece(hash, type, value, long, continues) ==
    [hash |-> hash, type |-> type, value |-> value, long |-> long,
     continues |-> continues]
Pieces == [hash : BOOLEAN, type : Types \cup {""}, value : STRING,
           long : BOOLEAN, continues : BOOLEAN]

Option(type, value) == Piece(FALSE, type, value, FALSE, FALSE)

(* atoi: a text that is no number is 0. *)
atoi(text) ==
    CASE text = "-1" -> -1
      [] text = "1"  -> 1
      [] text = "2"  -> 2
      [] text = "3"  -> 3
      [] OTHER       -> 0

(* The characters of a path, abstracted to two lengths. *)
Chars(text) ==
    CASE text = "/long"  -> <<"l", "l">>
      [] text = "/short" -> <<"s">>
      [] OTHER           -> << >>

(* memcpy of strlen(value) characters: what was longer keeps its tail. *)
Overwrite(path, text) ==
    Chars(text) \o SubSeq(path, Len(Chars(text)) + 1, Len(path))

(* The globals before main runs. *)
Defaults ==
    [loglevel |-> 0, local |-> 0, remote |-> 0, protocol |-> "none",
     t11 |-> 0, intf |-> "", database |-> << >>, logfile |-> << >>]

Protocols == {"EN", "IB", "FC"}

(* uint32_t g_fcoe_t11 = atoi(value).  2^16 stands for 2^32, which TLC     *)
(* cannot hold; the texts are far smaller than both.                       *)
Unsigned(n) == n % 2^16

(* parse_address aborts on a character that is neither a hex digit nor a   *)
(* colon.                                                                  *)
parse_address_aborts(p) == p.type = "gw_mac" /\ p.value = "text"

process_config_line(c, p) ==
    CASE p.type = "log_level"        -> [c EXCEPT !.loglevel = atoi(p.value)]
      [] p.type = "mgmt_mode_local"  -> [c EXCEPT !.local = atoi(p.value)]
      [] p.type = "mgmt_mode_remote" -> [c EXCEPT !.remote = atoi(p.value)]
      [] p.type = "internal_protocol" /\ p.value \in Protocols ->
            [c EXCEPT !.protocol = p.value]
      [] p.type = "vfm_eth_intf"     -> [c EXCEPT !.intf = p.value]
      [] p.type = "fcoe_t11"         -> [c EXCEPT !.t11 = Unsigned(atoi(p.value))]
      [] p.type = "database" -> [c EXCEPT !.database = Overwrite(@, p.value)]
      [] p.type = "logfile"  -> [c EXCEPT !.logfile = Overwrite(@, p.value)]
      [] OTHER -> c

(* if (strpbrk(buff, "#")) continue; if (!strchr(buff, '=')) continue; *)
IsOption(p) == ~p.hash /\ p.type # ""

(* print_and_validate_config returns.  The test of g_vfm_remote for a      *)
(* negative value reads g_vfm_local, so that a negative one is accepted.   *)
Validates(c) ==
    /\ c.local \in {0, 1}
    /\ c.remote <= 1
    /\ c.protocol \in Protocols
    /\ c.t11 \in {0, 1}

-----------------------------------------------------------------------------
(* What the first n lines of the file say, for a reader who knows that a   *)
(* '#' makes a line a comment: the last line that names an option gives    *)
(* its value.                                                              *)

Plain(file) == \A i \in DOMAIN file : ~file[i].continues /\ ~file[i].long

Named(file, n, type) == {i \in 1..n : file[i].type = type /\ ~file[i].hash}

(* The text of the last line, or none. *)
LastOf(file, lines) ==
    IF lines = {} THEN ""
    ELSE file[CHOOSE i \in lines : \A j \in lines : j <= i].value
LastText(file, n, type) == LastOf(file, Named(file, n, type))

(* An earlier line gives a longer path than the last one. *)
Shortened(file, n, type) ==
    \E i \in Named(file, n, type) :
        Len(Chars(file[i].value)) > Len(Chars(LastText(file, n, type)))

AsFileSays(file, n, c) ==
    /\ c.loglevel = atoi(LastText(file, n, "log_level"))
    /\ c.local = atoi(LastText(file, n, "mgmt_mode_local"))
    /\ c.remote = atoi(LastText(file, n, "mgmt_mode_remote"))
    /\ c.intf = LastText(file, n, "vfm_eth_intf")
    /\ LastText(file, n, "internal_protocol") \in Protocols =>
          c.protocol = LastText(file, n, "internal_protocol")
    /\ ~Shortened(file, n, "database") =>
          c.database = Chars(LastText(file, n, "database"))
    /\ ~Shortened(file, n, "logfile") =>
          c.logfile = Chars(LastText(file, n, "logfile"))
=============================================================================
