---------------------------- MODULE MCLifecycle -----------------------------
(* Lifecycle without a vfm.config, and with one that has the lines of the  *)
(* shipped one that matter, followed by one or two more.                   *)
EXTENDS Lifecycle

Base == << Option("log_level", "1"), Option("mgmt_mode_remote", "1"),
           Option("internal_protocol", "EN"), Option("vfm_eth_intf", "eth0"),
           Option("database", "/long"), Option("logfile", "/short") >>

More == { Option("log_level", "text"),
          Option("mgmt_mode_local", "-1"), Option("fcoe_t11", "text"),
          Option("mgmt_mode_remote", "-1"), Option("mgmt_mode_remote", "2"),
          Option("internal_protocol", "IB"), Option("internal_protocol", "text"),
          Option("vfm_eth_intf", "eth9"),
          Option("gw_mac", "text"), Option("fcoe_t11", "-1"),
          Option("logfile", ""),
          Piece(TRUE, "logfile", "/long", FALSE, FALSE),
          Piece(FALSE, "database", "/long", TRUE, FALSE) }

(* A comment that fgets returns in two pieces. *)
Cut == << Piece(TRUE, "", "", FALSE, FALSE),
          Piece(FALSE, "mgmt_mode_remote", "-1", FALSE, TRUE) >>

Twice == { Option("mgmt_mode_remote", "-1"), Option("mgmt_mode_remote", "1"),
           Option("internal_protocol", "text"),
           Piece(TRUE, "logfile", "/long", FALSE, FALSE) }

(* With a VFM that does not log in: one thread less. *)
Local == << Option("mgmt_mode_remote", "-1"), Option("log_level", "3"),
            Option("database", "/short") >>

MCFiles ==
    {<< >>, Base, Base \o Local, Base \o Cut, << Option("mgmt_mode_remote", "1") >>}
        \cup {Append(Base, m) : m \in More}
        \cup {Base \o <<m, n>> : m, n \in Twice}
=============================================================================
