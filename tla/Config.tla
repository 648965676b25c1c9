------------------------------- MODULE Config -------------------------------
(***************************************************************************)
(* Loading and checking the configuration (src/src/core/config.c) as       *)
(* functions.  A file is the set of its sections, its integer keys, the    *)
(* boolean keys that are true and the keys with a string; the config_t is  *)
(* zeroed by calloc first, and a default is only used for a missing key of *)
(* a section that is there.                                                *)
(***************************************************************************)
EXTENDS Integers

CONSTANTS U16, U32,         \* 2^16 and 2^32: the integers are cut to their field
          MaxWorkers        \* MAX_WORKERS

ASSUME ConfigAssumption ==
    /\ U16 \in Nat \ {0} /\ U32 \in Nat \ {0} /\ MaxWorkers \in Nat

(* The DEFAULT_... thresholds of common.h and those written in config.c. *)
Defaults == [snaplen |-> 65535, udp_pps |-> 10000, tcp_syn_pps |-> 5000,
             icmp_pps |-> 1000, http_rps |-> 100, pps |-> 1000, bps |-> 10000000,
             duration |-> 3600, api_port |-> 8080, dashboard_port |-> 8081]

Int_(f, section, key, width) ==
    IF section \notin f.sections THEN 0
    ELSE (IF key \in DOMAIN f.ints THEN f.ints[key] ELSE Defaults[key]) % width

(* The int with these bits: snaplen is the one signed field. *)
Signed(n) == IF n < U32 \div 2 THEN n ELSE n - U32

IsTrue(f, section, key) == section \in f.sections /\ key \in f.trues

(* Is the string copied, so that the pointer is not NULL? *)
HasString(f, section, key) == section \in f.sections /\ key \in f.strings

(* "workers" is no section: its default does not depend on one.            *)
(* tcp_ack_pps is in the shipped file but never read.                       *)
parse_config_json(f) ==
    [interface    |-> HasString(f, "network", "interface"),
     snaplen      |-> Signed(Int_(f, "network", "snaplen", U32)),
     num_workers  |-> IF "workers" \in DOMAIN f.ints THEN f.ints["workers"] % U32 ELSE 4,
     udp_pps_threshold     |-> Int_(f, "thresholds", "udp_pps", U32),
     tcp_syn_pps_threshold |-> Int_(f, "thresholds", "tcp_syn_pps", U32),
     tcp_ack_pps_threshold |-> 0,
     icmp_pps_threshold    |-> Int_(f, "thresholds", "icmp_pps", U32),
     http_rps_threshold    |-> Int_(f, "thresholds", "http_rps", U32),
     enable_rate_limiting  |-> IsTrue(f, "ratelimit", "ratelimit.enabled"),
     rate_limit_pps     |-> Int_(f, "ratelimit", "pps", U32),
     rate_limit_bps     |-> Int_(f, "ratelimit", "bps", U32),
     auto_blacklist     |-> IsTrue(f, "auto_blacklist", "auto_blacklist.enabled"),
     blacklist_duration |-> Int_(f, "auto_blacklist", "duration", U32),
     enable_geoip     |-> IsTrue(f, "geoip", "geoip.enabled"),
     geoip_db_path    |-> HasString(f, "geoip", "database"),
     enable_xdp       |-> IsTrue(f, "xdp", "xdp.enabled"),
     xdp_program_path |-> HasString(f, "xdp", "program"),
     enable_api       |-> IsTrue(f, "api", "api.enabled"),
     api_port         |-> Int_(f, "api", "api_port", U16),
     enable_dashboard |-> IsTrue(f, "dashboard", "dashboard.enabled"),
     dashboard_port   |-> Int_(f, "dashboard", "dashboard_port", U16)]

config_validate(c) == c.interface /\ c.num_workers \in 1..MaxWorkers
=============================================================================
