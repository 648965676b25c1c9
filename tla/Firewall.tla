------------------------------ MODULE Firewall ------------------------------
(***************************************************************************)
(* The iptables integration of src/src/filter/firewall.c: the daemon's     *)
(* tracking set g_blocked_ips beside what its commands leave in the kernel.*)
(* main passes FIREWALL_BACKEND_IPTABLES only, so that is g_backend here.  *)
(*                                                                         *)
(* The kernel outlives the process: a crash, or an error exit of main that *)
(* skips firewall_cleanup, loses the tracking set and leaves the chain,    *)
(* its rules and the jump in INPUT.  Start and stop are sequences of       *)
(* commands, each of which may fail unnoticed ("2>/dev/null || true").     *)
(***************************************************************************)
EXTENDS IpSetOps

CONSTANTS Hosts,        \* addresses of the dropped packets, both families
          Durations,    \* blacklist_duration in seconds, 0 for ever
          MaxSize,      \* MAX_BLACKLIST_SIZE
          MaxTime, MaxStarts, MaxRules, MaxAllocs   \* bounds of the runs

ASSUME FirewallAssumption ==
    /\ Hosts \subseteq IpAddr /\ Durations \subseteq Nat
    /\ {MaxSize, MaxTime, MaxStarts, MaxRules, MaxAllocs} \subseteq Nat

VARIABLES kernel,         \* chain DDOS_PROTECT, the jumps to it in INPUT, its rules
          g_blocked_ips,
          pc,             \* the commands of firewall_init and firewall_cleanup
          clock,
          starts,
          lost,           \* history: jumps of starts that no cleanup followed
          clean,          \* history: the last exit went through firewall_cleanup
          failed          \* history: a command of a start or stop failed

vars == <<kernel, g_blocked_ips, pc, clock, starts, lost, clean, failed>>
history == <<starts, lost, clean, failed>>

Kernel == [chain : BOOLEAN, jumps : Nat, drops : [Hosts -> Nat], limits : [Hosts -> Nat]]
NoRules == [h \in Hosts |-> 0]

-----------------------------------------------------------------------------
(* What the iptables commands do; in each case nothing if they fail. *)
NewChain(k)   == [k EXCEPT !.chain = TRUE]
FlushChain(k) == [k EXCEPT !.drops = NoRules, !.limits = NoRules]
InsertJump(k) == IF k.chain THEN [k EXCEPT !.jumps = @ + 1] ELSE k
DeleteJump(k) == IF k.jumps > 0 THEN [k EXCEPT !.jumps = @ - 1] ELSE k
InsertDrop(k, ip)  == [k EXCEPT !.drops[ip] = @ + 1]
DeleteDrop(k, ip)  == IF k.drops[ip] > 0 THEN [k EXCEPT !.drops[ip] = @ - 1] ELSE k
InsertLimit(k, ip) == IF k.chain THEN [k EXCEPT !.limits[ip] = @ + 1] ELSE k

(* A chain is deleted only if it is empty and nothing jumps to it. *)
DeleteChain(k) == IF k.jumps = 0 /\ k.drops = NoRules /\ k.limits = NoRules
                  THEN [k EXCEPT !.chain = FALSE] ELSE k

(* system() of a command whose result is ignored. *)
System(k, ok) == kernel' = IF ok THEN k ELSE kernel

Init == /\ kernel = [chain |-> FALSE, jumps |-> 0, drops |-> NoRules, limits |-> NoRules]
        /\ g_blocked_ips = ipset_create
        /\ pc = "down" /\ clock = 0 /\ starts = 0
        /\ lost = 0 /\ clean = TRUE /\ failed = FALSE

-----------------------------------------------------------------------------
(* firewall_init: the set, then -N, -F and -I INPUT. *)
InitChain(ok) ==
    /\ pc = "down" /\ starts < MaxStarts
    /\ starts' = starts + 1
    /\ g_blocked_ips' = ipset_create
    /\ System(NewChain(kernel), ok)
    /\ pc' = "made" /\ failed' = (failed \/ ~ok)
    /\ UNCHANGED <<clock, lost, clean>>

InitFlush(ok) ==
    /\ pc = "made"
    /\ System(FlushChain(kernel), ok)
    /\ pc' = "flushed" /\ failed' = (failed \/ ~ok)
    /\ UNCHANGED <<g_blocked_ips, clock, starts, lost, clean>>

InitJump(ok) ==
    /\ pc = "flushed"
    /\ System(InsertJump(kernel), ok)
    /\ pc' = "up" /\ failed' = (failed \/ ~ok)
    /\ UNCHANGED <<g_blocked_ips, clock, starts, lost, clean>>

(* firewall_cleanup: -D INPUT, -F, -X, then the set. *)
CleanupJump(ok) ==
    /\ pc = "up"
    /\ System(DeleteJump(kernel), ok)
    /\ pc' = "unjumped" /\ failed' = (failed \/ ~ok)
    /\ UNCHANGED <<g_blocked_ips, clock, starts, lost, clean>>

(* Mutant: the chain is deleted without being emptied first. *)
MutCleanupFlush(ok) ==
    /\ pc = "unjumped"
    /\ pc' = "emptied" /\ failed' = (failed \/ ~ok)
    /\ UNCHANGED <<kernel, g_blocked_ips, clock, starts, lost, clean>>

CleanupFlush(ok) ==
    /\ pc = "unjumped"
    /\ System(FlushChain(kernel), ok)
    /\ pc' = "emptied" /\ failed' = (failed \/ ~ok)
    /\ UNCHANGED <<g_blocked_ips, clock, starts, lost, clean>>

CleanupDelete(ok) ==
    /\ pc = "emptied"
    /\ System(DeleteChain(kernel), ok)
    /\ g_blocked_ips' = ipset_create
    /\ pc' = "down" /\ clean' = TRUE /\ failed' = (failed \/ ~ok)
    /\ UNCHANGED <<clock, starts, lost>>

-----------------------------------------------------------------------------
Expires(d) == IF d > 0 THEN clock + d ELSE 0

(* Mutant: the address is tracked although the command failed. *)
Mut_firewall_block_ip(ip, d) ==
    /\ pc = "up" /\ g_blocked_ips.allocs < MaxAllocs /\ kernel.drops[ip] < MaxRules
    /\ kernel' = IF ip.family = "v4" /\ kernel.chain THEN InsertDrop(kernel, ip) ELSE kernel
    /\ g_blocked_ips' = ipset_add_expiring(g_blocked_ips, MaxSize, ip, Expires(d))
    /\ UNCHANGED <<pc, clock, history>>

(* The command succeeds; iptables refuses an IPv6 address, and a call whose *)
(* command fails returns -1 and changes nothing.                            *)
firewall_block_ip(ip, d) ==
    /\ pc = "up" /\ g_blocked_ips.allocs < MaxAllocs /\ kernel.drops[ip] < MaxRules
    /\ ip.family = "v4" /\ kernel.chain
    /\ kernel' = InsertDrop(kernel, ip)
    /\ g_blocked_ips' = ipset_add_expiring(g_blocked_ips, MaxSize, ip, Expires(d))
    /\ UNCHANGED <<pc, clock, history>>

(* -D deletes one matching rule; its failure is not noticed. *)
firewall_unblock_ip(ip, ok) ==
    /\ pc = "up"
    /\ System(DeleteDrop(kernel, ip), ok)
    /\ g_blocked_ips' = ipset_remove(g_blocked_ips, ip)
    /\ UNCHANGED <<pc, clock, history>>

(* firewall_remove_ratelimit only logs: no action. *)
firewall_add_ratelimit(ip, ok) ==
    /\ pc = "up" /\ kernel.limits[ip] < MaxRules
    /\ System(IF ip.family = "v4" THEN InsertLimit(kernel, ip) ELSE kernel, ok)
    /\ UNCHANGED <<g_blocked_ips, pc, clock, history>>

firewall_flush_all(ok) ==
    /\ pc = "up"
    /\ System(FlushChain(kernel), ok)
    /\ g_blocked_ips' = ipset_clear(g_blocked_ips)
    /\ UNCHANGED <<pc, clock, history>>

(* The jump that is this process's own. *)
Own == IF pc = "up" THEN 1 ELSE 0

(* A crash, or an exit through main's error path, which skips the cleanup. *)
Crash ==
    /\ pc # "down"
    /\ pc' = "down" /\ clean' = FALSE
    /\ lost' = lost + Own
    /\ g_blocked_ips' = ipset_create
    /\ UNCHANGED <<kernel, clock, starts, failed>>

Tick == clock < MaxTime /\ clock' = clock + 1 /\ UNCHANGED <<kernel, g_blocked_ips, pc, history>>

Next == \/ \E ok \in BOOLEAN :
              \/ InitChain(ok) \/ InitFlush(ok) \/ InitJump(ok)
              \/ CleanupJump(ok) \/ CleanupFlush(ok) \/ CleanupDelete(ok)
              \/ firewall_flush_all(ok)
              \/ \E ip \in Hosts : firewall_unblock_ip(ip, ok) \/ firewall_add_ratelimit(ip, ok)
        \/ \E ip \in Hosts, d \in Durations : firewall_block_ip(ip, d)
        \/ Crash \/ Tick

Spec == Init /\ [][Next]_vars

-----------------------------------------------------------------------------
(* Every variable has its type. *)
TypeOK == /\ kernel \in Kernel /\ g_blocked_ips \in IpSetType
          /\ pc \in {"down", "made", "flushed", "up", "unjumped", "emptied"}
          /\ clock \in Nat /\ starts \in Nat /\ lost \in Nat
          /\ clean \in BOOLEAN /\ failed \in BOOLEAN

(* What firewall_is_blocked and firewall_get_stats report is true of the    *)
(* kernel: a tracked address has a DROP rule until the stop begins, through *)
(* repeated blocks, unblocks, flushes and failing commands (firewall.c:84). *)
TrackedHasRule == pc \in {"up", "unjumped"} =>
    \A e \in g_blocked_ips.entries : kernel.drops[e.ip] > 0

(* One chain and one jump to it (ARCHITECTURE.md, the chain structure of    *)
(* the firewall): a new start does not add to what an earlier one left.     *)
OneJump == kernel.jumps <= 1

(* What the code does instead, as a part of the inductive invariant: INPUT  *)
(* holds the running process's jump and one more for every process that     *)
(* went without firewall_cleanup (firewall.c:31, 47).                       *)
JumpsExact == ~failed => kernel.jumps = lost + Own

(* After a stop through firewall_cleanup no rule is left, and the chain is  *)
(* gone unless a jump of an earlier crash still refers to it.               *)
StopRestores == pc = "down" /\ clean /\ ~failed =>
    /\ kernel.drops = NoRules /\ kernel.limits = NoRules
    /\ kernel.chain <=> lost > 0
=============================================================================
