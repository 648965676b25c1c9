--------------------------- MODULE FirewallProofs ---------------------------
(***************************************************************************)
(* Theorems about Firewall for every set of hosts, every capacity of the   *)
(* tracking set and every number of starts, crashes and failing commands.  *)
(*                                                                         *)
(* The rules (RulesInv) and the chain with its jumps (ChainInv) have an    *)
(* inductive invariant each.  RulesInv needs that the tracking set is Good *)
(* and V4Single: only then does one ipset_remove take an address out       *)
(* together with what may be its last rule.                                *)
(***************************************************************************)
EXTENDS Firewall, IpSetOpsProofs

(* Types of everything but the tracking set. *)
Scalars == /\ kernel \in Kernel
           /\ pc \in {"down", "made", "flushed", "up", "unjumped", "emptied"}
           /\ clock \in Nat /\ starts \in Nat /\ lost \in Nat
           /\ clean \in BOOLEAN /\ failed \in BOOLEAN

(* The tracking set is empty when no rule is known to be there. *)
TrackedByPoint == pc \notin {"up", "unjumped", "emptied"} => g_blocked_ips.entries = {}

(* Only what iptables accepted is tracked. *)
TrackedIsV4 == \A e \in g_blocked_ips.entries : e.ip \in Hosts /\ e.ip.family = "v4"

RulesInv == /\ Scalars /\ Good(g_blocked_ips, MaxSize) /\ V4Single(g_blocked_ips)
            /\ TrackedByPoint /\ TrackedIsV4 /\ TrackedHasRule

(* The chain is there between a start and its stop if no command failed,    *)
(* and is empty when it is about to be deleted.                             *)
ChainByPoint == ~failed =>
    /\ pc # "down" => kernel.chain
    /\ pc = "emptied" => kernel.drops = NoRules /\ kernel.limits = NoRules

ChainInv == Scalars /\ ChainByPoint /\ JumpsExact /\ StopRestores

-----------------------------------------------------------------------------
(* What a command leaves is a kernel state, and what it leaves alone. *)
LEMMA CommandTypes ==
    ASSUME NEW k \in Kernel
    PROVE  /\ NewChain(k) \in Kernel /\ FlushChain(k) \in Kernel
           /\ InsertJump(k) \in Kernel /\ DeleteJump(k) \in Kernel /\ DeleteChain(k) \in Kernel
           /\ \A ip \in Hosts : /\ InsertDrop(k, ip) \in Kernel
                                /\ DeleteDrop(k, ip) \in Kernel
                                /\ InsertLimit(k, ip) \in Kernel
<1>1. /\ k.chain \in BOOLEAN /\ k.jumps \in Nat
      /\ k.drops \in [Hosts -> Nat] /\ k.limits \in [Hosts -> Nat]
  BY DEF Kernel
<1>2. NoRules \in [Hosts -> Nat]
  BY DEF NoRules
<1>3. /\ NewChain(k) \in Kernel /\ FlushChain(k) \in Kernel /\ DeleteChain(k) \in Kernel
  BY <1>1, <1>2 DEF NewChain, FlushChain, DeleteChain, Kernel
<1>4. InsertJump(k) \in Kernel
  BY <1>1 DEF InsertJump, Kernel
<1>5. DeleteJump(k) \in Kernel
  <2>1. k.jumps > 0 => k.jumps - 1 \in Nat
    BY <1>1
  <2> QED BY <1>1, <2>1 DEF DeleteJump, Kernel
<1>6. ASSUME NEW ip \in Hosts
      PROVE  /\ InsertDrop(k, ip) \in Kernel /\ DeleteDrop(k, ip) \in Kernel
             /\ InsertLimit(k, ip) \in Kernel
  <2>1. /\ k.drops[ip] \in Nat /\ k.limits[ip] \in Nat
        /\ k.drops[ip] > 0 => k.drops[ip] - 1 \in Nat
    BY <1>1
  <2>2. /\ [k.drops EXCEPT ![ip] = @ + 1] \in [Hosts -> Nat]
        /\ [k.limits EXCEPT ![ip] = @ + 1] \in [Hosts -> Nat]
        /\ k.drops[ip] > 0 => [k.drops EXCEPT ![ip] = @ - 1] \in [Hosts -> Nat]
    BY <1>1, <2>1
  <2> QED BY <1>1, <2>2 DEF InsertDrop, DeleteDrop, InsertLimit, Kernel
<1> QED BY <1>3, <1>4, <1>5, <1>6

(* The types are kept by every step. *)
LEMMA ScalarsKept == Scalars /\ [Next]_vars => Scalars'
<1> SUFFICES ASSUME Scalars, [Next]_vars
             PROVE  Scalars'
  OBVIOUS
<1> USE DEF Scalars
<1>0. \A k \in Kernel, ok \in BOOLEAN : System(k, ok) => kernel' \in Kernel
  BY DEF System
<1>1. ASSUME NEW ok \in BOOLEAN, InitChain(ok) \/ InitFlush(ok) \/ InitJump(ok)
      PROVE  Scalars'
  <2>1. CASE InitChain(ok)
    BY <1>0, <2>1, CommandTypes DEF InitChain
  <2>2. CASE InitFlush(ok) \/ InitJump(ok)
    BY <1>0, <2>2, CommandTypes DEF InitFlush, InitJump
  <2> QED BY <1>1, <2>1, <2>2
<1>2. ASSUME NEW ok \in BOOLEAN, CleanupJump(ok) \/ CleanupFlush(ok) \/ CleanupDelete(ok)
      PROVE  Scalars'
  BY <1>0, <1>2, CommandTypes DEF CleanupJump, CleanupFlush, CleanupDelete
<1>3. ASSUME NEW ok \in BOOLEAN, firewall_flush_all(ok)
      PROVE  Scalars'
  BY <1>0, <1>3, CommandTypes DEF firewall_flush_all, history
<1>4. ASSUME NEW ok \in BOOLEAN, NEW ip \in Hosts,
             firewall_unblock_ip(ip, ok) \/ firewall_add_ratelimit(ip, ok)
      PROVE  Scalars'
  BY <1>0, <1>4, CommandTypes DEF firewall_unblock_ip, firewall_add_ratelimit, history
<1>5. ASSUME NEW ip \in Hosts, NEW d \in Durations, firewall_block_ip(ip, d)
      PROVE  Scalars'
  BY <1>5, CommandTypes DEF firewall_block_ip, history
<1>6. ASSUME Crash \/ Tick
      PROVE  Scalars'
  <2>1. CASE Crash
    <3>1. lost' \in Nat
      BY <2>1 DEF Crash, Own
    <3> QED BY <2>1, <3>1 DEF Crash
  <2>2. CASE Tick
    BY <2>2 DEF Tick, history
  <2> QED BY <1>6, <2>1, <2>2
<1>7. CASE UNCHANGED vars
  BY <1>7 DEF vars
<1> QED BY <1>1, <1>2, <1>3, <1>4, <1>5, <1>6, <1>7 DEF Next

-----------------------------------------------------------------------------
(* The tracking set stays good and single, and only accepted addresses are  *)
(* in it.                                                                   *)
LEMMA TrackingKept ==
    RulesInv /\ [Next]_vars => /\ Good(g_blocked_ips', MaxSize) /\ V4Single(g_blocked_ips')
                               /\ TrackedByPoint' /\ TrackedIsV4'
<1> SUFFICES ASSUME RulesInv, [Next]_vars
             PROVE  /\ Good(g_blocked_ips', MaxSize) /\ V4Single(g_blocked_ips')
                    /\ TrackedByPoint' /\ TrackedIsV4'
  OBVIOUS
<1>0. /\ Good(g_blocked_ips, MaxSize) /\ V4Single(g_blocked_ips)
      /\ TrackedByPoint /\ TrackedIsV4 /\ clock \in Nat /\ MaxSize \in Nat
  BY FirewallAssumption DEF RulesInv, Scalars
<1>1. ASSUME g_blocked_ips' = ipset_create
      PROVE  /\ Good(g_blocked_ips', MaxSize) /\ V4Single(g_blocked_ips')
             /\ TrackedByPoint' /\ TrackedIsV4'
  <2>1. g_blocked_ips'.entries = {}
    BY <1>1 DEF ipset_create
  <2>2. Good(g_blocked_ips', MaxSize)
    BY <1>0, <1>1, EmptyGood
  <2> QED BY <2>1, <2>2 DEF V4Single, TrackedByPoint, TrackedIsV4
<1>2. ASSUME g_blocked_ips' = g_blocked_ips,
             pc' = pc \/ pc' \in {"up", "unjumped", "emptied"} \/ pc = "made"
      PROVE  /\ Good(g_blocked_ips', MaxSize) /\ V4Single(g_blocked_ips')
             /\ TrackedByPoint' /\ TrackedIsV4'
  BY <1>0, <1>2 DEF TrackedByPoint, TrackedIsV4
<1>3. ASSUME NEW ok \in BOOLEAN,
             InitFlush(ok) \/ InitJump(ok) \/ CleanupJump(ok) \/ CleanupFlush(ok)
      PROVE  /\ g_blocked_ips' = g_blocked_ips
             /\ pc' \in {"up", "unjumped", "emptied"} \/ pc = "made"
  BY <1>3 DEF InitFlush, InitJump, CleanupJump, CleanupFlush
<1>4. ASSUME NEW ok \in BOOLEAN, InitChain(ok) \/ CleanupDelete(ok) \/ firewall_flush_all(ok)
      PROVE  g_blocked_ips' = ipset_create
  BY <1>4 DEF InitChain, CleanupDelete, firewall_flush_all, ipset_clear
<1>5. ASSUME NEW ok \in BOOLEAN, NEW ip \in Hosts, firewall_unblock_ip(ip, ok)
      PROVE  /\ Good(g_blocked_ips', MaxSize) /\ V4Single(g_blocked_ips')
             /\ TrackedByPoint' /\ TrackedIsV4'
  <2>1. g_blocked_ips' = ipset_remove(g_blocked_ips, ip) /\ pc' = "up" /\ ip \in IpAddr
    BY <1>5, FirewallAssumption DEF firewall_unblock_ip
  <2>2. g_blocked_ips'.entries \subseteq g_blocked_ips.entries
    BY <1>0, <2>1, RemoveSingle
  <2>3. Good(g_blocked_ips', MaxSize)
    BY <1>0, <2>1, RemoveGood
  <2> QED BY <1>0, <2>1, <2>2, <2>3 DEF V4Single, TrackedByPoint, TrackedIsV4
<1>6. ASSUME NEW ip \in Hosts, NEW d \in Durations, firewall_block_ip(ip, d)
      PROVE  /\ Good(g_blocked_ips', MaxSize) /\ V4Single(g_blocked_ips')
             /\ TrackedByPoint' /\ TrackedIsV4'
  <2>1. /\ g_blocked_ips' = ipset_add_expiring(g_blocked_ips, MaxSize, ip, Expires(d))
        /\ pc' = "up" /\ ip \in IpAddr /\ ip.family = "v4"
    BY <1>6, FirewallAssumption DEF firewall_block_ip
  <2>2. Expires(d) \in Nat
    BY <1>0, FirewallAssumption DEF Expires
  <2>3. /\ V4Single(g_blocked_ips')
        /\ \A e \in g_blocked_ips'.entries :
               e.ip = ip \/ \E f \in g_blocked_ips.entries : f.ip = e.ip
    BY <1>0, <2>1, <2>2, AddSingle
  <2>4. Good(g_blocked_ips', MaxSize)
    BY <1>0, <2>1, <2>2, AddGood
  <2> QED BY <1>0, <2>1, <2>3, <2>4 DEF TrackedByPoint, TrackedIsV4
<1>7. ASSUME NEW ok \in BOOLEAN, NEW ip \in Hosts, firewall_add_ratelimit(ip, ok)
      PROVE  g_blocked_ips' = g_blocked_ips /\ pc' = pc
  BY <1>7 DEF firewall_add_ratelimit
<1>8. Crash => g_blocked_ips' = ipset_create
  BY DEF Crash
<1>9. Tick \/ UNCHANGED vars => g_blocked_ips' = g_blocked_ips /\ pc' = pc
  BY DEF Tick, vars
<1> QED BY <1>1, <1>2, <1>3, <1>4, <1>5, <1>6, <1>7, <1>8, <1>9 DEF Next

(* A tracked address has a rule after every step. *)
LEMMA RulesKept == RulesInv /\ [Next]_vars => TrackedHasRule'
<1> SUFFICES ASSUME RulesInv, [Next]_vars, pc' \in {"up", "unjumped"},
                    NEW e \in g_blocked_ips'.entries
             PROVE  kernel'.drops[e.ip] > 0
  BY DEF TrackedHasRule
<1>0. /\ Good(g_blocked_ips, MaxSize) /\ V4Single(g_blocked_ips)
      /\ TrackedByPoint /\ TrackedIsV4 /\ TrackedHasRule
      /\ kernel \in Kernel /\ clock \in Nat /\ MaxSize \in Nat
  BY FirewallAssumption DEF RulesInv, Scalars
<1>1. ASSUME pc \in {"up", "unjumped"}, kernel'.drops = kernel.drops,
             g_blocked_ips' = g_blocked_ips
      PROVE  kernel'.drops[e.ip] > 0
  BY <1>0, <1>1 DEF TrackedHasRule
<1>2. ASSUME g_blocked_ips'.entries = {}
      PROVE  FALSE
  BY <1>2
<1>3. ASSUME NEW ok \in BOOLEAN, InitJump(ok)
      PROVE  g_blocked_ips'.entries = {}
  BY <1>0, <1>3 DEF InitJump, TrackedByPoint
<1>4. ASSUME NEW ok \in BOOLEAN,
             InitChain(ok) \/ InitFlush(ok) \/ CleanupFlush(ok) \/ CleanupDelete(ok)
      PROVE  FALSE
  BY <1>4 DEF InitChain, InitFlush, CleanupFlush, CleanupDelete
<1>5. ASSUME NEW ok \in BOOLEAN, CleanupJump(ok)
      PROVE  /\ pc \in {"up", "unjumped"} /\ kernel'.drops = kernel.drops
             /\ g_blocked_ips' = g_blocked_ips
  BY <1>0, <1>5 DEF CleanupJump, System, DeleteJump, Kernel
<1>6. ASSUME NEW ok \in BOOLEAN, NEW ip \in Hosts, firewall_add_ratelimit(ip, ok)
      PROVE  /\ pc \in {"up", "unjumped"} /\ kernel'.drops = kernel.drops
             /\ g_blocked_ips' = g_blocked_ips
  BY <1>0, <1>6 DEF firewall_add_ratelimit, System, InsertLimit, Kernel
<1>7. ASSUME NEW ok \in BOOLEAN, firewall_flush_all(ok)
      PROVE  g_blocked_ips'.entries = {}
  BY <1>7 DEF firewall_flush_all, ipset_clear, ipset_create
<1>8. ASSUME NEW ok \in BOOLEAN, NEW ip \in Hosts, firewall_unblock_ip(ip, ok)
      PROVE  kernel'.drops[e.ip] > 0
  <2>1. ip \in IpAddr /\ g_blocked_ips' = ipset_remove(g_blocked_ips, ip)
        /\ pc = "up" /\ (kernel' = kernel \/ kernel' = DeleteDrop(kernel, ip))
    BY <1>8, FirewallAssumption DEF firewall_unblock_ip, System
  <2>2. e \in g_blocked_ips.entries /\ (ip.family = "v4" => e.ip # ip)
    BY <1>0, <2>1, RemoveSingle
  <2>3. kernel.drops[e.ip] > 0 /\ e.ip # ip /\ e.ip \in Hosts
    BY <1>0, <2>1, <2>2 DEF TrackedHasRule, TrackedIsV4
  <2>4. kernel'.drops[e.ip] = kernel.drops[e.ip]
    BY <1>0, <2>1, <2>3 DEF DeleteDrop, Kernel
  <2> QED BY <2>3, <2>4
<1>9. ASSUME NEW ip \in Hosts, NEW d \in Durations, firewall_block_ip(ip, d)
      PROVE  kernel'.drops[e.ip] > 0
  <2>1. /\ g_blocked_ips' = ipset_add_expiring(g_blocked_ips, MaxSize, ip, Expires(d))
        /\ kernel' = InsertDrop(kernel, ip) /\ pc = "up" /\ ip \in IpAddr
    BY <1>9, FirewallAssumption DEF firewall_block_ip
  <2>2. Expires(d) \in Nat
    BY <1>0, FirewallAssumption DEF Expires
  <2>3. e.ip = ip \/ \E f \in g_blocked_ips.entries : f.ip = e.ip
    BY <1>0, <2>1, <2>2, AddSingle
  <2>4. e.ip = ip \/ (e.ip \in Hosts /\ kernel.drops[e.ip] > 0)
    BY <1>0, <2>1, <2>3 DEF TrackedHasRule, TrackedIsV4
  <2>5. kernel'.drops = [kernel.drops EXCEPT ![ip] = @ + 1] /\ kernel.drops \in [Hosts -> Nat]
    BY <1>0, <2>1 DEF InsertDrop, Kernel
  <2> QED BY <2>4, <2>5
<1>10. Crash => pc' = "down"
  BY DEF Crash
<1>11. Tick \/ UNCHANGED vars
       => pc = pc' /\ kernel'.drops = kernel.drops /\ g_blocked_ips' = g_blocked_ips
  BY DEF Tick, vars
<1> QED BY <1>1, <1>2, <1>3, <1>4, <1>5, <1>6, <1>7, <1>8, <1>9, <1>10, <1>11 DEF Next

-----------------------------------------------------------------------------
(* Chain, jumps and what a stop leaves, after every step. *)
LEMMA ChainKept == ChainInv /\ [Next]_vars => ChainInv'
<1> SUFFICES ASSUME ChainInv, [Next]_vars
             PROVE  ChainByPoint' /\ JumpsExact' /\ StopRestores'
  BY ScalarsKept DEF ChainInv
<1>0. /\ kernel \in Kernel /\ lost \in Nat /\ kernel.jumps \in Nat
      /\ kernel.drops \in [Hosts -> Nat] /\ kernel.limits \in [Hosts -> Nat]
      /\ kernel.chain \in BOOLEAN /\ DOMAIN kernel = {"chain", "jumps", "drops", "limits"}
      /\ ChainByPoint /\ JumpsExact /\ StopRestores /\ failed \in BOOLEAN
  BY DEF ChainInv, Scalars, Kernel
<1>1. ASSUME NEW ok \in BOOLEAN, NEW k, System(k, ok), failed' = (failed \/ ~ok), ~failed'
      PROVE  kernel' = k /\ ~failed
  BY <1>0, <1>1 DEF System
<1>2. ASSUME failed'
      PROVE  ChainByPoint' /\ JumpsExact' /\ StopRestores'
  BY <1>2 DEF ChainByPoint, JumpsExact, StopRestores
<1>3. ASSUME NEW ok \in BOOLEAN, InitChain(ok), ~failed'
      PROVE  ChainByPoint' /\ JumpsExact' /\ StopRestores'
  <2>1. kernel' = NewChain(kernel) /\ ~failed /\ pc = "down" /\ pc' = "made" /\ lost' = lost
    BY <1>1, <1>3 DEF InitChain
  <2>2. kernel'.chain /\ kernel'.jumps = kernel.jumps
    BY <1>0, <2>1 DEF NewChain
  <2> QED BY <1>0, <2>1, <2>2 DEF ChainByPoint, JumpsExact, StopRestores, Own
<1>4. ASSUME NEW ok \in BOOLEAN, InitFlush(ok), ~failed'
      PROVE  ChainByPoint' /\ JumpsExact' /\ StopRestores'
  <2>1. kernel' = FlushChain(kernel) /\ ~failed /\ pc = "made" /\ pc' = "flushed" /\ lost' = lost
    BY <1>1, <1>4 DEF InitFlush
  <2>2. kernel'.chain = kernel.chain /\ kernel'.jumps = kernel.jumps
    BY <1>0, <2>1 DEF FlushChain
  <2> QED BY <1>0, <2>1, <2>2 DEF ChainByPoint, JumpsExact, StopRestores, Own
<1>5. ASSUME NEW ok \in BOOLEAN, InitJump(ok), ~failed'
      PROVE  ChainByPoint' /\ JumpsExact' /\ StopRestores'
  <2>1. kernel' = InsertJump(kernel) /\ ~failed /\ pc = "flushed" /\ pc' = "up" /\ lost' = lost
    BY <1>1, <1>5 DEF InitJump
  <2>2. kernel.chain
    BY <1>0, <2>1 DEF ChainByPoint
  <2>3. kernel'.chain = kernel.chain /\ kernel'.jumps = kernel.jumps + 1
    BY <1>0, <2>1, <2>2 DEF InsertJump
  <2> QED BY <1>0, <2>1, <2>2, <2>3 DEF ChainByPoint, JumpsExact, StopRestores, Own
<1>6. ASSUME NEW ok \in BOOLEAN, CleanupJump(ok), ~failed'
      PROVE  ChainByPoint' /\ JumpsExact' /\ StopRestores'
  <2>1. kernel' = DeleteJump(kernel) /\ ~failed /\ pc = "up" /\ pc' = "unjumped" /\ lost' = lost
    BY <1>1, <1>6 DEF CleanupJump
  <2>2. kernel.chain /\ kernel.jumps = lost + 1
    BY <1>0, <2>1 DEF ChainByPoint, JumpsExact, Own
  <2>3. kernel' = [kernel EXCEPT !.jumps = @ - 1]
    <3>1. kernel.jumps > 0
      BY <1>0, <2>2
    <3> QED BY <2>1, <3>1 DEF DeleteJump
  <2>4. kernel'.chain = kernel.chain /\ kernel'.jumps = kernel.jumps - 1
    BY <1>0, <2>3
  <2> QED BY <1>0, <2>1, <2>2, <2>4 DEF ChainByPoint, JumpsExact, StopRestores, Own
<1>7. ASSUME NEW ok \in BOOLEAN, CleanupFlush(ok), ~failed'
      PROVE  ChainByPoint' /\ JumpsExact' /\ StopRestores'
  <2>1. kernel' = FlushChain(kernel) /\ ~failed /\ pc = "unjumped" /\ pc' = "emptied"
        /\ lost' = lost
    BY <1>1, <1>7 DEF CleanupFlush
  <2>2. /\ kernel'.chain = kernel.chain /\ kernel'.jumps = kernel.jumps
        /\ kernel'.drops = NoRules /\ kernel'.limits = NoRules
    BY <1>0, <2>1 DEF FlushChain
  <2> QED BY <1>0, <2>1, <2>2 DEF ChainByPoint, JumpsExact, StopRestores, Own
<1>8. ASSUME NEW ok \in BOOLEAN, CleanupDelete(ok), ~failed'
      PROVE  ChainByPoint' /\ JumpsExact' /\ StopRestores'
  <2>1. kernel' = DeleteChain(kernel) /\ ~failed /\ pc = "emptied" /\ pc' = "down"
        /\ lost' = lost
    BY <1>1, <1>8 DEF CleanupDelete
  <2>2. kernel.chain /\ kernel.jumps = lost /\ kernel.drops = NoRules /\ kernel.limits = NoRules
    BY <1>0, <2>1 DEF ChainByPoint, JumpsExact, Own
  <2>3. /\ kernel'.jumps = kernel.jumps /\ (kernel'.chain <=> kernel.jumps > 0)
        /\ kernel'.drops = NoRules /\ kernel'.limits = NoRules
    BY <1>0, <2>1, <2>2 DEF DeleteChain
  <2> QED BY <1>0, <2>1, <2>2, <2>3 DEF ChainByPoint, JumpsExact, StopRestores, Own
<1>9. ASSUME pc = "up", pc' = pc, UNCHANGED history,
             kernel'.chain = kernel.chain, kernel'.jumps = kernel.jumps
      PROVE  ChainByPoint' /\ JumpsExact' /\ StopRestores'
  BY <1>0, <1>9 DEF ChainByPoint, JumpsExact, StopRestores, Own, history
<1>10. ASSUME NEW ok \in BOOLEAN, firewall_flush_all(ok)
       PROVE  /\ pc = "up" /\ pc' = pc /\ UNCHANGED history
              /\ kernel'.chain = kernel.chain /\ kernel'.jumps = kernel.jumps
  BY <1>0, <1>10 DEF firewall_flush_all, System, FlushChain
<1>11. ASSUME NEW ok \in BOOLEAN, NEW ip \in Hosts,
              firewall_unblock_ip(ip, ok) \/ firewall_add_ratelimit(ip, ok)
       PROVE  /\ pc = "up" /\ pc' = pc /\ UNCHANGED history
              /\ kernel'.chain = kernel.chain /\ kernel'.jumps = kernel.jumps
  BY <1>0, <1>11
     DEF firewall_unblock_ip, firewall_add_ratelimit, System, DeleteDrop, InsertLimit
<1>12. ASSUME NEW ip \in Hosts, NEW d \in Durations, firewall_block_ip(ip, d)
       PROVE  /\ pc = "up" /\ pc' = pc /\ UNCHANGED history
              /\ kernel'.chain = kernel.chain /\ kernel'.jumps = kernel.jumps
  BY <1>0, <1>12 DEF firewall_block_ip, InsertDrop
<1>13. ASSUME Crash
       PROVE  ChainByPoint' /\ JumpsExact' /\ StopRestores'
  <2>1. /\ kernel' = kernel /\ failed' = failed /\ pc' = "down" /\ ~clean'
        /\ lost' = lost + Own
    BY <1>13 DEF Crash
  <2>2. JumpsExact'
    BY <1>0, <2>1 DEF JumpsExact, Own
  <2> QED BY <2>1, <2>2 DEF ChainByPoint, StopRestores
<1>14. CASE Tick \/ UNCHANGED vars
  <2>1. UNCHANGED <<kernel, pc, lost, clean, failed>>
    BY <1>14 DEF Tick, vars, history
  <2> QED BY <1>0, <2>1 DEF ChainByPoint, JumpsExact, StopRestores, Own
<1> QED BY <1>2, <1>3, <1>4, <1>5, <1>6, <1>7, <1>8, <1>9, <1>10, <1>11, <1>12, <1>13, <1>14
        DEF Next

-----------------------------------------------------------------------------
(* The types hold at the start. *)
LEMMA InitialTypes == Init => Scalars /\ Good(g_blocked_ips, MaxSize)
<1> SUFFICES ASSUME Init
             PROVE  Scalars /\ Good(g_blocked_ips, MaxSize)
  OBVIOUS
<1>1. MaxSize \in Nat
  BY FirewallAssumption
<1>2. Good(g_blocked_ips, MaxSize)
  BY <1>1, EmptyGood DEF Init
<1>3. kernel \in Kernel
  BY DEF Init, Kernel, NoRules
<1> QED BY <1>2, <1>3 DEF Init, Scalars

(* The invariant about the tracking set and the rules holds always. *)
THEOREM RulesInvCorrect == Spec => []RulesInv
<1>1. Init => RulesInv
  BY InitialTypes DEF Init, RulesInv, V4Single, TrackedByPoint, TrackedIsV4, TrackedHasRule,
                      ipset_create
<1>2. RulesInv /\ [Next]_vars => RulesInv'
  BY ScalarsKept, TrackingKept, RulesKept DEF RulesInv
<1> QED BY <1>1, <1>2, PTL DEF Spec

(* Every variable keeps its type, the tracking set's count in particular. *)
THEOREM TypeCorrect == Spec => []TypeOK
<1>1. RulesInv => TypeOK
  BY DEF RulesInv, Scalars, Good, TypeOK
<1> QED BY <1>1, RulesInvCorrect, PTL

(* An address that firewall_is_blocked can report has a DROP rule in the    *)
(* kernel, for any hosts, durations, capacity and failing commands          *)
(* (firewall.c:84, 106).                                                    *)
THEOREM TrackedCorrect == Spec => []TrackedHasRule
<1>1. RulesInv => TrackedHasRule
  BY DEF RulesInv
<1> QED BY <1>1, RulesInvCorrect, PTL

(* The invariant about the chain holds always. *)
THEOREM ChainInvCorrect == Spec => []ChainInv
<1>1. Init => ChainInv
  BY InitialTypes DEF Init, ChainInv, ChainByPoint, JumpsExact, StopRestores, Own
<1> QED BY <1>1, ChainKept, PTL DEF Spec

(* The jumps add up: INPUT has one per process that went without its        *)
(* cleanup, and the running one's, after any number of starts, stops and    *)
(* crashes (firewall.c:31, 47).  This is more than the one jump of the      *)
(* documented chain structure (OneJump), which TLC refutes.                 *)
THEOREM JumpsCorrect == Spec => []JumpsExact
<1>1. ChainInv => JumpsExact
  BY DEF ChainInv
<1> QED BY <1>1, ChainInvCorrect, PTL

(* After a stop through firewall_cleanup no rule is left, and no chain      *)
(* unless a crash's jump refers to it (firewall.c:45-50).                   *)
THEOREM StopCorrect == Spec => []StopRestores
<1>1. ChainInv => StopRestores
  BY DEF ChainInv
<1> QED BY <1>1, ChainInvCorrect, PTL
=============================================================================
