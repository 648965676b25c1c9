---------------------------- MODULE RateLimiter -----------------------------
(***************************************************************************)
(* The rate limiter of src/src/filter/ratelimit.c.  A caller reads the     *)
(* clock (Enter), then waits for the lock of the address's bucket and does *)
(* the rest under it, in one action: its time may be old by then.          *)
(*                                                                         *)
(* get_or_create_entry reuses pps_window as the chain's next pointer.  The *)
(* first entry of a bucket thus has no packet window: it is created, lost  *)
(* and never counted in.  For a second entry the older one is taken for a  *)
(* window, and rate_limiter_destroy frees an entry and goes on with it:    *)
(* both are undefined, and end the behaviour.                              *)
(***************************************************************************)
EXTENDS Integers, FiniteSets, FiniteSetsExt, Functions

CONSTANTS IPs,
          Hash,             \* ip_hash_simple
          Clients,          \* the callers
          Sizes,            \* packet sizes
          WindowSize,       \* window_size, in seconds
          MaxBps, MaxPps,
          Absent,
          MaxTime, MaxCalls     \* bounds of the runs

ASSUME RateAssumption ==
    /\ IPs # {} /\ DOMAIN Hash = IPs
    /\ Sizes \subseteq Nat /\ WindowSize \in Nat \ {0}
    /\ {MaxBps, MaxPps, MaxTime, MaxCalls} \subseteq Nat

Slots == 0..(WindowSize - 1)
Window == [buckets : [Slots -> Nat], current_idx : Slots, window_start : Nat]
Call == [ip : IPs, size : Sizes, now : Nat]
ASSUME AbsentAssumption == Absent \notin Window \cup Call \cup IPs

VARIABLES bps,          \* each address's entry: its bps_window, or Absent
          call,         \* each thread's call of rate_limiter_allow, or Absent
          clock,
          undefined,
          last,         \* history: the last verdict, and the second it counted in
          calls,        \* history: calls
          sent,         \* history: bytes by the second their caller read
          counted       \* history: bytes by the second they were counted in

rateVars == <<bps, call, clock, undefined, last, calls, sent, counted>>

-----------------------------------------------------------------------------
(* x % size, for x < 2 * size. *)
Mod(x) == IF x < WindowSize THEN x ELSE x - WindowSize

sliding_window_create(now) ==
    [buckets |-> [i \in Slots |-> 0], current_idx |-> 0, window_start |-> now]

(* Mutant: one bucket too few is cleared on the way. *)
Mut_sliding_window_add(w, value, now) ==
    LET diff == now - w.window_start
        idx  == Mod(w.current_idx + diff)
        passed == {Mod(w.current_idx + k) : k \in 1..(diff - 1)}
    IN  CASE diff >= WindowSize ->
               [buckets |-> [i \in Slots |-> IF i = 0 THEN value ELSE 0],
                current_idx |-> 0, window_start |-> now]
          [] diff > 0 /\ diff < WindowSize ->
               [buckets |-> [i \in Slots |-> (IF i \in passed THEN 0 ELSE w.buckets[i])
                                             + (IF i = idx THEN value ELSE 0)],
                current_idx |-> idx, window_start |-> now]
          [] diff <= 0 -> [w EXCEPT !.buckets[w.current_idx] = @ + value]

(* The index goes on second by second and clears what it passes; a time  *)
(* before window_start counts as the same second.                        *)
sliding_window_add(w, value, now) ==
    LET diff == now - w.window_start
        idx  == Mod(w.current_idx + diff)
        passed == {Mod(w.current_idx + k) : k \in 1..diff}
    IN  CASE diff >= WindowSize ->
               [buckets |-> [i \in Slots |-> IF i = 0 THEN value ELSE 0],
                current_idx |-> 0, window_start |-> now]
          [] diff > 0 /\ diff < WindowSize ->
               [buckets |-> [i \in Slots |-> (IF i \in passed THEN 0 ELSE w.buckets[i])
                                             + (IF i = idx THEN value ELSE 0)],
                current_idx |-> idx, window_start |-> now]
          [] diff <= 0 -> [w EXCEPT !.buckets[w.current_idx] = @ + value]

(* Mutant: the window is over one second early. *)
Mut_sliding_window_sum(w, now) ==
    IF now - w.window_start >= WindowSize - 1 THEN 0
    ELSE MapThenSumSet(LAMBDA i : w.buckets[i], Slots)

(* Mutant: the window is over one second late. *)
MutSumLate(w, now) ==
    IF now - w.window_start > WindowSize THEN 0
    ELSE MapThenSumSet(LAMBDA i : w.buckets[i], Slots)

(* All buckets, however far now is from the window's last second. *)
sliding_window_sum(w, now) ==
    IF now - w.window_start >= WindowSize THEN 0
    ELSE MapThenSumSet(LAMBDA i : w.buckets[i], Slots)

-----------------------------------------------------------------------------
Nothing == [t \in 0..MaxTime |-> 0]
NoVerdict == [ip |-> Absent, second |-> 0, allowed |-> TRUE]

(* rate_limiter_create. *)
RateInit == /\ bps = [ip \in IPs |-> Absent] /\ call = [th \in Clients |-> Absent]
            /\ clock = 0 /\ undefined = FALSE /\ last = NoVerdict
            /\ calls = 0
            /\ sent = [ip \in IPs |-> Nothing] /\ counted = [ip \in IPs |-> Nothing]

(* rate_limiter_allow up to the lock: the hash and now. *)
Enter(th, ip, size) ==
    /\ ~undefined /\ call[th] = Absent /\ calls < MaxCalls
    /\ call' = [call EXCEPT ![th] = [ip |-> ip, size |-> size, now |-> clock]]
    /\ calls' = calls + 1
    /\ UNCHANGED <<bps, clock, undefined, last, sent, counted>>

Waiting(th) == ~undefined /\ call[th] # Absent

Colliding(ip) == \E other \in IPs \ {ip} : Hash[other] = Hash[ip] /\ bps[other] # Absent

(* The checks of rate_limiter_allow; the packet window is NULL and its sum 0. *)
Allowed(w, now) == /\ 0 <= MaxPps
                   /\ sliding_window_sum(w, now) \div WindowSize <= MaxBps

(* Mutant: the limits are checked before the packet is counted. *)
MutAllow(th, w) ==
    LET c == call[th]
        v == sliding_window_add(w, c.size, c.now)
    IN  /\ bps' = [bps EXCEPT ![c.ip] = v]
        /\ last' = [ip |-> c.ip, second |-> v.window_start, allowed |-> Allowed(w, c.now)]
        /\ sent' = [sent EXCEPT ![c.ip][c.now] = @ + c.size]
        /\ counted' = [counted EXCEPT ![c.ip][v.window_start] = @ + c.size]
        /\ call' = [call EXCEPT ![th] = Absent]

(* The counters and the verdict on an entry whose byte window is w. *)
Allow(th, w) ==
    LET c == call[th]
        v == sliding_window_add(w, c.size, c.now)
    IN  /\ bps' = [bps EXCEPT ![c.ip] = v]
        /\ last' = [ip |-> c.ip, second |-> v.window_start, allowed |-> Allowed(v, c.now)]
        /\ sent' = [sent EXCEPT ![c.ip][c.now] = @ + c.size]
        /\ counted' = [counted EXCEPT ![c.ip][v.window_start] = @ + c.size]
        /\ call' = [call EXCEPT ![th] = Absent]

(* rate_limiter_allow under the lock, on an address that has an entry. *)
AllowKnown(th) ==
    /\ Waiting(th) /\ bps[call[th].ip] # Absent
    /\ Allow(th, bps[call[th].ip])
    /\ UNCHANGED <<clock, undefined, calls>>

(* ... on one that gets an entry: its packet window is overwritten. *)
AllowNew(th) ==
    /\ Waiting(th) /\ bps[call[th].ip] = Absent /\ ~Colliding(call[th].ip)
    /\ Allow(th, sliding_window_create(clock))
    /\ UNCHANGED <<clock, undefined, calls>>

(* ... on one whose bucket has an entry already. *)
AllowCollision(th) ==
    /\ Waiting(th) /\ bps[call[th].ip] = Absent /\ Colliding(call[th].ip)
    /\ undefined' = TRUE
    /\ UNCHANGED <<bps, call, clock, last, calls, sent, counted>>

(* ... when an allocation fails: fail open, and nothing is kept. *)
AllowStarved(th) ==
    /\ Waiting(th) /\ bps[call[th].ip] = Absent
    /\ last' = NoVerdict
    /\ call' = [call EXCEPT ![th] = Absent]
    /\ UNCHANGED <<bps, clock, undefined, calls, sent, counted>>

(* The bucket's only entry: its byte window is freed, its packet window is NULL. *)
rate_limiter_reset(ip) ==
    /\ ~undefined /\ bps[ip] # Absent
    /\ bps' = [bps EXCEPT ![ip] = Absent]
    /\ sent' = [sent EXCEPT ![ip] = Nothing] /\ counted' = [counted EXCEPT ![ip] = Nothing]
    /\ last' = NoVerdict
    /\ UNCHANGED <<call, clock, undefined, calls>>

(* rate_limiter_destroy with an entry left frees that entry again. *)
rate_limiter_destroy ==
    /\ ~undefined /\ \E ip \in IPs : bps[ip] # Absent
    /\ undefined' = TRUE
    /\ UNCHANGED <<bps, call, clock, last, calls, sent, counted>>

Tick == /\ ~undefined /\ clock < MaxTime /\ clock' = clock + 1
        /\ UNCHANGED <<bps, call, undefined, last, calls, sent, counted>>

(* rate_limiter_update does nothing; get_pps and get_bps only read. *)
RateNext == \/ \E th \in Clients :
                  \/ \E ip \in IPs, size \in Sizes : Enter(th, ip, size)
                  \/ AllowKnown(th) \/ AllowNew(th) \/ AllowCollision(th) \/ AllowStarved(th)
            \/ \E ip \in IPs : rate_limiter_reset(ip)
            \/ rate_limiter_destroy \/ Tick

RateSpec == RateInit /\ [][RateNext]_rateVars

-----------------------------------------------------------------------------
(* What history h of an address says of a second, and of the WindowSize      *)
(* seconds up to it.                                                         *)
At(h, t) == IF t \in 0..MaxTime THEN h[t] ELSE 0
UpTo(h, t) == MapThenSumSet(LAMBDA s : h[s], ((t - WindowSize + 1)..t) \cap 0..MaxTime)

Since(h, t) == MapThenSumSet(LAMBDA s : h[s], {s \in 0..MaxTime : t <= s})

(* rate_limiter_get_bps. *)
rate_limiter_get_bps(ip, now) ==
    IF bps[ip] = Absent THEN 0 ELSE sliding_window_sum(bps[ip], now) \div WindowSize

(* Every variable has its type. *)
RateTypeOK == /\ bps \in [IPs -> Window \cup {Absent}]
              /\ call \in [Clients -> Call \cup {Absent}] /\ clock \in 0..MaxTime
              /\ calls \in Nat /\ undefined \in BOOLEAN
              /\ last \in [ip : IPs \cup {Absent}, second : Nat, allowed : BOOLEAN]
              /\ {sent, counted} \subseteq [IPs -> [0..MaxTime -> Nat]]

(* The ring holds the last WindowSize seconds: k places behind the current  *)
(* index are the bytes counted k seconds before window_start, whatever      *)
(* pauses, wraps, late callers and resets came before (ratelimit.c:78-108). *)
WindowExact == \A ip \in IPs : bps[ip] # Absent =>
    \A k \in Slots : LET w == bps[ip] IN
        w.buckets[Mod(w.current_idx - k + WindowSize)] = At(counted[ip], w.window_start - k)

(* The verdict of rate_limiter_allow is the byte limit on what was counted  *)
(* for the address in the WindowSize seconds up to the one its packet was   *)
(* counted in, that packet included (:267-279).                             *)
VerdictExact == [][last'.ip \in IPs /\ counted' # counted =>
    (last'.allowed <=> UpTo(counted'[last'.ip], last'.second) \div WindowSize <= MaxBps)]_rateVars

(* A reader of rate_limiter_get_bps, however old the time it read before it *)
(* got the lock, is never told less than what callers of the last           *)
(* WindowSize seconds sent (:318-341).                                      *)
RateNotUnderstated == \A ip \in IPs, now \in 0..clock : bps[ip] # Absent =>
    UpTo(sent[ip], clock) \div WindowSize <= rate_limiter_get_bps(ip, now)

(* A reader adds up all places of the ring, also those that have left the   *)
(* window since its last packet, but is told of nothing counted two windows *)
(* ago or earlier (:110-124, :318-341).                                     *)
RateNotStale == \A ip \in IPs, now \in 0..clock : bps[ip] # Absent =>
    rate_limiter_get_bps(ip, now) <= Since(counted[ip], now - 2 * WindowSize + 2) \div WindowSize
=============================================================================
