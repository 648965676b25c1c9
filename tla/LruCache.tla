------------------------------ MODULE LruCache ------------------------------
(***************************************************************************)
(* The connection cache of src/src/storage/lru_cache.c with its two users: *)
(* the packet thread (tcp_protect_analyze) and the cleanup thread of       *)
(* main.c.  Entries are heap blocks linked by lru_prev and lru_next.       *)
(*                                                                         *)
(* lru_cache_get, _update and _remove hold cache->lock throughout, so each *)
(* is one step.  lru_cache_cleanup_expired holds it for the whole sweep,   *)
(* but the packet thread writes to the entry lru_cache_get returned        *)
(* without the lock, so the sweep is modelled entry by entry, the expiry   *)
(* test apart from the removal.                                            *)
(*                                                                         *)
(* hashtable_remove frees the entry it unlinks and each of its three       *)
(* callers here frees it again.  The second free of a block is undefined:  *)
(* the allocator either detects it and aborts the process or accepts it.   *)
(* A use of a freed entry ends the modelled behaviour (proc "undefined").  *)
(* The hash table is a map here: hashtable_insert is only called for keys  *)
(* that are absent, under cache->lock (Hashtable.tla has its details).     *)
(***************************************************************************)
EXTENDS Integers, FiniteSets

CONSTANTS Keys,         \* connection tuples
          Proto,        \* Keys -> protocol of the tuple
          Blocks,       \* heap blocks for conn_entry_t
          NULL,         \* the null pointer
          MaxSize,      \* cache->max_size
          SynTimeout, EstablishedTimeout, FinTimeout, UdpTimeout, IcmpTimeout,
          SlowAge,      \* the least age of a slow connection, 30 s
          MaxTime       \* bound on the clock

TcpStates == {"SYN_SENT", "SYN_RECEIVED", "ESTABLISHED", "FIN_WAIT", "CLOSE_WAIT", "CLOSED"}
Flags == {"syn", "synack", "ack", "rst", "fin", "none"}

(* NULL is no block; the cache holds at least one entry (LRU_CACHE_SIZE). *)
ASSUME LruAssumption ==
    /\ NULL \notin Blocks /\ NULL \notin Keys /\ IsFiniteSet(Blocks)
    /\ MaxSize \in Nat \ {0}
    /\ Proto \in [Keys -> {"tcp", "udp", "icmp", "other"}]
    /\ SynTimeout \in Nat /\ EstablishedTimeout \in Nat /\ FinTimeout \in Nat
    /\ UdpTimeout \in Nat /\ IcmpTimeout \in Nat
    /\ SlowAge \in Nat /\ MaxTime \in Nat

VARIABLES table,                \* Keys -> block in the hash table, or NULL
          tuple,                \* Blocks -> key of the entry, NULL: not allocated
          lru_prev, lru_next,   \* Blocks -> neighbour or NULL
          last_seen, first_seen, state,     \* Blocks -> fields of the entry
          head, tail, current_size,
          wpc, held, got,       \* packet thread: place, conn, when it got conn
          cpc, cnow, cursor,    \* cleanup thread: place, `now`, `entry`
          now,                  \* time(NULL)
          proc                  \* "running", "aborted", "undefined", "destroyed"

links   == <<lru_prev, lru_next, head, tail>>
fields  == <<last_seen, first_seen, state>>
worker  == <<wpc, held, got>>
cleaner == <<cpc, cnow, cursor>>
vars == <<table, tuple, links, fields, current_size, worker, cleaner, now, proc>>

Init == /\ table = [k \in Keys |-> NULL]
        /\ tuple = [b \in Blocks |-> NULL]
        /\ lru_prev = [b \in Blocks |-> NULL] /\ lru_next = [b \in Blocks |-> NULL]
        /\ last_seen = [b \in Blocks |-> 0] /\ first_seen = [b \in Blocks |-> 0]
        /\ state = [b \in Blocks |-> "CLOSED"]
        /\ head = NULL /\ tail = NULL /\ current_size = 0
        /\ wpc = "idle" /\ held = NULL /\ got = 0
        /\ cpc = "asleep" /\ cnow = 0 /\ cursor = NULL
        /\ now = 0 /\ proc = "running"

(* The allocated blocks.  A freed block is blank, as calloc will return it  *)
(* again: nothing defined can be read from it.                              *)
Live == {b \in Blocks : tuple[b] # NULL}

(* Mutant: nobody waits for the sweep. *)
MutLockFree == TRUE

(* cache->lock is held across steps only by a sweep. *)
LockFree == cpc \in {"asleep", "woke"}

Running == proc = "running"

-----------------------------------------------------------------------------
(* Pointer updates.  Tests such as `if (entry->lru_prev)` are the case      *)
(* distinction b = pointer, which no block satisfies for NULL.              *)

(* lru_next and lru_prev with block e unlinked and blank. *)
NextWithout(e) == [b \in Blocks |-> CASE b = e -> NULL
                                       [] b # e /\ b = lru_prev[e] -> lru_next[e]
                                       [] OTHER -> lru_next[b]]
PrevWithout(e) == [b \in Blocks |-> CASE b = e -> NULL
                                       [] b # e /\ b = lru_next[e] -> lru_prev[e]
                                       [] OTHER -> lru_prev[b]]
TailWithout(e) == IF tail = e THEN lru_prev[e] ELSE tail
HeadWithout(e) == IF head = e THEN lru_next[e] ELSE head

(* Put block e in front of the list (p, n, h, t) it is not part of. *)
LinkAtHead(e, p, n, h, t) ==
    /\ lru_next' = [n EXCEPT ![e] = h]
    /\ lru_prev' = [b \in Blocks |-> IF b = e THEN NULL ELSE IF b = h THEN e ELSE p[b]]
    /\ head' = e
    /\ tail' = IF t = NULL THEN e ELSE t

(* Mutant: the tail pointer is not moved off the entry. *)
MutMoveKeepsTail(e) ==
    IF head = e THEN UNCHANGED links
    ELSE LinkAtHead(e, PrevWithout(e), NextWithout(e), head, tail)

lru_move_to_head(e) ==
    IF head = e THEN UNCHANGED links
    ELSE LinkAtHead(e, PrevWithout(e), NextWithout(e), head, TailWithout(e))

(* Remove entry e from the list and the table, as lru_cache_remove and the  *)
(* sweep do, if the process survives the second free.                       *)
Unlink(e) == /\ lru_prev' = PrevWithout(e) /\ lru_next' = NextWithout(e)
             /\ head' = HeadWithout(e) /\ tail' = TailWithout(e)
             /\ table' = [table EXCEPT ![tuple[e]] = NULL]
             /\ tuple' = [tuple EXCEPT ![e] = NULL]
             /\ last_seen' = [last_seen EXCEPT ![e] = 0]
             /\ first_seen' = [first_seen EXCEPT ![e] = 0]
             /\ state' = [state EXCEPT ![e] = "CLOSED"]
             /\ current_size' = current_size - 1

(* The allocator detects the second free of a block. *)
Abort == /\ proc' = "aborted"
         /\ UNCHANGED <<table, tuple, links, fields, current_size, worker, cleaner, now>>

-----------------------------------------------------------------------------
(* Packet thread: lru_cache_get, which it calls for every TCP packet. *)
Get == Running /\ wpc = "idle" /\ LockFree

Obtain(e) == held' = e /\ got' = now /\ wpc' = "got"

(* Mutant: a hit does not move the entry. *)
MutGetHit(k) ==
    /\ Get
    /\ table[k] # NULL
    /\ last_seen' = [last_seen EXCEPT ![table[k]] = now]
    /\ Obtain(table[k])
    /\ UNCHANGED <<table, tuple, links, first_seen, state, current_size, cleaner, now, proc>>

GetHit(k) ==
    /\ Get
    /\ table[k] # NULL
    /\ LET e == table[k]
       IN  /\ lru_move_to_head(e)
           /\ last_seen' = [last_seen EXCEPT ![e] = now]
           /\ Obtain(e)
    /\ UNCHANGED <<table, tuple, first_seen, state, current_size, cleaner, now, proc>>

Miss(k, b) == Get /\ table[k] = NULL /\ b \notin Live

(* There is room: insert into the table, link at the head. *)
InsertRoom(k, b) ==
    /\ current_size < MaxSize
    /\ table' = [table EXCEPT ![k] = b]
    /\ tuple' = [tuple EXCEPT ![b] = k]
    /\ last_seen' = [last_seen EXCEPT ![b] = now]
    /\ first_seen' = [first_seen EXCEPT ![b] = now]
    /\ UNCHANGED state
    /\ LinkAtHead(b, lru_prev, lru_next, head, tail)
    /\ current_size' = current_size + 1

(* Mutant: the entry in front is the victim. *)
MutInsertEvict(k, b) ==
    /\ current_size >= MaxSize /\ head # NULL
    /\ table' = [table EXCEPT ![tuple[head]] = NULL, ![k] = b]
    /\ tuple' = [tuple EXCEPT ![head] = NULL, ![b] = k]
    /\ last_seen' = [last_seen EXCEPT ![head] = 0, ![b] = now]
    /\ first_seen' = [first_seen EXCEPT ![head] = 0, ![b] = now]
    /\ state' = [state EXCEPT ![head] = "CLOSED"]
    /\ LinkAtHead(b, PrevWithout(head), NextWithout(head), HeadWithout(head), TailWithout(head))
    /\ UNCHANGED current_size

(* The cache is full: lru_evict_lru takes the tail out of list and table,   *)
(* current_size goes down and up again.                                     *)
InsertEvict(k, b) ==
    /\ current_size >= MaxSize /\ tail # NULL
    /\ table' = [table EXCEPT ![tuple[tail]] = NULL, ![k] = b]
    /\ tuple' = [tuple EXCEPT ![tail] = NULL, ![b] = k]
    /\ last_seen' = [last_seen EXCEPT ![tail] = 0, ![b] = now]
    /\ first_seen' = [first_seen EXCEPT ![tail] = 0, ![b] = now]
    /\ state' = [state EXCEPT ![tail] = "CLOSED"]
    /\ LinkAtHead(b, PrevWithout(tail), NextWithout(tail),
                  IF head = tail THEN NULL ELSE head, lru_prev[tail])
    /\ UNCHANGED current_size

(* calloc of block b, zeroed: its state is CLOSED.  An eviction that the    *)
(* allocator lets pass is part of the call.                                 *)
GetMiss(k, b) ==
    /\ Miss(k, b)
    /\ InsertRoom(k, b) \/ InsertEvict(k, b)
    /\ Obtain(b)
    /\ UNCHANGED <<cleaner, now, proc>>

(* The same miss, aborted by the allocator at lru_cache.c:174. *)
GetMissAbort(k) ==
    /\ Get
    /\ table[k] = NULL /\ current_size >= MaxSize /\ tail # NULL
    /\ Abort

(* Packet thread: the unlocked writes of tcp_protect_analyze. *)
TcpState(st, flag) ==
    CASE flag = "syn" -> "SYN_SENT"
      [] flag = "synack" /\ st = "SYN_SENT" -> "SYN_RECEIVED"
      [] flag = "ack" /\ st = "SYN_RECEIVED" -> "ESTABLISHED"
      [] flag = "rst" -> "CLOSED"
      [] flag = "fin" /\ st = "ESTABLISHED" -> "FIN_WAIT"
      [] OTHER -> st

UpdateConn(flag) ==
    /\ Running /\ wpc = "got" /\ held \in Live
    /\ last_seen' = [last_seen EXCEPT ![held] = now]
    /\ state' = [state EXCEPT ![held] = TcpState(@, flag)]
    /\ wpc' = "updated"
    /\ UNCHANGED <<table, tuple, links, first_seen, current_size, held, got, cleaner, now, proc>>

(* lru_cache_update on the entry lru_cache_get returned; tcp_protect_analyze *)
(* does without it, the header offers it.                                   *)
Update ==
    /\ Running /\ wpc = "updated" /\ held \in Live /\ LockFree
    /\ lru_move_to_head(held)
    /\ last_seen' = [last_seen EXCEPT ![held] = now]
    /\ UNCHANGED <<table, tuple, first_seen, state, current_size, worker, cleaner, now, proc>>

(* Any use of conn after the sweep has freed it. *)
UseAfterFree ==
    /\ Running /\ wpc # "idle" /\ held \notin Live
    /\ proc' = "undefined"
    /\ UNCHANGED <<table, tuple, links, fields, current_size, worker, cleaner, now>>

(* is_slowloris_attack of a connection older than SlowAge, then             *)
(* lru_cache_remove of the tuple; conn is not used again.  Its few packets  *)
(* or bytes are left open.                                                  *)
Slowloris == Running /\ wpc = "updated" /\ held \in Live /\ LockFree
             /\ state[held] \in {"SYN_RECEIVED", "ESTABLISHED"}
             /\ now - first_seen[held] > SlowAge

(* Mutant: the entry is left in the hash table. *)
MutRemoveConn ==
    /\ Slowloris
    /\ lru_prev' = PrevWithout(held) /\ lru_next' = NextWithout(held)
    /\ head' = HeadWithout(held) /\ tail' = TailWithout(held)
    /\ table' = table
    /\ tuple' = [tuple EXCEPT ![held] = NULL]
    /\ last_seen' = [last_seen EXCEPT ![held] = 0]
    /\ first_seen' = [first_seen EXCEPT ![held] = 0]
    /\ state' = [state EXCEPT ![held] = "CLOSED"]
    /\ current_size' = current_size - 1
    /\ wpc' = "idle" /\ held' = NULL /\ got' = 0
    /\ UNCHANGED <<cleaner, now, proc>>

RemoveConn ==
    /\ Slowloris
    /\ Unlink(held)
    /\ wpc' = "idle" /\ held' = NULL /\ got' = 0
    /\ UNCHANGED <<cleaner, now, proc>>

RemoveConnAbort == Slowloris /\ Abort

(* tcp_protect_analyze returns. *)
Return == /\ Running /\ wpc = "updated"
          /\ wpc' = "idle" /\ held' = NULL /\ got' = 0
          /\ UNCHANGED <<table, tuple, links, fields, current_size, cleaner, now, proc>>

-----------------------------------------------------------------------------
(* Cleanup thread: sleep(30), then the time is read before the lock is taken. *)
Wake == /\ Running /\ cpc = "asleep"
        /\ cpc' = "woke" /\ cnow' = now
        /\ UNCHANGED <<table, tuple, links, fields, current_size, worker, cursor, now, proc>>

SweepBegin == /\ Running /\ cpc = "woke"
              /\ cpc' = "sweep" /\ cursor' = tail
              /\ UNCHANGED <<table, tuple, links, fields, current_size, worker, cnow, now, proc>>

Timeout(proto, st) ==
    CASE proto = "tcp" /\ st \in {"SYN_SENT", "SYN_RECEIVED"} -> SynTimeout
      [] proto = "tcp" /\ st = "ESTABLISHED" -> EstablishedTimeout
      [] proto = "tcp" /\ st \in {"FIN_WAIT", "CLOSE_WAIT"} -> FinTimeout
      [] proto = "tcp" /\ st = "CLOSED" -> SynTimeout
      [] proto = "icmp" -> IcmpTimeout
      [] proto \in {"udp", "other"} -> UdpTimeout

(* Mutant: an entry idle for exactly its timeout or less is expired too. *)
MutExpired(b, t) == t - last_seen[b] >= Timeout(Proto[tuple[b]], state[b]) - 1

(* lru_cache.c:285-310 *)
Expired(b, t) == t - last_seen[b] > Timeout(Proto[tuple[b]], state[b])

SweepCheck ==
    /\ Running /\ cpc = "sweep" /\ cursor # NULL
    /\ IF Expired(cursor, cnow)
       THEN cpc' = "unlink" /\ UNCHANGED cursor
       ELSE cursor' = lru_prev[cursor] /\ UNCHANGED cpc
    /\ UNCHANGED <<table, tuple, links, fields, current_size, worker, cnow, now, proc>>

SweepUnlink ==
    /\ Running /\ cpc = "unlink"
    /\ Unlink(cursor)
    /\ cursor' = lru_prev[cursor] /\ cpc' = "sweep"
    /\ UNCHANGED <<worker, cnow, now, proc>>

SweepAbort == Running /\ cpc = "unlink" /\ Abort

(* Mutant: the sweep stops at the first entry that is not expired. *)
MutSweepEnd == /\ Running /\ cpc = "sweep"
               /\ IF cursor = NULL THEN TRUE ELSE ~Expired(cursor, cnow)
               /\ cpc' = "asleep" /\ cursor' = NULL /\ cnow' = 0
               /\ UNCHANGED <<table, tuple, links, fields, current_size, worker, now, proc>>

SweepEnd == /\ Running /\ cpc = "sweep" /\ cursor = NULL
            /\ cpc' = "asleep" /\ cnow' = 0
            /\ UNCHANGED <<table, tuple, links, fields, current_size, worker, cursor, now, proc>>

Tick == /\ Running /\ now < MaxTime
        /\ now' = now + 1
        /\ UNCHANGED <<table, tuple, links, fields, current_size, worker, cleaner, proc>>

(* lru_cache_destroy, after both threads are done: the list's entries are   *)
(* freed and hashtable_destroy frees them again.                            *)
Destroy == /\ Running /\ wpc = "idle" /\ cpc = "asleep"
           /\ proc' \in IF Live = {} THEN {"destroyed"} ELSE {"destroyed", "aborted"}
           /\ UNCHANGED <<table, tuple, links, fields, current_size, worker, cleaner, now>>

PacketThread ==
    \/ \E k \in Keys : \/ GetHit(k)
                       \/ GetMissAbort(k)
                       \/ \E b \in Blocks : GetMiss(k, b)
    \/ \E flag \in Flags : UpdateConn(flag)
    \/ Update \/ UseAfterFree \/ RemoveConn \/ RemoveConnAbort \/ Return

CleanupThread == Wake \/ SweepBegin \/ SweepCheck \/ SweepUnlink \/ SweepAbort \/ SweepEnd

Next == PacketThread \/ CleanupThread \/ Tick \/ Destroy

Spec == Init /\ [][Next]_vars

(* The cleanup thread is scheduled again and again (while loop around       *)
(* sleep, main.c:121-132) and gets the lock, which packet processing        *)
(* releases at the end of each call.                                        *)
FairSpec == Spec /\ WF_vars(CleanupThread)

-----------------------------------------------------------------------------
(* Every variable has its type. *)
TypeOK ==
    /\ table \in [Keys -> Blocks \cup {NULL}] /\ tuple \in [Blocks -> Keys \cup {NULL}]
    /\ lru_prev \in [Blocks -> Blocks \cup {NULL}]
    /\ lru_next \in [Blocks -> Blocks \cup {NULL}]
    /\ last_seen \in [Blocks -> Nat] /\ first_seen \in [Blocks -> Nat]
    /\ state \in [Blocks -> TcpStates]
    /\ head \in Blocks \cup {NULL} /\ tail \in Blocks \cup {NULL}
    /\ current_size \in Nat
    /\ wpc \in {"idle", "got", "updated"} /\ held \in Blocks \cup {NULL} /\ got \in Nat
    /\ cpc \in {"asleep", "woke", "sweep", "unlink"}
    /\ cnow \in Nat /\ cursor \in Blocks \cup {NULL}
    /\ now \in Nat
    /\ proc \in {"running", "aborted", "undefined", "destroyed"}

(* The blocks met from `start` along pointers f, NULL from the end on. *)
Walk(start, f) ==
    LET w[i \in 1..Cardinality(Blocks)] ==
            IF i = 1 THEN start ELSE IF w[i - 1] = NULL THEN NULL ELSE f[w[i - 1]]
    IN  w

(* current_size, which lru_cache_size reports and the eviction test reads,  *)
(* is the number of allocated entries and never exceeds max_size, also      *)
(* between the removals of one sweep.                                       *)
SizeExact == current_size = Cardinality(Live) /\ current_size <= MaxSize

(* Table and list agree: the table finds every entry under its own tuple,   *)
(* neighbours point at each other, nothing points at a freed entry, and     *)
(* only the ends of the list have no neighbour.                             *)
Linked ==
    /\ \A k \in Keys : table[k] # NULL => tuple[table[k]] = k
    /\ \A b \in Live : table[tuple[b]] = b
    /\ {head, tail} \subseteq Live \cup {NULL} /\ (head = NULL <=> tail = NULL)
    /\ \A b \in Live :
         /\ lru_next[b] \in Live => lru_prev[lru_next[b]] = b
         /\ lru_prev[b] \in Live => lru_next[lru_prev[b]] = b
         /\ lru_next[b] \notin Live => lru_next[b] = NULL /\ b = tail
         /\ lru_prev[b] \notin Live => lru_prev[b] = NULL /\ b = head
    /\ head # NULL => lru_prev[head] = NULL
    /\ tail # NULL => lru_next[tail] = NULL

(* The sweep never stands on a freed entry: `prev` is read before the entry *)
(* is freed and the lock keeps the packet thread from removing it.          *)
SweepOnLiveEntry ==
    /\ cpc = "sweep" => cursor \in Live \cup {NULL}
    /\ cpc = "unlink" => cursor \in Live

(* Following lru_next from head meets every entry once, following lru_prev  *)
(* from tail meets them in the opposite order, and both ways end: no sweep  *)
(* or destroy can miss an entry or run for ever.                            *)
ListExact ==
    LET fwd == Walk(head, lru_next)
        bwd == Walk(tail, lru_prev)
        n   == current_size
    IN  /\ {fwd[i] : i \in 1..n} = Live
        /\ \A i \in 1..n : bwd[i] = fwd[n + 1 - i]
        /\ \A i \in (n + 1)..Cardinality(Blocks) : fwd[i] = NULL /\ bwd[i] = NULL

(* The list is sorted by last_seen although tcp_protect_analyze writes      *)
(* last_seen without the lock: what an eviction drops is never fresher than *)
(* what it keeps.                                                           *)
RecencySorted ==
    LET fwd == Walk(head, lru_next)
    IN  \A i, j \in 1..current_size : i < j => last_seen[fwd[i]] >= last_seen[fwd[j]]

(* The keys along the list from head to tail, and the promise about them. *)
order == [i \in 1..current_size |-> tuple[Walk(head, lru_next)[i]]]
Lru == INSTANCE LruSpec WITH Capacity <- MaxSize

(* The pointer manipulations of lru_cache.c amount to the promised order:   *)
(* a hit moves to the front, a miss drops the last entry exactly when the   *)
(* cache is full, and the sweep only drops.                                 *)
ImplementsLru == Lru!Spec

(* The cleanup thread can free the entry the packet thread is working on    *)
(* only if that thread has been stalled since its lru_cache_get for longer  *)
(* than a connection timeout, even with the `now` that cleanup_thread_func  *)
(* read before it waited for the lock.                                      *)
HeldFreedOnlyIfStalled ==
    wpc # "idle" /\ held \notin Live =>
        \E k \in Keys, st \in TcpStates : now - got > Timeout(Proto[k], st)

(* README.md "LRU cache with automatic expiration": the sweep that expires  *)
(* entries does not abort the process (lru_cache.c:326-330).                *)
CleanupSurvives == ~(proc = "aborted" /\ cpc = "unlink")

(* A connection idle beyond its timeout is removed or used again in the end *)
(* (the cleanup thread's purpose), whatever entries of longer timeouts lie  *)
(* before it in the sweep.                                                  *)
ExpiredGoes == \A b \in Blocks :
    b \in Live /\ Expired(b, now) ~> b \notin Live \/ ~Expired(b, now) \/ ~Running
=============================================================================
