------------------------------ MODULE Hashtable ------------------------------
(***************************************************************************)
(* The hash table of src/src/storage/hashtable.c under concurrent callers. *)
(* Each operation works on one bucket under that bucket's rwlock, which    *)
(* makes the walk and the link change one step; the entries counter is     *)
(* adjusted in a step of its own after the unlock.  hashtable_clear and    *)
(* hashtable_foreach go from bucket to bucket, taking each lock in turn.   *)
(*                                                                         *)
(* A bucket is the sequence of the keys of its chain, head first.          *)
(***************************************************************************)
EXTENDS Integers, FiniteSets, Sequences, SequencesExt

CONSTANTS Threads,
          Clearers,     \* the threads that call hashtable_clear
          Keys,         \* connection tuples
          Size,         \* ht->size, the number of buckets
          Bucket,       \* conn_tuple_hash(key) % ht->size, plus 1
          Wrap,         \* the counter is an unsigned integer modulo Wrap
          MaxLost       \* bound on the entries lost to updates

ASSUME HashtableAssumption ==
    /\ Clearers \subseteq Threads
    /\ Size \in Nat \ {0} /\ Bucket \in [Keys -> 1..Size]
    /\ Wrap \in Nat \ {0} /\ MaxLost \in Nat

VARIABLES chain,    \* 1..Size -> sequence of keys
          entries,  \* ht->entries
          lost,     \* entries unlinked by an update but never removed
          cleared,  \* has a hashtable_clear begun (history)
          op        \* Threads -> operation in progress

vars == <<chain, entries, lost, cleared, op>>

Idle == [at |-> "idle"]
Ops == {Idle} \cup [at : {"adjust"}, by : {1, -1}]
              \cup [at : {"clear"}, i : 1..(Size + 1)]
              \cup [at : {"foreach"}, i : 1..(Size + 1), seen : SUBSET Keys, must : SUBSET Keys]

Init == /\ chain = [i \in 1..Size |-> <<>>]
        /\ entries = 0 /\ lost = 0 /\ cleared = FALSE
        /\ op = [t \in Threads |-> Idle]

Linked == UNION {ToSet(chain[i]) : i \in 1..Size}

(* Where the walk along the bucket of k meets k first: the index of k in its *)
(* chain, which has k.                                                       *)
Position(k) == LET c == chain[Bucket[k]]
               IN  CHOOSE n \in DOMAIN c : c[n] = k /\ \A m \in 1..(n - 1) : c[m] # k

(* Thread t goes on to `next`; an iteration in progress need no longer meet *)
(* the keys in `gone`.                                                      *)
Step(t, next, gone) ==
    op' = [u \in Threads |->
             CASE u = t -> next
               [] u # t /\ op[u].at = "foreach" -> [op[u] EXCEPT !.must = @ \ gone]
               [] OTHER -> op[u]]

-----------------------------------------------------------------------------
(* Mutant: the search of the chain stops at its head. *)
MutInsertNew(t, k) ==
    /\ op[t] = Idle
    /\ chain[Bucket[k]] # <<>> => chain[Bucket[k]][1] # k
    /\ Len(chain[Bucket[k]]) < 4
    /\ chain' = [chain EXCEPT ![Bucket[k]] = <<k>> \o @]
    /\ Step(t, [at |-> "adjust", by |-> 1], {})
    /\ UNCHANGED <<entries, lost, cleared>>

(* hashtable_insert of a key that is not in its bucket. *)
InsertNew(t, k) ==
    /\ op[t] = Idle
    /\ k \notin ToSet(chain[Bucket[k]])
    /\ chain' = [chain EXCEPT ![Bucket[k]] = <<k>> \o @]
    /\ Step(t, [at |-> "adjust", by |-> 1], {})
    /\ UNCHANGED <<entries, lost, cleared>>

(* hashtable_insert of a key that is there: memcpy overwrites the entry's   *)
(* next with that of the caller's entry, which is NULL, and                 *)
(* `curr->next = curr->next` restores nothing.                              *)
InsertExisting(t, k) ==
    LET c == chain[Bucket[k]]
        n == Position(k)
    IN  /\ op[t] = Idle
        /\ k \in ToSet(c)
        /\ lost + Len(c) - n <= MaxLost
        /\ chain' = [chain EXCEPT ![Bucket[k]] = SubSeq(c, 1, n)]
        /\ lost' = lost + Len(c) - n
        /\ Step(t, Idle, ToSet(SubSeq(c, n + 1, Len(c))))
        /\ UNCHANGED <<entries, cleared>>

(* Mutant: the counter is decremented before the walk has found the key. *)
MutRemoveKey(t, k) ==
    /\ op[t] = Idle
    /\ chain' = [chain EXCEPT ![Bucket[k]] = SelectSeq(@, LAMBDA j : j # k)]
    /\ Step(t, [at |-> "adjust", by |-> -1], {k})
    /\ UNCHANGED <<entries, lost, cleared>>

(* hashtable_remove of a key that is there; without the key it returns -1   *)
(* and changes nothing.                                                     *)
RemoveKey(t, k) ==
    /\ op[t] = Idle
    /\ k \in ToSet(chain[Bucket[k]])
    /\ chain' = [chain EXCEPT ![Bucket[k]] = RemoveAt(@, Position(k))]
    /\ Step(t, [at |-> "adjust", by |-> -1], {k})
    /\ UNCHANGED <<entries, lost, cleared>>

(* __sync_fetch_and_add and __sync_fetch_and_sub. *)
Adjust(t) ==
    /\ op[t].at = "adjust"
    /\ entries' = (entries + op[t].by) % Wrap
    /\ Step(t, Idle, {})
    /\ UNCHANGED <<chain, lost, cleared>>

-----------------------------------------------------------------------------
ClearBegin(t) ==
    /\ t \in Clearers /\ op[t] = Idle
    /\ Step(t, [at |-> "clear", i |-> 1], {})
    /\ cleared' = TRUE
    /\ UNCHANGED <<chain, entries, lost>>

ClearBucket(t) ==
    /\ op[t].at = "clear" /\ op[t].i <= Size
    /\ chain' = [chain EXCEPT ![op[t].i] = <<>>]
    /\ Step(t, [op[t] EXCEPT !.i = @ + 1], ToSet(chain[op[t].i]))
    /\ UNCHANGED <<entries, lost, cleared>>

(* The plain store after the last unlock. *)
ClearEnd(t) ==
    /\ op[t].at = "clear" /\ op[t].i > Size
    /\ entries' = 0
    /\ Step(t, Idle, {})
    /\ UNCHANGED <<chain, lost, cleared>>

-----------------------------------------------------------------------------
ForeachBegin(t) ==
    /\ op[t] = Idle
    /\ Step(t, [at |-> "foreach", i |-> 1, seen |-> {}, must |-> Linked], {})
    /\ UNCHANGED <<chain, entries, lost, cleared>>

(* Mutant: the callback is not called for the last entry of a chain. *)
MutForeachBucket(t) ==
    /\ op[t].at = "foreach" /\ op[t].i <= Size
    /\ Step(t, [op[t] EXCEPT !.i = @ + 1,
                  !.seen = @ \cup {chain[op[t].i][j] : j \in 1..(Len(chain[op[t].i]) - 1)}], {})
    /\ UNCHANGED <<chain, entries, lost, cleared>>

(* The callback is called for each entry of the bucket and returns 0. *)
ForeachBucket(t) ==
    /\ op[t].at = "foreach" /\ op[t].i <= Size
    /\ Step(t, [op[t] EXCEPT !.i = @ + 1, !.seen = @ \cup ToSet(chain[op[t].i])], {})
    /\ UNCHANGED <<chain, entries, lost, cleared>>

(* All buckets done, or the callback asked to stop. *)
ForeachEnd(t) ==
    /\ op[t].at = "foreach"
    /\ op[t].i <= Size => chain[op[t].i] # <<>>
    /\ Step(t, Idle, {})
    /\ UNCHANGED <<chain, entries, lost, cleared>>

Next == \E t \in Threads :
    \/ \E k \in Keys : InsertNew(t, k) \/ InsertExisting(t, k) \/ RemoveKey(t, k)
    \/ Adjust(t)
    \/ ClearBegin(t) \/ ClearBucket(t) \/ ClearEnd(t)
    \/ ForeachBegin(t) \/ ForeachBucket(t) \/ ForeachEnd(t)

Spec == Init /\ [][Next]_vars

-----------------------------------------------------------------------------
(* Every variable has its type. *)
TypeOK == /\ \A i \in 1..Size : ToSet(chain[i]) \subseteq {k \in Keys : Bucket[k] = i}
          /\ entries \in 0..(Wrap - 1) /\ lost \in 0..MaxLost
          /\ cleared \in BOOLEAN /\ op \in [Threads -> Ops]

Pending(d) == Cardinality({t \in Threads : op[t] = [at |-> "adjust", by |-> d]})
Count == Cardinality(Linked)

(* No key is in the table twice, however inserts of it race: the search and *)
(* the link are under one lock (hashtable.c:192-209).                       *)
KeysOnce == \A i \in 1..Size : IsInjective(chain[i])

(* Until the first hashtable_clear the counter is exact up to the           *)
(* adjustments still to be made and the entries lost by updates, through    *)
(* any wrap-around below zero when a removal's decrement overtakes an       *)
(* insert's increment.                                                      *)
CountExact == ~cleared =>
    entries = (Count + lost - Pending(1) + Pending(-1)) % Wrap

(* hashtable.h "Iterate over entries (thread-safe)": an iteration that ran  *)
(* to the end has met every entry that was in the table all the time,       *)
(* whatever was inserted, updated, removed or cleared meanwhile.            *)
ForeachComplete == \A t \in Threads :
    op[t].at = "foreach" => {k \in op[t].must : Bucket[k] < op[t].i} \subseteq op[t].seen
=============================================================================
