---------------------------- MODULE SharedProofs ----------------------------
(***************************************************************************)
(* Theorems about the components that the daemon's threads share under     *)
(* locks: the hash table (Hashtable), the logger (Logger) and the rate     *)
(* limiter (RateLimiter), for any threads, keys, buckets, counter width,   *)
(* levels, sizes, addresses and window length.  The three have no variable *)
(* in common.                                                              *)
(***************************************************************************)
EXTENDS Hashtable, Logger, RateLimiter,
        SequenceTheorems, FunctionTheorems, FiniteSetTheorems, WellFoundedInduction, TLAPS

-----------------------------------------------------------------------------
(* The hash table.                                                           *)

(* Adding to a remainder and taking the remainder again is adding to the    *)
(* number itself.                                                           *)
LEMMA ModAdd ==
    ASSUME NEW x \in Int, NEW b \in Int, NEW w \in Nat \ {0}
    PROVE  ((x % w) + b) % w = (x + b) % w
<1> DEFINE y == (x % w) + b
           q == x \div w
           p == y \div w
           d == (x + b) \div w
<1>1. x = w * q + (x % w) /\ q \in Int /\ (x % w) \in 0..(w - 1)
  OBVIOUS
<1>2. y = w * p + (y % w) /\ p \in Int /\ (y % w) \in 0..(w - 1) /\ y \in Int
  OBVIOUS
<1>3. x + b = w * d + ((x + b) % w) /\ d \in Int /\ ((x + b) % w) \in 0..(w - 1)
  OBVIOUS
<1> HIDE DEF q, p, d
<1>4. x + b = w * (q + p) + (y % w)
  <2>1. w * (q + p) = w * q + w * p /\ w * q \in Int /\ w * p \in Int
    BY <1>1, <1>2
  <2>2. x + b = w * q + y
    BY <1>1, <2>1
  <2> HIDE DEF y
  <2> QED BY <1>2, <2>1, <2>2
<1> DEFINE e == d - (q + p)
           r1 == (x + b) % w
           r2 == y % w
<1>5. w * e = r2 - r1 /\ e \in Int /\ r1 \in 0..(w - 1) /\ r2 \in 0..(w - 1)
  <2>1. e \in Int /\ q + p \in Int /\ w * e = w * d - w * (q + p)
    BY <1>1, <1>2, <1>3
  <2>2. w * (q + p) \in Int /\ w * d \in Int
    BY <1>3, <2>1
  <2> HIDE DEF e, y
  <2> QED BY <1>2, <1>3, <1>4, <2>1, <2>2
<1> HIDE DEF e, r1, r2, y
<1>6. e = 0
  <2>1. CASE e >= 1
    <3>1. w * e >= w
      BY <1>5, <2>1
    <3> QED BY <1>5, <3>1
  <2>2. CASE e <= -1
    <3>1. w * e <= -w
      BY <1>5, <2>2
    <3> QED BY <1>5, <3>1
  <2> QED BY <1>5, <2>1, <2>2
<1>7. r1 = r2
  BY <1>5, <1>6
<1> QED BY <1>7 DEF r1, r2, y

-----------------------------------------------------------------------------
(* A chain of bucket b: keys of that bucket, none of them twice. *)
ChainOK(c, b) == /\ c \in Seq(Keys)
                 /\ \A n \in 1..Len(c) : Bucket[c[n]] = b
                 /\ \A m, n \in 1..Len(c) : c[m] = c[n] => m = n

ChainsOK(C) == /\ C \in [1..Size -> Seq(Keys)]
               /\ \A b \in 1..Size : ChainOK(C[b], b)

Elems(c) == {c[n] : n \in 1..Len(c)}
KeysIn(C) == {k \in Keys : k \in Elems(C[Bucket[k]])}

(* The keys in the table are those that their own bucket's chain holds. *)
LEMMA LinkedIs ==
    ASSUME ChainsOK(chain)
    PROVE  Linked = KeysIn(chain) /\ \A b \in 1..Size : ToSet(chain[b]) = Elems(chain[b])
<1>1. \A b \in 1..Size : ToSet(chain[b]) = Elems(chain[b]) /\ ChainOK(chain[b], b)
  BY DEF ChainsOK, ToSet, Elems
<1>2. \A b \in 1..Size : Elems(chain[b]) \subseteq {k \in Keys : Bucket[k] = b}
  BY <1>1 DEF ChainOK, Elems
<1>3. Linked = UNION {Elems(chain[b]) : b \in 1..Size}
  BY <1>1 DEF Linked
<1>4. \A k \in Keys : Bucket[k] \in 1..Size
  BY HashtableAssumption
<1>5. \A k : k \in Linked <=> k \in KeysIn(chain)
  BY <1>2, <1>3, <1>4 DEF KeysIn
<1> QED BY <1>1, <1>5

(* One chain is replaced: the keys of the other buckets stay. *)
LEMMA OneChain ==
    ASSUME NEW C, ChainsOK(C), NEW b \in 1..Size,
           NEW c, ChainOK(c, b), NEW D, D = [C EXCEPT ![b] = c]
    PROVE  ChainsOK(D) /\ \A k \in Keys : k \in KeysIn(D) <=>
                            IF Bucket[k] = b THEN k \in Elems(c) ELSE k \in KeysIn(C)
<1>1. D \in [1..Size -> Seq(Keys)] /\ D[b] = c /\ \A a \in 1..Size : a # b => D[a] = C[a]
  BY DEF ChainsOK, ChainOK
<1>2. ChainsOK(D)
  BY <1>1 DEF ChainsOK
<1>3. \A k \in Keys : Bucket[k] \in 1..Size
  BY HashtableAssumption
<1> QED BY <1>1, <1>2, <1>3 DEF KeysIn

(* The same about a step of the table. *)
LEMMA OneChainStep ==
    ASSUME ChainsOK(chain), NEW b \in 1..Size,
           NEW c, ChainOK(c, b), chain' = [chain EXCEPT ![b] = c]
    PROVE  ChainsOK(chain') /\ \A k \in Keys : k \in KeysIn(chain') <=>
                            IF Bucket[k] = b THEN k \in Elems(c) ELSE k \in KeysIn(chain)
<1>1. PICK C, D : C = chain /\ D = chain'
  OBVIOUS
<1>2. ChainsOK(C) /\ D = [C EXCEPT ![b] = c]
  BY <1>1
<1>3. ChainsOK(D) /\ \A k \in Keys : k \in KeysIn(D) <=>
                            IF Bucket[k] = b THEN k \in Elems(c) ELSE k \in KeysIn(C)
  BY <1>2, OneChain
<1> QED BY <1>1, <1>3

(* Linking a key that the chain does not have in front of it. *)
LEMMA ConsChain ==
    ASSUME NEW b, NEW c, ChainOK(c, b), NEW k \in Keys, Bucket[k] = b,
           k \notin Elems(c)
    PROVE  ChainOK(<<k>> \o c, b) /\ Elems(<<k>> \o c) = Elems(c) \cup {k}
<1> DEFINE r == <<k>> \o c
<1>1. c \in Seq(Keys) /\ Len(c) \in Nat
  BY DEF ChainOK
<1>2. r \in Seq(Keys) /\ Len(r) = Len(c) + 1 /\ r[1] = k /\ \A n \in 1..Len(c) : r[n + 1] = c[n]
  BY <1>1
<1> HIDE DEF r
<1>3. \A n \in 1..Len(r) : n = 1 \/ (n - 1 \in 1..Len(c) /\ r[n] = c[n - 1])
  BY <1>1, <1>2
<1>4. \A n \in 1..Len(c) : c[n] # k /\ Bucket[c[n]] = b
  BY DEF Elems, ChainOK
<1>5. \A n \in 1..Len(r) : Bucket[r[n]] = b
  <2> TAKE n \in 1..Len(r)
  <2>1. CASE n = 1
    BY <1>2, <2>1
  <2>2. CASE n - 1 \in 1..Len(c) /\ r[n] = c[n - 1]
    BY <1>4, <2>2
  <2> QED BY <1>3, <2>1, <2>2
<1>a. ASSUME NEW n \in 1..Len(r), n # 1
      PROVE  r[n] # k
  BY <1>3, <1>4, <1>a
<1>6. ASSUME NEW m \in 1..Len(r), NEW n \in 1..Len(r), r[m] = r[n]
      PROVE  m = n
  <2>1. CASE m = 1 \/ n = 1
    BY <1>2, <1>a, <1>6, <2>1
  <2>2. CASE m # 1 /\ n # 1
    <3>1. m - 1 = n - 1
      BY <1>3, <1>6, <2>2 DEF ChainOK
    <3> QED BY <1>1, <1>2, <3>1
  <2> QED BY <2>1, <2>2
<1>7. \A x : x \in Elems(r) <=> x \in Elems(c) \/ x = k
  <2>1. ASSUME NEW x \in Elems(r)
        PROVE  x \in Elems(c) \/ x = k
    BY <1>2, <1>3 DEF Elems
  <2>2. ASSUME NEW x \in Elems(c)
        PROVE  x \in Elems(r)
    <3>1. PICK n \in 1..Len(c) : x = c[n]
      BY DEF Elems
    <3>2. n + 1 \in 1..Len(r) /\ r[n + 1] = x
      BY <1>1, <1>2, <3>1
    <3> QED BY <3>2 DEF Elems
  <2>3. k \in Elems(r)
    <3>1. 1 \in 1..Len(r)
      BY <1>1, <1>2
    <3> QED BY <1>2, <3>1 DEF Elems
  <2> QED BY <2>1, <2>2, <2>3
<1>8. ChainOK(r, b) /\ Elems(r) = Elems(c) \cup {k}
  BY <1>2, <1>5, <1>6, <1>7 DEF ChainOK
<1> QED BY <1>8 DEF r

(* The chain up to a place. *)
LEMMA PrefixChain ==
    ASSUME NEW b, NEW c, ChainOK(c, b), NEW n \in 1..Len(c)
    PROVE  ChainOK(SubSeq(c, 1, n), b) /\ Elems(SubSeq(c, 1, n)) = {c[i] : i \in 1..n}
<1> DEFINE r == SubSeq(c, 1, n)
<1>1. c \in Seq(Keys) /\ Len(c) \in Nat
  BY DEF ChainOK
<1>2. r \in Seq(Keys) /\ Len(r) = n /\ \A i \in 1..n : r[i] = c[i]
  BY <1>1
<1> HIDE DEF r
<1>3. 1..n \subseteq 1..Len(c)
  BY <1>1
<1>4. ChainOK(r, b)
  BY <1>2, <1>3 DEF ChainOK
<1>5. Elems(r) = {c[i] : i \in 1..n}
  BY <1>2 DEF Elems
<1> QED BY <1>4, <1>5 DEF r

Behind(c, n) == {c[i] : i \in (n + 1)..Len(c)}

(* The keys behind a place: as many as there are places behind it. *)
LEMMA SuffixCount ==
    ASSUME NEW b, NEW c, ChainOK(c, b), NEW n \in 1..Len(c)
    PROVE  /\ ToSet(SubSeq(c, n + 1, Len(c))) = Behind(c, n)
           /\ IsFiniteSet(Behind(c, n)) /\ Cardinality(Behind(c, n)) = Len(c) - n
<1> DEFINE s == SubSeq(c, n + 1, Len(c))
           E == {c[i] : i \in (n + 1)..Len(c)}
<1>1. c \in Seq(Keys) /\ Len(c) \in Nat /\ Len(c) - n \in Nat
  BY DEF ChainOK
<1>2. s \in Seq(Keys) /\ Len(s) = Len(c) - n /\ \A i \in 1..Len(s) : s[i] = c[n + i]
  BY <1>1
<1> HIDE DEF s
<1>3. DOMAIN s = 1..Len(s) /\ ToSet(s) = {s[i] : i \in 1..Len(s)}
  <2>1. DOMAIN s = 1..Len(s)
    BY <1>2
  <2> QED BY <2>1 DEF ToSet
<1>4. ToSet(s) = E
  <2>1. ASSUME NEW i \in 1..Len(s)
        PROVE  s[i] \in E
    <3>1. n + i \in (n + 1)..Len(c) /\ s[i] = c[n + i]
      BY <1>1, <1>2
    <3> QED BY <3>1
  <2>2. ASSUME NEW i \in (n + 1)..Len(c)
        PROVE  c[i] \in ToSet(s)
    <3>1. i - n \in 1..Len(s) /\ n + (i - n) = i
      BY <1>1, <1>2
    <3>2. s[i - n] = c[i]
      BY <1>2, <3>1
    <3> QED BY <1>3, <3>1, <3>2
  <2> QED BY <1>3, <2>1, <2>2
<1>5. s \in Bijection(1..(Len(c) - n), E)
  <2>1. s \in [1..(Len(c) - n) -> E]
    <3>1. s \in [1..Len(s) -> Keys]
      BY <1>2, LenProperties
    <3>2. \A i \in 1..Len(s) : s[i] \in E
      <4> HIDE DEF ToSet
      <4> QED BY <1>3, <1>4
    <3> QED BY <1>2, <3>1, <3>2
  <2>2. \A y \in E : \E i \in 1..(Len(c) - n) : s[i] = y
    <3>1. E = {s[i] : i \in 1..Len(s)}
      BY <1>3, <1>4
    <3>2. Len(s) = Len(c) - n
      BY <1>2
    <3> QED BY <3>1, <3>2
  <2>3. ASSUME NEW i \in 1..(Len(c) - n), NEW j \in 1..(Len(c) - n), s[i] = s[j]
        PROVE  i = j
    <3>1. n + i \in 1..Len(c) /\ n + j \in 1..Len(c) /\ c[n + i] = c[n + j]
      BY <1>1, <1>2, <2>3
    <3>2. n + i = n + j
      BY <3>1 DEF ChainOK
    <3> QED BY <1>1, <3>2
  <2> QED BY <2>1, <2>2, <2>3, Fun_IsBij
<1> HIDE DEF E
<1>6. IsFiniteSet(E) /\ Cardinality(E) = Len(c) - n
  BY <1>1, <1>5, FS_CountingElements, FS_NatBijection DEF ExistsBijection
<1> QED BY <1>4, <1>6 DEF s, E, Behind

(* Cutting a place out of a chain takes one key away. *)
LEMMA CutChain ==
    ASSUME NEW b, NEW c, ChainOK(c, b), NEW n \in 1..Len(c), NEW r, r = RemoveAt(c, n)
    PROVE  ChainOK(r, b) /\ Elems(r) = Elems(c) \ {c[n]}
<1>1. c \in Seq(Keys) /\ Len(c) \in Nat /\ n \in Nat
  BY DEF ChainOK
<1> DEFINE u == SubSeq(c, 1, n - 1)
           v == SubSeq(c, n + 1, Len(c))
<1>2. u \in Seq(Keys) /\ Len(u) = n - 1 /\ \A i \in 1..(n - 1) : u[i] = c[i]
  BY <1>1
<1>3. v \in Seq(Keys) /\ Len(v) = Len(c) - n /\ \A i \in 1..(Len(c) - n) : v[i] = c[n + i]
  BY <1>1
<1>4. r = u \o v
  BY DEF RemoveAt
<1> HIDE DEF u, v
<1>5. /\ r \in Seq(Keys) /\ Len(r) = Len(c) - 1
      /\ \A i \in 1..(Len(c) - 1) : r[i] = IF i < n THEN c[i] ELSE c[i + 1]
  <2>1. r \in Seq(Keys) /\ Len(r) = Len(c) - 1
    <3>1. r \in Seq(Keys) /\ Len(r) = Len(u) + Len(v)
      BY <1>2, <1>3, <1>4, ConcatProperties
    <3> QED BY <1>1, <1>2, <1>3, <3>1
  <2>2. ASSUME NEW i \in 1..(Len(c) - 1)
        PROVE  r[i] = IF i < n THEN c[i] ELSE c[i + 1]
    <3>1. CASE i < n
      BY <1>1, <1>2, <1>3, <1>4, <3>1
    <3>2. CASE ~(i < n)
      <4>1. i - (n - 1) \in 1..(Len(c) - n) /\ n + (i - (n - 1)) = i + 1
        BY <1>1, <3>2
      <4>2. r[i] = v[i - (n - 1)]
        <5>1. i \in 1..(Len(u) + Len(v)) /\ ~(i <= Len(u)) /\ i - Len(u) = i - (n - 1)
          BY <1>1, <1>2, <1>3, <3>2
        <5>2. r[i] = v[i - Len(u)]
          BY <1>2, <1>3, <1>4, <5>1, ConcatProperties
        <5> QED BY <5>1, <5>2
      <4> QED BY <1>3, <3>2, <4>1, <4>2
    <3> QED BY <3>1, <3>2
  <2> QED BY <2>1, <2>2
<1> DEFINE f(i) == IF i < n THEN i ELSE i + 1
<1>6. \A i \in 1..Len(r) : f(i) \in 1..Len(c) /\ f(i) # n /\ r[i] = c[f(i)]
  BY <1>1, <1>5
<1>7. \A i, j \in 1..Len(r) : f(i) = f(j) => i = j
  BY <1>1, <1>5
<1>8. \A j \in 1..Len(c) : j # n => \E i \in 1..Len(r) : f(i) = j
  <2> TAKE j \in 1..Len(c)
  <2>1. CASE j < n
    BY <1>1, <1>5, <2>1
  <2>2. CASE j > n
    <3>1. j - 1 \in 1..Len(r) /\ f(j - 1) = j
      BY <1>1, <1>5, <2>2
    <3> QED BY <3>1
  <2> QED BY <1>1, <2>1, <2>2
<1> HIDE DEF f
<1>9. ChainOK(r, b)
  <2>1. \A i \in 1..Len(r) : Bucket[r[i]] = b
    BY <1>6 DEF ChainOK
  <2>2. ASSUME NEW i \in 1..Len(r), NEW j \in 1..Len(r), r[i] = r[j]
        PROVE  i = j
    <3>1. f(i) \in 1..Len(c) /\ f(j) \in 1..Len(c) /\ c[f(i)] = c[f(j)]
      BY <1>6, <2>2
    <3>2. f(i) = f(j)
      BY <3>1 DEF ChainOK
    <3> QED BY <1>7, <3>2
  <2>3. r \in Seq(Keys)
    BY <1>5
  <2> QED BY <2>1, <2>2, <2>3 DEF ChainOK
<1>10. ASSUME NEW x \in Elems(r)
       PROVE  x \in Elems(c) \ {c[n]}
  <2>1. PICK i \in 1..Len(r) : x = r[i]
    BY <1>10 DEF Elems
  <2>2. x = c[f(i)] /\ f(i) \in 1..Len(c) /\ f(i) # n
    BY <1>6, <2>1
  <2>3. c[f(i)] # c[n]
    BY <2>2 DEF ChainOK
  <2> QED BY <2>2, <2>3 DEF Elems
<1>11. ASSUME NEW x \in Elems(c) \ {c[n]}
       PROVE  x \in Elems(r)
  <2>1. PICK j \in 1..Len(c) : x = c[j] /\ j # n
    BY <1>11 DEF Elems
  <2>2. PICK i \in 1..Len(r) : f(i) = j
    BY <1>8, <2>1
  <2>3. r[i] = x
    BY <1>6, <2>1, <2>2
  <2> QED BY <2>3 DEF Elems
<1> QED BY <1>9, <1>10, <1>11

-----------------------------------------------------------------------------
Adj(d) == [at |-> "adjust", by |-> d]
Adjusting(o, d) == {t \in Threads : o[t] = Adj(d)}

(* An iteration still owes only keys that are in the table, and has met     *)
(* those of the buckets behind it.                                          *)
ForeachOK(o, K) == o.at = "foreach" =>
    /\ o.must \subseteq K
    /\ \A k \in o.must : Bucket[k] < o.i => k \in o.seen

Foreach == [at : {"foreach"}, i : 1..(Size + 1), seen : SUBSET Keys, must : SUBSET Keys]

(* An operation in progress by where it is. *)
LEMMA OpCases ==
    ASSUME NEW o \in Ops
    PROVE  /\ o.at = "foreach" => o \in Foreach
           /\ o.at = "adjust" => o = Adj(1) \/ o = Adj(-1)
           /\ o.at = "clear" => o \in [at : {"clear"}, i : 1..(Size + 1)]
<1>1. CASE o = Idle
  BY <1>1 DEF Idle
<1>2. CASE o \in [at : {"adjust"}, by : {1, -1}]
  BY <1>2 DEF Adj
<1>3. CASE o \in [at : {"clear"}, i : 1..(Size + 1)]
  BY <1>3
<1>4. CASE o \in Foreach
  BY <1>4 DEF Foreach
<1> QED BY <1>1, <1>2, <1>3, <1>4 DEF Ops, Foreach

(* A step of one thread: where the others are, and what is still pending. *)
LEMMA StepOK ==
    ASSUME op \in [Threads -> Ops], NEW t \in Threads, NEW next \in Ops, NEW gone,
           Step(t, next, gone), KeysIn(chain) \ gone \subseteq KeysIn(chain'),
           \A u \in Threads : ForeachOK(op[u], KeysIn(chain)), ForeachOK(next, KeysIn(chain'))
    PROVE  /\ op' \in [Threads -> Ops] /\ op'[t] = next
           /\ \A u \in Threads : ForeachOK(op'[u], KeysIn(chain'))
           /\ \A d \in {1, -1} : \A u \in Threads \ {t} : op'[u] = Adj(d) <=> op[u] = Adj(d)
           /\ \A u \in Threads \ {t} : op'[u].at = op[u].at
<1> DEFINE Before == KeysIn(chain)
           After == KeysIn(chain')
<1>0. /\ Before \ gone \subseteq After
      /\ \A u \in Threads : ForeachOK(op[u], Before)
      /\ ForeachOK(next, After)
  OBVIOUS
<1> HIDE DEF Before, After
<1>1. /\ DOMAIN op' = Threads /\ op' = [u \in Threads |-> op'[u]]
      /\ op'[t] = next
      /\ \A u \in Threads \ {t} : op[u].at = "foreach" => op'[u] = [op[u] EXCEPT !.must = @ \ gone]
      /\ \A u \in Threads \ {t} : op[u].at # "foreach" => op'[u] = op[u]
  BY DEF Step
<1>2. ASSUME NEW u \in Threads \ {t}, op[u].at = "foreach"
      PROVE  /\ op'[u] \in Ops /\ ForeachOK(op'[u], After) /\ op'[u].at = "foreach"
  <2>1. op[u] \in Foreach
    BY <1>2, OpCases
  <2>2. /\ op'[u] \in Foreach /\ op'[u].must = op[u].must \ gone
        /\ op'[u].i = op[u].i /\ op'[u].seen = op[u].seen
    BY <1>1, <1>2, <2>1 DEF Foreach
  <2>3. op'[u].at = "foreach" /\ op'[u] \in Ops
    BY <2>2 DEF Foreach, Ops
  <2>4. ForeachOK(op[u], Before)
    BY <1>0
  <2>5. op'[u].must \subseteq After
    BY <1>0, <1>2, <2>2, <2>4 DEF ForeachOK
  <2>6. \A k \in op'[u].must : Bucket[k] < op'[u].i => k \in op'[u].seen
    BY <1>2, <2>2, <2>4 DEF ForeachOK
  <2> QED BY <2>3, <2>5, <2>6 DEF ForeachOK
<1>3. ASSUME NEW u \in Threads
      PROVE  op'[u] \in Ops /\ ForeachOK(op'[u], After)
  <2>1. CASE u = t
    BY <1>0, <1>1, <2>1
  <2>2. CASE u # t /\ op[u].at = "foreach"
    BY <1>2, <2>2
  <2>3. CASE u # t /\ op[u].at # "foreach"
    BY <1>0, <1>1, <2>3 DEF ForeachOK
  <2> QED BY <2>1, <2>2, <2>3
<1>4. ASSUME NEW d \in {1, -1}, NEW u \in Threads \ {t}
      PROVE  op'[u] = Adj(d) <=> op[u] = Adj(d)
  <2>1. Adj(d).at # "foreach"
    BY DEF Adj
  <2>2. CASE op[u].at = "foreach"
    BY <1>2, <2>1, <2>2
  <2>3. CASE op[u].at # "foreach"
    BY <1>1, <2>3
  <2> QED BY <2>2, <2>3
<1>5. op' \in [Threads -> Ops]
  BY <1>1, <1>3
<1>6. \A u \in Threads \ {t} : op'[u].at = op[u].at
  BY <1>1, <1>2
<1> QED BY <1>1, <1>3, <1>4, <1>5, <1>6 DEF After

(* The pending adjustments of one sign, when one thread's changes. *)
LEMMA PendingStep ==
    ASSUME NEW o, NEW p, NEW t \in Threads, NEW d, IsFiniteSet(Adjusting(o, d)),
           \A u \in Threads \ {t} : p[u] = Adj(d) <=> o[u] = Adj(d)
    PROVE  /\ IsFiniteSet(Adjusting(p, d))
           /\ Cardinality(Adjusting(p, d)) \in Nat /\ Cardinality(Adjusting(o, d)) \in Nat
           /\ Cardinality(Adjusting(p, d)) = Cardinality(Adjusting(o, d))
                + (IF p[t] = Adj(d) THEN 1 ELSE 0) - (IF o[t] = Adj(d) THEN 1 ELSE 0)
<1> DEFINE A == Adjusting(o, d)
           B == Adjusting(p, d)
<1>0. Cardinality(A) \in Nat
  BY FS_CardinalityType
<1>1. CASE (p[t] = Adj(d)) <=> (o[t] = Adj(d))
  <2>1. A = B
    BY <1>1 DEF Adjusting
  <2> QED BY <1>0, <1>1, <2>1
<1>2. CASE p[t] = Adj(d) /\ o[t] # Adj(d)
  <2>1. B = A \cup {t} /\ t \notin A
    BY <1>2 DEF Adjusting
  <2> HIDE DEF A, B
  <2>2. IsFiniteSet(A \cup {t}) /\ Cardinality(A \cup {t}) = Cardinality(A) + 1
    BY <2>1, FS_AddElement DEF A
  <2> QED BY <1>0, <1>2, <2>1, <2>2 DEF A, B
<1>3. CASE p[t] # Adj(d) /\ o[t] = Adj(d)
  <2>1. B = A \ {t} /\ t \in A
    BY <1>3 DEF Adjusting
  <2> HIDE DEF A, B
  <2>2. IsFiniteSet(A \ {t}) /\ Cardinality(A \ {t}) = Cardinality(A) - 1
    BY <2>1, FS_RemoveElement DEF A
  <2>3. Cardinality(A \ {t}) \in Nat
    BY <2>2, FS_CardinalityType
  <2> QED BY <1>0, <1>3, <2>1, <2>2, <2>3 DEF A, B
<1> QED BY <1>1, <1>2, <1>3

-----------------------------------------------------------------------------
(* What the counter shows once the pending adjustments are made. *)
Balance(C, l, o) == Cardinality(KeysIn(C)) + l
                      - Cardinality(Adjusting(o, 1)) + Cardinality(Adjusting(o, -1))

TableInv == /\ ChainsOK(chain)
            /\ op \in [Threads -> Ops]
            /\ entries \in 0..(Wrap - 1) /\ lost \in 0..MaxLost /\ cleared \in BOOLEAN
            /\ IsFiniteSet(KeysIn(chain))
            /\ IsFiniteSet(Adjusting(op, 1)) /\ IsFiniteSet(Adjusting(op, -1))
            /\ \A t \in Threads : ForeachOK(op[t], KeysIn(chain))
            /\ \A t \in Threads : op[t].at = "clear" => cleared
            /\ ~cleared => entries = Balance(chain, lost, op) % Wrap

(* The place where a key of the table stands in its chain. *)
LEMMA PositionIs ==
    ASSUME ChainsOK(chain), NEW k \in Keys, k \in Elems(chain[Bucket[k]])
    PROVE  Position(k) \in 1..Len(chain[Bucket[k]]) /\ chain[Bucket[k]][Position(k)] = k
<1> DEFINE c == chain[Bucket[k]]
<1>1. ChainOK(c, Bucket[k]) /\ c \in Seq(Keys)
  BY HashtableAssumption DEF ChainsOK, ChainOK
<1>2. PICK n \in 1..Len(c) : c[n] = k
  BY DEF Elems
<1>3. \A m \in 1..(n - 1) : c[m] # k
  BY <1>1, <1>2 DEF ChainOK
<1>4. DOMAIN c = 1..Len(c)
  BY <1>1
<1>5. \E i \in DOMAIN c : c[i] = k /\ \A m \in 1..(i - 1) : c[m] # k
  BY <1>2, <1>3, <1>4
<1>6. Position(k) \in DOMAIN c /\ c[Position(k)] = k
  BY <1>5 DEF Position
<1> QED BY <1>4, <1>6

(* A step whose effect on keys, losses and pending adjustments balances. *)
LEMMA StepBalances ==
    ASSUME TableInv, NEW t \in Threads, NEW next \in Ops, NEW gone,
           Step(t, next, gone), ChainsOK(chain'),
           KeysIn(chain) \ gone \subseteq KeysIn(chain'), IsFiniteSet(KeysIn(chain')),
           ForeachOK(next, KeysIn(chain')),
           lost' \in 0..MaxLost, cleared' \in BOOLEAN, entries' \in 0..(Wrap - 1),
           cleared => cleared', next.at = "clear" => cleared',
           ~cleared' => \/ /\ op[t].at # "adjust" /\ entries' = entries
                           /\ Cardinality(KeysIn(chain')) + lost'
                                = Cardinality(KeysIn(chain)) + lost
                                  + (IF next = Adj(1) THEN 1 ELSE 0)
                                  - (IF next = Adj(-1) THEN 1 ELSE 0)
                        \/ /\ op[t].at = "adjust" /\ next = Idle
                           /\ UNCHANGED <<chain, lost>>
                           /\ entries' = (entries + op[t].by) % Wrap
    PROVE  TableInv'
<1>1. /\ op \in [Threads -> Ops] /\ \A u \in Threads : ForeachOK(op[u], KeysIn(chain))
      /\ IsFiniteSet(Adjusting(op, 1)) /\ IsFiniteSet(Adjusting(op, -1))
      /\ IsFiniteSet(KeysIn(chain)) /\ lost \in Nat /\ entries \in Nat
  BY HashtableAssumption DEF TableInv
<1>2. /\ op' \in [Threads -> Ops] /\ op'[t] = next
      /\ \A u \in Threads : ForeachOK(op'[u], KeysIn(chain'))
      /\ \A d \in {1, -1} : \A u \in Threads \ {t} : op'[u] = Adj(d) <=> op[u] = Adj(d)
      /\ \A u \in Threads \ {t} : op'[u].at = op[u].at
  BY <1>1, StepOK
<1>3. /\ IsFiniteSet(Adjusting(op', 1))
      /\ Cardinality(Adjusting(op', 1)) \in Nat /\ Cardinality(Adjusting(op, 1)) \in Nat
      /\ Cardinality(Adjusting(op', 1)) = Cardinality(Adjusting(op, 1))
           + (IF next = Adj(1) THEN 1 ELSE 0) - (IF op[t] = Adj(1) THEN 1 ELSE 0)
  BY <1>1, <1>2, PendingStep
<1>4. /\ IsFiniteSet(Adjusting(op', -1))
      /\ Cardinality(Adjusting(op', -1)) \in Nat /\ Cardinality(Adjusting(op, -1)) \in Nat
      /\ Cardinality(Adjusting(op', -1)) = Cardinality(Adjusting(op, -1))
           + (IF next = Adj(-1) THEN 1 ELSE 0) - (IF op[t] = Adj(-1) THEN 1 ELSE 0)
  BY <1>1, <1>2, PendingStep
<1>5. Cardinality(KeysIn(chain)) \in Nat /\ Cardinality(KeysIn(chain')) \in Nat /\ lost' \in Nat
  BY <1>1, FS_CardinalityType, HashtableAssumption
<1>6. Balance(chain, lost, op) \in Int
  BY <1>1, <1>3, <1>4, <1>5 DEF Balance
<1>7. Adj(1) # Adj(-1) /\ Adj(1).at = "adjust" /\ Adj(-1).at = "adjust"
      /\ Adj(1).by = 1 /\ Adj(-1).by = -1 /\ Idle.at # "adjust"
  BY DEF Adj, Idle
<1>8. ASSUME ~cleared'
      PROVE  entries' = Balance(chain', lost', op') % Wrap
  <2>0. ~cleared /\ entries = Balance(chain, lost, op) % Wrap
    BY <1>8 DEF TableInv
  <2>1. CASE /\ op[t].at # "adjust" /\ entries' = entries
             /\ Cardinality(KeysIn(chain')) + lost'
                  = Cardinality(KeysIn(chain)) + lost
                    + (IF next = Adj(1) THEN 1 ELSE 0) - (IF next = Adj(-1) THEN 1 ELSE 0)
    <3>1. op[t] # Adj(1) /\ op[t] # Adj(-1)
      BY <1>7, <2>1
    <3>2. Balance(chain', lost', op') = Balance(chain, lost, op)
      BY <1>1, <1>3, <1>4, <1>5, <1>7, <2>1, <3>1 DEF Balance
    <3> QED BY <2>0, <2>1, <3>2
  <2>2. CASE /\ op[t].at = "adjust" /\ next = Idle /\ UNCHANGED <<chain, lost>>
             /\ entries' = (entries + op[t].by) % Wrap
    <3>1. op[t] = Adj(1) \/ op[t] = Adj(-1)
      BY <1>1, <2>2, OpCases
    <3>2. op[t].by \in Int /\ Balance(chain', lost', op') = Balance(chain, lost, op) + op[t].by
      <4>1. chain' = chain /\ lost' = lost /\ next # Adj(1) /\ next # Adj(-1)
        BY <1>7, <2>2
      <4>2. CASE op[t] = Adj(1)
        <5>1. /\ Cardinality(Adjusting(op', 1)) = Cardinality(Adjusting(op, 1)) - 1
              /\ Cardinality(Adjusting(op', -1)) = Cardinality(Adjusting(op, -1))
              /\ op[t].by = 1
          BY <1>3, <1>4, <1>7, <4>1, <4>2
        <5> QED BY <1>1, <1>3, <1>4, <1>5, <4>1, <5>1 DEF Balance
      <4>3. CASE op[t] = Adj(-1)
        <5>1. /\ Cardinality(Adjusting(op', 1)) = Cardinality(Adjusting(op, 1))
              /\ Cardinality(Adjusting(op', -1)) = Cardinality(Adjusting(op, -1)) - 1
              /\ op[t].by = -1
          BY <1>3, <1>4, <1>7, <4>1, <4>3
        <5> QED BY <1>1, <1>3, <1>4, <1>5, <4>1, <5>1 DEF Balance
      <4> QED BY <3>1, <4>2, <4>3
    <3>3. ((Balance(chain, lost, op) % Wrap) + op[t].by) % Wrap
            = (Balance(chain, lost, op) + op[t].by) % Wrap
      BY <1>6, <3>2, ModAdd, HashtableAssumption
    <3> QED BY <2>0, <2>2, <3>2, <3>3
  <2> QED BY <1>8, <2>1, <2>2
<1>9. \A u \in Threads : op'[u].at = "clear" => cleared'
  BY <1>2 DEF TableInv
<1> QED BY <1>2, <1>3, <1>4, <1>8, <1>9 DEF TableInv

(* What the places of an operation are, and how they differ. *)
LEMMA Places ==
    /\ Idle \in Ops /\ Adj(1) \in Ops /\ Adj(-1) \in Ops
    /\ Idle.at = "idle" /\ Adj(1).at = "adjust" /\ Adj(-1).at = "adjust"
    /\ Idle # Adj(1) /\ Idle # Adj(-1) /\ Adj(1) # Adj(-1)
    /\ \A K : ForeachOK(Idle, K) /\ ForeachOK(Adj(1), K) /\ ForeachOK(Adj(-1), K)
    /\ \A i \in 1..(Size + 1) : /\ [at |-> "clear", i |-> i] \in Ops
                                /\ [at |-> "clear", i |-> i] # Adj(1)
                                /\ [at |-> "clear", i |-> i] # Adj(-1)
                                /\ \A K : ForeachOK([at |-> "clear", i |-> i], K)
<1>1. Idle.at = "idle" /\ Adj(1).at = "adjust" /\ Adj(-1).at = "adjust" /\ Adj(1).by = 1 /\ Adj(-1).by = -1
  BY DEF Idle, Adj
<1>2. Idle \in Ops /\ Adj(1) \in Ops /\ Adj(-1) \in Ops
  BY DEF Ops, Adj
<1>3. ASSUME NEW i \in 1..(Size + 1)
      PROVE  [at |-> "clear", i |-> i] \in Ops /\ [at |-> "clear", i |-> i].at = "clear"
  BY DEF Ops
<1>4. Idle # Adj(1) /\ Idle # Adj(-1) /\ Adj(1) # Adj(-1)
  BY <1>1
<1>5. \A K : ForeachOK(Idle, K) /\ ForeachOK(Adj(1), K) /\ ForeachOK(Adj(-1), K)
  BY <1>1 DEF ForeachOK
<1>6. ASSUME NEW i \in 1..(Size + 1)
      PROVE  /\ [at |-> "clear", i |-> i] # Adj(1) /\ [at |-> "clear", i |-> i] # Adj(-1)
             /\ \A K : ForeachOK([at |-> "clear", i |-> i], K)
  BY <1>1, <1>3 DEF ForeachOK
<1> QED BY <1>1, <1>2, <1>3, <1>4, <1>5, <1>6

(* What the invariant gives each operation to start from. *)
LEMMA Start ==
    ASSUME TableInv
    PROVE  /\ ChainsOK(chain) /\ IsFiniteSet(KeysIn(chain)) /\ Cardinality(KeysIn(chain)) \in Nat
           /\ entries \in 0..(Wrap - 1) /\ lost \in 0..MaxLost /\ lost \in Nat
           /\ cleared \in BOOLEAN /\ op \in [Threads -> Ops]
           /\ Linked = KeysIn(chain)
           /\ \A b \in 1..Size : ChainOK(chain[b], b) /\ ToSet(chain[b]) = Elems(chain[b])
           /\ \A k \in Keys : Bucket[k] \in 1..Size
<1>1. ChainsOK(chain) /\ IsFiniteSet(KeysIn(chain)) /\ entries \in 0..(Wrap - 1) /\ lost \in 0..MaxLost
      /\ cleared \in BOOLEAN /\ op \in [Threads -> Ops]
  BY DEF TableInv
<1>2. Cardinality(KeysIn(chain)) \in Nat
  BY <1>1, FS_CardinalityType
<1>3. Linked = KeysIn(chain) /\ \A b \in 1..Size : ToSet(chain[b]) = Elems(chain[b])
  BY <1>1, LinkedIs
<1>4. \A b \in 1..Size : ChainOK(chain[b], b)
  BY <1>1 DEF ChainsOK
<1>5. lost \in Nat /\ \A k \in Keys : Bucket[k] \in 1..Size
  BY <1>1, HashtableAssumption
<1> QED BY <1>1, <1>2, <1>3, <1>4, <1>5

(* Linking a key adds it to the table. *)
LEMMA InsertNewInv ==
    ASSUME TableInv, NEW t \in Threads, NEW k \in Keys, InsertNew(t, k)
    PROVE  TableInv'
<1> DEFINE b == Bucket[k]
           c == chain[b]
           r == <<k>> \o c
<1>1. /\ op[t] = Idle /\ k \notin ToSet(c) /\ chain' = [chain EXCEPT ![b] = r]
      /\ Step(t, Adj(1), {}) /\ entries' = entries /\ lost' = lost /\ cleared' = cleared
  BY DEF InsertNew, Adj
<1>2. b \in 1..Size /\ ChainOK(c, b) /\ k \notin Elems(c)
  BY <1>1, Start
<1>a. Bucket[k] = b /\ r = <<k>> \o c
  OBVIOUS
<1> HIDE DEF b, c
<1>3. ChainOK(r, b) /\ Elems(r) = Elems(c) \cup {k}
  BY <1>a, <1>2, ConsChain
<1> HIDE DEF r
<1>4. ChainsOK(chain') /\ \A j \in Keys : j \in KeysIn(chain') <=>
                            IF Bucket[j] = b THEN j \in Elems(r) ELSE j \in KeysIn(chain)
  BY <1>1, <1>2, <1>3, Start, OneChainStep
<1>5. \A j \in Keys : Bucket[j] = b => (j \in KeysIn(chain) <=> j \in Elems(c))
  BY DEF KeysIn, c
<1>6. KeysIn(chain') \subseteq Keys /\ KeysIn(chain) \subseteq Keys
  BY DEF KeysIn
<1>7. KeysIn(chain') = KeysIn(chain) \cup {k} /\ k \notin KeysIn(chain)
  BY <1>2, <1>3, <1>4, <1>5, <1>6 DEF b
<1>8. IsFiniteSet(KeysIn(chain')) /\ Cardinality(KeysIn(chain')) = Cardinality(KeysIn(chain)) + 1
  <2>1. IsFiniteSet(KeysIn(chain))
    BY Start
  <2>2. /\ IsFiniteSet(KeysIn(chain) \cup {k})
        /\ Cardinality(KeysIn(chain) \cup {k}) = Cardinality(KeysIn(chain)) + 1
    BY <1>7, <2>1, FS_AddElement
  <2> QED BY <1>7, <2>2
<1>9. Cardinality(KeysIn(chain')) + lost' = Cardinality(KeysIn(chain)) + lost
         + (IF Adj(1) = Adj(1) THEN 1 ELSE 0) - (IF Adj(1) = Adj(-1) THEN 1 ELSE 0)
  BY <1>1, <1>8, Start, Places
<1>10. lost' \in 0..MaxLost /\ cleared' \in BOOLEAN /\ entries' \in 0..(Wrap - 1) /\ op[t].at # "adjust"
  BY <1>1, Start, Places
<1>11. KeysIn(chain) \ {} \subseteq KeysIn(chain')
  BY <1>7
<1>12. Adj(1) \in Ops /\ Adj(1).at # "clear" /\ ForeachOK(Adj(1), KeysIn(chain'))
  BY Places
<1> QED BY <1>1, <1>4, <1>8, <1>9, <1>10, <1>11, <1>12, StepBalances

(* Unlinking a key takes it from the table. *)
LEMMA RemoveKeyInv ==
    ASSUME TableInv, NEW t \in Threads, NEW k \in Keys, RemoveKey(t, k)
    PROVE  TableInv'
<1> DEFINE b == Bucket[k]
           c == chain[b]
           n == Position(k)
           r == RemoveAt(c, n)
<1>1. /\ op[t] = Idle /\ k \in ToSet(c) /\ chain' = [chain EXCEPT ![b] = r]
      /\ Step(t, Adj(-1), {k}) /\ entries' = entries /\ lost' = lost /\ cleared' = cleared
  BY DEF RemoveKey, Adj
<1>2. b \in 1..Size /\ ChainOK(c, b) /\ k \in Elems(c) /\ ChainsOK(chain)
  BY <1>1, Start
<1>3. n \in 1..Len(c) /\ c[n] = k
  BY <1>2, PositionIs
<1> HIDE DEF b, c, n
<1>4. ChainOK(r, b) /\ Elems(r) = Elems(c) \ {k}
  BY <1>2, <1>3, CutChain
<1> HIDE DEF r
<1>5. ChainsOK(chain') /\ \A j \in Keys : j \in KeysIn(chain') <=>
                            IF Bucket[j] = b THEN j \in Elems(r) ELSE j \in KeysIn(chain)
  BY <1>1, <1>2, <1>4, OneChainStep
<1>6. \A j \in Keys : Bucket[j] = b => (j \in KeysIn(chain) <=> j \in Elems(c))
  BY DEF KeysIn, c
<1>7. KeysIn(chain') \subseteq Keys /\ KeysIn(chain) \subseteq Keys
  BY DEF KeysIn
<1>8. KeysIn(chain') = KeysIn(chain) \ {k} /\ k \in KeysIn(chain)
  BY <1>2, <1>4, <1>5, <1>6, <1>7 DEF b
<1>9. IsFiniteSet(KeysIn(chain')) /\ Cardinality(KeysIn(chain')) = Cardinality(KeysIn(chain)) - 1
  <2>1. IsFiniteSet(KeysIn(chain))
    BY Start
  <2>2. /\ IsFiniteSet(KeysIn(chain) \ {k})
        /\ Cardinality(KeysIn(chain) \ {k}) = Cardinality(KeysIn(chain)) - 1
    BY <1>8, <2>1, FS_RemoveElement
  <2> QED BY <1>8, <2>2
<1>10. Cardinality(KeysIn(chain')) + lost' = Cardinality(KeysIn(chain)) + lost
         + (IF Adj(-1) = Adj(1) THEN 1 ELSE 0) - (IF Adj(-1) = Adj(-1) THEN 1 ELSE 0)
  BY <1>1, <1>9, Start, Places
<1>11. lost' \in 0..MaxLost /\ cleared' \in BOOLEAN /\ entries' \in 0..(Wrap - 1) /\ op[t].at # "adjust"
  BY <1>1, Start, Places
<1>12. KeysIn(chain) \ {k} \subseteq KeysIn(chain')
  BY <1>8
<1>13. Adj(-1) \in Ops /\ Adj(-1).at # "clear" /\ ForeachOK(Adj(-1), KeysIn(chain'))
  BY Places
<1> QED BY <1>1, <1>5, <1>9, <1>10, <1>11, <1>12, <1>13, StepBalances

(* An update loses the keys behind the one it updates, and counts them. *)
LEMMA InsertExistingInv ==
    ASSUME TableInv, NEW t \in Threads, NEW k \in Keys,
           InsertExisting(t, k)
    PROVE  TableInv'
<1> DEFINE b == Bucket[k]
           c == chain[b]
           n == Position(k)
           r == SubSeq(c, 1, n)
           E == Behind(c, n)
<1>1. /\ op[t] = Idle /\ k \in ToSet(c) /\ chain' = [chain EXCEPT ![b] = r]
      /\ lost + Len(c) - n <= MaxLost /\ lost' = lost + Len(c) - n
      /\ Step(t, Idle, ToSet(SubSeq(c, n + 1, Len(c))))
      /\ entries' = entries /\ cleared' = cleared
  BY DEF InsertExisting
<1>2. b \in 1..Size /\ ChainOK(c, b) /\ k \in Elems(c) /\ ChainsOK(chain)
  BY <1>1, Start
<1>3. n \in 1..Len(c) /\ c[n] = k
  BY <1>2, PositionIs
<1>a. Bucket[k] = b
  OBVIOUS
<1> HIDE DEF b, c, n
<1>4. ChainOK(r, b) /\ Elems(r) = {c[i] : i \in 1..n}
  BY <1>2, <1>3, PrefixChain
<1>5. ToSet(SubSeq(c, n + 1, Len(c))) = E /\ IsFiniteSet(E) /\ Cardinality(E) = Len(c) - n
  BY <1>2, <1>3, SuffixCount
<1>b. E = {c[i] : i \in (n + 1)..Len(c)}
  BY DEF Behind
<1> HIDE DEF E
<1> HIDE DEF r
<1>6. ChainsOK(chain') /\ \A j \in Keys : j \in KeysIn(chain') <=>
                            IF Bucket[j] = b THEN j \in Elems(r) ELSE j \in KeysIn(chain)
  BY <1>1, <1>2, <1>4, OneChainStep
<1>7. \A j \in Keys : Bucket[j] = b => (j \in KeysIn(chain) <=> j \in Elems(c))
  BY DEF KeysIn, c
<1>8. Len(c) \in Nat /\ c \in Seq(Keys) /\ (\A i \in 1..Len(c) : c[i] \in Keys /\ Bucket[c[i]] = b)
  BY <1>2 DEF ChainOK
<1>9. /\ E \subseteq Elems(c) /\ Elems(r) \subseteq Elems(c) /\ Elems(c) \subseteq Elems(r) \cup E
      /\ \A j : ~(j \in Elems(r) /\ j \in E)
  <2>1. \A i \in 1..Len(c) : i \in 1..n \/ i \in (n + 1)..Len(c)
    BY <1>3, <1>8
  <2>2. 1..n \subseteq 1..Len(c) /\ (n + 1)..Len(c) \subseteq 1..Len(c)
    BY <1>3, <1>8
  <2>3. E \subseteq Elems(c) /\ Elems(r) \subseteq Elems(c) /\ Elems(c) \subseteq Elems(r) \cup E
    BY <1>4, <1>b, <2>1, <2>2 DEF Elems
  <2>4. ASSUME NEW i \in 1..n, NEW j \in (n + 1)..Len(c), c[i] = c[j]
        PROVE  FALSE
    <3>1. i \in 1..Len(c) /\ j \in 1..Len(c) /\ i # j
      BY <1>3, <1>8
    <3> QED BY <1>2, <2>4, <3>1 DEF ChainOK
  <2> QED BY <1>4, <1>b, <2>3, <2>4
<1>10. KeysIn(chain') \subseteq Keys /\ KeysIn(chain) \subseteq Keys
  BY DEF KeysIn
<1>11. \A j \in E : j \in Keys /\ Bucket[j] = b
  BY <1>b, <1>3, <1>8
<1>12. KeysIn(chain') = KeysIn(chain) \ E /\ KeysIn(chain) \cap E = E
  BY <1>6, <1>7, <1>9, <1>10, <1>11
<1>13. IsFiniteSet(KeysIn(chain'))
       /\ Cardinality(KeysIn(chain')) = Cardinality(KeysIn(chain)) - Cardinality(E)
  <2>1. IsFiniteSet(KeysIn(chain))
    BY Start
  <2>2. /\ IsFiniteSet(KeysIn(chain) \ E)
        /\ Cardinality(KeysIn(chain) \ E)
             = Cardinality(KeysIn(chain)) - Cardinality(KeysIn(chain) \cap E)
    BY <2>1, FS_Difference
  <2> QED BY <1>12, <2>2
<1>14. Cardinality(KeysIn(chain')) + lost' = Cardinality(KeysIn(chain)) + lost
         + (IF Idle = Adj(1) THEN 1 ELSE 0) - (IF Idle = Adj(-1) THEN 1 ELSE 0)
  <2>1. Cardinality(KeysIn(chain)) \in Nat /\ lost \in Nat /\ n \in Nat
    BY <1>3, <1>8, Start
  <2>2. Idle # Adj(1) /\ Idle # Adj(-1)
    BY Places
  <2> QED BY <1>1, <1>5, <1>8, <1>13, <2>1, <2>2
<1>15. lost' \in 0..MaxLost
  <2>1. lost \in Nat /\ n \in Nat /\ n <= Len(c)
    BY <1>3, <1>8, Start
  <2> QED BY <1>1, <1>8, <2>1, HashtableAssumption
<1>16. cleared' \in BOOLEAN /\ entries' \in 0..(Wrap - 1) /\ op[t].at # "adjust"
  BY <1>1, Start, Places
<1>17. KeysIn(chain) \ E \subseteq KeysIn(chain') /\ Step(t, Idle, E)
  BY <1>1, <1>5, <1>12
<1>18. Idle \in Ops /\ Idle.at # "clear" /\ ForeachOK(Idle, KeysIn(chain'))
  BY Places
<1> QED BY <1>1, <1>6, <1>13, <1>14, <1>15, <1>16, <1>17, <1>18, StepBalances

(* The counter is adjusted after the unlock. *)
LEMMA AdjustInv ==
    ASSUME TableInv, NEW t \in Threads, Adjust(t)
    PROVE  TableInv'
<1>1. /\ op[t].at = "adjust" /\ entries' = (entries + op[t].by) % Wrap /\ Step(t, Idle, {})
      /\ chain' = chain /\ lost' = lost /\ cleared' = cleared
  BY DEF Adjust
<1>2. ChainsOK(chain') /\ IsFiniteSet(KeysIn(chain')) /\ KeysIn(chain) \ {} \subseteq KeysIn(chain')
  BY <1>1, Start
<1>3. lost' \in 0..MaxLost /\ cleared' \in BOOLEAN
  BY <1>1, Start
<1>4. entries' \in 0..(Wrap - 1)
  <2>1. op[t] = Adj(1) \/ op[t] = Adj(-1)
    BY <1>1, Start, OpCases
  <2>2. op[t].by \in Int
    BY <2>1 DEF Adj
  <2>3. entries \in Int
    BY Start
  <2>4. Wrap \in Nat \ {0}
    BY HashtableAssumption
  <2> QED BY <1>1, <2>2, <2>3, <2>4
<1>5. Idle \in Ops /\ Idle.at # "clear" /\ ForeachOK(Idle, KeysIn(chain'))
  BY Places
<1> QED BY <1>1, <1>2, <1>3, <1>4, <1>5, StepBalances

(* A step that leaves the chains alone and touches no counter. *)
LEMMA QuietInv ==
    ASSUME TableInv, NEW t \in Threads, NEW next \in Ops,
           Step(t, next, {}), op[t].at # "adjust", next # Adj(1), next # Adj(-1),
           ForeachOK(next, KeysIn(chain)), chain' = chain, lost' = lost,
           cleared' \in BOOLEAN, entries' \in 0..(Wrap - 1),
           cleared => cleared', next.at = "clear" => cleared', ~cleared' => entries' = entries
    PROVE  TableInv'
<1>1. ChainsOK(chain') /\ IsFiniteSet(KeysIn(chain')) /\ KeysIn(chain) \ {} \subseteq KeysIn(chain')
  BY Start
<1>2. lost' \in 0..MaxLost
  BY Start
<1>3. Cardinality(KeysIn(chain')) + lost' = Cardinality(KeysIn(chain)) + lost
         + (IF next = Adj(1) THEN 1 ELSE 0) - (IF next = Adj(-1) THEN 1 ELSE 0)
  BY Start
<1>4. ForeachOK(next, KeysIn(chain'))
  OBVIOUS
<1> QED BY <1>1, <1>2, <1>3, <1>4, StepBalances

(* hashtable_clear: once it has begun the counter is not accounted for. *)
LEMMA ClearInv ==
    ASSUME TableInv, NEW t \in Threads,
           ClearBegin(t) \/ ClearBucket(t) \/ ClearEnd(t)
    PROVE  TableInv'
<1> DEFINE C(i) == [at |-> "clear", i |-> i]
<1>0. \A i \in 1..(Size + 1) : /\ C(i) \in Ops /\ C(i) # Adj(1) /\ C(i) # Adj(-1)
                               /\ \A K : ForeachOK(C(i), K)
  BY Places
<1>a. Size \in Nat \ {0} /\ 0 \in 0..(Wrap - 1)
  BY HashtableAssumption
<1>1. CASE ClearBegin(t)
  <2>1. /\ op[t] = Idle /\ Step(t, C(1), {}) /\ cleared' = TRUE
        /\ chain' = chain /\ entries' = entries /\ lost' = lost
    BY <1>1 DEF ClearBegin
  <2>2. C(1) \in Ops /\ C(1) # Adj(1) /\ C(1) # Adj(-1) /\ ForeachOK(C(1), KeysIn(chain))
    BY <1>0, <1>a
  <2>3. op[t].at # "adjust" /\ entries' \in 0..(Wrap - 1)
    BY <2>1, Places, Start
  <2> HIDE DEF C
  <2> QED BY <2>1, <2>2, <2>3, QuietInv
<1>2. CASE ClearBucket(t)
  <2> DEFINE i == op[t].i
  <2>1. /\ op[t].at = "clear" /\ i <= Size /\ chain' = [chain EXCEPT ![i] = <<>>]
        /\ Step(t, [op[t] EXCEPT !.i = @ + 1], ToSet(chain[i]))
        /\ entries' = entries /\ lost' = lost /\ cleared' = cleared
    BY <1>2 DEF ClearBucket
  <2>2. op[t] \in [at : {"clear"}, i : 1..(Size + 1)]
    BY <2>1, Start, OpCases
  <2>3. i \in 1..Size /\ [op[t] EXCEPT !.i = @ + 1] = C(i + 1) /\ i + 1 \in 1..(Size + 1)
    BY <1>a, <2>1, <2>2
  <2>4. ChainOK(<<>>, i)
    BY DEF ChainOK
  <2>5. Step(t, C(i + 1), Elems(chain[i]))
    BY <2>1, <2>3, Start
  <2>6. C(i + 1) \in Ops /\ \A K : ForeachOK(C(i + 1), K)
    BY <1>0, <2>3
  <2> HIDE DEF C, i
  <2>7. ChainsOK(chain') /\ \A j \in Keys : j \in KeysIn(chain') <=>
                              IF Bucket[j] = i THEN j \in Elems(<<>>) ELSE j \in KeysIn(chain)
    BY <2>1, <2>3, <2>4, Start, OneChainStep
  <2>8. KeysIn(chain') \subseteq Keys /\ KeysIn(chain) \subseteq Keys
        /\ \A j \in Keys : Bucket[j] = i => (j \in KeysIn(chain) <=> j \in Elems(chain[i]))
    BY DEF KeysIn
  <2>9. Elems(<<>>) = {}
    BY DEF Elems
  <2>10. KeysIn(chain) \ Elems(chain[i]) \subseteq KeysIn(chain') /\ KeysIn(chain') \subseteq KeysIn(chain)
    BY <2>7, <2>8, <2>9
  <2>11. IsFiniteSet(KeysIn(chain'))
    BY <2>10, Start, FS_Subset
  <2>12. cleared' /\ cleared' \in BOOLEAN
    BY <2>1, Start DEF TableInv
  <2>13. lost' \in 0..MaxLost /\ entries' \in 0..(Wrap - 1)
    BY <2>1, Start
  <2>14. ForeachOK(C(i + 1), KeysIn(chain'))
    BY <2>6
  <2> QED BY <2>5, <2>6, <2>7, <2>10, <2>11, <2>12, <2>13, <2>14, StepBalances
<1>3. CASE ClearEnd(t)
  <2>1. /\ op[t].at = "clear" /\ entries' = 0 /\ Step(t, Idle, {})
        /\ chain' = chain /\ lost' = lost /\ cleared' = cleared
    BY <1>3 DEF ClearEnd
  <2>2. Idle \in Ops /\ Idle # Adj(1) /\ Idle # Adj(-1) /\ ForeachOK(Idle, KeysIn(chain))
    BY Places
  <2>3. cleared' /\ cleared' \in BOOLEAN /\ entries' \in 0..(Wrap - 1) /\ op[t].at # "adjust"
    BY <1>a, <2>1, Start DEF TableInv
  <2> QED BY <2>1, <2>2, <2>3, QuietInv
<1> QED BY <1>1, <1>2, <1>3

(* hashtable_foreach: what it has met of what it owes. *)
LEMMA ForeachInv ==
    ASSUME TableInv, NEW t \in Threads,
           ForeachBegin(t) \/ ForeachBucket(t) \/ ForeachEnd(t)
    PROVE  TableInv'
<1>1. ASSUME NEW next \in Ops, Step(t, next, {}), ForeachOK(next, KeysIn(chain)),
             next.at \in {"idle", "foreach"}, op[t].at \in {"idle", "foreach"},
             chain' = chain, lost' = lost, cleared' = cleared, entries' = entries
      PROVE  TableInv'
  <2>1. next # Adj(1) /\ next # Adj(-1) /\ next.at # "clear" /\ op[t].at # "adjust"
    BY <1>1, Places
  <2>2. cleared' \in BOOLEAN /\ entries' \in 0..(Wrap - 1)
    BY <1>1, Start
  <2> QED BY <1>1, <2>1, <2>2, QuietInv
<1>2. CASE ForeachBegin(t)
  <2> DEFINE next == [at |-> "foreach", i |-> 1, seen |-> {}, must |-> KeysIn(chain)]
  <2>1. /\ op[t] = Idle /\ Step(t, next, {})
        /\ chain' = chain /\ lost' = lost /\ cleared' = cleared /\ entries' = entries
    BY <1>2, Start DEF ForeachBegin
  <2>2. KeysIn(chain) \in SUBSET Keys /\ 1 \in 1..(Size + 1)
    BY HashtableAssumption DEF KeysIn
  <2>3. next \in Foreach
    BY <2>2 DEF Foreach
  <2>4. next \in Ops
    BY <2>3 DEF Foreach, Ops
  <2>5. \A k \in KeysIn(chain) : ~(Bucket[k] < 1)
    BY Start DEF KeysIn
  <2>6. ForeachOK(next, KeysIn(chain))
    BY <2>5 DEF ForeachOK
  <2>7. op[t].at = "idle" /\ next.at = "foreach"
    BY <2>1, Places
  <2> HIDE DEF next
  <2> QED BY <1>1, <2>1, <2>4, <2>6, <2>7
<1>3. CASE ForeachBucket(t)
  <2> DEFINE i == op[t].i
             next == [op[t] EXCEPT !.i = @ + 1, !.seen = @ \cup Elems(chain[i])]
  <2>1. /\ op[t].at = "foreach" /\ i <= Size
        /\ Step(t, [op[t] EXCEPT !.i = @ + 1, !.seen = @ \cup ToSet(chain[i])], {})
        /\ chain' = chain /\ lost' = lost /\ cleared' = cleared /\ entries' = entries
    BY <1>3 DEF ForeachBucket
  <2>2. op[t] \in Foreach
    BY <2>1, Start, OpCases
  <2>3. i \in 1..Size /\ i + 1 \in 1..(Size + 1)
    BY <2>1, <2>2, HashtableAssumption DEF Foreach
  <2>4. Elems(chain[i]) \subseteq Keys /\ ToSet(chain[i]) = Elems(chain[i])
    <3>1. ChainOK(chain[i], i) /\ ToSet(chain[i]) = Elems(chain[i])
      BY <2>3, Start
    <3> QED BY <3>1 DEF Elems, ChainOK
  <2>5. Step(t, next, {})
    BY <2>1, <2>4
  <2>6. next \in Foreach /\ next.must = op[t].must /\ next.i = i + 1
        /\ next.seen = op[t].seen \cup Elems(chain[i])
    BY <2>2, <2>3, <2>4 DEF Foreach
  <2>7. next \in Ops /\ next.at = "foreach"
    BY <2>6 DEF Foreach, Ops
  <2>8. op[t].must \subseteq KeysIn(chain) /\ \A k \in op[t].must : Bucket[k] < i => k \in op[t].seen
    BY <2>1 DEF TableInv, ForeachOK
  <2> HIDE DEF next, i
  <2>9. ASSUME NEW k \in op[t].must, Bucket[k] < i + 1
        PROVE  k \in op[t].seen \cup Elems(chain[i])
    <3>1. k \in Keys /\ k \in Elems(chain[Bucket[k]]) /\ Bucket[k] \in 1..Size
      BY <2>8, Start DEF KeysIn
    <3>2. Bucket[k] < i \/ Bucket[k] = i
      BY <2>3, <2>9, <3>1, HashtableAssumption
    <3> QED BY <2>8, <3>1, <3>2
  <2>10. ForeachOK(next, KeysIn(chain))
    BY <2>6, <2>8, <2>9 DEF ForeachOK
  <2> QED BY <1>1, <2>1, <2>5, <2>7, <2>10
<1>4. CASE ForeachEnd(t)
  <2>1. /\ op[t].at = "foreach" /\ Step(t, Idle, {})
        /\ chain' = chain /\ lost' = lost /\ cleared' = cleared /\ entries' = entries
    BY <1>4 DEF ForeachEnd
  <2>2. Idle \in Ops /\ Idle.at = "idle" /\ ForeachOK(Idle, KeysIn(chain))
    BY Places
  <2> QED BY <1>1, <2>1, <2>2
<1> QED BY <1>2, <1>3, <1>4

(* TableInv holds of the empty table and every operation keeps it. *)
LEMMA TableInductive == (Init => TableInv) /\ (TableInv /\ [Next]_vars => TableInv')
<1>1. ASSUME Init
      PROVE  TableInv
  <2>1. /\ chain = [i \in 1..Size |-> <<>>] /\ entries = 0 /\ lost = 0 /\ cleared = FALSE
        /\ op = [t \in Threads |-> Idle]
    BY <1>1 DEF Init
  <2>2. ChainsOK(chain)
    BY <2>1 DEF ChainsOK, ChainOK
  <2>3. KeysIn(chain) = {}
    <3>1. \A k \in Keys : chain[Bucket[k]] = <<>>
      BY <2>1, HashtableAssumption
    <3>2. Elems(<<>>) = {}
      BY DEF Elems
    <3> QED BY <3>1, <3>2 DEF KeysIn
  <2>4. Adjusting(op, 1) = {} /\ Adjusting(op, -1) = {}
    BY <2>1, Places DEF Adjusting
  <2>5. IsFiniteSet(KeysIn(chain)) /\ IsFiniteSet(Adjusting(op, 1)) /\ IsFiniteSet(Adjusting(op, -1))
        /\ Cardinality(KeysIn(chain)) = 0 /\ Cardinality(Adjusting(op, 1)) = 0
        /\ Cardinality(Adjusting(op, -1)) = 0
    BY <2>3, <2>4, FS_EmptySet
  <2>6. entries = Balance(chain, lost, op) % Wrap
    <3>1. Balance(chain, lost, op) = 0
      BY <2>1, <2>5 DEF Balance
    <3>2. 0 % Wrap = 0
      BY HashtableAssumption
    <3> QED BY <2>1, <3>1, <3>2
  <2>7. op \in [Threads -> Ops] /\ \A t \in Threads : ForeachOK(op[t], KeysIn(chain))
                                                        /\ op[t].at # "clear"
    BY <2>1, Places
  <2>8. entries \in 0..(Wrap - 1) /\ lost \in 0..MaxLost /\ cleared \in BOOLEAN
    <3>1. 0 \in 0..(Wrap - 1) /\ 0 \in 0..MaxLost
      BY HashtableAssumption
    <3> QED BY <2>1, <3>1
  <2> QED BY <2>2, <2>5, <2>6, <2>7, <2>8 DEF TableInv
<1>2. ASSUME TableInv, Next
      PROVE  TableInv'
  <2>1. PICK t \in Threads :
          \/ \E k \in Keys : InsertNew(t, k) \/ InsertExisting(t, k) \/ RemoveKey(t, k)
          \/ Adjust(t)
          \/ ClearBegin(t) \/ ClearBucket(t) \/ ClearEnd(t)
          \/ ForeachBegin(t) \/ ForeachBucket(t) \/ ForeachEnd(t)
    BY <1>2 DEF Next
  <2>2. ASSUME NEW k \in Keys, InsertNew(t, k)
        PROVE  TableInv'
    BY <1>2, <2>2, InsertNewInv
  <2>3. ASSUME NEW k \in Keys, InsertExisting(t, k)
        PROVE  TableInv'
    BY <1>2, <2>3, InsertExistingInv
  <2>4. ASSUME NEW k \in Keys, RemoveKey(t, k)
        PROVE  TableInv'
    BY <1>2, <2>4, RemoveKeyInv
  <2>5. CASE Adjust(t)
    BY <1>2, <2>5, AdjustInv
  <2>6. CASE ClearBegin(t) \/ ClearBucket(t) \/ ClearEnd(t)
    BY <1>2, <2>6, ClearInv
  <2>7. CASE ForeachBegin(t) \/ ForeachBucket(t) \/ ForeachEnd(t)
    BY <1>2, <2>7, ForeachInv
  <2> QED BY <2>1, <2>2, <2>3, <2>4, <2>5, <2>6, <2>7
<1>3. ASSUME TableInv, UNCHANGED vars
      PROVE  TableInv'
  BY <1>3 DEF vars, TableInv
<1> QED BY <1>1, <1>2, <1>3

(* TableInv holds in every state. *)
LEMMA TableInvariant == Spec => []TableInv
<1>1. Init => TableInv
  BY TableInductive
<1>2. TableInv /\ [Next]_vars => TableInv'
  BY TableInductive
<1> QED BY <1>1, <1>2, PTL DEF Spec

(* Every chain holds keys of its own bucket, and the counter, the losses    *)
(* and the operations in progress keep their types (hashtable.c).           *)
THEOREM TableTypeCorrect == Spec => []TypeOK
<1>1. TableInv => TypeOK
  <2> SUFFICES ASSUME TableInv
               PROVE  TypeOK
    OBVIOUS
  <2>1. \A i \in 1..Size : ToSet(chain[i]) = Elems(chain[i]) /\ ChainOK(chain[i], i)
    BY Start
  <2>2. \A i \in 1..Size : ToSet(chain[i]) \subseteq {k \in Keys : Bucket[k] = i}
    <3> SUFFICES ASSUME NEW i \in 1..Size
                 PROVE  Elems(chain[i]) \subseteq {k \in Keys : Bucket[k] = i}
      BY <2>1
    <3>1. ChainOK(chain[i], i)
      BY <2>1
    <3> QED BY <3>1 DEF ChainOK, Elems
  <2> QED BY <2>2, Start DEF TypeOK
<1>2. Spec => []TableInv
  BY TableInvariant
<1> QED BY <1>1, <1>2, PTL

(* No key is linked twice, for any threads, keys and buckets: search and    *)
(* link of hashtable_insert are under one lock (hashtable.c:192-209).       *)
THEOREM KeysOnceCorrect == Spec => []KeysOnce
<1>1. TableInv => KeysOnce
  <2> SUFFICES ASSUME TableInv, NEW i \in 1..Size
               PROVE  IsInjective(chain[i])
    BY DEF KeysOnce
  <2>1. ChainOK(chain[i], i)
    BY Start
  <2>2. chain[i] \in Seq(Keys) /\ DOMAIN chain[i] = 1..Len(chain[i])
    BY <2>1 DEF ChainOK
  <2> QED BY <2>1, <2>2 DEF IsInjective, ChainOK
<1>2. Spec => []TableInv
  BY TableInvariant
<1> QED BY <1>1, <1>2, PTL

(* Before the first hashtable_clear the atomic counter, wrapped or not, is  *)
(* the number of linked keys plus the lost ones, up to the adjustments that *)
(* threads have still to make after their unlock.                           *)
THEOREM CountCorrect == Spec => []CountExact
<1>1. TableInv => CountExact
  <2> SUFFICES ASSUME TableInv, ~cleared
               PROVE  entries = (Count + lost - Pending(1) + Pending(-1)) % Wrap
    BY DEF CountExact
  <2>1. Count = Cardinality(KeysIn(chain))
    BY Start DEF Count
  <2>2. Pending(1) = Cardinality(Adjusting(op, 1)) /\ Pending(-1) = Cardinality(Adjusting(op, -1))
    BY DEF Pending, Adjusting, Adj
  <2>3. entries = Balance(chain, lost, op) % Wrap
    BY DEF TableInv
  <2> QED BY <2>1, <2>2, <2>3 DEF Balance
<1>2. Spec => []TableInv
  BY TableInvariant
<1> QED BY <1>1, <1>2, PTL

(* hashtable_foreach has met, of the keys that stayed in the table since it *)
(* began, all those of the buckets behind it, whatever runs meanwhile.      *)
THEOREM ForeachCorrect == Spec => []ForeachComplete
<1>1. TableInv => ForeachComplete
  BY DEF TableInv, ForeachOK, ForeachComplete
<1>2. Spec => []TableInv
  BY TableInvariant
<1> QED BY <1>1, <1>2, PTL

-----------------------------------------------------------------------------
(* The logger.                                                               *)

(* A call that is past its lock and not past its unlock. *)
Inside(f) == f.at \in {"hold", "done"}

(* The stack of a thread that has the mutex, or has not: one of its calls,  *)
(* and no other, is inside.                                                 *)
StackOK(s, mine) ==
    /\ s \in Seq(Frames)
    /\ mine <=> \E i \in 1..Len(s) : Inside(s[i])
    /\ \A i, j \in 1..Len(s) : Inside(s[i]) /\ Inside(s[j]) => i = j

(* What the counter does not know of the file was written before renames    *)
(* that failed, at most the limit and one line for each.                    *)
FileByCounter == \E size \in LineSizes :
    /\ bytes_written <= MaxLogSize + size
    /\ file_size <= stuck * (MaxLogSize + size) + bytes_written

LogInv == /\ stack \in [Writers -> Seq(Frames)]
          /\ lock \in Writers \cup {Nobody}
          /\ fp \in BOOLEAN
          /\ bytes_written \in Nat /\ file_size \in Nat /\ stuck \in Nat
          /\ fp => bytes_written <= MaxLogSize
          /\ FileByCounter
          /\ \A t \in Writers : StackOK(stack[t], lock = t)

(* A new innermost call waits. *)
LEMMA PushOK ==
    ASSUME NEW s, NEW mine \in BOOLEAN, StackOK(s, mine),
           NEW f \in Frames, f.at = "want"
    PROVE  StackOK(<<f>> \o s, mine)
<1> DEFINE r == <<f>> \o s
<1>1. s \in Seq(Frames) /\ Len(s) \in Nat
  BY DEF StackOK
<1>2. r \in Seq(Frames) /\ Len(r) = Len(s) + 1 /\ r[1] = f
      /\ \A i \in 1..Len(s) : r[i + 1] = s[i]
  BY <1>1
<1>3. ~Inside(f)
  BY DEF Inside
<1>4. \A i \in 1..Len(r) : Inside(r[i]) => i - 1 \in 1..Len(s) /\ Inside(s[i - 1])
  BY <1>1, <1>2, <1>3
<1>5. \A i \in 1..Len(s) : i + 1 \in 1..Len(r) /\ (Inside(s[i]) <=> Inside(r[i + 1]))
  BY <1>1, <1>2
<1> HIDE DEF r
<1>6. mine <=> \E i \in 1..Len(r) : Inside(r[i])
  BY <1>4, <1>5 DEF StackOK
<1>7. ASSUME NEW i \in 1..Len(r), NEW j \in 1..Len(r), Inside(r[i]), Inside(r[j])
      PROVE  i = j
  <2>1. i - 1 = j - 1
    BY <1>4, <1>7 DEF StackOK
  <2> QED BY <1>1, <1>2, <2>1
<1>8. StackOK(r, mine)
  BY <1>2, <1>6, <1>7 DEF StackOK
<1> QED BY <1>8 DEF r

(* The innermost call goes on to another point. *)
LEMMA TopOK ==
    ASSUME NEW s, NEW mine \in BOOLEAN, StackOK(s, mine), s # <<>>,
           NEW f \in Frames, NEW held \in BOOLEAN,
           \/ Inside(Head(s)) /\ held
           \/ ~Inside(Head(s)) /\ ~mine,
           Inside(f) <=> held
    PROVE  StackOK(<<f>> \o Tail(s), held)
<1> DEFINE r == <<f>> \o Tail(s)
<1>1. s \in Seq(Frames) /\ Len(s) \in Nat \ {0} /\ Head(s) = s[1]
  BY DEF StackOK
<1>2. r \in Seq(Frames) /\ Len(r) = Len(s) /\ r[1] = f
      /\ \A i \in 2..Len(s) : r[i] = s[i]
  BY <1>1
<1>3. \A i \in 2..Len(s) : ~Inside(s[i])
  BY <1>1 DEF StackOK
<1> HIDE DEF r
<1> QED BY <1>1, <1>2, <1>3 DEF StackOK

(* The innermost call returns. *)
LEMMA PopOK ==
    ASSUME NEW s, NEW mine \in BOOLEAN, StackOK(s, mine), s # <<>>, Inside(Head(s))
    PROVE  StackOK(Tail(s), FALSE)
<1> DEFINE r == Tail(s)
<1>1. s \in Seq(Frames) /\ Len(s) \in Nat \ {0} /\ Head(s) = s[1]
  BY DEF StackOK
<1>2. r \in Seq(Frames) /\ Len(r) = Len(s) - 1 /\ \A i \in 1..Len(r) : r[i] = s[i + 1]
  BY <1>1
<1>3. \A i \in 2..Len(s) : ~Inside(s[i])
  BY <1>1 DEF StackOK
<1>4. \A i \in 1..Len(r) : ~Inside(r[i])
  BY <1>1, <1>2, <1>3
<1> HIDE DEF r
<1> QED BY <1>2, <1>4 DEF StackOK

(* A product with a larger factor is no smaller. *)
LEMMA ProductGrows ==
    ASSUME NEW k \in Nat, NEW a \in Nat, NEW b \in Nat, a <= b
    PROVE  k * a \in Nat /\ k * b \in Nat /\ k * a <= k * b /\ (k + 1) * b = k * b + b
<1>1. b - a \in Nat /\ \A m, n \in Nat : m * n \in Nat
  OBVIOUS
<1>2. k * b = k * a + k * (b - a) /\ (k + 1) * b = k * b + b
  BY <1>1
<1> QED BY <1>1, <1>2

(* A rotation keeps the bound on the file: after a rename the file is new,  *)
(* otherwise the counter's part goes to the account of the failed rename.   *)
LEMMA RotateSize ==
    ASSUME bytes_written \in Nat, file_size \in Nat, stuck \in Nat, bytes_written <= MaxLogSize,
           FileByCounter, NEW t, NEW size \in LineSizes, NEW renamed \in BOOLEAN,
           Rotate(t, size, renamed), bytes_written' \in {0, bytes_written + size}
    PROVE  bytes_written' \in Nat /\ file_size' \in Nat /\ stuck' \in Nat /\ FileByCounter'
<1>0. MaxLogSize \in Nat /\ LineSizes \subseteq Nat /\ size \in Nat
  BY LoggerAssumption
<1>1. PICK s \in LineSizes : file_size <= stuck * (MaxLogSize + s) + bytes_written
  BY DEF FileByCounter
<1>2. PICK m \in LineSizes : m >= s /\ m >= size
  BY <1>0
<1>3. bytes_written' \in Nat /\ bytes_written' <= MaxLogSize + m
  BY <1>0, <1>2
<1>4. CASE renamed
  <2>1. file_size' = 0 /\ stuck' = 0
    BY <1>4 DEF Rotate
  <2>2. file_size' <= stuck' * (MaxLogSize + m) + bytes_written'
    <3>1. 0 * (MaxLogSize + m) = 0
      BY <1>0
    <3>2. stuck' * (MaxLogSize + m) = 0
      BY <2>1, <3>1, Zenon
    <3> QED BY <1>3, <2>1, <3>2
  <2>3. FileByCounter'
    BY <1>3, <2>2, Zenon DEF FileByCounter
  <2> QED BY <1>3, <2>1, <2>3
<1>5. CASE ~renamed
  <2>1. file_size' = file_size + size /\ stuck' = stuck + 1
    BY <1>5 DEF Rotate
  <2> DEFINE a == MaxLogSize + s
             b == MaxLogSize + m
  <2>2. a \in Nat /\ b \in Nat /\ a <= b /\ bytes_written + size <= b
    BY <1>0, <1>2
  <2>3. stuck * a \in Nat /\ stuck * b \in Nat /\ stuck * a <= stuck * b
        /\ (stuck + 1) * b = stuck * b + b
    <3> HIDE DEF a, b
    <3> QED BY <2>2, ProductGrows
  <2>4. file_size <= stuck * a + bytes_written
    BY <1>1
  <2>5. file_size' <= stuck' * b + bytes_written'
    <3> HIDE DEF a, b
    <3>1. file_size + size <= (stuck + 1) * b
      BY <1>0, <2>2, <2>3, <2>4
    <3>2. (stuck + 1) * b \in Nat
      BY <2>2, <2>3
    <3> QED BY <1>3, <2>1, <3>1, <3>2
  <2>6. FileByCounter'
    BY <1>3, <2>5, Zenon DEF FileByCounter
  <2>7. file_size' \in Nat /\ stuck' \in Nat
    BY <1>0, <2>1
  <2> QED BY <1>3, <2>6, <2>7
<1> QED BY <1>4, <1>5

(* Every step of every thread preserves the logger's invariant. *)
LEMMA LogInductive ==
    LogInv /\ [LogNext]_logVars => LogInv'
<1> SUFFICES ASSUME LogInv, [LogNext]_logVars
             PROVE  LogInv'
  OBVIOUS
<1> DEFINE Stacks == \A t \in Writers : StackOK(stack[t], lock = t)
           Bytes == /\ fp \in BOOLEAN /\ bytes_written \in Nat /\ file_size \in Nat /\ stuck \in Nat
                    /\ fp => bytes_written <= MaxLogSize
                    /\ FileByCounter
<1>0. /\ stack \in [Writers -> Seq(Frames)] /\ lock \in Writers \cup {Nobody}
      /\ Nobody \notin Writers /\ Main \in Writers /\ MaxLogSize \in Nat /\ LineSizes \subseteq Nat
      /\ Stacks /\ Bytes
  BY LoggerAssumption DEF LogInv
<1>1. ASSUME stack' \in [Writers -> Seq(Frames)], lock' \in Writers \cup {Nobody}, Stacks', Bytes'
      PROVE  LogInv'
  BY <1>1 DEF LogInv
<1>2. ASSUME UNCHANGED <<fp, bytes_written, file>>
      PROVE  Bytes'
  BY <1>0, <1>2 DEF FileByCounter, file
<1>3. \A at \in {"want", "hold", "done"}, from \in {"call", "rotate", "signal", "cleanup"} :
        /\ Frame(at, from) \in Frames /\ Frame(at, from).at = at
        /\ Inside(Frame(at, from)) <=> at # "want"
  BY DEF Frame, Frames, Inside
(* A step changes one thread's stack; the mutex is that thread's before and *)
(* after, or nobody's.                                                      *)
<1>4. ASSUME NEW t \in Writers, NEW s, stack' = [stack EXCEPT ![t] = s],
             lock' \in Writers \cup {Nobody},
             lock' = lock \/ (lock = t /\ lock' = Nobody) \/ (lock = Nobody /\ lock' = t),
             StackOK(s, lock' = t)
      PROVE  stack' \in [Writers -> Seq(Frames)] /\ Stacks'
  <2>1. stack' \in [Writers -> Seq(Frames)]
    BY <1>0, <1>4 DEF StackOK
  <2>2. ASSUME NEW u \in Writers
        PROVE  StackOK(stack[u], lock = u)'
    <3>1. CASE u = t
      <4>1. stack'[u] = s
        BY <1>0, <1>4, <3>1
      <4> QED BY <1>4, <3>1, <4>1
    <3>2. CASE u # t
      <4>1. stack'[u] = stack[u] /\ ((lock' = u) <=> (lock = u))
        BY <1>0, <1>4, <3>2
      <4>2. StackOK(stack[u], lock = u)
        BY <1>0
      <4> QED BY <4>1, <4>2 DEF StackOK
    <3> QED BY <3>1, <3>2
  <2> QED BY <2>1, <2>2
<1>5. ASSUME NEW t \in Writers
      PROVE  /\ StackOK(stack[t], lock = t) /\ stack[t] \in Seq(Frames)
             /\ stack[t] # <<>> => Head(stack[t]) \in Frames
             /\ \A w \in {"want", "hold", "done"} :
                  Innermost(t, w) => stack[t] # <<>> /\ (Inside(Head(stack[t])) <=> w # "want")
  <2>1. StackOK(stack[t], lock = t) /\ stack[t] \in Seq(Frames)
    BY <1>0, <1>5
  <2> QED BY <2>1 DEF Innermost, Inside
<1>6. ASSUME NEW t \in Writers, stack[t] # <<>>
      PROVE  Head(stack[t]).from \in {"call", "rotate", "signal", "cleanup"}
  BY <1>5, <1>6 DEF Frames
(* The thread that has the mutex goes on with its innermost call. *)
<1>7. ASSUME NEW t \in Writers, Innermost(t, "hold"),
             NEW from \in {"call", "rotate", "signal", "cleanup"}
      PROVE  lock = t /\ StackOK(<<Frame("done", from)>> \o Tail(stack[t]), TRUE)
  <2>1. Inside(Head(stack[t])) /\ stack[t] # <<>> /\ StackOK(stack[t], lock = t)
    BY <1>5, <1>7
  <2>2. lock = t
    <3>1. Head(stack[t]) = stack[t][1] /\ 1 \in 1..Len(stack[t])
      BY <1>5, <2>1
    <3> QED BY <2>1, <3>1 DEF StackOK
  <2>3. Frame("done", from) \in Frames /\ Inside(Frame("done", from))
    BY <1>3
  <2> QED BY <2>1, <2>2, <2>3, TopOK
<1>8. ASSUME NEW t \in Writers, NEW from \in {"call", "rotate", "signal", "cleanup"},
             Push(t, <<Frame("want", from)>>), UNCHANGED lock
      PROVE  stack' \in [Writers -> Seq(Frames)] /\ Stacks'
  <2> DEFINE f == Frame("want", from)
  <2>1. f \in Frames /\ f.at = "want"
    BY <1>3
  <2> HIDE DEF f
  <2>2. StackOK(<<f>> \o stack[t], lock = t)
    BY <1>5, <2>1, PushOK
  <2>3. stack' = [stack EXCEPT ![t] = <<f>> \o stack[t]]
    BY <1>8 DEF Push, f
  <2>4. StackOK(<<f>> \o stack[t], lock' = t) /\ lock' \in Writers \cup {Nobody}
    BY <2>2, <1>8, <1>0
  <2> QED BY <1>4, <1>8, <2>3, <2>4
<1>9. ASSUME NEW t \in Writers, NEW l \in Levels, log_message(t, l)
      PROVE  LogInv'
  BY <1>0, <1>1, <1>2, <1>8, <1>9 DEF log_message
<1>10. ASSUME NEW t \in Writers, Lock(t)
       PROVE  LogInv'
  <2> DEFINE f == Frame("hold", Head(stack[t]).from)
  <2>1. /\ lock = Nobody /\ lock' = t /\ stack[t] # <<>> /\ ~Inside(Head(stack[t]))
        /\ stack' = [stack EXCEPT ![t] = <<f>> \o Tail(stack[t])] /\ UNCHANGED <<fp, bytes_written, file>>
    BY <1>5, <1>10 DEF Lock, Top
  <2>2. f \in Frames /\ Inside(f)
    BY <1>3, <1>6, <2>1
  <2> HIDE DEF f
  <2>3. StackOK(<<f>> \o Tail(stack[t]), TRUE)
    BY <1>0, <1>5, <2>1, <2>2, TopOK
  <2>4. StackOK(<<f>> \o Tail(stack[t]), lock' = t) /\ lock' \in Writers \cup {Nobody}
    BY <2>1, <2>3
  <2> QED BY <1>1, <1>2, <1>4, <2>1, <2>4
<1>11. ASSUME NEW t \in Writers, Innermost(t, "hold"), NEW from \in {"call", "rotate", "signal", "cleanup"},
              Top(t, Frame("done", from)), UNCHANGED lock
       PROVE  stack' \in [Writers -> Seq(Frames)] /\ Stacks'
  <2> DEFINE s == <<Frame("done", from)>> \o Tail(stack[t])
  <2>1. lock = t /\ StackOK(s, TRUE)
    BY <1>7, <1>11
  <2>2. stack' = [stack EXCEPT ![t] = s]
    BY <1>11 DEF Top
  <2> HIDE DEF s
  <2>3. StackOK(s, lock' = t) /\ lock' \in Writers \cup {Nobody} /\ lock' = lock
    BY <1>0, <1>11, <2>1
  <2> QED BY <1>4, <2>2, <2>3
<1>12. ASSUME NEW t \in Writers, Skip(t)
       PROVE  LogInv'
  <2>1. Innermost(t, "hold") /\ stack[t] # <<>>
    BY <1>12 DEF Skip, Innermost
  <2> QED BY <1>0, <1>1, <1>2, <1>6, <1>11, <1>12, <2>1 DEF Skip
<1>13. ASSUME NEW t \in Writers, NEW size \in LineSizes, Write(t, size)
       PROVE  LogInv'
  <2>1. Innermost(t, "hold") /\ stack[t] # <<>>
    BY <1>13 DEF Write, Innermost
  <2>2. Bytes'
    <3>1. /\ fp' = fp /\ stuck' = stuck /\ file_size' = file_size + size
          /\ bytes_written' = bytes_written + size /\ bytes_written' <= MaxLogSize
      BY <1>13 DEF Write
    <3>2. PICK s \in LineSizes : file_size <= stuck * (MaxLogSize + s) + bytes_written
      BY <1>0 DEF FileByCounter
    <3>3. stuck * (MaxLogSize + s) \in Nat /\ bytes_written' \in Nat /\ file_size' \in Nat
      BY <1>0, <3>1, ProductGrows
    <3>4. file_size' <= stuck' * (MaxLogSize + s) + bytes_written' /\ bytes_written' <= MaxLogSize + s
      BY <1>0, <3>1, <3>2, <3>3
    <3> QED BY <1>0, <3>1, <3>3, <3>4 DEF FileByCounter
  <2> QED BY <1>0, <1>1, <1>6, <1>11, <1>13, <2>1, <2>2 DEF Write
<1>14. ASSUME NEW t \in Writers, NEW size \in LineSizes, NEW renamed \in BOOLEAN,
              WriteRotateFails(t, size, renamed)
       PROVE  LogInv'
  <2>1. Innermost(t, "hold") /\ stack[t] # <<>> /\ fp
    BY <1>14 DEF WriteRotateFails, Rotate, Innermost
  <2>2. Bytes'
    <3>1. /\ fp' = FALSE /\ Rotate(t, size, renamed)
          /\ bytes_written' \in {0, bytes_written + size}
      BY <1>14 DEF WriteRotateFails
    <3>2. bytes_written' \in Nat /\ file_size' \in Nat /\ stuck' \in Nat /\ FileByCounter'
      BY <1>0, <2>1, <3>1, RotateSize
    <3> QED BY <3>1, <3>2
  <2> QED BY <1>0, <1>1, <1>6, <1>11, <1>14, <2>1, <2>2 DEF WriteRotateFails
<1>15. ASSUME NEW t \in Writers, NEW size \in LineSizes, NEW renamed \in BOOLEAN,
              WriteRotate(t, size, renamed)
       PROVE  LogInv'
  <2> DEFINE want == Frame("want", "rotate")
             done == Frame("done", Head(stack[t]).from)
             rest == Tail(stack[t])
  <2>1. Innermost(t, "hold") /\ stack[t] # <<>> /\ fp
    BY <1>15 DEF WriteRotate, Rotate, Innermost
  <2>2. Bytes'
    <3>1. /\ fp' = fp /\ bytes_written' = 0 /\ Rotate(t, size, renamed)
      BY <1>15 DEF WriteRotate
    <3>2. bytes_written' \in {0, bytes_written + size} /\ bytes_written' <= MaxLogSize
      BY <1>0, <3>1
    <3> QED BY <1>0, <2>1, <3>1, <3>2, RotateSize
  <2>3. lock = t /\ StackOK(<<done>> \o rest, TRUE)
    BY <1>6, <1>7, <2>1
  <2>4. want \in Frames /\ want.at = "want" /\ done \in Frames /\ rest \in Seq(Frames)
    BY <1>3, <1>5, <1>6, <2>1
  <2>5. \/ stack' = [stack EXCEPT ![t] = (<<want>> \o <<done>>) \o rest]
        \/ stack' = [stack EXCEPT ![t] = (<<>> \o <<done>>) \o rest]
    BY <1>15 DEF WriteRotate
  <2>6. lock' = lock
    BY <1>15 DEF WriteRotate
  <2> HIDE DEF want, done, rest
  <2>7. (<<want>> \o <<done>>) \o rest = <<want>> \o (<<done>> \o rest) /\ <<>> \o <<done>> = <<done>>
    <3>1. <<want>> \in Seq(Frames) /\ <<done>> \in Seq(Frames)
      BY <2>4
    <3> QED BY <2>4, <3>1, ConcatAssociative, ConcatEmptySeq
  <2>8. StackOK(<<want>> \o (<<done>> \o rest), TRUE)
    BY <2>3, <2>4, PushOK
  <2>9. PICK s : stack' = [stack EXCEPT ![t] = s] /\ StackOK(s, TRUE)
    BY <2>3, <2>5, <2>7, <2>8
  <2>10. StackOK(s, lock' = t) /\ lock' \in Writers \cup {Nobody}
    BY <1>0, <2>3, <2>6, <2>9
  <2> QED BY <1>1, <1>4, <2>2, <2>6, <2>9, <2>10
<1>16. ASSUME NEW t \in Writers, Unlock(t)
       PROVE  LogInv'
  <2>1. /\ stack[t] # <<>> /\ Inside(Head(stack[t])) /\ lock' = Nobody
        /\ stack' = [stack EXCEPT ![t] = Tail(stack[t])] /\ UNCHANGED <<fp, bytes_written, file>>
    BY <1>5, <1>16 DEF Unlock
  <2>2. StackOK(Tail(stack[t]), FALSE)
    BY <1>5, <2>1, PopOK
  <2>3. lock = t
    <3>1. Head(stack[t]) = stack[t][1] /\ 1 \in 1..Len(stack[t])
      BY <1>5, <2>1
    <3> QED BY <1>5, <2>1, <3>1 DEF StackOK
  <2>4. StackOK(Tail(stack[t]), lock' = t) /\ lock' \in Writers \cup {Nobody}
    BY <1>0, <2>1, <2>2
  <2> QED BY <1>1, <1>2, <1>4, <2>1, <2>3, <2>4
<1>17. ASSUME UNCHANGED <<fp, bytes_written, file, stack, lock>>
       PROVE  LogInv'
  BY <1>17 DEF LogInv, FileByCounter, file, StackOK
<1>18. ASSUME NEW t \in Writers, Signal(t)
       PROVE  LogInv'
  <2>1. \/ Push(t, <<Frame("want", "signal")>>)
        \/ UNCHANGED stack
    BY <1>18 DEF Signal
  <2>2. UNCHANGED <<lock, fp, bytes_written, file>>
    BY <1>18 DEF Signal
  <2> QED BY <1>0, <1>1, <1>2, <1>8, <1>17, <2>1, <2>2
<1>19. ASSUME logger_cleanup
       PROVE  LogInv'
  BY <1>0, <1>1, <1>2, <1>8, <1>19 DEF logger_cleanup
<1>20. ASSUME CloseFile
       PROVE  LogInv'
  <2>1. Bytes'
    BY <1>0, <1>20 DEF CloseFile, FileByCounter, file
  <2> QED BY <1>0, <1>1, <1>11, <1>20, <2>1 DEF CloseFile
<1>21. CASE UNCHANGED logVars
  BY <1>17, <1>21 DEF logVars, file
<1> QED BY <1>9, <1>10, <1>12, <1>13, <1>14, <1>15, <1>16, <1>18, <1>19, <1>20, <1>21
        DEF LogNext, Running

(* The logger's invariant holds in every reachable state. *)
LEMMA LogInvariant ==
    LogSpec => []LogInv
<1>1. ASSUME LogInit
      PROVE  LogInv
  <2>1. /\ stack = [t \in Writers |-> <<>>] /\ lock = Nobody /\ fp = TRUE /\ bytes_written = 0
        /\ file_size = 0 /\ stuck = 0
        /\ Nobody \notin Writers /\ MaxLogSize \in Nat /\ LineSizes \subseteq Nat /\ LineSizes # {}
    BY <1>1, LoggerAssumption DEF LogInit
  <2>2. <<>> \in Seq(Frames) /\ Len(<<>>) = 0
    OBVIOUS
  <2>3. \A t \in Writers : stack[t] = <<>> /\ lock # t
    BY <2>1
  <2>4. ASSUME NEW t \in Writers
        PROVE  StackOK(stack[t], lock = t)
    <3>1. StackOK(<<>>, FALSE)
      BY <2>2 DEF StackOK
    <3>2. stack[t] = <<>> /\ ~(lock = t)
      BY <2>3
    <3> QED BY <3>1, <3>2, Zenon DEF StackOK
  <2>5. FileByCounter
    <3>1. PICK size \in LineSizes : size \in Nat
      BY <2>1
    <3>2. 0 * (MaxLogSize + size) = 0
      BY <2>1, <3>1
    <3> QED BY <2>1, <3>1, <3>2 DEF FileByCounter
  <2> QED BY <2>1, <2>2, <2>4, <2>5 DEF LogInv
<1> QED BY <1>1, LogInductive, PTL DEF LogSpec

(* g_logger.lock is held by t exactly while one of the log calls on t's     *)
(* stack is past its lock and not past its unlock, through rotations that   *)
(* log, signal handlers on top of log calls and cleanup (logger.c).         *)
THEOREM HeldCorrect ==
    LogSpec => []HeldByWriter
<1>1. LogInv => HeldByWriter
  <2> SUFFICES ASSUME LogInv, NEW t \in Writers
               PROVE  (lock = t) <=> \E f \in ToSet(stack[t]) : f.at \in {"hold", "done"}
    BY DEF HeldByWriter
  <2>1. stack[t] \in Seq(Frames) /\ StackOK(stack[t], lock = t)
    BY DEF LogInv
  <2>2. ToSet(stack[t]) = {stack[t][i] : i \in 1..Len(stack[t])}
    BY <2>1 DEF ToSet
  <2> QED BY <2>1, <2>2 DEF StackOK, Inside
<1> QED BY <1>1, LogInvariant, PTL

(* What the process has written under the log's name is bounded by the      *)
(* limit and a line for every rename that failed since the last that did    *)
(* not, and once more: also after a reopen that failed, when nothing is     *)
(* written any more (logger.c:133-137, 209-222).                            *)
THEOREM LogSizeCorrect ==
    LogSpec => []SizeBounded
<1>1. ASSUME LogInv PROVE SizeBounded
  <2>1. PICK size \in LineSizes : /\ bytes_written <= MaxLogSize + size
                                  /\ file_size <= stuck * (MaxLogSize + size) + bytes_written
    BY <1>1 DEF LogInv, FileByCounter
  <2>2. stuck \in Nat /\ MaxLogSize + size \in Nat /\ bytes_written \in Nat /\ file_size \in Nat
    BY <1>1, LoggerAssumption DEF LogInv
  <2> DEFINE b == MaxLogSize + size
  <2>3. bytes_written <= b /\ file_size <= stuck * b + bytes_written /\ b \in Nat
    BY <2>1, <2>2
  <2>4. file_size <= (stuck + 1) * b
    <3> HIDE DEF b
    <3>1. stuck * b \in Nat /\ (stuck + 1) * b = stuck * b + b
      BY <2>2, <2>3, ProductGrows
    <3> QED BY <2>2, <2>3, <3>1
  <2> QED BY <2>4 DEF SizeBounded
<1> QED BY <1>1, LogInvariant, PTL

(* The logger's state keeps its types, with any number of threads, signals  *)
(* and nested calls (logger.c).                                             *)
THEOREM LogTypeCorrect == LogSpec => []LogTypeOK
<1> DEFINE Rest == /\ level \in Config /\ log_file \in BOOLEAN /\ g_shutdown \in BOOLEAN
                   /\ log_calls \in 0..MaxLogCalls /\ signals \in 0..Signals
<1>1. LogInit => Rest
  <2>1. LogInit => 0 \in 0..MaxLogCalls /\ 0 \in 0..Signals
    BY LoggerAssumption
  <2> QED BY <2>1, Zenon DEF LogInit
<1>2. Rest /\ [LogNext]_logVars => Rest'
  <2> SUFFICES ASSUME Rest, [LogNext]_logVars
               PROVE  Rest'
    OBVIOUS
  <2>1. level' = level /\ log_file' \in BOOLEAN
    BY DEF LogNext, Running, log_message, Lock, Skip, Write, WriteRotate, WriteRotateFails, Unlock,
           Signal, logger_cleanup, CloseFile, logVars
  <2>2. \/ log_calls' = log_calls
        \/ log_calls < MaxLogCalls /\ log_calls' = log_calls + 1
    BY Zenon DEF LogNext, Running, log_message, Lock, Skip, Write, WriteRotate, WriteRotateFails,
           Unlock, Signal, logger_cleanup, CloseFile, logVars
  <2>3. \/ signals' = signals
        \/ signals < Signals /\ signals' = signals + 1
    BY Zenon DEF LogNext, Running, log_message, Lock, Skip, Write, WriteRotate, WriteRotateFails,
           Unlock, Signal, logger_cleanup, CloseFile, logVars
  <2>5. log_calls' \in 0..MaxLogCalls /\ signals' \in 0..Signals
    <3>1. log_calls \in 0..MaxLogCalls /\ signals \in 0..Signals
      OBVIOUS
    <3> HIDE DEF Rest
    <3> QED BY <2>2, <2>3, <3>1, LoggerAssumption
  <2>4. g_shutdown' \in BOOLEAN
    BY Zenon DEF LogNext, Running, log_message, Lock, Skip, Write, WriteRotate, WriteRotateFails, Unlock,
           Signal, logger_cleanup, CloseFile, logVars
  <2> QED BY <2>1, <2>4, <2>5, Zenon
<1>3. Rest /\ LogInv => LogTypeOK
  <2> SUFFICES ASSUME Rest, LogInv
               PROVE  LogTypeOK
    OBVIOUS
  <2>1. \A t \in Writers : ToSet(stack[t]) \subseteq Frames
    BY DEF LogInv, ToSet
  <2> QED BY <2>1 DEF LogTypeOK, LogInv
<1>4. LogSpec => []LogInv
  BY LogInvariant
<1> QED BY <1>1, <1>2, <1>3, <1>4, PTL DEF LogSpec

(* Above INFO a thread is in one log call at most. *)
Flat == level \in 0..4 /\ (level > INFO => \A t \in Writers : Len(stack[t]) <= 1)

(* No step nests a call above INFO. *)
LEMMA FlatInductive ==
    (LogInit => Flat) /\ (LogInv /\ Flat /\ [LogNext]_logVars => Flat')
<1>1. ASSUME LogInit
      PROVE  Flat
  <2>1. level \in 0..4 /\ \A t \in Writers : stack[t] = <<>>
    BY <1>1, LoggerAssumption DEF LogInit
  <2> QED BY <2>1 DEF Flat
<1>2. ASSUME LogInv, Flat, level' = level, NEW t \in Writers, NEW s \in Seq(Frames),
             level > INFO => Len(s) <= 1, stack' = [stack EXCEPT ![t] = s]
      PROVE  Flat'
  BY <1>2 DEF Flat, LogInv
<1>3. ASSUME Flat, level' = level, stack' = stack
      PROVE  Flat'
  BY <1>3 DEF Flat
<1>4. \A at \in {"want", "hold", "done"}, from \in {"call", "rotate", "signal", "cleanup"} :
        Frame(at, from) \in Frames
  BY DEF Frame, Frames
<1>5. ASSUME LogInv, NEW t \in Writers
      PROVE  stack[t] \in Seq(Frames)
  BY <1>5 DEF LogInv
(* A first call. *)
<1>6. ASSUME LogInv, Flat, level' = level, NEW t \in Writers, NEW from \in {"call", "cleanup"},
             stack[t] = <<>>, Push(t, <<Frame("want", from)>>)
      PROVE  Flat'
  <2> DEFINE f == Frame("want", from)
  <2>1. f \in Frames
    BY <1>4
  <2> HIDE DEF f
  <2>2. <<f>> \o stack[t] = <<f>> /\ <<f>> \in Seq(Frames) /\ Len(<<f>>) = 1
    BY <1>6, <2>1
  <2>3. stack' = [stack EXCEPT ![t] = <<f>>]
    BY <1>6, <2>2 DEF Push, f
  <2> DEFINE s == <<f>>
  <2>4. s \in Seq(Frames) /\ Len(s) <= 1 /\ stack' = [stack EXCEPT ![t] = s]
    BY <2>2, <2>3
  <2> HIDE DEF s
  <2> QED BY <1>2, <1>6, <2>4
(* The innermost call goes on. *)
<1>7. ASSUME LogInv, Flat, level' = level, NEW t \in Writers, stack[t] # <<>>, NEW f \in Frames, Top(t, f)
      PROVE  Flat'
  <2> DEFINE s == <<f>> \o Tail(stack[t])
  <2>1. stack[t] \in Seq(Frames) /\ stack' = [stack EXCEPT ![t] = s]
    BY <1>5, <1>7 DEF Top
  <2>2. s \in Seq(Frames) /\ Len(s) = Len(stack[t])
    BY <1>7, <2>1
  <2>3. level > INFO => Len(stack[t]) <= 1
    BY <1>7 DEF Flat
  <2> HIDE DEF s
  <2> QED BY <1>2, <1>7, <2>1, <2>2, <2>3
<1>8. ASSUME LogInv, Flat, NEW t \in Writers, Running(t)
      PROVE  Flat'
  <2>1. ASSUME NEW where, Innermost(t, where)
        PROVE  stack[t] # <<>> /\ Head(stack[t]).from \in {"call", "rotate", "signal", "cleanup"}
    <3>1. stack[t] \in Seq(Frames) /\ stack[t] # <<>>
      BY <1>5, <1>8, <2>1 DEF Innermost
    <3>2. Head(stack[t]) \in Frames
      BY <3>1
    <3> QED BY <3>1, <3>2 DEF Frames
  <2>2. CASE Lock(t)
    BY <1>4, <1>7, <1>8, <2>1, <2>2 DEF Lock
  <2>3. CASE Skip(t)
    BY <1>4, <1>7, <1>8, <2>1, <2>3 DEF Skip
  <2>4. CASE Unlock(t)
    <3>1. stack[t] \in Seq(Frames) /\ stack[t] # <<>> /\ stack' = [stack EXCEPT ![t] = Tail(stack[t])]
          /\ level' = level
      BY <1>5, <1>8, <2>1, <2>4 DEF Unlock
    <3>2. Tail(stack[t]) \in Seq(Frames) /\ Len(Tail(stack[t])) = Len(stack[t]) - 1 /\ Len(stack[t]) \in Nat
      BY <3>1
    <3>3. level > INFO => Len(Tail(stack[t])) <= 1
      BY <1>8, <3>2 DEF Flat
    <3> QED BY <1>2, <1>8, <3>1, <3>2, <3>3
  <2>5. ASSUME NEW size \in LineSizes, NEW renamed \in BOOLEAN,
               Write(t, size) \/ WriteRotateFails(t, size, renamed)
        PROVE  Flat'
    BY <1>4, <1>7, <1>8, <2>1, <2>5 DEF Write, WriteRotateFails, Rotate
  <2>6. ASSUME NEW size \in LineSizes, NEW renamed \in BOOLEAN, WriteRotate(t, size, renamed)
        PROVE  Flat'
    <3> DEFINE f == Frame("done", Head(stack[t]).from)
               w == Frame("want", "rotate")
               r == Tail(stack[t])
               s == (IF INFO >= level THEN <<w>> ELSE <<>>) \o <<f>> \o r
    <3>1. stack[t] \in Seq(Frames) /\ stack[t] # <<>> /\ stack' = [stack EXCEPT ![t] = s] /\ level' = level
      BY <1>5, <1>8, <2>1, <2>6 DEF WriteRotate, Rotate
    <3>2. f \in Frames /\ w \in Frames
      BY <1>4, <1>8, <2>1, <2>6 DEF WriteRotate, Rotate
    <3>3. r \in Seq(Frames) /\ Len(r) = Len(stack[t]) - 1 /\ Len(stack[t]) \in Nat
      BY <3>1
    <3>4. level \in 0..4 /\ (level > INFO => Len(stack[t]) <= 1)
      BY <1>8 DEF Flat
    <3> HIDE DEF f, w, r
    <3>5. CASE INFO >= level
      <4>1. s \in Seq(Frames)
        BY <3>2, <3>3, <3>5
      <4>2. ~(level > INFO)
        BY <3>4, <3>5 DEF INFO
      <4> HIDE DEF s
      <4> QED BY <1>2, <1>8, <3>1, <4>1, <4>2
    <3>6. CASE ~(INFO >= level)
      <4>1. s = <<f>> \o r
        BY <3>2, <3>3, <3>6
      <4>2. s \in Seq(Frames) /\ Len(s) = 1 + Len(r)
        <5> HIDE DEF s
        <5> QED BY <3>2, <3>3, <4>1
      <4> HIDE DEF s
      <4>3. level > INFO => Len(s) <= 1
        BY <3>3, <3>4, <4>2
      <4> QED BY <1>2, <1>8, <3>1, <4>2, <4>3
    <3> QED BY <3>5, <3>6
  <2>7. CASE t = Main /\ CloseFile
    BY <1>4, <1>7, <1>8, <2>1, <2>7 DEF CloseFile
  <2> QED BY <1>8, <2>2, <2>3, <2>4, <2>5, <2>6, <2>7 DEF Running
<1>9. ASSUME LogInv, Flat, NEW t \in Writers, NEW l \in Levels, log_message(t, l)
      PROVE  Flat'
  BY <1>6, <1>9 DEF log_message
(* A handler logs at INFO. *)
<1>10. ASSUME LogInv, Flat, NEW t \in Writers, Signal(t)
       PROVE  Flat'
  <2>1. level' = level /\ level \in 0..4
    BY <1>10 DEF Signal, Flat
  <2>2. CASE INFO >= level
    <3>1. ~(level > INFO)
      BY <2>1, <2>2 DEF INFO
    <3> QED BY <2>1, <3>1 DEF Flat
  <2>3. CASE ~(INFO >= level)
    BY <1>3, <1>10, <2>1, <2>3 DEF Signal
  <2> QED BY <2>2, <2>3
<1>11. ASSUME LogInv, Flat, logger_cleanup
       PROVE  Flat'
  BY <1>6, <1>11, LoggerAssumption DEF logger_cleanup
<1>12. ASSUME Flat, UNCHANGED logVars
       PROVE  Flat'
  BY <1>3, <1>12 DEF logVars
<1> QED BY <1>1, <1>8, <1>9, <1>10, <1>11, <1>12 DEF LogNext

(* With any number of threads, signals and lines, a thread waits for the    *)
(* mutex it has only at a level where a rotation or a signal handler may    *)
(* log: above INFO no call of the logger hangs on itself (logger.c:224,     *)
(* main.c:54).                                                              *)
THEOREM QuietCorrect ==
    LogSpec => []QuietNeverHangs
<1>1. LogInv /\ Flat => QuietNeverHangs
  <2> SUFFICES ASSUME LogInv, Flat, NEW t \in Writers, lock = t, Innermost(t, "want"), ~(level <= INFO)
               PROVE  FALSE
    BY DEF QuietNeverHangs, Hung
  <2>1. stack[t] \in Seq(Frames) /\ stack[t] # <<>> /\ Head(stack[t]).at = "want"
    BY DEF LogInv, Innermost
  <2>2. level > INFO
    BY DEF Flat, INFO
  <2>3. Len(stack[t]) <= 1
    BY <2>2 DEF Flat
  <2>4. PICK i \in 1..Len(stack[t]) : Inside(stack[t][i])
    BY DEF LogInv, StackOK
  <2>5. i = 1 /\ stack[t][i] = Head(stack[t])
    BY <2>1, <2>3
  <2> QED BY <2>1, <2>4, <2>5 DEF Inside
<1>2. LogInit => Flat
  BY FlatInductive
<1>3. LogInv /\ Flat /\ [LogNext]_logVars => Flat'
  BY FlatInductive
<1> QED BY <1>1, <1>2, <1>3, LogInvariant, PTL DEF LogSpec

-----------------------------------------------------------------------------
(* Sums.  MapThenSumSet is defined by a recursive function over the subsets  *)
(* of a set.  Nothing about it is taken on trust: a sum of naturals is shown *)
(* to be the number of elements of a set, and what is needed of sums follows *)
(* from what is known of cardinalities.                                      *)

(* A set of naturals has a least member. *)
LEMMA Least ==
    ASSUME NEW T, T \subseteq Nat, T # {}
    PROVE  \E n \in T : \A m \in T : n <= m
<1>1. PICK n \in T : \A m \in T : ~(<<m, n>> \in OpToRel(<, Nat))
  BY NatLessThanWellFounded, WFMin
<1>2. ASSUME NEW m \in T
      PROVE  n <= m
  <2>1. m \in Nat /\ n \in Nat
    OBVIOUS
  <2>2. m < n => <<m, n>> \in OpToRel(<, Nat)
    BY <2>1 DEF OpToRel
  <2>3. ~(m < n)
    BY <1>1, <2>2, Zenon
  <2> QED BY <2>1, <2>3
<1> QED BY <1>2

(* The sum of f over S, as the ring and the histories are summed. *)
Total(f, S) == MapThenSumSet(LAMBDA x : f[x], S)

(* g adds f up over the subsets of S, one element after the other.          *)
Adds(g, f, S) ==
    g = [s \in SUBSET S |-> IF s = {} THEN 0
                            ELSE f[CHOOSE x \in s : TRUE] + g[s \ {CHOOSE x \in s : TRUE}]]

(* The library's sum is the value of such a function at S. *)
LEMMA TotalIs ==
    ASSUME NEW f, NEW S
    PROVE  Total(f, S) = (CHOOSE g : Adds(g, f, S))[S]
BY Zenon DEF Total, MapThenSumSet, MapThenFoldSet, Adds

(* A sum counted out: f[x] cells for every x. *)
Row(f, x) == {x} \X (0..(f[x] - 1))
Cells(f, S) == UNION {Row(f, x) : x \in S}
Summable(f, S) == IsFiniteSet(S) /\ \A x \in S : f[x] \in Nat

(* There are f[x] cells for x. *)
LEMMA RowSize ==
    ASSUME NEW f, NEW x, f[x] \in Nat
    PROVE  IsFiniteSet(Row(f, x)) /\ Cardinality(Row(f, x)) = f[x]
<1> DEFINE n == f[x] - 1
<1>1. n \in Int /\ n + 1 = f[x]
  OBVIOUS
<1> HIDE DEF n
<1>2. IsFiniteSet(0..n) /\ Cardinality(0..n) = IF 0 > n THEN 0 ELSE n - 0 + 1
  <2>1. 0 \in Int
    OBVIOUS
  <2> QED BY <1>1, <2>1, FS_Interval
<1>3. Cardinality(0..n) = f[x]
  BY <1>1, <1>2
<1>4. IsFiniteSet({x}) /\ Cardinality({x}) = 1
  BY FS_Singleton
<1>5. /\ IsFiniteSet({x} \X (0..n))
      /\ Cardinality({x} \X (0..n)) = Cardinality({x}) * Cardinality(0..n)
  BY <1>2, <1>4, FS_Product
<1>6. Cardinality({x} \X (0..n)) = f[x]
  BY <1>3, <1>4, <1>5
<1> QED BY <1>5, <1>6 DEF Row, n

(* The cells of a finite sum are finitely many. *)
LEMMA CellsFinite ==
    ASSUME NEW f, NEW S, Summable(f, S)
    PROVE  IsFiniteSet(Cells(f, S)) /\ Cardinality(Cells(f, S)) \in Nat
<1> DEFINE R == {Row(f, x) : x \in S}
           g == [x \in S |-> Row(f, x)]
<1>1. g \in Surjection(S, R)
  BY DEF Surjection
<1>2. IsFiniteSet(R)
  <2> HIDE DEF g, R
  <2> QED BY <1>1, FS_Surjection DEF Summable
<1>3. \A r \in R : IsFiniteSet(r)
  BY RowSize DEF Summable
<1>4. IsFiniteSet(UNION R)
  <2> HIDE DEF R
  <2> QED BY <1>2, <1>3, FS_UNION
<1>5. IsFiniteSet(Cells(f, S))
  BY <1>4 DEF Cells
<1> QED BY <1>5, FS_CardinalityType

(* One element's cells and those of the others are all the cells. *)
LEMMA CellsStep ==
    ASSUME NEW f, NEW S, Summable(f, S), NEW x \in S
    PROVE  Cardinality(Cells(f, S)) = f[x] + Cardinality(Cells(f, S \ {x}))
<1> DEFINE A == Row(f, x)
           B == Cells(f, S \ {x})
<1>1. Summable(f, S \ {x})
  BY FS_RemoveElement DEF Summable
<1>2. /\ IsFiniteSet(A) /\ Cardinality(A) = f[x] /\ f[x] \in Nat
      /\ IsFiniteSet(B) /\ Cardinality(B) \in Nat
  BY <1>1, RowSize, CellsFinite DEF Summable
<1>3. A \cap B = {}
  BY DEF Row, Cells
<1>4. Cells(f, S) = A \cup B
  BY DEF Cells
<1> HIDE DEF A, B
<1>5. Cardinality(A \cup B) = Cardinality(A) + Cardinality(B) - Cardinality(A \cap B)
  BY <1>2, FS_Union
<1>6. Cardinality(A \cap B) = 0
  BY <1>3, FS_EmptySet
<1> QED BY <1>2, <1>4, <1>5, <1>6 DEF B

(* Counting cells adds f up. *)
LEMMA CellsAdd ==
    ASSUME NEW f, NEW S, Summable(f, S)
    PROVE  Adds([s \in SUBSET S |-> Cardinality(Cells(f, s))], f, S)
<1> DEFINE c == [s \in SUBSET S |-> Cardinality(Cells(f, s))]
           x(s) == CHOOSE x \in s : TRUE
           g == [s \in SUBSET S |-> IF s = {} THEN 0 ELSE f[x(s)] + c[s \ {x(s)}]]
<1> SUFFICES c = g
  BY DEF Adds
<1>1. ASSUME NEW s \in SUBSET S
      PROVE  c[s] = g[s]
  <2>1. CASE s = {}
    <3>1. Cells(f, {}) = {}
      BY DEF Cells
    <3> QED BY <2>1, <3>1, FS_EmptySet
  <2>2. CASE s # {}
    <3>1. x(s) \in s
      BY <2>2
    <3>2. Summable(f, s)
      BY FS_Subset DEF Summable
    <3> HIDE DEF x
    <3>3. Cardinality(Cells(f, s)) = f[x(s)] + Cardinality(Cells(f, s \ {x(s)}))
      BY <3>1, <3>2, CellsStep
    <3> QED BY <2>2, <3>3
  <2> QED BY <2>1, <2>2
<1> QED BY <1>1

(* Only one function adds f up: on a smallest set where two of them differ, *)
(* they would differ on a smaller one.                                      *)
LEMMA AddsUnique ==
    ASSUME NEW f, NEW S, IsFiniteSet(S), NEW g, NEW c, Adds(g, f, S), Adds(c, f, S)
    PROVE  g[S] = c[S]
<1> DEFINE x(s) == CHOOSE x \in s : TRUE
<1>1. /\ \A s \in SUBSET S : g[s] = IF s = {} THEN 0 ELSE f[x(s)] + g[s \ {x(s)}]
      /\ \A s \in SUBSET S : c[s] = IF s = {} THEN 0 ELSE f[x(s)] + c[s \ {x(s)}]
  BY DEF Adds
<1>2. \A s : s # {} => x(s) \in s
  OBVIOUS
<1> HIDE DEF x
<1> SUFFICES ASSUME g[S] # c[S]
             PROVE  FALSE
  OBVIOUS
<1> DEFINE T == {n \in Nat : \E s \in SUBSET S : Cardinality(s) = n /\ g[s] # c[s]}
<1>3. T # {}
  BY FS_CardinalityType
<1>4. PICK n \in T : \A m \in T : n <= m
  <2>1. T \subseteq Nat
    OBVIOUS
  <2> HIDE DEF T
  <2> QED BY <1>3, <2>1, Least
<1>5. PICK s \in SUBSET S : Cardinality(s) = n /\ g[s] # c[s]
  OBVIOUS
<1>6. s # {} /\ x(s) \in s /\ g[s \ {x(s)}] # c[s \ {x(s)}]
  BY <1>1, <1>2, <1>5
<1>7. IsFiniteSet(s)
  BY FS_Subset
<1>8. Cardinality(s \ {x(s)}) = n - 1 /\ Cardinality(s \ {x(s)}) \in Nat
  <2>1. IsFiniteSet(s \ {x(s)}) /\ Cardinality(s \ {x(s)}) = Cardinality(s) - 1
    BY <1>6, <1>7, FS_RemoveElement
  <2> QED BY <1>5, <2>1, FS_CardinalityType
<1>9. n - 1 \in T
  BY <1>6, <1>8
<1> QED BY <1>4, <1>9

(* A sum of naturals is the number of its cells. *)
LEMMA TotalCells ==
    ASSUME NEW f, NEW S, Summable(f, S)
    PROVE  Total(f, S) = Cardinality(Cells(f, S))
<1> DEFINE c == [s \in SUBSET S |-> Cardinality(Cells(f, s))]
           g == CHOOSE h : Adds(h, f, S)
<1>1. Adds(c, f, S)
  BY CellsAdd
<1>2. Adds(g, f, S)
  BY <1>1
<1>3. g[S] = c[S]
  <2> HIDE DEF g, c
  <2> QED BY <1>1, <1>2, AddsUnique DEF Summable
<1> QED BY <1>3, TotalIs

(* ... and thus a natural number, *)
LEMMA TotalNat ==
    ASSUME NEW f, NEW S, Summable(f, S)
    PROVE  Total(f, S) \in Nat
BY TotalCells, CellsFinite

(* ... 0 for no element at all, *)
LEMMA TotalEmpty ==
    ASSUME NEW f
    PROVE  Total(f, {}) = 0
<1>1. Summable(f, {})
  BY FS_EmptySet DEF Summable
<1>2. Cells(f, {}) = {}
  BY DEF Cells
<1> QED BY <1>1, <1>2, TotalCells, FS_EmptySet

(* ... and any element may be added last. *)
LEMMA TotalStep ==
    ASSUME NEW f, NEW S, Summable(f, S), NEW x \in S
    PROVE  Total(f, S) = f[x] + Total(f, S \ {x})
<1>1. Summable(f, S \ {x})
  BY FS_RemoveElement DEF Summable
<1> QED BY <1>1, TotalCells, CellsStep

(* The non-zero terms of f over S, each with a term of g over T of its own  *)
(* that is at least as large.                                               *)
Matches(m, f, S, g, T) ==
    /\ \A x \in S : f[x] # 0 => m[x] \in T /\ f[x] <= g[m[x]]
    /\ \A x, y \in S : f[x] # 0 /\ f[y] # 0 /\ m[x] = m[y] => x = y

(* Then f sums to no more over S than g over T. *)
LEMMA TotalLeq ==
    ASSUME NEW f, NEW S, NEW g, NEW T, Summable(f, S), Summable(g, T), NEW m, Matches(m, f, S, g, T)
    PROVE  Total(f, S) <= Total(g, T)
<1> DEFINE P == Cells(f, S)
           Q == Cells(g, T)
           F == [p \in P |-> <<m[p[1]], p[2]>>]
<1>1. ASSUME NEW p \in P
      PROVE  /\ p = <<p[1], p[2]>> /\ p[1] \in S /\ f[p[1]] # 0
             /\ p[2] \in 0..(f[p[1]] - 1)
  BY DEF Cells, Row, Summable
<1>2. ASSUME NEW p \in P
      PROVE  F[p] \in Q
  <2>1. /\ p[1] \in S /\ f[p[1]] \in Nat /\ p[2] \in 0..(f[p[1]] - 1)
        /\ m[p[1]] \in T /\ f[p[1]] <= g[m[p[1]]]
    BY <1>1, <1>2 DEF Matches, Summable
  <2>2. g[m[p[1]]] \in Nat
    BY <2>1 DEF Summable
  <2>3. p[2] \in 0..(g[m[p[1]]] - 1)
    BY <2>1, <2>2
  <2>4. <<m[p[1]], p[2]>> \in Row(g, m[p[1]])
    BY <2>3 DEF Row
  <2> QED BY <2>1, <2>4 DEF Cells
<1>3. ASSUME NEW p \in P, NEW q \in P, F[p] = F[q]
      PROVE  p = q
  <2>1. m[p[1]] = m[q[1]] /\ p[2] = q[2]
    BY <1>3
  <2>2. p[1] = q[1]
    BY <1>1, <2>1 DEF Matches
  <2> QED BY <1>1, <2>1, <2>2
<1>4. F \in Injection(P, Q)
  BY <1>2, <1>3 DEF Injection, IsInjective
<1>5. IsFiniteSet(P) /\ IsFiniteSet(Q)
  BY CellsFinite
<1> HIDE DEF P, Q, F
<1>6. Cardinality(P) <= Cardinality(Q)
  BY <1>4, <1>5, FS_Injection
<1> QED BY <1>6, TotalCells DEF P, Q

(* Equal terms have equal sums. *)
LEMMA TotalSame ==
    ASSUME NEW f, NEW S, NEW g, Summable(f, S), \A x \in S : g[x] = f[x]
    PROVE  Total(g, S) = Total(f, S)
<1> DEFINE m == [x \in S |-> x]
<1>1. Summable(g, S)
  BY DEF Summable
<1>2. Matches(m, f, S, g, S) /\ Matches(m, g, S, f, S)
  BY DEF Matches, Summable
<1> HIDE DEF m
<1>3. Total(f, S) <= Total(g, S) /\ Total(g, S) <= Total(f, S)
  BY <1>1, <1>2, TotalLeq
<1> QED BY <1>1, <1>3, TotalNat

-----------------------------------------------------------------------------
(* The rate limiter.                                                         *)

(* The place in the ring k seconds behind the current index. *)
Place(cur, k) == Mod(cur - k + WindowSize)

(* A ring whose current index stands for second s, and the bytes h counted  *)
(* by second: none after s, and k places back those of k seconds before s.  *)
Ring(B, cur, s, h) ==
    /\ B \in [Slots -> Nat] /\ cur \in Slots /\ s \in 0..MaxTime /\ h \in [0..MaxTime -> Nat]
    /\ \A t \in 0..MaxTime : t > s => h[t] = 0
    /\ \A k \in Slots : B[Place(cur, k)] = At(h, s - k)

(* n bytes more in second s. *)
Later(g, h, s, n) == /\ g \in [0..MaxTime -> Nat]
                     /\ \A t \in 0..MaxTime : g[t] = IF t = s THEN h[t] + n ELSE h[t]

(* The three ways in which sliding_window_add changes the ring B into A. *)
Bumped(A, B, cur, n) ==
    /\ A \in [Slots -> Nat]
    /\ \A i \in Slots : A[i] = IF i = cur THEN B[i] + n ELSE B[i]
Advanced(A, B, cur, d, n) ==
    /\ A \in [Slots -> Nat]
    /\ \A i \in Slots : A[i] = (IF i \in {Mod(cur + k) : k \in 1..d} THEN 0 ELSE B[i])
                                   + (IF i = Mod(cur + d) THEN n ELSE 0)
Restarted(A, n) ==
    /\ A \in [Slots -> Nat]
    /\ \A i \in Slots : A[i] = IF i = 0 THEN n ELSE 0

(* Where the places are. *)
LEMMA PlaceIs ==
    ASSUME NEW cur \in Slots, NEW k \in Slots
    PROVE  /\ Place(cur, k) \in Slots
           /\ Place(cur, k) = IF k <= cur THEN cur - k ELSE cur - k + WindowSize
           /\ Place(cur, k) = cur <=> k = 0
<1>1. WindowSize \in Nat \ {0} /\ cur \in 0..(WindowSize - 1) /\ k \in 0..(WindowSize - 1)
  BY RateAssumption DEF Slots
<1>2. Place(cur, k) = IF cur - k + WindowSize < WindowSize THEN cur - k + WindowSize ELSE cur - k
  BY <1>1 DEF Place, Mod
<1> QED BY <1>1, <1>2 DEF Slots

(* The index stays in the ring when it goes on by less than its length.     *)
LEMMA NextPlace ==
    ASSUME NEW cur \in Slots, NEW d \in 1..(WindowSize - 1)
    PROVE  Mod(cur + d) \in Slots
BY RateAssumption DEF Mod, Slots

(* Going back from a second. *)
LEMMA Back ==
    ASSUME NEW s \in Int, NEW d \in Int, NEW k \in Int
    PROVE  s - (k - d) = (s + d) - k /\ ((s + d) - k = s + d <=> k = 0) /\ (s - k = s <=> k = 0)
OBVIOUS

(* A second in which two histories agree. *)
LEMMA AtSame ==
    ASSUME NEW g, NEW h, NEW t, t \in 0..MaxTime => g[t] = h[t]
    PROVE  At(g, t) = At(h, t)
BY DEF At

(* Bytes of second s are added at the current index. *)
LEMMA RingSame ==
    ASSUME NEW B, NEW cur, NEW s, NEW h, Ring(B, cur, s, h), NEW n \in Nat,
           NEW A, Bumped(A, B, cur, n), NEW g, Later(g, h, s, n)
    PROVE  Ring(A, cur, s, g)
<1>0. /\ A \in [Slots -> Nat] /\ g \in [0..MaxTime -> Nat]
      /\ \A i \in Slots : A[i] = IF i = cur THEN B[i] + n ELSE B[i]
      /\ \A t \in 0..MaxTime : g[t] = IF t = s THEN h[t] + n ELSE h[t]
  BY DEF Bumped, Later
<1>1. /\ B \in [Slots -> Nat] /\ cur \in Slots /\ s \in 0..MaxTime /\ h \in [0..MaxTime -> Nat]
      /\ \A t \in 0..MaxTime : t > s => h[t] = 0
      /\ \A k \in Slots : B[Place(cur, k)] = At(h, s - k)
  BY DEF Ring
<1>2. MaxTime \in Nat /\ \A k \in Slots : k \in Nat
  BY RateAssumption DEF Slots
<1>3. \A t \in 0..MaxTime : t > s => g[t] = 0
  BY <1>0, <1>1, <1>2
<1>4. ASSUME NEW k \in Slots
      PROVE  A[Place(cur, k)] = At(g, s - k)
  <2>1. Place(cur, k) \in Slots /\ (Place(cur, k) = cur <=> k = 0) /\ B[Place(cur, k)] = At(h, s - k)
    BY <1>1, PlaceIs
  <2>2. CASE k = 0
    <3>1. s - k = s
      BY <1>1, <1>2, <2>2
    <3> QED BY <1>0, <1>1, <2>1, <2>2, <3>1 DEF At
  <2>3. CASE k # 0
    <3>1. s - k # s
      <4>1. s \in Int /\ k \in Int
        BY <1>1, <1>2
      <4> QED BY <2>3, <4>1, Back
    <3>2. At(g, s - k) = At(h, s - k)
      <4>1. s - k \in 0..MaxTime => g[s - k] = h[s - k]
        BY <1>0, <3>1
      <4> QED BY <4>1, AtSame
    <3> QED BY <1>0, <2>1, <2>3, <3>2
  <2> QED BY <2>2, <2>3
<1> QED BY <1>0, <1>1, <1>3, <1>4 DEF Ring

(* The bytes of a second after s, less than the window's length away: the   *)
(* index goes on, what it passes is cleared.                                *)
LEMMA RingOn ==
    ASSUME NEW B, NEW cur, NEW s, NEW h, Ring(B, cur, s, h), NEW n \in Nat,
           NEW d \in 1..(WindowSize - 1), s + d <= MaxTime,
           NEW A, Advanced(A, B, cur, d, n), NEW g, Later(g, h, s + d, n)
    PROVE  Ring(A, Mod(cur + d), s + d, g)
<1>0. /\ A \in [Slots -> Nat] /\ g \in [0..MaxTime -> Nat]
      /\ \A i \in Slots : A[i] =
             (IF i \in {Mod(cur + k) : k \in 1..d} THEN 0 ELSE B[i])
               + (IF i = Mod(cur + d) THEN n ELSE 0)
      /\ \A t \in 0..MaxTime : g[t] = IF t = s + d THEN h[t] + n ELSE h[t]
  BY DEF Advanced, Later
<1> DEFINE idx == Mod(cur + d)
<1>1. /\ B \in [Slots -> Nat] /\ cur \in Slots /\ s \in 0..MaxTime /\ h \in [0..MaxTime -> Nat]
      /\ \A t \in 0..MaxTime : t > s => h[t] = 0
      /\ \A k \in Slots : B[Place(cur, k)] = At(h, s - k)
  BY DEF Ring
<1>2. /\ MaxTime \in Nat /\ WindowSize \in Nat \ {0} /\ d \in Nat /\ s \in Nat
      /\ cur \in 0..(WindowSize - 1) /\ s + d \in 0..MaxTime
  BY <1>1, RateAssumption DEF Slots
<1>3. \A k \in 1..d : /\ Mod(cur + k) = IF cur + k < WindowSize THEN cur + k ELSE cur + k - WindowSize
                      /\ Mod(cur + k) \in Slots
  BY <1>2 DEF Mod, Slots
<1>4. idx \in Slots /\ idx = IF cur + d < WindowSize THEN cur + d ELSE cur + d - WindowSize
  BY <1>2, <1>3
<1> HIDE DEF idx
<1>5. \A t \in 0..MaxTime : t > s + d => g[t] = 0
  BY <1>0, <1>1, <1>2
<1>6. ASSUME NEW k \in Slots
      PROVE  A[Place(idx, k)] = At(g, (s + d) - k)
  <2> DEFINE i == Place(idx, k)
  <2>1. i \in Slots /\ (i = idx <=> k = 0) /\ i = IF k <= idx THEN idx - k ELSE (idx - k) + WindowSize
    BY <1>4, PlaceIs
  <2>2. k \in 0..(WindowSize - 1)
    BY DEF Slots
  <2>3. A[i] = (IF i \in {Mod(cur + m) : m \in 1..d} THEN 0 ELSE B[i]) + (IF i = idx THEN n ELSE 0)
    BY <1>0, <2>1 DEF idx
  <2> HIDE DEF i
  <2>4. CASE k = 0
    <3>1. i \in {Mod(cur + m) : m \in 1..d} /\ i = idx
      <4>1. d \in 1..d
        BY <1>2
      <4> QED BY <2>1, <2>4, <4>1 DEF idx
    <3>2. A[i] = n
      BY <2>3, <3>1
    <3>3. (s + d) - k = s + d
      BY <1>2, <2>4
    <3>4. h[s + d] = 0
      BY <1>1, <1>2
    <3>5. g[s + d] = n
      BY <1>0, <1>2, <3>4
    <3>6. At(g, s + d) = n
      BY <1>2, <3>5 DEF At
    <3> QED BY <3>2, <3>3, <3>6 DEF i
  <2>5. CASE k \in 1..(d - 1)
    <3>1. d - k \in 1..d /\ Mod(cur + (d - k)) = i
      <4>1. d - k \in 1..d
        BY <1>2, <2>5
      <4>2. Mod(cur + (d - k)) = IF cur + (d - k) < WindowSize THEN cur + (d - k)
                                                                 ELSE cur + (d - k) - WindowSize
        BY <1>3, <4>1
      <4> QED BY <1>2, <1>4, <2>1, <2>2, <2>5, <4>1, <4>2
    <3>2. A[i] = 0
      <4>1. i \in {Mod(cur + m) : m \in 1..d}
        BY <3>1
      <4>2. k # 0
        BY <1>2, <2>5
      <4> QED BY <2>1, <2>3, <4>1, <4>2
    <3>3. (s + d) - k \in 0..MaxTime /\ (s + d) - k > s /\ (s + d) - k # s + d
      BY <1>2, <2>2, <2>5
    <3>4. g[(s + d) - k] = 0
      BY <1>0, <1>1, <3>3
    <3> QED BY <3>2, <3>3, <3>4 DEF At, i
  <2>6. CASE k \in d..(WindowSize - 1)
    <3>1. k - d \in Slots /\ Place(cur, k - d) = i
      <4>1. k - d \in Slots
        BY <1>2, <2>6 DEF Slots
      <4>2. Place(cur, k - d) = IF k - d <= cur THEN cur - (k - d) ELSE cur - (k - d) + WindowSize
        BY <1>1, <4>1, PlaceIs
      <4> QED BY <1>2, <1>4, <2>1, <2>2, <2>6, <4>1, <4>2
    <3>2. \A m \in 1..d : Mod(cur + m) # i
      <4> TAKE m \in 1..d
      <4>1. Mod(cur + m) = IF cur + m < WindowSize THEN cur + m ELSE cur + m - WindowSize
        BY <1>3
      <4> QED BY <1>2, <1>4, <2>1, <2>2, <2>6, <4>1
    <3>3. A[i] = B[i] /\ B[i] \in Nat
      <4>1. i # idx
        BY <1>2, <2>1, <2>6
      <4>2. i \notin {Mod(cur + m) : m \in 1..d}
        BY <3>2
      <4>3. B[i] \in Nat
        BY <1>1, <2>1
      <4> QED BY <2>3, <4>1, <4>2, <4>3
    <3>4. B[i] = At(h, s - (k - d))
      BY <1>1, <3>1
    <3>5. s - (k - d) = (s + d) - k /\ (s + d) - k # s + d
      <4>1. k \in Int /\ d \in Int /\ s \in Int /\ k # 0
        BY <1>2, <2>2, <2>6
      <4> QED BY <4>1, Back
    <3>6. At(g, (s + d) - k) = At(h, (s + d) - k)
      <4>1. (s + d) - k \in 0..MaxTime => g[(s + d) - k] = h[(s + d) - k]
        BY <1>0, <3>5
      <4> QED BY <4>1, AtSame
    <3> QED BY <3>3, <3>4, <3>5, <3>6 DEF i
  <2> QED BY <1>2, <2>2, <2>4, <2>5, <2>6
<1>7. Ring(A, idx, s + d, g)
  BY <1>0, <1>2, <1>4, <1>5, <1>6 DEF Ring
<1> QED BY <1>7 DEF idx

(* The bytes of a second a window's length or more after s. *)
LEMMA RingAnew ==
    ASSUME NEW B, NEW cur, NEW s, NEW h, Ring(B, cur, s, h), NEW n \in Nat,
           NEW now \in 0..MaxTime, now - s >= WindowSize,
           NEW A, Restarted(A, n), NEW g, Later(g, h, now, n)
    PROVE  Ring(A, 0, now, g)
<1>0. /\ A \in [Slots -> Nat] /\ g \in [0..MaxTime -> Nat]
      /\ \A i \in Slots : A[i] = IF i = 0 THEN n ELSE 0
      /\ \A t \in 0..MaxTime : g[t] = IF t = now THEN h[t] + n ELSE h[t]
  BY DEF Restarted, Later
<1>1. /\ s \in 0..MaxTime /\ h \in [0..MaxTime -> Nat]
      /\ \A t \in 0..MaxTime : t > s => h[t] = 0
  BY DEF Ring
<1>2. MaxTime \in Nat /\ WindowSize \in Nat \ {0} /\ s \in Nat /\ now \in Nat /\ 0 \in Slots
  BY <1>1, RateAssumption DEF Slots
<1>3. \A t \in 0..MaxTime : t > now => g[t] = 0
  BY <1>0, <1>1, <1>2
<1>4. ASSUME NEW k \in Slots
      PROVE  A[Place(0, k)] = At(g, now - k)
  <2>1. Place(0, k) \in Slots /\ (Place(0, k) = 0 <=> k = 0)
    BY <1>2, PlaceIs
  <2>2. k \in 0..(WindowSize - 1)
    BY DEF Slots
  <2>3. now - k \in 0..MaxTime /\ now - k > s
    BY <1>1, <1>2, <2>2
  <2>4. h[now - k] = 0
    BY <1>1, <2>3
  <2>5. g[now - k] = IF k = 0 THEN n ELSE 0
    <3>1. now - k = now <=> k = 0
      BY <1>2, <2>2
    <3> QED BY <1>0, <2>3, <2>4, <3>1
  <2>6. At(g, now - k) = g[now - k]
    BY <2>3 DEF At
  <2> QED BY <1>0, <2>1, <2>5, <2>6
<1> QED BY <1>0, <1>2, <1>3, <1>4 DEF Ring

(* The window of an address and the history of what was counted for it. *)
WindowOK(w, h) == w \in Window /\ Ring(w.buckets, w.current_idx, w.window_start, h)

(* sliding_window_add counts in the second of its caller, or in the         *)
(* window's last second when that is later, and keeps the ring exact.       *)
LEMMA AddOK ==
    ASSUME NEW w, NEW h, WindowOK(w, h), NEW n \in Nat, NEW now \in 0..MaxTime
    PROVE  LET x == sliding_window_add(w, n, now)
           IN  /\ WindowOK(x, [h EXCEPT ![x.window_start] = @ + n])
               /\ x.window_start = w.window_start \/ x.window_start = now
               /\ now <= x.window_start
<1> DEFINE d == now - w.window_start
           x == sliding_window_add(w, n, now)
           g == [h EXCEPT ![x.window_start] = @ + n]
<1>1. /\ w \in Window /\ Ring(w.buckets, w.current_idx, w.window_start, h)
      /\ w.buckets \in [Slots -> Nat] /\ w.current_idx \in Slots
      /\ w.window_start \in 0..MaxTime /\ h \in [0..MaxTime -> Nat]
  BY DEF WindowOK, Ring
<1>2. MaxTime \in Nat /\ WindowSize \in Nat \ {0} /\ 0 \in Slots
  BY RateAssumption DEF Slots
<1>3. ASSUME x.window_start \in 0..MaxTime
      PROVE  Later(g, h, x.window_start, n)
  BY <1>1, <1>3 DEF Later
<1>4. d \in Int
  BY <1>1, <1>2
<1>a. /\ d >= WindowSize =>
           x = [buckets |-> [i \in Slots |-> IF i = 0 THEN n ELSE 0],
                current_idx |-> 0, window_start |-> now]
      /\ d > 0 /\ d < WindowSize =>
           x = [buckets |-> [i \in Slots |->
                    (IF i \in {Mod(w.current_idx + k) : k \in 1..d} THEN 0 ELSE w.buckets[i])
                      + (IF i = Mod(w.current_idx + d) THEN n ELSE 0)],
                current_idx |-> Mod(w.current_idx + d), window_start |-> now]
      /\ d <= 0 => x = [w EXCEPT !.buckets[w.current_idx] = @ + n]
  BY <1>2, <1>4 DEF sliding_window_add
<1>b. SUFFICES /\ WindowOK(x, g) /\ (x.window_start = w.window_start \/ x.window_start = now)
               /\ now <= x.window_start
  OBVIOUS
<1> HIDE DEF x, g
<1>5. CASE d >= WindowSize
  <2> DEFINE A == [i \in Slots |-> IF i = 0 THEN n ELSE 0]
  <2>1. x = [buckets |-> A, current_idx |-> 0, window_start |-> now]
    BY <1>5, <1>a
  <2>2. x.buckets = A /\ x.current_idx = 0 /\ x.window_start = now
    BY <2>1
  <2>3. Restarted(A, n)
    BY DEF Restarted
  <2> HIDE DEF A
  <2>4. x \in Window
    BY <1>2, <2>1, <2>3 DEF Window, Restarted
  <2>5. Later(g, h, now, n)
    BY <1>3, <2>2
  <2>6. Ring(A, 0, now, g)
    BY <1>1, <1>5, <2>3, <2>5, RingAnew
  <2> QED BY <2>2, <2>4, <2>6 DEF WindowOK
<1>6. CASE d > 0 /\ d < WindowSize
  <2> DEFINE idx == Mod(w.current_idx + d)
             A == [i \in Slots |->
                     (IF i \in {Mod(w.current_idx + k) : k \in 1..d} THEN 0 ELSE w.buckets[i])
                       + (IF i = idx THEN n ELSE 0)]
  <2>1. x = [buckets |-> A, current_idx |-> idx, window_start |-> now]
    BY <1>6, <1>a
  <2>2. x.buckets = A /\ x.current_idx = idx /\ x.window_start = now
    BY <2>1
  <2>3. Advanced(A, w.buckets, w.current_idx, d, n)
    BY <1>1 DEF Advanced
  <2> HIDE DEF A
  <2>4. now = w.window_start + d /\ d \in 1..(WindowSize - 1)
    <3>1. now \in Int /\ w.window_start \in Int
      BY <1>1, <1>2
    <3>2. now = w.window_start + d
      BY <3>1
    <3> HIDE DEF d
    <3> QED BY <1>2, <1>4, <1>6, <3>2
  <2>5. idx \in Slots
    BY <1>1, <2>4, NextPlace
  <2>6. x \in Window
    BY <2>1, <2>3, <2>5 DEF Window, Advanced
  <2>7. Later(g, h, w.window_start + d, n)
    BY <1>3, <2>2, <2>4
  <2>8. w.window_start + d <= MaxTime
    BY <1>2, <2>4
  <2> HIDE DEF d
  <2>9. Ring(A, Mod(w.current_idx + d), w.window_start + d, g)
    BY <1>1, <2>3, <2>4, <2>7, <2>8, RingOn
  <2> QED BY <2>2, <2>4, <2>6, <2>9 DEF WindowOK
<1>7. CASE d <= 0
  <2> DEFINE A == [w.buckets EXCEPT ![w.current_idx] = @ + n]
  <2>1. x = [w EXCEPT !.buckets[w.current_idx] = @ + n]
    BY <1>7, <1>a
  <2>2. x \in Window /\ x.buckets = A /\ x.current_idx = w.current_idx
        /\ x.window_start = w.window_start
    <3>1. A \in [Slots -> Nat]
      BY <1>1
    <3>2. x = [w EXCEPT !.buckets = A]
      BY <2>1
    <3> HIDE DEF A
    <3> QED BY <1>1, <3>1, <3>2 DEF Window
  <2>3. Bumped(A, w.buckets, w.current_idx, n)
    <3>1. A \in [Slots -> Nat]
      BY <1>1
    <3>2. \A i \in Slots : A[i] = IF i = w.current_idx THEN w.buckets[i] + n ELSE w.buckets[i]
      BY <1>1
    <3> HIDE DEF A
    <3> QED BY <3>1, <3>2 DEF Bumped
  <2> HIDE DEF A
  <2>4. Later(g, h, w.window_start, n)
    BY <1>1, <1>3, <2>2
  <2>5. Ring(A, w.current_idx, w.window_start, g)
    BY <1>1, <2>3, <2>4, RingSame
  <2>6. now <= w.window_start
    BY <1>1, <1>2, <1>7
  <2> QED BY <2>2, <2>5, <2>6 DEF WindowOK
<1> QED BY <1>2, <1>4, <1>5, <1>6, <1>7

(* The calls of rate_limiter_allow: their time is one the clock has shown.  *)
Calls == [ip : IPs, size : Sizes, now : 0..MaxTime]

(* An address without an entry has nothing counted; one with an entry has   *)
(* an exact ring.                                                           *)
RateInv == /\ bps \in [IPs -> Window \cup {Absent}]
           /\ counted \in [IPs -> [0..MaxTime -> Nat]]
           /\ call \in [Clients -> Calls \cup {Absent}]
           /\ clock \in 0..MaxTime
           /\ \A ip \in IPs : IF bps[ip] = Absent THEN counted[ip] = Nothing
                                                  ELSE WindowOK(bps[ip], counted[ip])

(* A new window is exact: nothing was counted before. *)
LEMMA CreateOK ==
    ASSUME NEW now \in 0..MaxTime
    PROVE  WindowOK(sliding_window_create(now), Nothing)
<1> DEFINE w == sliding_window_create(now)
           B == [i \in Slots |-> 0]
<1>1. MaxTime \in Nat /\ now \in Nat /\ 0 \in Slots
  BY RateAssumption DEF Slots
<1>2. w = [buckets |-> B, current_idx |-> 0, window_start |-> now]
  BY DEF sliding_window_create
<1>3. B \in [Slots -> Nat] /\ \A i \in Slots : B[i] = 0
  OBVIOUS
<1>4. /\ Nothing \in [0..MaxTime -> Nat] /\ \A t \in 0..MaxTime : Nothing[t] = 0
      /\ \A t : At(Nothing, t) = 0
  BY DEF Nothing, At
<1> HIDE DEF w, B
<1>5. w \in Window /\ w.buckets = B /\ w.current_idx = 0 /\ w.window_start = now
  BY <1>1, <1>2, <1>3 DEF Window
<1>6. \A k \in Slots : B[Place(0, k)] = At(Nothing, now - k)
  BY <1>1, <1>3, <1>4, PlaceIs
<1>7. Ring(B, 0, now, Nothing)
  BY <1>1, <1>3, <1>4, <1>6 DEF Ring
<1> QED BY <1>5, <1>7 DEF WindowOK, w

(* rate_limiter_allow under the lock keeps the rings exact. *)
LEMMA AllowOK ==
    ASSUME RateInv, NEW th \in Clients, call[th] # Absent,
           NEW w, WindowOK(w, counted[call[th].ip]), Allow(th, w), clock' = clock
    PROVE  RateInv'
<1> DEFINE c == call[th]
           h == counted[c.ip]
           v == sliding_window_add(w, c.size, c.now)
           g == [h EXCEPT ![v.window_start] = @ + c.size]
<1>1. /\ bps \in [IPs -> Window \cup {Absent}] /\ counted \in [IPs -> [0..MaxTime -> Nat]]
      /\ call \in [Clients -> Calls \cup {Absent}] /\ clock \in 0..MaxTime
      /\ \A ip \in IPs : IF bps[ip] = Absent THEN counted[ip] = Nothing
                                             ELSE WindowOK(bps[ip], counted[ip])
  BY DEF RateInv
<1>2. c \in Calls
  BY <1>1
<1>3. c.ip \in IPs /\ c.size \in Nat /\ c.now \in 0..MaxTime
  BY <1>2, RateAssumption DEF Calls
<1>4. /\ bps' = [bps EXCEPT ![c.ip] = v] /\ counted' = [counted EXCEPT ![c.ip] = g]
      /\ call' = [call EXCEPT ![th] = Absent]
  BY DEF Allow
<1>5. WindowOK(w, h)
  OBVIOUS
<1> HIDE DEF c, h
<1>6. WindowOK(v, g)
  BY <1>3, <1>5, AddOK
<1> HIDE DEF v, g
<1>7. v \in Window /\ g \in [0..MaxTime -> Nat]
  BY <1>6 DEF WindowOK, Ring
<1>8. v # Absent
  BY <1>7, AbsentAssumption
<1>9. ASSUME NEW ip \in IPs
      PROVE  IF bps'[ip] = Absent THEN counted'[ip] = Nothing ELSE WindowOK(bps'[ip], counted'[ip])
  <2>1. CASE ip = c.ip
    <3>1. bps'[ip] = v /\ counted'[ip] = g
      BY <1>1, <1>4, <2>1
    <3> QED BY <1>6, <1>8, <3>1
  <2>2. CASE ip # c.ip
    <3>1. bps'[ip] = bps[ip] /\ counted'[ip] = counted[ip]
      BY <1>1, <1>4, <2>2
    <3> QED BY <1>1, <3>1
  <2> QED BY <2>1, <2>2
<1>10. bps' \in [IPs -> Window \cup {Absent}]
  BY <1>1, <1>4, <1>7
<1>11. counted' \in [IPs -> [0..MaxTime -> Nat]]
  BY <1>1, <1>4, <1>7
<1>12. call' \in [Clients -> Calls \cup {Absent}] /\ clock' \in 0..MaxTime
  BY <1>1, <1>4
<1> QED BY <1>9, <1>10, <1>11, <1>12 DEF RateInv

(* RateInv holds at first and every step keeps it. *)
LEMMA RateInductive ==
    (RateInit => RateInv) /\ (RateInv /\ [RateNext]_rateVars => RateInv')
<1>0. Nothing \in [0..MaxTime -> Nat]
  BY DEF Nothing
<1>1. ASSUME RateInit
      PROVE  RateInv
  <2>1. /\ bps = [ip \in IPs |-> Absent] /\ call = [th \in Clients |-> Absent] /\ clock = 0
        /\ counted = [ip \in IPs |-> Nothing]
    BY <1>1 DEF RateInit
  <2>2. 0 \in 0..MaxTime
    BY RateAssumption
  <2> QED BY <1>0, <2>1, <2>2 DEF RateInv
<1>2. ASSUME RateInv, UNCHANGED <<bps, counted>>, clock' \in 0..MaxTime,
             call' \in [Clients -> Calls \cup {Absent}]
      PROVE  RateInv'
  BY <1>2 DEF RateInv
<1>3. ASSUME RateInv, NEW th \in Clients, NEW ip \in IPs, NEW size \in Sizes, Enter(th, ip, size)
      PROVE  RateInv'
  <2>1. /\ call' = [call EXCEPT ![th] = [ip |-> ip, size |-> size, now |-> clock]]
        /\ UNCHANGED <<bps, clock, counted>>
    BY <1>3 DEF Enter
  <2>2. [ip |-> ip, size |-> size, now |-> clock] \in Calls
    BY <1>3 DEF Calls, RateInv
  <2>3. call' \in [Clients -> Calls \cup {Absent}] /\ clock' \in 0..MaxTime
    BY <1>3, <2>1, <2>2 DEF RateInv
  <2> QED BY <1>2, <1>3, <2>1, <2>3
<1>4. ASSUME RateInv, NEW th \in Clients, call[th] # Absent
      PROVE  call[th].ip \in IPs
  BY <1>4 DEF RateInv, Calls
<1>5. ASSUME RateInv, NEW th \in Clients, AllowKnown(th)
      PROVE  RateInv'
  <2>1. /\ call[th] # Absent /\ bps[call[th].ip] # Absent /\ Allow(th, bps[call[th].ip])
        /\ clock' = clock
    BY <1>5 DEF AllowKnown, Waiting
  <2>2. WindowOK(bps[call[th].ip], counted[call[th].ip])
    BY <1>4, <1>5, <2>1 DEF RateInv
  <2> QED BY <1>5, <2>1, <2>2, AllowOK
<1>6. ASSUME RateInv, NEW th \in Clients, AllowNew(th)
      PROVE  RateInv'
  <2>1. /\ call[th] # Absent /\ bps[call[th].ip] = Absent /\ clock' = clock
        /\ Allow(th, sliding_window_create(clock))
    BY <1>6 DEF AllowNew, Waiting
  <2>2. counted[call[th].ip] = Nothing /\ clock \in 0..MaxTime
    BY <1>4, <1>6, <2>1 DEF RateInv
  <2>3. WindowOK(sliding_window_create(clock), counted[call[th].ip])
    BY <2>2, CreateOK
  <2> QED BY <1>6, <2>1, <2>3, AllowOK
<1>7. ASSUME RateInv, NEW th \in Clients, AllowCollision(th)
      PROVE  RateInv'
  BY <1>2, <1>7 DEF AllowCollision, RateInv
<1>8. ASSUME RateInv, NEW th \in Clients, AllowStarved(th)
      PROVE  RateInv'
  <2>1. UNCHANGED <<bps, counted, clock>> /\ call' = [call EXCEPT ![th] = Absent]
    BY <1>8 DEF AllowStarved
  <2>2. call' \in [Clients -> Calls \cup {Absent}] /\ clock' \in 0..MaxTime
    BY <1>8, <2>1 DEF RateInv
  <2> QED BY <1>2, <1>8, <2>1, <2>2
<1>9. ASSUME RateInv, NEW ip \in IPs, rate_limiter_reset(ip)
      PROVE  RateInv'
  <2>1. /\ bps' = [bps EXCEPT ![ip] = Absent] /\ counted' = [counted EXCEPT ![ip] = Nothing]
        /\ call' = call /\ clock' = clock
    BY <1>9 DEF rate_limiter_reset
  <2> QED BY <1>0, <1>9, <2>1 DEF RateInv
<1>10. ASSUME RateInv, rate_limiter_destroy
       PROVE  RateInv'
  BY <1>2, <1>10 DEF rate_limiter_destroy, RateInv
<1>11. ASSUME RateInv, Tick
       PROVE  RateInv'
  <2>1. clock' = clock + 1 /\ clock < MaxTime /\ UNCHANGED <<bps, counted, call>>
    BY <1>11 DEF Tick
  <2>2. clock' \in 0..MaxTime /\ call' \in [Clients -> Calls \cup {Absent}]
    BY <1>11, <2>1, RateAssumption DEF RateInv
  <2> QED BY <1>2, <1>11, <2>1, <2>2
<1>12. ASSUME RateInv, UNCHANGED rateVars
       PROVE  RateInv'
  BY <1>2, <1>12 DEF rateVars, RateInv
<1> QED BY <1>1, <1>3, <1>5, <1>6, <1>7, <1>8, <1>9, <1>10, <1>11, <1>12 DEF RateNext

(* Whatever pauses, wraps, late callers, resets and failed allocations came *)
(* before, and for any window length, addresses and callers, k places       *)
(* behind a window's current index are the bytes counted k seconds before   *)
(* its window_start (sliding_window_add, ratelimit.c:78-108).               *)
THEOREM WindowCorrect ==
    RateSpec => []WindowExact
<1>1. RateInit => RateInv
  BY RateInductive
<1>2. RateInv /\ [RateNext]_rateVars => RateInv'
  BY RateInductive
<1>3. RateInv => WindowExact
  <2> SUFFICES ASSUME RateInv, NEW ip \in IPs, bps[ip] # Absent, NEW k \in Slots
               PROVE  bps[ip].buckets[Mod(bps[ip].current_idx - k + WindowSize)]
                        = At(counted[ip], bps[ip].window_start - k)
    BY DEF WindowExact
  <2>1. WindowOK(bps[ip], counted[ip])
    BY DEF RateInv
  <2> QED BY <2>1 DEF WindowOK, Ring, Place
<1> QED BY <1>1, <1>2, <1>3, PTL DEF RateSpec

(* A history with n bytes more in second s is a history.                    *)
LEMMA HistoryType ==
    ASSUME NEW h \in [0..MaxTime -> Nat], NEW s \in 0..MaxTime, NEW n \in Nat
    PROVE  [h EXCEPT ![s] = @ + n] \in [0..MaxTime -> Nat]
OBVIOUS

(* The rate limiter's state keeps its types, however callers, resets and    *)
(* failed allocations interleave (ratelimit.c).                             *)
THEOREM RateTypeCorrect == RateSpec => []RateTypeOK
<1> DEFINE Rest == /\ calls \in Nat /\ undefined \in BOOLEAN
                   /\ last \in [ip : IPs \cup {Absent}, second : Nat, allowed : BOOLEAN]
                   /\ sent \in [IPs -> [0..MaxTime -> Nat]]
<1>0. /\ NoVerdict \in [ip : IPs \cup {Absent}, second : Nat, allowed : BOOLEAN]
      /\ Nothing \in [0..MaxTime -> Nat]
  BY DEF NoVerdict, Nothing
<1>1. RateInit => Rest
  <2> SUFFICES ASSUME RateInit
               PROVE  Rest
    OBVIOUS
  <2>1. calls \in Nat /\ undefined \in BOOLEAN
    BY DEF RateInit
  <2>2. last \in [ip : IPs \cup {Absent}, second : Nat, allowed : BOOLEAN]
    BY <1>0 DEF RateInit
  <2>3. sent \in [IPs -> [0..MaxTime -> Nat]]
    BY <1>0 DEF RateInit
  <2> QED BY <2>1, <2>2, <2>3
<1>2. Rest /\ RateInv /\ [RateNext]_rateVars => Rest'
  <2> SUFFICES ASSUME Rest, RateInv, [RateNext]_rateVars
               PROVE  Rest'
    OBVIOUS
  <2>1. ASSUME NEW th \in Clients, NEW w, call[th] # Absent, WindowOK(w, counted[call[th].ip]),
               Allow(th, w), UNCHANGED <<undefined, calls>>
        PROVE  Rest'
    <3> DEFINE c == call[th]
               v == sliding_window_add(w, c.size, c.now)
               row == [sent[c.ip] EXCEPT ![c.now] = @ + c.size]
    <3>1. c \in Calls
      BY <2>1 DEF RateInv
    <3>2. c.ip \in IPs /\ c.size \in Nat /\ c.now \in 0..MaxTime
      BY <3>1, RateAssumption DEF Calls
    <3>3. /\ sent' = [sent EXCEPT ![c.ip] = row]
          /\ last' = [ip |-> c.ip, second |-> v.window_start, allowed |-> Allowed(v, c.now)]
      BY <2>1 DEF Allow
    <3>a. v \in Window
      <4>1. WindowOK(w, counted[c.ip])
        BY <2>1
      <4> HIDE DEF c
      <4>2. v \in Window
        BY <3>2, <4>1, AddOK DEF WindowOK
      <4> QED BY <4>2
    <3> HIDE DEF c, v
    <3>4. row \in [0..MaxTime -> Nat]
      <4>1. sent[c.ip] \in [0..MaxTime -> Nat]
        BY <3>2
      <4> QED BY <3>2, <4>1, HistoryType
    <3> HIDE DEF row
    <3>5. sent' \in [IPs -> [0..MaxTime -> Nat]]
      BY <3>2, <3>3, <3>4
    <3>6. v.window_start \in Nat
      BY <3>a DEF Window
    <3>7. Allowed(v, c.now) \in BOOLEAN
      BY DEF Allowed
    <3>8. last' \in [ip : IPs \cup {Absent}, second : Nat, allowed : BOOLEAN]
      BY <3>2, <3>3, <3>6, <3>7
    <3> QED BY <2>1, <3>5, <3>8
  <2>2. ASSUME NEW th \in Clients, NEW ip \in IPs, NEW size \in Sizes, Enter(th, ip, size)
        PROVE  Rest'
    BY <2>2 DEF Enter
  <2>3. ASSUME NEW th \in Clients, AllowKnown(th)
        PROVE  Rest'
    <3>1. /\ call[th] # Absent /\ bps[call[th].ip] # Absent /\ Allow(th, bps[call[th].ip])
          /\ UNCHANGED <<undefined, calls>>
      BY <2>3 DEF AllowKnown, Waiting
    <3>2. call[th].ip \in IPs
      BY <3>1 DEF RateInv, Calls
    <3>3. WindowOK(bps[call[th].ip], counted[call[th].ip])
      BY <3>1, <3>2 DEF RateInv
    <3> QED BY <2>1, <3>1, <3>3
  <2>4. ASSUME NEW th \in Clients, AllowNew(th)
        PROVE  Rest'
    <3>1. /\ call[th] # Absent /\ bps[call[th].ip] = Absent /\ Allow(th, sliding_window_create(clock))
          /\ UNCHANGED <<undefined, calls>>
      BY <2>4 DEF AllowNew, Waiting
    <3>2. call[th].ip \in IPs
      BY <3>1 DEF RateInv, Calls
    <3>3. counted[call[th].ip] = Nothing /\ clock \in 0..MaxTime
      BY <3>1, <3>2 DEF RateInv
    <3>4. WindowOK(sliding_window_create(clock), counted[call[th].ip])
      BY <3>3, CreateOK
    <3> QED BY <2>1, <3>1, <3>4
  <2>5. ASSUME NEW th \in Clients, AllowCollision(th)
        PROVE  Rest'
    BY <2>5 DEF AllowCollision
  <2>6. ASSUME NEW th \in Clients, AllowStarved(th)
        PROVE  Rest'
    BY <1>0, <2>6 DEF AllowStarved
  <2>7. ASSUME NEW ip \in IPs, rate_limiter_reset(ip)
        PROVE  Rest'
    BY <1>0, <2>7 DEF rate_limiter_reset
  <2>8. CASE rate_limiter_destroy
    BY <2>8 DEF rate_limiter_destroy
  <2>9. CASE Tick
    BY <2>9 DEF Tick
  <2>10. CASE UNCHANGED rateVars
    BY <2>10 DEF rateVars
  <2> QED BY <2>2, <2>3, <2>4, <2>5, <2>6, <2>7, <2>8, <2>9, <2>10 DEF RateNext
<1>3. Rest /\ RateInv => RateTypeOK
  <2> SUFFICES ASSUME Rest, RateInv
               PROVE  RateTypeOK
    OBVIOUS
  <2>1. Calls \subseteq Call
    BY RateAssumption DEF Calls, Call
  <2>2. call \in [Clients -> Call \cup {Absent}]
    BY <2>1 DEF RateInv
  <2> QED BY <2>2 DEF RateTypeOK, RateInv
<1>4. RateInit => RateInv
  BY RateInductive
<1>5. RateInv /\ [RateNext]_rateVars => RateInv'
  BY RateInductive
<1> QED BY <1>1, <1>2, <1>3, <1>4, <1>5, PTL DEF RateSpec

(* The seconds of a window whose last second is t, and the seconds from a   *)
(* on.                                                                      *)
Secs(t) == ((t - WindowSize + 1)..t) \cap 0..MaxTime
From(a) == {t \in 0..MaxTime : a <= t}

(* Some seconds of a history can be added up, *)
LEMMA HistorySummable ==
    ASSUME NEW h \in [0..MaxTime -> Nat], NEW S \in SUBSET (0..MaxTime)
    PROVE  Summable(h, S)
<1>1. 0 \in Int /\ MaxTime \in Int
  BY RateAssumption
<1>2. IsFiniteSet(0..MaxTime)
  BY <1>1, FS_Interval
<1>3. IsFiniteSet(S)
  BY <1>2, FS_Subset
<1> QED BY <1>3 DEF Summable

(* ... and so can a ring. *)
LEMMA RingSummable ==
    ASSUME NEW B \in [Slots -> Nat]
    PROVE  Summable(B, Slots)
<1>1. 0 \in Int /\ WindowSize - 1 \in Int
  BY RateAssumption
<1>2. IsFiniteSet(0..(WindowSize - 1))
  BY <1>1, FS_Interval
<1> QED BY <1>2 DEF Summable, Slots

(* Going k places back and k places back again from there is going nowhere: *)
(* Place is its own inverse.                                                *)
LEMMA PlaceBack ==
    ASSUME NEW cur \in Slots, NEW k \in Slots
    PROVE  Place(cur, k) \in Slots /\ Place(cur, Place(cur, k)) = k
BY RateAssumption DEF Place, Mod, Slots

(* The sum of an exact ring is what was counted in the window's seconds. *)
LEMMA RingSum ==
    ASSUME NEW B, NEW cur, NEW s, NEW h, Ring(B, cur, s, h)
    PROVE  Total(B, Slots) = UpTo(h, s)
<1> DEFINE S == Secs(s)
           m == [t \in S |-> Place(cur, s - t)]
           r == [i \in Slots |-> s - Place(cur, i)]
<1>1. /\ B \in [Slots -> Nat] /\ cur \in Slots /\ s \in 0..MaxTime /\ h \in [0..MaxTime -> Nat]
      /\ \A k \in Slots : B[Place(cur, k)] = At(h, s - k)
  BY DEF Ring
<1>2. MaxTime \in Nat /\ WindowSize \in Nat \ {0}
  BY RateAssumption
<1>3. Summable(B, Slots) /\ Summable(h, S)
  BY <1>1, HistorySummable, RingSummable DEF Secs
<1>4. ASSUME NEW t \in S
      PROVE  /\ s - t \in Slots /\ t \in 0..MaxTime /\ At(h, t) = h[t] /\ s - (s - t) = t
             /\ m[t] \in Slots /\ B[m[t]] = h[t] /\ Place(cur, m[t]) = s - t
  <2>1. s - t \in Slots /\ t \in 0..MaxTime /\ s - (s - t) = t
    BY <1>1, <1>2 DEF Secs, Slots
  <2> DEFINE k == s - t
  <2>2. At(h, t) = h[t]
    BY <2>1 DEF At
  <2>3. k \in Slots /\ s - k = t
    BY <2>1
  <2> HIDE DEF k
  <2>4. Place(cur, k) \in Slots /\ Place(cur, Place(cur, k)) = k /\ B[Place(cur, k)] = At(h, s - k)
    BY <1>1, <2>3, PlaceBack
  <2>5. m[t] = Place(cur, k)
    BY DEF k
  <2> HIDE DEF m
  <2> QED BY <2>1, <2>2, <2>3, <2>4, <2>5 DEF k
<1>5. Matches(m, h, S, B, Slots)
  <2>1. \A t \in S : h[t] \in Nat
    BY <1>3 DEF Summable
  <2>2. \A x, y \in S : m[x] = m[y] => x = y
    <3> SUFFICES ASSUME NEW x \in S, NEW y \in S, m[x] = m[y]
                 PROVE  x = y
      OBVIOUS
    <3>1. s - x = s - y /\ x \in Int /\ y \in Int /\ s \in Int
      BY <1>1, <1>2, <1>4
    <3> QED BY <3>1
  <2>3. \A x \in S : m[x] \in Slots /\ B[m[x]] = h[x]
    BY <1>4
  <2> HIDE DEF m, S
  <2> QED BY <2>1, <2>2, <2>3 DEF Matches
<1>6. ASSUME NEW i \in Slots
      PROVE  /\ s - r[i] = Place(cur, i) /\ Place(cur, s - r[i]) = i /\ B[i] = At(h, r[i])
             /\ B[i] # 0 => r[i] \in S /\ B[i] = h[r[i]]
  <2> DEFINE k == Place(cur, i)
  <2>1. k \in Slots /\ Place(cur, k) = i /\ r[i] = s - k
    BY <1>1, PlaceBack
  <2>2. B[Place(cur, k)] = At(h, s - k)
    BY <1>1, <2>1
  <2> HIDE DEF k, r
  <2>3. k \in Int /\ s \in Int /\ 0 <= k /\ k <= WindowSize - 1
    BY <1>1, <1>2, <2>1 DEF Slots
  <2>4. s - r[i] = k
    BY <2>1, <2>3
  <2>5. B[i] # 0 => r[i] \in 0..MaxTime /\ B[i] = h[r[i]]
    BY <2>1, <2>2 DEF At
  <2>6. r[i] \in 0..MaxTime => r[i] \in S
    BY <1>1, <1>2, <2>1, <2>3 DEF Secs
  <2> QED BY <2>1, <2>2, <2>4, <2>5, <2>6 DEF k
<1>7. Matches(r, B, Slots, h, S)
  <2>1. \A i \in Slots : B[i] \in Nat
    BY <1>1
  <2>2. \A x, y \in Slots : r[x] = r[y] => x = y
    BY <1>6
  <2>3. \A i \in Slots : B[i] # 0 => r[i] \in S /\ B[i] = h[r[i]]
    BY <1>6
  <2> HIDE DEF r, S
  <2> QED BY <2>1, <2>2, <2>3 DEF Matches
<1> HIDE DEF m, r
<1>8. Total(h, S) <= Total(B, Slots) /\ Total(B, Slots) <= Total(h, S)
  BY <1>3, <1>5, <1>7, TotalLeq
<1>9. Total(h, S) \in Nat /\ Total(B, Slots) \in Nat
  BY <1>3, TotalNat
<1>10. Total(h, S) = UpTo(h, s)
  BY DEF Total, UpTo, Secs
<1> QED BY <1>8, <1>9, <1>10

(* The sum of a window is that of its history, until the window is over. *)
LEMMA WindowSum ==
    ASSUME NEW w, NEW h, WindowOK(w, h), NEW now \in Int
    PROVE  /\ now - w.window_start >= WindowSize => sliding_window_sum(w, now) = 0
           /\ now - w.window_start < WindowSize => sliding_window_sum(w, now) = UpTo(h, w.window_start)
<1>1. w.window_start \in Int /\ WindowSize \in Int
  BY RateAssumption DEF WindowOK, Ring
<1>2. Total(w.buckets, Slots) = UpTo(h, w.window_start)
  BY RingSum DEF WindowOK
<1>3. MapThenSumSet(LAMBDA i : w.buckets[i], Slots) = Total(w.buckets, Slots)
  BY DEF Total
<1>4. sliding_window_sum(w, now) = IF now - w.window_start >= WindowSize THEN 0 ELSE Total(w.buckets, Slots)
  BY <1>3, Zenon DEF sliding_window_sum
<1> QED BY <1>1, <1>2, <1>4

(* A packet is judged on what was counted for its address up to the second  *)
(* it was counted in.                                                       *)
LEMMA AllowVerdict ==
    ASSUME RateInv, NEW th \in Clients, call[th] # Absent,
           NEW w, WindowOK(w, counted[call[th].ip]), Allow(th, w)
    PROVE  last'.allowed <=> UpTo(counted'[last'.ip], last'.second) \div WindowSize <= MaxBps
<1> DEFINE c == call[th]
           h == counted[c.ip]
           v == sliding_window_add(w, c.size, c.now)
           g == [h EXCEPT ![v.window_start] = @ + c.size]
<1>1. c \in Calls /\ counted \in [IPs -> [0..MaxTime -> Nat]]
  BY DEF RateInv
<1>2. c.ip \in IPs /\ c.size \in Nat /\ c.now \in 0..MaxTime
  BY <1>1, RateAssumption DEF Calls
<1>3. /\ last' = [ip |-> c.ip, second |-> v.window_start, allowed |-> Allowed(v, c.now)]
      /\ counted' = [counted EXCEPT ![c.ip] = g]
  BY DEF Allow
<1>4. WindowOK(w, h)
  OBVIOUS
<1> HIDE DEF c, h
<1>5. WindowOK(v, g) /\ c.now <= v.window_start
  BY <1>2, <1>4, AddOK
<1> HIDE DEF v, g
<1>6. c.now \in Int /\ v.window_start \in Int /\ WindowSize \in Nat \ {0}
  BY <1>2, <1>5, RateAssumption DEF WindowOK, Ring
<1>7. sliding_window_sum(v, c.now) = UpTo(g, v.window_start)
  <2>1. c.now - v.window_start < WindowSize
    BY <1>5, <1>6
  <2> QED BY <1>5, <1>6, <2>1, WindowSum
<1>8. last'.ip = c.ip /\ last'.second = v.window_start /\ last'.allowed = Allowed(v, c.now)
      /\ counted'[c.ip] = g
  BY <1>1, <1>2, <1>3
<1>9. 0 <= MaxPps
  BY RateAssumption
<1>10. Allowed(v, c.now) <=> UpTo(g, v.window_start) \div WindowSize <= MaxBps
  BY <1>7, <1>9, Zenon DEF Allowed
<1> QED BY <1>8, <1>10, Zenon

(* However callers wait for the lock with old times, and whatever pauses,   *)
(* wraps and resets came before, the verdict of rate_limiter_allow is the   *)
(* byte limit on what was counted for the address in the WindowSize seconds *)
(* up to the one its packet was counted in (ratelimit.c:267-279).           *)
THEOREM VerdictCorrect ==
    RateSpec => VerdictExact
<1> DEFINE A == last'.ip \in IPs /\ counted' # counted =>
    (last'.allowed <=> UpTo(counted'[last'.ip], last'.second) \div WindowSize <= MaxBps)
<1>1. RateInit => RateInv
  BY RateInductive
<1>2. RateInv /\ [RateNext]_rateVars => RateInv'
  BY RateInductive
<1>3. RateInv /\ [RateNext]_rateVars => [A]_rateVars
  <2> SUFFICES ASSUME RateInv, RateNext, last'.ip \in IPs, counted' # counted
               PROVE  last'.allowed <=> UpTo(counted'[last'.ip], last'.second) \div WindowSize <= MaxBps
    OBVIOUS
  <2>1. ASSUME NEW th \in Clients, call[th] # Absent
        PROVE  call[th].ip \in IPs
    BY <2>1 DEF RateInv, Calls
  <2>2. last' # NoVerdict
    BY AbsentAssumption DEF NoVerdict
  <2>3. PICK th \in Clients : AllowKnown(th) \/ AllowNew(th)
    BY <2>2 DEF RateNext, Enter, AllowCollision, AllowStarved, rate_limiter_reset, rate_limiter_destroy, Tick
  <2>4. CASE AllowKnown(th)
    <3>1. call[th] # Absent /\ bps[call[th].ip] # Absent /\ Allow(th, bps[call[th].ip])
      BY <2>4 DEF AllowKnown, Waiting
    <3>2. WindowOK(bps[call[th].ip], counted[call[th].ip])
      BY <2>1, <3>1 DEF RateInv
    <3> QED BY <3>1, <3>2, AllowVerdict
  <2>5. CASE AllowNew(th)
    <3>1. call[th] # Absent /\ bps[call[th].ip] = Absent /\ Allow(th, sliding_window_create(clock))
      BY <2>5 DEF AllowNew, Waiting
    <3>2. counted[call[th].ip] = Nothing /\ clock \in 0..MaxTime
      BY <2>1, <3>1 DEF RateInv
    <3>3. WindowOK(sliding_window_create(clock), counted[call[th].ip])
      BY <3>2, CreateOK
    <3> QED BY <3>1, <3>3, AllowVerdict
  <2> QED BY <2>3, <2>4, <2>5
<1> QED BY <1>1, <1>2, <1>3, PTL DEF RateSpec, VerdictExact

(* n bytes more in second s are n more in every sum with s. *)
LEMMA TotalLater ==
    ASSUME NEW h \in [0..MaxTime -> Nat], NEW s \in 0..MaxTime, NEW n \in Nat,
           NEW g, Later(g, h, s, n), NEW S \in SUBSET (0..MaxTime)
    PROVE  Total(g, S) = Total(h, S) + (IF s \in S THEN n ELSE 0)
<1>1. g \in [0..MaxTime -> Nat] /\ g[s] = h[s] + n /\ \A t \in 0..MaxTime : t # s => g[t] = h[t]
  BY DEF Later
<1>2. Summable(h, S) /\ Summable(g, S) /\ Summable(h, S \ {s})
  BY <1>1, HistorySummable
<1>3. \A t \in S \ {s} : g[t] = h[t]
  BY <1>1
<1>4. Total(g, S \ {s}) = Total(h, S \ {s})
  BY <1>2, <1>3, TotalSame
<1>5. Total(h, S \ {s}) \in Nat /\ Total(h, S) \in Nat
  BY <1>2, TotalNat
<1>6. CASE s \in S
  <2>1. Total(g, S) = g[s] + Total(g, S \ {s}) /\ Total(h, S) = h[s] + Total(h, S \ {s})
    <3>1. \A z : Summable(z, S) => Total(z, S) = z[s] + Total(z, S \ {s})
      BY <1>6, TotalStep
    <3> QED BY <1>2, <3>1
  <2>2. h[s] \in Nat
    OBVIOUS
  <2>3. Total(g, S) = Total(h, S) + n
    BY <1>1, <1>4, <1>5, <2>1, <2>2
  <2> QED BY <1>6, <2>3
<1>7. CASE s \notin S
  <2>1. S \ {s} = S
    BY <1>7
  <2>2. Total(g, S) = Total(h, S)
    BY <1>4, <2>1
  <2> QED BY <1>5, <1>7, <2>2
<1> QED BY <1>6, <1>7

(* From any second on, at least as many bytes were counted as were sent. *)
NotLost(h, e) == \A a \in Int : Total(e, From(a)) <= Total(h, From(a))

(* Where nothing was sent, nothing was lost. *)
LEMMA NothingLost == NotLost(Nothing, Nothing)
<1> SUFFICES ASSUME NEW a \in Int
             PROVE  Total(Nothing, From(a)) <= Total(Nothing, From(a))
  BY DEF NotLost
<1>1. Nothing \in [0..MaxTime -> Nat]
  BY DEF Nothing
<1>2. Summable(Nothing, From(a))
  BY <1>1, HistorySummable DEF From
<1>3. Total(Nothing, From(a)) \in Nat
  BY <1>2, TotalNat
<1> QED BY <1>3

(* Bytes counted in the second they were sent or later are not lost. *)
LEMMA NotLostStep ==
    ASSUME NEW h \in [0..MaxTime -> Nat], NEW e \in [0..MaxTime -> Nat], NotLost(h, e),
           NEW n \in Nat, NEW now \in 0..MaxTime, NEW s \in 0..MaxTime, now <= s,
           NEW g, Later(g, h, s, n), NEW f, Later(f, e, now, n)
    PROVE  NotLost(g, f)
<1> SUFFICES ASSUME NEW a \in Int
             PROVE  Total(f, From(a)) <= Total(g, From(a))
  BY DEF NotLost
<1> DEFINE S == From(a)
<1>1. S \in SUBSET (0..MaxTime)
  BY DEF From
<1>2. now \in S => s \in S
  BY RateAssumption DEF From
<1>3. Total(e, S) <= Total(h, S)
  BY DEF NotLost
<1> HIDE DEF S
<1>4. /\ Total(g, S) = Total(h, S) + (IF s \in S THEN n ELSE 0)
      /\ Total(f, S) = Total(e, S) + (IF now \in S THEN n ELSE 0)
  <2>1. Total(g, S) = Total(h, S) + (IF s \in S THEN n ELSE 0)
    BY <1>1, TotalLater
  <2>2. Total(f, S) = Total(e, S) + (IF now \in S THEN n ELSE 0)
    BY <1>1, TotalLater
  <2> QED BY <2>1, <2>2
<1>5. Total(e, S) \in Nat /\ Total(h, S) \in Nat
  BY <1>1, HistorySummable, TotalNat
<1>6. Total(f, S) <= Total(g, S)
  BY <1>2, <1>3, <1>4, <1>5
<1> QED BY <1>6 DEF S

(* Division rounds down, and larger numbers to no less. *)
LEMMA DivMonotone ==
    ASSUME NEW x \in Nat, NEW y \in Nat, x <= y, NEW w \in Nat \ {0}
    PROVE  x \div w <= y \div w
<1> DEFINE p == x \div w
           q == y \div w
<1>1. p \in Int /\ q \in Int /\ w * p <= x /\ y < w * q + w
  OBVIOUS
<1> HIDE DEF p, q
<1>2. ASSUME q + 1 <= p
      PROVE  FALSE
  <2>1. w * (q + 1) <= w * p
    BY <1>1, <1>2
  <2>2. w * (q + 1) = w * q + w
    BY <1>1
  <2>3. w * p \in Int /\ w * q \in Int
    BY <1>1
  <2> QED BY <1>1, <2>1, <2>2, <2>3
<1>3. p <= q
  BY <1>1, <1>2
<1> QED BY <1>3 DEF p, q

(* No window and no caller's time is ahead of the clock, an address without *)
(* an entry has sent nothing since, and no byte sent is counted before the  *)
(* second its caller read.                                                  *)
LateInv == /\ sent \in [IPs -> [0..MaxTime -> Nat]]
           /\ \A th \in Clients : call[th] # Absent => call[th].now <= clock
           /\ \A ip \in IPs : bps[ip] = Absent => sent[ip] = Nothing
           /\ \A ip \in IPs : bps[ip] # Absent => bps[ip].window_start <= clock
           /\ \A ip \in IPs : NotLost(counted[ip], sent[ip])

(* rate_limiter_allow under the lock keeps them. *)
LEMMA AllowLate ==
    ASSUME RateInv, LateInv, NEW th \in Clients, call[th] # Absent,
           NEW w, WindowOK(w, counted[call[th].ip]), w.window_start <= clock,
           Allow(th, w), clock' = clock
    PROVE  LateInv'
<1> DEFINE c == call[th]
           h == counted[c.ip]
           e == sent[c.ip]
           v == sliding_window_add(w, c.size, c.now)
           g == [h EXCEPT ![v.window_start] = @ + c.size]
           f == [e EXCEPT ![c.now] = @ + c.size]
<1>1. /\ bps \in [IPs -> Window \cup {Absent}] /\ counted \in [IPs -> [0..MaxTime -> Nat]]
      /\ call \in [Clients -> Calls \cup {Absent}] /\ clock \in 0..MaxTime
      /\ sent \in [IPs -> [0..MaxTime -> Nat]]
  BY DEF RateInv, LateInv
<1>2. c \in Calls /\ c.now <= clock
  BY <1>1 DEF LateInv
<1>3. c.ip \in IPs /\ c.size \in Nat /\ c.now \in 0..MaxTime
  BY <1>2, RateAssumption DEF Calls
<1>4. /\ bps' = [bps EXCEPT ![c.ip] = v] /\ counted' = [counted EXCEPT ![c.ip] = g]
      /\ call' = [call EXCEPT ![th] = Absent] /\ sent' = [sent EXCEPT ![c.ip] = f]
  BY DEF Allow
<1>5. WindowOK(w, h) /\ NotLost(h, e) /\ h \in [0..MaxTime -> Nat] /\ e \in [0..MaxTime -> Nat]
  BY <1>1, <1>3 DEF LateInv
<1> HIDE DEF c, h, e
<1>6. /\ WindowOK(v, g) /\ c.now <= v.window_start
      /\ v.window_start = w.window_start \/ v.window_start = c.now
  BY <1>3, <1>5, AddOK
<1> HIDE DEF v
<1>7. v \in Window /\ v.window_start \in 0..MaxTime
  BY <1>6 DEF WindowOK, Ring
<1>8. v # Absent /\ v.window_start <= clock
  BY <1>2, <1>6, <1>7, AbsentAssumption
<1>9. Later(g, h, v.window_start, c.size) /\ Later(f, e, c.now, c.size)
  BY <1>3, <1>5, <1>7 DEF Later
<1> HIDE DEF g, f
<1>10. NotLost(g, f)
  BY <1>3, <1>5, <1>6, <1>7, <1>9, NotLostStep
<1>11. f \in [0..MaxTime -> Nat]
  BY <1>9 DEF Later
<1>12. sent' \in [IPs -> [0..MaxTime -> Nat]]
  BY <1>1, <1>4, <1>11
<1>13. \A u \in Clients : call'[u] # Absent => call'[u].now <= clock'
  BY <1>1, <1>4 DEF LateInv
<1>14. /\ bps'[c.ip] = v /\ counted'[c.ip] = g /\ sent'[c.ip] = f
       /\ \A ip \in IPs \ {c.ip} :
              bps'[ip] = bps[ip] /\ counted'[ip] = counted[ip] /\ sent'[ip] = sent[ip]
  BY <1>1, <1>3, <1>4
<1>15. \A ip \in IPs : bps'[ip] = Absent => sent'[ip] = Nothing
  BY <1>8, <1>14 DEF LateInv
<1>16. \A ip \in IPs : bps'[ip] # Absent => bps'[ip].window_start <= clock'
  BY <1>8, <1>14 DEF LateInv
<1>17. \A ip \in IPs : NotLost(counted'[ip], sent'[ip])
  BY <1>10, <1>14 DEF LateInv
<1> QED BY <1>12, <1>13, <1>15, <1>16, <1>17 DEF LateInv

(* LateInv holds at first and every step keeps it. *)
LEMMA LateInductive ==
    (RateInit => LateInv) /\ (RateInv /\ LateInv /\ [RateNext]_rateVars => LateInv')
<1>0. Nothing \in [0..MaxTime -> Nat]
  BY DEF Nothing
<1>1. ASSUME RateInit
      PROVE  LateInv
  BY <1>0, <1>1, NothingLost DEF RateInit, LateInv
<1>2. ASSUME RateInv, LateInv, UNCHANGED <<bps, counted, sent>>, clock <= clock', clock' \in 0..MaxTime,
             \A th \in Clients : call'[th] # Absent => call'[th].now <= clock'
      PROVE  LateInv'
  <2>1. \A ip \in IPs : bps[ip] # Absent => bps[ip].window_start <= clock'
    <3> SUFFICES ASSUME NEW ip \in IPs, bps[ip] # Absent
                 PROVE  bps[ip].window_start <= clock'
      OBVIOUS
    <3>1. WindowOK(bps[ip], counted[ip]) /\ bps[ip].window_start <= clock /\ clock \in 0..MaxTime
      BY <1>2 DEF RateInv, LateInv
    <3>2. bps[ip].window_start \in 0..MaxTime
      BY <3>1 DEF WindowOK, Ring
    <3> QED BY <1>2, <3>1, <3>2, RateAssumption
  <2> QED BY <1>2, <2>1 DEF LateInv
<1>c. ASSUME RateInv, LateInv, NEW th \in Clients, call[th] # Absent
      PROVE  call[th].ip \in IPs /\ call[th].now \in Int /\ call[th].now <= clock
  <2>1. call[th] \in Calls
    BY <1>c DEF RateInv
  <2> QED BY <1>c, <2>1, RateAssumption DEF Calls, LateInv
<1>3. ASSUME RateInv, LateInv, NEW th \in Clients, NEW ip \in IPs, NEW size \in Sizes, Enter(th, ip, size)
      PROVE  LateInv'
  <2>1. /\ call' = [call EXCEPT ![th] = [ip |-> ip, size |-> size, now |-> clock]]
        /\ UNCHANGED <<bps, clock, counted, sent>>
    BY <1>3 DEF Enter
  <2>2. clock \in 0..MaxTime /\ clock <= clock' /\ call \in [Clients -> Calls \cup {Absent}]
    BY <1>3, <2>1, RateAssumption DEF RateInv
  <2>3. \A u \in Clients : call'[u] # Absent => call'[u].now <= clock'
    BY <1>3, <2>1, <2>2 DEF LateInv
  <2> QED BY <1>2, <1>3, <2>1, <2>2, <2>3
<1>5. ASSUME RateInv, LateInv, NEW th \in Clients, AllowKnown(th)
      PROVE  LateInv'
  <2>1. /\ call[th] # Absent /\ bps[call[th].ip] # Absent /\ Allow(th, bps[call[th].ip])
        /\ clock' = clock
    BY <1>5 DEF AllowKnown, Waiting
  <2>2. WindowOK(bps[call[th].ip], counted[call[th].ip]) /\ bps[call[th].ip].window_start <= clock
    BY <1>c, <1>5, <2>1 DEF RateInv, LateInv
  <2> QED BY <1>5, <2>1, <2>2, AllowLate
<1>6. ASSUME RateInv, LateInv, NEW th \in Clients, AllowNew(th)
      PROVE  LateInv'
  <2>1. /\ call[th] # Absent /\ bps[call[th].ip] = Absent /\ clock' = clock
        /\ Allow(th, sliding_window_create(clock))
    BY <1>6 DEF AllowNew, Waiting
  <2>2. counted[call[th].ip] = Nothing /\ clock \in 0..MaxTime
    BY <1>c, <1>6, <2>1 DEF RateInv
  <2>3. WindowOK(sliding_window_create(clock), counted[call[th].ip])
    BY <2>2, CreateOK
  <2>4. sliding_window_create(clock).window_start <= clock
    BY <2>2, RateAssumption DEF sliding_window_create
  <2> QED BY <1>6, <2>1, <2>3, <2>4, AllowLate
<1>7. ASSUME RateInv, LateInv, UNCHANGED <<bps, counted, sent, call>>, clock <= clock', clock' \in 0..MaxTime
      PROVE  LateInv'
  <2>1. \A th \in Clients : call'[th] # Absent => call'[th].now <= clock'
    BY <1>c, <1>7, RateAssumption DEF RateInv
  <2> QED BY <1>2, <1>7, <2>1
<1>8. ASSUME RateInv, LateInv, NEW th \in Clients, AllowStarved(th)
      PROVE  LateInv'
  <2>1. UNCHANGED <<bps, counted, sent, clock>> /\ call' = [call EXCEPT ![th] = Absent]
    BY <1>8 DEF AllowStarved
  <2>2. clock \in 0..MaxTime /\ clock <= clock' /\ call \in [Clients -> Calls \cup {Absent}]
    BY <1>8, <2>1, RateAssumption DEF RateInv
  <2>3. \A u \in Clients : call'[u] # Absent => call'[u].now <= clock'
    BY <1>8, <2>1, <2>2 DEF LateInv
  <2> QED BY <1>2, <1>8, <2>1, <2>2, <2>3
<1>9. ASSUME RateInv, LateInv, NEW ip \in IPs, rate_limiter_reset(ip)
      PROVE  LateInv'
  <2>1. /\ bps' = [bps EXCEPT ![ip] = Absent] /\ counted' = [counted EXCEPT ![ip] = Nothing]
        /\ sent' = [sent EXCEPT ![ip] = Nothing] /\ call' = call /\ clock' = clock
    BY <1>9 DEF rate_limiter_reset
  <2>2. /\ bps \in [IPs -> Window \cup {Absent}] /\ counted \in [IPs -> [0..MaxTime -> Nat]]
        /\ sent \in [IPs -> [0..MaxTime -> Nat]]
    BY <1>9 DEF RateInv, LateInv
  <2>3. /\ bps'[ip] = Absent /\ counted'[ip] = Nothing /\ sent'[ip] = Nothing
        /\ \A o \in IPs \ {ip} : bps'[o] = bps[o] /\ counted'[o] = counted[o] /\ sent'[o] = sent[o]
    BY <2>1, <2>2
  <2>4. sent' \in [IPs -> [0..MaxTime -> Nat]]
    BY <1>0, <2>1, <2>2
  <2>5. \A o \in IPs : NotLost(counted'[o], sent'[o])
    BY <1>9, <2>3, NothingLost DEF LateInv
  <2>6. /\ \A o \in IPs : bps'[o] = Absent => sent'[o] = Nothing
        /\ \A o \in IPs : bps'[o] # Absent => bps'[o].window_start <= clock'
    BY <1>9, <2>1, <2>3 DEF LateInv
  <2> QED BY <1>9, <2>1, <2>4, <2>5, <2>6 DEF LateInv
<1>10. ASSUME RateInv, LateInv, Tick
       PROVE  LateInv'
  <2>1. clock' = clock + 1 /\ clock < MaxTime /\ UNCHANGED <<bps, counted, sent, call>>
    BY <1>10 DEF Tick
  <2>2. clock' \in 0..MaxTime /\ clock <= clock'
    BY <1>10, <2>1, RateAssumption DEF RateInv
  <2> QED BY <1>7, <1>10, <2>1, <2>2
<1>11. ASSUME RateInv, LateInv,
              (\E th \in Clients : AllowCollision(th)) \/ rate_limiter_destroy \/ UNCHANGED rateVars
       PROVE  LateInv'
  <2>1. clock' = clock /\ UNCHANGED <<bps, counted, sent, call>>
    BY <1>11 DEF AllowCollision, rate_limiter_destroy, rateVars
  <2>2. clock' \in 0..MaxTime /\ clock <= clock'
    BY <1>11, <2>1, RateAssumption DEF RateInv
  <2> QED BY <1>7, <1>11, <2>1, <2>2
<1> QED BY <1>1, <1>3, <1>5, <1>6, <1>8, <1>9, <1>10, <1>11 DEF RateNext

(* A window reads at least what was sent in the WindowSize seconds up to    *)
(* the clock, even for an earlier now.                                      *)
LEMMA ReadsEnough ==
    ASSUME NEW w, NEW h, WindowOK(w, h), NEW e \in [0..MaxTime -> Nat], NotLost(h, e),
           NEW t \in 0..MaxTime, w.window_start <= t, NEW now \in 0..t
    PROVE  UpTo(e, t) <= sliding_window_sum(w, now) /\ {UpTo(e, t), sliding_window_sum(w, now)} \subseteq Nat
<1> DEFINE s == w.window_start
           a == t - WindowSize + 1
           m == [x \in 0..MaxTime |-> x]
<1>1. /\ MaxTime \in Nat /\ WindowSize \in Nat \ {0} /\ s \in 0..MaxTime /\ a \in Int /\ now \in Int
      /\ h \in [0..MaxTime -> Nat] /\ s <= t /\ t \in Int
      /\ \A x \in 0..MaxTime : x > s => h[x] = 0
  BY RateAssumption DEF WindowOK, Ring
<1>2. Summable(e, Secs(t)) /\ Summable(e, From(a)) /\ Summable(h, From(a)) /\ Summable(h, Secs(s))
  <2>1. Secs(t) \subseteq 0..MaxTime /\ From(a) \subseteq 0..MaxTime /\ Secs(s) \subseteq 0..MaxTime
    BY DEF Secs, From
  <2> QED BY <1>1, <2>1, HistorySummable
<1>3. \A x \in 0..MaxTime : m[x] = x
  OBVIOUS
<1>4. UpTo(e, t) = Total(e, Secs(t)) /\ UpTo(h, s) = Total(h, Secs(s))
  BY DEF UpTo, Total, Secs
<1>5. Total(e, From(a)) <= Total(h, From(a))
  BY <1>1 DEF NotLost
<1>6. Matches(m, e, Secs(t), e, From(a))
  <2>1. \A x \in Secs(t) : x \in 0..MaxTime /\ x \in From(a) /\ e[x] \in Nat
    BY <1>1 DEF Secs, From
  <2> HIDE DEF m, a
  <2> QED BY <1>3, <2>1 DEF Matches
<1>7. now - s < WindowSize => Matches(m, h, From(a), h, Secs(s))
  <2>1. \A x \in From(a) : x \in 0..MaxTime /\ h[x] \in Nat /\ (h[x] # 0 => x \in Secs(s))
    <3> SUFFICES ASSUME NEW x \in From(a)
                 PROVE  x \in 0..MaxTime /\ h[x] \in Nat /\ (h[x] # 0 => x \in Secs(s))
      OBVIOUS
    <3>1. x \in 0..MaxTime /\ a <= x /\ h[x] \in Nat /\ x \in Int
      BY <1>1 DEF From
    <3>2. h[x] # 0 => x <= s
      BY <1>1, <3>1
    <3>a. a = t - WindowSize + 1
      OBVIOUS
    <3> HIDE DEF s, a
    <3>3. s - WindowSize + 1 <= x
      BY <1>1, <3>1, <3>a
    <3>4. x <= s => x \in (s - WindowSize + 1)..s
      BY <1>1, <3>1, <3>3
    <3> QED BY <3>1, <3>2, <3>4 DEF Secs
  <2> HIDE DEF m, a
  <2> QED BY <1>3, <2>1 DEF Matches
<1>8. now - s >= WindowSize => Matches(m, h, From(a), h, {})
  <2>1. now - s >= WindowSize => \A x \in From(a) : h[x] = 0
    BY <1>1 DEF From
  <2> HIDE DEF m, a, s
  <2> QED BY <2>1 DEF Matches
<1> HIDE DEF m, a, s
<1>9. Total(e, Secs(t)) <= Total(e, From(a))
  BY <1>2, <1>6, TotalLeq
<1>10. /\ Total(e, Secs(t)) \in Nat /\ Total(e, From(a)) \in Nat /\ Total(h, From(a)) \in Nat
       /\ Total(h, Secs(s)) \in Nat
  BY <1>2, TotalNat
<1>11. /\ now - s >= WindowSize => sliding_window_sum(w, now) = 0
       /\ now - s < WindowSize => sliding_window_sum(w, now) = UpTo(h, s)
  BY <1>1, WindowSum DEF s
<1>12. CASE now - s < WindowSize
  <2>1. Total(h, From(a)) <= Total(h, Secs(s))
    BY <1>2, <1>7, <1>12, TotalLeq
  <2> QED BY <1>4, <1>5, <1>9, <1>10, <1>11, <1>12, <2>1
<1>13. CASE now - s >= WindowSize
  <2>1. Summable(h, {})
    BY FS_EmptySet DEF Summable
  <2>2. Total(h, From(a)) <= Total(h, {})
    BY <1>2, <1>8, <1>13, <2>1, TotalLeq
  <2>3. Total(h, {}) = 0
    BY TotalEmpty
  <2> QED BY <1>4, <1>5, <1>9, <1>10, <1>11, <1>13, <2>2, <2>3
<1> QED BY <1>1, <1>12, <1>13

(* A reader of rate_limiter_get_bps, however old the time it read before it *)
(* got the lock, is never told less than what callers of the last           *)
(* WindowSize seconds sent, though late callers are counted in a later      *)
(* second than theirs (ratelimit.c:78-108, :318-341).                       *)
THEOREM RateCorrect ==
    RateSpec => []RateNotUnderstated
<1>1. RateInit => RateInv /\ LateInv
  BY RateInductive, LateInductive
<1>2. RateInv /\ LateInv /\ [RateNext]_rateVars => RateInv' /\ LateInv'
  BY RateInductive, LateInductive
<1>3. RateInv /\ LateInv => RateNotUnderstated
  <2> SUFFICES ASSUME RateInv, LateInv, NEW ip \in IPs, NEW now \in 0..clock, bps[ip] # Absent
               PROVE  UpTo(sent[ip], clock) \div WindowSize <= rate_limiter_get_bps(ip, now)
    BY DEF RateNotUnderstated
  <2> DEFINE x == UpTo(sent[ip], clock)
             y == sliding_window_sum(bps[ip], now)
  <2>1. /\ WindowOK(bps[ip], counted[ip]) /\ sent[ip] \in [0..MaxTime -> Nat] /\ clock \in 0..MaxTime
        /\ NotLost(counted[ip], sent[ip]) /\ bps[ip].window_start <= clock
    BY DEF RateInv, LateInv
  <2>2. x <= y /\ {x, y} \subseteq Nat
    BY <2>1, ReadsEnough
  <2>3. rate_limiter_get_bps(ip, now) = y \div WindowSize
    BY DEF rate_limiter_get_bps
  <2> HIDE DEF x, y
  <2>4. x \div WindowSize <= y \div WindowSize
    BY <2>2, DivMonotone, RateAssumption
  <2> QED BY <2>3, <2>4 DEF x
<1> QED BY <1>1, <1>2, <1>3, PTL DEF RateSpec

(* Whatever has left the window since the last packet, a reader is told of  *)
(* nothing counted two windows ago or earlier: sliding_window_sum gives up  *)
(* a window that ended WindowSize seconds ago (ratelimit.c:110-124).        *)
THEOREM StaleCorrect ==
    RateSpec => []RateNotStale
<1>1. RateInit => RateInv
  BY RateInductive
<1>2. RateInv /\ [RateNext]_rateVars => RateInv'
  BY RateInductive
<1>3. RateInv => RateNotStale
  <2> SUFFICES ASSUME RateInv, NEW ip \in IPs, NEW now \in 0..clock, bps[ip] # Absent
               PROVE  rate_limiter_get_bps(ip, now)
                        <= Since(counted[ip], now - 2 * WindowSize + 2) \div WindowSize
    BY DEF RateNotStale
  <2> DEFINE w == bps[ip]
             h == counted[ip]
             s == w.window_start
             a == now - 2 * WindowSize + 2
             x == sliding_window_sum(w, now)
             m == [t \in 0..MaxTime |-> t]
  <2>1. WindowOK(w, h) /\ clock \in 0..MaxTime
    BY DEF RateInv
  <2>2. /\ MaxTime \in Nat /\ WindowSize \in Nat \ {0} /\ s \in 0..MaxTime /\ now \in Int /\ a \in Int
        /\ h \in [0..MaxTime -> Nat]
    BY <2>1, RateAssumption DEF WindowOK, Ring
  <2>a. a = now - 2 * WindowSize + 2 /\ \A t \in 0..MaxTime : m[t] = t
    OBVIOUS
  <2> HIDE DEF w, h, m, a
  <2>3. Summable(h, Secs(s)) /\ Summable(h, From(a))
    <3>1. Secs(s) \subseteq 0..MaxTime /\ From(a) \subseteq 0..MaxTime
      BY DEF Secs, From
    <3> QED BY <2>2, <3>1, HistorySummable
  <2>4. Total(h, Secs(s)) \in Nat /\ Total(h, From(a)) \in Nat
    BY <2>3, TotalNat
  <2>5. /\ now - s >= WindowSize => x = 0
        /\ now - s < WindowSize => x = UpTo(h, s)
    BY <2>1, <2>2, WindowSum
  <2>6. UpTo(h, s) = Total(h, Secs(s)) /\ Since(h, a) = Total(h, From(a))
    BY DEF UpTo, Since, Total, Secs, From
  <2> HIDE DEF s, x
  <2>7. ASSUME now - s < WindowSize
        PROVE  Total(h, Secs(s)) <= Total(h, From(a))
    <3>1. \A t \in Secs(s) : t \in 0..MaxTime /\ h[t] \in Nat /\ a <= t
      BY <2>2, <2>7, <2>a DEF Secs
    <3>2. Matches(m, h, Secs(s), h, From(a))
      BY <2>a, <3>1 DEF Matches, From
    <3> QED BY <2>3, <3>2, TotalLeq
  <2>8. x \in Nat /\ Since(h, a) \in Nat /\ x <= Since(h, a)
    <3>1. now - s \in Int
      BY <2>2
    <3>2. CASE now - s >= WindowSize
      BY <2>4, <2>5, <2>6, <3>2
    <3>3. CASE now - s < WindowSize
      BY <2>4, <2>5, <2>6, <2>7, <3>3
    <3> QED BY <2>2, <3>1, <3>2, <3>3
  <2> HIDE DEF Since
  <2>9. x \div WindowSize <= Since(h, a) \div WindowSize
    BY <2>2, <2>8, DivMonotone
  <2>10. rate_limiter_get_bps(ip, now) = x \div WindowSize
    BY DEF rate_limiter_get_bps, x, w
  <2> QED BY <2>9, <2>10 DEF h, a
<1> QED BY <1>1, <1>2, <1>3, PTL DEF RateSpec

=============================================================================
