--------------------------- MODULE LruCacheProofs ---------------------------
(***************************************************************************)
(* Theorems about LruCache for every set of connections, every capacity,   *)
(* every heap and all timeouts.  The inductive invariant is the            *)
(* conjunction of TypeOK, SizeExact, Linked and SweepOnLiveEntry, and that *)
(* lru_next has no cycles (Ranked): none is preserved without the others,  *)
(* since an eviction takes the tail from the list and the table entry from *)
(* the tail's tuple.                                                       *)
(***************************************************************************)
EXTENDS LruCache, FiniteSetTheorems, SequenceTheorems, WellFoundedInduction, TLAPS

(* The pointers n never lead back to a block: they go up in some ranking. *)
Ranked(L, n) == \E r \in [Blocks -> Int] : \A b \in L : n[b] \in L => r[b] < r[n[b]]

(* The doubly linked list (p, n, h, t) over exactly the blocks L. *)
ListOK(L, p, n, h, t) ==
    /\ L \subseteq Blocks
    /\ p \in [Blocks -> Blocks \cup {NULL}] /\ n \in [Blocks -> Blocks \cup {NULL}]
    /\ h \in L \cup {NULL} /\ t \in L \cup {NULL} /\ (h = NULL <=> t = NULL)
    /\ \A b \in L : n[b] \in L \cup {NULL} /\ p[b] \in L \cup {NULL}
    /\ \A b \in L : n[b] # NULL => p[n[b]] = b
    /\ \A b \in L : p[b] # NULL => n[p[b]] = b
    /\ \A b \in L : n[b] = NULL <=> b = t
    /\ \A b \in L : p[b] = NULL <=> b = h
    /\ Ranked(L, n)

(* What unlinking block e makes of the pointers. *)
NextCut(p, n, e) == [b \in Blocks |-> CASE b = e -> NULL
                                        [] b # e /\ b = p[e] -> n[e]
                                        [] OTHER -> n[b]]
PrevCut(p, n, e) == [b \in Blocks |-> CASE b = e -> NULL
                                        [] b # e /\ b = n[e] -> p[e]
                                        [] OTHER -> p[b]]

(* What linking block e in front makes of them. *)
NextLinked(n, h, e) == [n EXCEPT ![e] = h]
PrevLinked(p, h, e) == [b \in Blocks |-> IF b = e THEN NULL ELSE IF b = h THEN e ELSE p[b]]

-----------------------------------------------------------------------------
(* Unlinking a block leaves a list over the others (lru_cache.c:83-93,      *)
(* 231-243, 311-323).                                                       *)
LEMMA CutOK ==
    ASSUME NEW L, NEW p, NEW n, NEW h, NEW t, ListOK(L, p, n, h, t), NEW e \in L
    PROVE  ListOK(L \ {e}, PrevCut(p, n, e), NextCut(p, n, e),
                  IF h = e THEN n[e] ELSE h, IF t = e THEN p[e] ELSE t)
<1> DEFINE M  == L \ {e}
           p1 == PrevCut(p, n, e)
           n1 == NextCut(p, n, e)
           h1 == IF h = e THEN n[e] ELSE h
           t1 == IF t = e THEN p[e] ELSE t
<1>1. NULL \notin Blocks /\ e \in Blocks /\ e # NULL /\ L \subseteq Blocks
  BY LruAssumption DEF ListOK
<1>2. /\ p \in [Blocks -> Blocks \cup {NULL}] /\ n \in [Blocks -> Blocks \cup {NULL}]
      /\ h \in L \cup {NULL} /\ t \in L \cup {NULL} /\ (h = NULL <=> t = NULL)
      /\ \A b \in L : n[b] \in L \cup {NULL} /\ p[b] \in L \cup {NULL}
      /\ \A b \in L : n[b] # NULL => p[n[b]] = b
      /\ \A b \in L : p[b] # NULL => n[p[b]] = b
      /\ \A b \in L : n[b] = NULL <=> b = t
      /\ \A b \in L : p[b] = NULL <=> b = h
      /\ Ranked(L, n)
  BY DEF ListOK
<1>3. p1 \in [Blocks -> Blocks \cup {NULL}] /\ n1 \in [Blocks -> Blocks \cup {NULL}]
  BY <1>1, <1>2 DEF PrevCut, NextCut
<1>4. \A b \in M : /\ n1[b] = IF b = p[e] THEN n[e] ELSE n[b]
                   /\ p1[b] = IF b = n[e] THEN p[e] ELSE p[b]
  BY <1>1 DEF PrevCut, NextCut
<1> HIDE DEF p1, n1
<1>5. Ranked(M, n1)
  <2>1. PICK r \in [Blocks -> Int] : \A b \in L : n[b] \in L => r[b] < r[n[b]]
    BY <1>2 DEF Ranked
  <2>2. \A b \in M : n1[b] \in M => r[b] < r[n1[b]]
    <3> SUFFICES ASSUME NEW b \in M, n1[b] \in M
                 PROVE  r[b] < r[n1[b]]
      OBVIOUS
    <3>1. CASE b = p[e]
      <4>1. n1[b] = n[e] /\ n[b] = e
        BY <1>1, <1>2, <1>4, <3>1
      <4>2. r[b] < r[e] /\ r[e] < r[n[e]]
        BY <2>1, <4>1
      <4>3. r[b] \in Int /\ r[e] \in Int /\ r[n[e]] \in Int
        BY <1>1, <4>1
      <4> QED BY <4>1, <4>2, <4>3
    <3>2. CASE b # p[e]
      BY <1>4, <2>1, <3>2
    <3> QED BY <3>1, <3>2
  <2> QED BY <2>2 DEF Ranked
<1>6. h1 \in M \cup {NULL} /\ t1 \in M \cup {NULL} /\ (h1 = NULL <=> t1 = NULL)
  BY <1>1, <1>2
<1>7. \A b \in M : n1[b] \in M \cup {NULL} /\ p1[b] \in M \cup {NULL}
  BY <1>1, <1>2, <1>4
<1>8. \A b \in M : n1[b] # NULL => p1[n1[b]] = b
  BY <1>1, <1>2, <1>4, <1>7
<1>9. \A b \in M : p1[b] # NULL => n1[p1[b]] = b
  BY <1>1, <1>2, <1>4, <1>7
<1>10. \A b \in M : n1[b] = NULL <=> b = t1
  BY <1>1, <1>2, <1>4
<1>11. \A b \in M : p1[b] = NULL <=> b = h1
  BY <1>1, <1>2, <1>4
<1>12. M \subseteq Blocks
  BY <1>1
<1>13. ListOK(M, p1, n1, h1, t1)
  <2> HIDE DEF M, h1, t1
  <2> QED BY <1>3, <1>5, <1>6, <1>7, <1>8, <1>9, <1>10, <1>11, <1>12 DEF ListOK
<1> QED BY <1>13 DEF p1, n1

(* Linking a block in front of a list without it gives a list with it       *)
(* (lru_cache.c:95-109, 181-192).                                           *)
LEMMA LinkOK ==
    ASSUME NEW L, NEW p, NEW n, NEW h, NEW t, ListOK(L, p, n, h, t),
           NEW e \in Blocks, e \notin L
    PROVE  ListOK(L \cup {e}, PrevLinked(p, h, e), NextLinked(n, h, e), e,
                  IF t = NULL THEN e ELSE t)
<1> DEFINE M  == L \cup {e}
           p1 == PrevLinked(p, h, e)
           n1 == NextLinked(n, h, e)
           t1 == IF t = NULL THEN e ELSE t
<1>1. NULL \notin Blocks /\ e # NULL /\ L \subseteq Blocks
  BY LruAssumption DEF ListOK
<1>2. /\ p \in [Blocks -> Blocks \cup {NULL}] /\ n \in [Blocks -> Blocks \cup {NULL}]
      /\ h \in L \cup {NULL} /\ t \in L \cup {NULL} /\ (h = NULL <=> t = NULL)
      /\ \A b \in L : n[b] \in L \cup {NULL} /\ p[b] \in L \cup {NULL}
      /\ \A b \in L : n[b] # NULL => p[n[b]] = b
      /\ \A b \in L : p[b] # NULL => n[p[b]] = b
      /\ \A b \in L : n[b] = NULL <=> b = t
      /\ \A b \in L : p[b] = NULL <=> b = h
      /\ Ranked(L, n)
  BY DEF ListOK
<1>3. p1 \in [Blocks -> Blocks \cup {NULL}] /\ n1 \in [Blocks -> Blocks \cup {NULL}]
  BY <1>1, <1>2 DEF PrevLinked, NextLinked
<1>4. /\ n1[e] = h /\ p1[e] = NULL
      /\ \A b \in L : n1[b] = n[b] /\ p1[b] = IF b = h THEN e ELSE p[b]
  BY <1>1, <1>2 DEF PrevLinked, NextLinked
<1> HIDE DEF p1, n1
<1>5. Ranked(M, n1)
  <2>1. PICK r \in [Blocks -> Int] : \A b \in L : n[b] \in L => r[b] < r[n[b]]
    BY <1>2 DEF Ranked
  <2> DEFINE low == IF h = NULL THEN 0 ELSE r[h] - 1
             s == [r EXCEPT ![e] = low]
  <2>2. low \in Int
    BY <1>1, <1>2
  <2>3. s \in [Blocks -> Int] /\ s[e] = low /\ \A b \in L : s[b] = r[b]
    BY <1>1, <2>2
  <2> HIDE DEF s
  <2>4. \A b \in M : n1[b] \in M => s[b] < s[n1[b]]
    <3> SUFFICES ASSUME NEW b \in M, n1[b] \in M
                 PROVE  s[b] < s[n1[b]]
      OBVIOUS
    <3>1. CASE b = e
      <4>1. n1[b] = h /\ h # e /\ h \in L
        BY <1>1, <1>2, <1>4, <3>1
      <4>2. s[b] = r[h] - 1 /\ s[h] = r[h] /\ r[h] \in Int
        BY <1>1, <2>3, <3>1, <4>1
      <4> QED BY <4>1, <4>2
    <3>2. CASE b \in L
      <4>1. n1[b] = n[b] /\ n[b] \in L
        BY <1>1, <1>2, <1>4, <3>2
      <4> QED BY <2>1, <2>3, <3>2, <4>1
    <3> QED BY <3>1, <3>2
  <2> QED BY <2>3, <2>4 DEF Ranked
<1>6. e \in M \cup {NULL} /\ t1 \in M \cup {NULL} /\ (e = NULL <=> t1 = NULL)
  BY <1>1, <1>2
<1>7. \A b \in M : n1[b] \in M \cup {NULL} /\ p1[b] \in M \cup {NULL}
  BY <1>1, <1>2, <1>4
<1>8. \A b \in M : n1[b] # NULL => p1[n1[b]] = b
  BY <1>1, <1>2, <1>4
<1>9. \A b \in M : p1[b] # NULL => n1[p1[b]] = b
  BY <1>1, <1>2, <1>4
<1>10. \A b \in M : n1[b] = NULL <=> b = t1
  BY <1>1, <1>2, <1>4
<1>11. \A b \in M : p1[b] = NULL <=> b = e
  BY <1>1, <1>2, <1>4
<1>12. M \subseteq Blocks
  BY <1>1
<1>13. ListOK(M, p1, n1, e, t1)
  <2> HIDE DEF M, t1
  <2> QED BY <1>3, <1>5, <1>6, <1>7, <1>8, <1>9, <1>10, <1>11, <1>12 DEF ListOK
<1> QED BY <1>13 DEF p1, n1

(* No entry is its own predecessor. *)
LEMMA NoSelfLoop ==
    ASSUME NEW L, NEW p, NEW n, NEW h, NEW t, ListOK(L, p, n, h, t), NEW e \in L
    PROVE  p[e] # e
<1> SUFFICES ASSUME p[e] = e
             PROVE  FALSE
  OBVIOUS
<1>1. n[e] = e
  BY LruAssumption DEF ListOK
<1>2. PICK r \in [Blocks -> Int] : \A b \in L : n[b] \in L => r[b] < r[n[b]]
  BY DEF ListOK, Ranked
<1>3. r[e] < r[e] /\ r[e] \in Int
  BY <1>1, <1>2 DEF ListOK
<1> QED BY <1>3

-----------------------------------------------------------------------------
(* The table finds every entry under its own tuple. *)
TableOK == /\ \A k \in Keys : table[k] # NULL => tuple[table[k]] = k
           /\ \A b \in Live : table[tuple[b]] = b

(* The inductive invariant. *)
IInv == TypeOK /\ SizeExact /\ Linked /\ SweepOnLiveEntry /\ Ranked(Live, lru_next)

(* Linked and the ranking say that the pointers form a list over Live. *)
LEMMA LinkedIsList == IInv => TableOK /\ ListOK(Live, lru_prev, lru_next, head, tail)
<1> SUFFICES ASSUME IInv
             PROVE  TableOK /\ ListOK(Live, lru_prev, lru_next, head, tail)
  OBVIOUS
<1>1. NULL \notin Blocks /\ Live \subseteq Blocks /\ NULL \notin Live
  BY LruAssumption DEF Live
<1>2. TableOK
  BY DEF IInv, Linked, TableOK
<1>3. /\ lru_prev \in [Blocks -> Blocks \cup {NULL}] /\ lru_next \in [Blocks -> Blocks \cup {NULL}]
      /\ Ranked(Live, lru_next)
  BY DEF IInv, TypeOK
<1>4. /\ head \in Live \cup {NULL} /\ tail \in Live \cup {NULL} /\ (head = NULL <=> tail = NULL)
      /\ \A b \in Live :
           /\ lru_next[b] \in Live => lru_prev[lru_next[b]] = b
           /\ lru_prev[b] \in Live => lru_next[lru_prev[b]] = b
           /\ lru_next[b] \notin Live => lru_next[b] = NULL /\ b = tail
           /\ lru_prev[b] \notin Live => lru_prev[b] = NULL /\ b = head
      /\ head # NULL => lru_prev[head] = NULL
      /\ tail # NULL => lru_next[tail] = NULL
  BY DEF IInv, Linked
<1> HIDE DEF Live
<1> QED BY <1>1, <1>2, <1>3, <1>4 DEF ListOK

(* The converse, in the state after a step. *)
LEMMA ListIsLinked ==
    ASSUME TableOK', ListOK(Live', lru_prev', lru_next', head', tail')
    PROVE  Linked' /\ Ranked(Live, lru_next)'
<1>1. NULL \notin Live'
  BY LruAssumption DEF Live
<1>2. Ranked(Live', lru_next')
  BY DEF ListOK
<1>3. /\ {head', tail'} \subseteq Live' \cup {NULL} /\ (head' = NULL <=> tail' = NULL)
      /\ \A b \in Live' :
           /\ lru_next'[b] \in Live' => lru_prev'[lru_next'[b]] = b
           /\ lru_prev'[b] \in Live' => lru_next'[lru_prev'[b]] = b
           /\ lru_next'[b] \notin Live' => lru_next'[b] = NULL /\ b = tail'
           /\ lru_prev'[b] \notin Live' => lru_prev'[b] = NULL /\ b = head'
      /\ head' # NULL => lru_prev'[head'] = NULL
      /\ tail' # NULL => lru_next'[tail'] = NULL
  BY <1>1 DEF ListOK
<1>4. Linked'
  BY <1>3 DEF Linked, TableOK
<1>5. Ranked(Live, lru_next)'
  BY <1>2 DEF Ranked
<1> QED BY <1>4, <1>5

(* lru_move_to_head of a live entry keeps the list over the same entries. *)
LEMMA MoveOK ==
    ASSUME IInv, NEW e \in Live, lru_move_to_head(e)
    PROVE  ListOK(Live, lru_prev', lru_next', head', tail')
<1>1. ListOK(Live, lru_prev, lru_next, head, tail)
  BY LinkedIsList
<1>2. CASE head = e
  BY <1>1, <1>2 DEF lru_move_to_head, links
<1>3. CASE head # e
  <2> DEFINE p == PrevWithout(e)
             n == NextWithout(e)
             t == TailWithout(e)
  <2>1. p = PrevCut(lru_prev, lru_next, e) /\ n = NextCut(lru_prev, lru_next, e)
        /\ t = IF tail = e THEN lru_prev[e] ELSE tail
    BY DEF PrevWithout, NextWithout, TailWithout, PrevCut, NextCut
  <2> HIDE DEF p, n, t
  <2>2. ListOK(Live \ {e}, p, n, head, t)
    BY <1>1, <1>3, <2>1, CutOK
  <2>3. /\ lru_next' = NextLinked(n, head, e) /\ lru_prev' = PrevLinked(p, head, e)
        /\ head' = e /\ tail' = IF t = NULL THEN e ELSE t
    BY <1>3 DEF lru_move_to_head, LinkAtHead, NextLinked, PrevLinked, p, n, t
  <2>4. e \in Blocks /\ e \notin Live \ {e} /\ (Live \ {e}) \cup {e} = Live
    BY DEF Live
  <2>5. ListOK((Live \ {e}) \cup {e}, PrevLinked(p, head, e), NextLinked(n, head, e), e,
               IF t = NULL THEN e ELSE t)
    BY <2>2, <2>4, LinkOK
  <2> QED BY <2>3, <2>4, <2>5
<1> QED BY <1>2, <1>3

(* Unlink keeps everything but the place of the sweep. *)
LEMMA UnlinkOK ==
    ASSUME IInv, NEW e \in Live, Unlink(e)
    PROVE  /\ Live' = Live \ {e}
           /\ SizeExact' /\ TableOK'
           /\ ListOK(Live', lru_prev', lru_next', head', tail')
           /\ current_size' \in Nat
<1>1. ListOK(Live, lru_prev, lru_next, head, tail) /\ TableOK
  BY LinkedIsList
<1>2. /\ table \in [Keys -> Blocks \cup {NULL}] /\ tuple \in [Blocks -> Keys \cup {NULL}]
      /\ current_size \in Nat /\ e \in Blocks /\ tuple[e] \in Keys
  BY DEF IInv, TypeOK, Live
<1>3. /\ table' = [table EXCEPT ![tuple[e]] = NULL] /\ tuple' = [tuple EXCEPT ![e] = NULL]
      /\ current_size' = current_size - 1
  BY DEF Unlink
<1>4. Live' = Live \ {e}
  BY <1>2, <1>3 DEF Live
<1>5. IsFiniteSet(Live)
  BY LruAssumption, FS_Subset DEF Live
<1>6. Cardinality(Live') = Cardinality(Live) - 1 /\ Cardinality(Live') \in Nat
  BY <1>4, <1>5, FS_RemoveElement, FS_CardinalityType
<1>7. SizeExact' /\ current_size' \in Nat
  BY <1>2, <1>3, <1>6, LruAssumption DEF IInv, SizeExact
<1>8. TableOK'
  <2>1. \A k \in Keys : table'[k] # NULL => k # tuple[e] /\ table'[k] = table[k]
                                         /\ table[k] # e
    BY <1>1, <1>2, <1>3 DEF TableOK
  <2>2. \A b \in Live' : b # e /\ b \in Live /\ tuple'[b] = tuple[b] /\ tuple[b] # tuple[e]
    BY <1>1, <1>2, <1>3, <1>4 DEF TableOK, Live
  <2>3. \A k \in Keys : table'[k] # NULL => tuple'[table'[k]] = k
    BY <1>1, <1>2, <1>3, <2>1 DEF TableOK
  <2>4. \A b \in Live' : table'[tuple'[b]] = b
    <3> TAKE b \in Live'
    <3>1. tuple'[b] = tuple[b] /\ tuple[b] # tuple[e] /\ tuple[b] \in Keys /\ b \in Live
      BY <1>2, <2>2 DEF Live
    <3> QED BY <1>1, <1>2, <1>3, <3>1 DEF TableOK
  <2> QED BY <2>3, <2>4 DEF TableOK
<1>9. ListOK(Live', lru_prev', lru_next', head', tail')
  <2>1. /\ lru_prev' = PrevCut(lru_prev, lru_next, e) /\ lru_next' = NextCut(lru_prev, lru_next, e)
        /\ head' = (IF head = e THEN lru_next[e] ELSE head)
        /\ tail' = (IF tail = e THEN lru_prev[e] ELSE tail)
    BY DEF Unlink, PrevWithout, NextWithout, HeadWithout, TailWithout, PrevCut, NextCut
  <2> QED BY <1>1, <1>4, <2>1, CutOK
<1> QED BY <1>4, <1>7, <1>8, <1>9

(* A miss with room adds one entry. *)
LEMMA InsertRoomOK ==
    ASSUME IInv, NEW k \in Keys, NEW b \in Blocks, b \notin Live, table[k] = NULL,
           InsertRoom(k, b)
    PROVE  /\ Live' = Live \cup {b}
           /\ SizeExact' /\ TableOK'
           /\ ListOK(Live', lru_prev', lru_next', head', tail')
           /\ current_size' \in Nat
<1>1. ListOK(Live, lru_prev, lru_next, head, tail) /\ TableOK
  BY LinkedIsList
<1>2. /\ table \in [Keys -> Blocks \cup {NULL}] /\ tuple \in [Blocks -> Keys \cup {NULL}]
      /\ current_size \in Nat /\ NULL \notin Keys /\ NULL \notin Blocks
  BY LruAssumption DEF IInv, TypeOK
<1>3. /\ table' = [table EXCEPT ![k] = b] /\ tuple' = [tuple EXCEPT ![b] = k]
      /\ current_size' = current_size + 1 /\ current_size < MaxSize
  BY DEF InsertRoom
<1>4. Live' = Live \cup {b}
  BY <1>2, <1>3 DEF Live
<1>5. IsFiniteSet(Live)
  BY LruAssumption, FS_Subset DEF Live
<1>6. Cardinality(Live') = Cardinality(Live) + 1
  BY <1>4, <1>5, FS_AddElement
<1>7. SizeExact' /\ current_size' \in Nat
  BY <1>2, <1>3, <1>6, LruAssumption DEF IInv, SizeExact
<1>8. TableOK'
  <2>1. \A j \in Keys : table'[j] # NULL => tuple'[table'[j]] = j
    <3> SUFFICES ASSUME NEW j \in Keys, table'[j] # NULL
                 PROVE  tuple'[table'[j]] = j
      OBVIOUS
    <3>1. CASE j = k
      BY <1>2, <1>3, <3>1
    <3>2. CASE j # k
      <4>1. table'[j] = table[j] /\ table[j] \in Blocks /\ tuple[table[j]] = j
        BY <1>1, <1>2, <1>3, <3>2 DEF TableOK
      <4>2. table[j] \in Live
        BY <1>2, <4>1 DEF Live
      <4> QED BY <1>2, <1>3, <4>1, <4>2
    <3> QED BY <3>1, <3>2
  <2>2. \A c \in Live' : table'[tuple'[c]] = c
    <3> SUFFICES ASSUME NEW c \in Live'
                 PROVE  table'[tuple'[c]] = c
      OBVIOUS
    <3>1. CASE c = b
      BY <1>2, <1>3, <3>1
    <3>2. CASE c \in Live /\ c # b
      <4>1. tuple'[c] = tuple[c] /\ tuple[c] \in Keys /\ table[tuple[c]] = c /\ c \in Blocks
        BY <1>1, <1>2, <1>3, <3>2 DEF TableOK, Live
      <4>2. tuple[c] # k
        BY <1>2, <4>1
      <4> QED BY <1>2, <1>3, <4>1, <4>2
    <3> QED BY <1>4, <3>1, <3>2
  <2> QED BY <2>1, <2>2 DEF TableOK
<1>9. ListOK(Live', lru_prev', lru_next', head', tail')
  <2>1. /\ lru_next' = NextLinked(lru_next, head, b) /\ lru_prev' = PrevLinked(lru_prev, head, b)
        /\ head' = b /\ tail' = IF tail = NULL THEN b ELSE tail
    BY DEF InsertRoom, LinkAtHead, NextLinked, PrevLinked
  <2> QED BY <1>1, <1>4, <2>1, LinkOK
<1> QED BY <1>4, <1>7, <1>8, <1>9

(* A miss in a full cache replaces the entry at the tail. *)
LEMMA InsertEvictOK ==
    ASSUME IInv, NEW k \in Keys, NEW b \in Blocks, b \notin Live, table[k] = NULL,
           InsertEvict(k, b)
    PROVE  /\ Live' = (Live \ {tail}) \cup {b}
           /\ SizeExact' /\ TableOK'
           /\ ListOK(Live', lru_prev', lru_next', head', tail')
           /\ current_size' \in Nat
<1>1. ListOK(Live, lru_prev, lru_next, head, tail) /\ TableOK
  BY LinkedIsList
<1>2. /\ table \in [Keys -> Blocks \cup {NULL}] /\ tuple \in [Blocks -> Keys \cup {NULL}]
      /\ current_size \in Nat /\ NULL \notin Keys /\ NULL \notin Blocks
  BY LruAssumption DEF IInv, TypeOK
<1>3. /\ table' = [table EXCEPT ![tuple[tail]] = NULL, ![k] = b]
      /\ tuple' = [tuple EXCEPT ![tail] = NULL, ![b] = k]
      /\ current_size' = current_size /\ tail # NULL
  BY DEF InsertEvict
<1>4. tail \in Live /\ tail \in Blocks /\ tuple[tail] \in Keys /\ tail # b
      /\ table[tuple[tail]] = tail /\ tuple[tail] # k
  BY <1>1, <1>2, <1>3 DEF ListOK, TableOK, Live
<1>5. Live' = (Live \ {tail}) \cup {b}
  BY <1>2, <1>3, <1>4 DEF Live
<1>6. IsFiniteSet(Live)
  BY LruAssumption, FS_Subset DEF Live
<1>7. Cardinality(Live') = Cardinality(Live)
  <2>1. /\ IsFiniteSet(Live \ {tail}) /\ Cardinality(Live \ {tail}) = Cardinality(Live) - 1
        /\ Cardinality(Live) \in Nat
    BY <1>4, <1>6, FS_RemoveElement, FS_CardinalityType
  <2>2. Cardinality((Live \ {tail}) \cup {b}) = Cardinality(Live \ {tail}) + 1
    BY <2>1, FS_AddElement
  <2> QED BY <1>5, <2>1, <2>2
<1>8. SizeExact' /\ current_size' \in Nat
  BY <1>2, <1>3, <1>7 DEF IInv, SizeExact
<1>9. TableOK'
  <2>1. \A j \in Keys : table'[j] # NULL => tuple'[table'[j]] = j
    <3> SUFFICES ASSUME NEW j \in Keys, table'[j] # NULL
                 PROVE  tuple'[table'[j]] = j
      OBVIOUS
    <3>1. CASE j = k
      BY <1>2, <1>3, <3>1
    <3>2. CASE j # k
      <4>1. table'[j] = table[j] /\ table[j] \in Blocks /\ tuple[table[j]] = j /\ j # tuple[tail]
        BY <1>1, <1>2, <1>3, <1>4, <3>2 DEF TableOK
      <4>2. table[j] \in Live /\ table[j] # tail
        BY <1>2, <4>1 DEF Live
      <4> QED BY <1>2, <1>3, <1>4, <4>1, <4>2
    <3> QED BY <3>1, <3>2
  <2>2. \A c \in Live' : table'[tuple'[c]] = c
    <3> SUFFICES ASSUME NEW c \in Live'
                 PROVE  table'[tuple'[c]] = c
      OBVIOUS
    <3>1. CASE c = b
      BY <1>2, <1>3, <3>1
    <3>2. CASE c \in Live /\ c # tail /\ c # b
      <4>1. tuple'[c] = tuple[c] /\ tuple[c] \in Keys /\ table[tuple[c]] = c /\ c \in Blocks
        BY <1>1, <1>2, <1>3, <1>4, <3>2 DEF TableOK, Live
      <4>2. tuple[c] # k /\ tuple[c] # tuple[tail]
        BY <1>2, <1>4, <3>2, <4>1
      <4> QED BY <1>2, <1>3, <4>1, <4>2
    <3> QED BY <1>5, <3>1, <3>2
  <2> QED BY <2>1, <2>2 DEF TableOK
<1>10. ListOK(Live', lru_prev', lru_next', head', tail')
  <2> DEFINE p == PrevWithout(tail)
             n == NextWithout(tail)
             h == IF head = tail THEN NULL ELSE head
  <2>1. lru_next[tail] = NULL
    BY <1>1, <1>4 DEF ListOK
  <2>2. p = PrevCut(lru_prev, lru_next, tail) /\ n = NextCut(lru_prev, lru_next, tail)
        /\ h = IF head = tail THEN lru_next[tail] ELSE head
    BY <2>1 DEF PrevWithout, NextWithout, PrevCut, NextCut
  <2> HIDE DEF p, n, h
  <2>3. ListOK(Live \ {tail}, p, n, h, IF tail = tail THEN lru_prev[tail] ELSE tail)
    BY <1>1, <1>4, <2>2, CutOK
  <2>4. ListOK(Live \ {tail}, p, n, h, lru_prev[tail])
    BY <2>3
  <2>5. /\ lru_next' = NextLinked(n, h, b) /\ lru_prev' = PrevLinked(p, h, b)
        /\ head' = b /\ tail' = IF lru_prev[tail] = NULL THEN b ELSE lru_prev[tail]
    BY DEF InsertEvict, LinkAtHead, NextLinked, PrevLinked, p, n, h
  <2>6. ListOK((Live \ {tail}) \cup {b}, PrevLinked(p, h, b), NextLinked(n, h, b), b,
               IF lru_prev[tail] = NULL THEN b ELSE lru_prev[tail])
    BY <2>4, LinkOK
  <2> QED BY <1>5, <2>5, <2>6
<1> QED BY <1>5, <1>8, <1>9, <1>10

-----------------------------------------------------------------------------
(* The parts of TypeOK that the list lemmas do not give. *)
FieldsOK == /\ table \in [Keys -> Blocks \cup {NULL}] /\ tuple \in [Blocks -> Keys \cup {NULL}]
            /\ last_seen \in [Blocks -> Nat] /\ first_seen \in [Blocks -> Nat]
            /\ state \in [Blocks -> TcpStates] /\ now \in Nat

ThreadsOK ==
    /\ wpc \in {"idle", "got", "updated"} /\ held \in Blocks \cup {NULL} /\ got \in Nat
    /\ cpc \in {"asleep", "woke", "sweep", "unlink"}
    /\ cnow \in Nat /\ cursor \in Blocks \cup {NULL}
    /\ proc \in {"running", "aborted", "undefined", "destroyed"}

(* IInv holds after a step if its parts do. *)
LEMMA Assemble ==
    ASSUME FieldsOK', ThreadsOK', SizeExact', TableOK', current_size' \in Nat,
           ListOK(Live', lru_prev', lru_next', head', tail'), SweepOnLiveEntry'
    PROVE  IInv'
<1>1. Linked' /\ Ranked(Live, lru_next)'
  BY ListIsLinked
<1>2. /\ lru_prev' \in [Blocks -> Blocks \cup {NULL}] /\ lru_next' \in [Blocks -> Blocks \cup {NULL}]
      /\ head' \in Blocks \cup {NULL} /\ tail' \in Blocks \cup {NULL}
  BY DEF ListOK
<1>3. TypeOK'
  BY <1>2 DEF TypeOK, FieldsOK, ThreadsOK
<1> QED BY <1>1, <1>3 DEF IInv

(* Steps that change neither the table nor the list. *)
LEMMA CacheUnchanged ==
    ASSUME IInv, UNCHANGED <<table, tuple, links, current_size>>
    PROVE  /\ Live' = Live /\ SizeExact' /\ TableOK' /\ current_size' \in Nat
           /\ ListOK(Live', lru_prev', lru_next', head', tail')
<1>1. ListOK(Live, lru_prev, lru_next, head, tail) /\ TableOK /\ SizeExact /\ current_size \in Nat
  BY LinkedIsList DEF IInv, TypeOK
<1>2. /\ table' = table /\ tuple' = tuple /\ current_size' = current_size
      /\ lru_prev' = lru_prev /\ lru_next' = lru_next /\ head' = head /\ tail' = tail
  BY DEF links
<1>3. Live' = Live
  BY <1>2 DEF Live
<1>4. TableOK'
  BY <1>1, <1>2, <1>3 DEF TableOK
<1>5. SizeExact'
  BY <1>1, <1>2, <1>3 DEF SizeExact
<1> QED BY <1>1, <1>2, <1>3, <1>4, <1>5

(* Every step of either thread preserves the inductive invariant. *)
LEMMA IInvInductive == IInv /\ [Next]_vars => IInv'
<1> SUFFICES ASSUME IInv, [Next]_vars
             PROVE  IInv'
  OBVIOUS
<1>0. FieldsOK /\ ThreadsOK /\ TableOK /\ SweepOnLiveEntry /\ TypeOK
      /\ ListOK(Live, lru_prev, lru_next, head, tail) /\ Live \subseteq Blocks
  BY LinkedIsList DEF IInv, TypeOK, FieldsOK, ThreadsOK, Live
<1>1. ASSUME NEW k \in Keys, GetHit(k)
      PROVE  IInv'
  <2>1. table[k] \in Live /\ table[k] \in Blocks
    BY <1>0, <1>1, LruAssumption DEF GetHit, TableOK, Live, FieldsOK
  <2>2. lru_move_to_head(table[k]) /\ UNCHANGED <<table, tuple, current_size>> /\ Live' = Live
    BY <1>1 DEF GetHit, Live
  <2>3. ListOK(Live', lru_prev', lru_next', head', tail')
    BY <2>1, <2>2, MoveOK
  <2>4. FieldsOK' /\ ThreadsOK'
    BY <1>0, <1>1, <2>1 DEF GetHit, Obtain, cleaner, FieldsOK, ThreadsOK
  <2>5. SweepOnLiveEntry'
    BY <1>0, <1>1, <2>2 DEF GetHit, cleaner, SweepOnLiveEntry
  <2>6. TableOK' /\ SizeExact' /\ current_size' \in Nat
    BY <1>0, <2>2 DEF TableOK, SizeExact, IInv, TypeOK
  <2> QED BY <2>3, <2>4, <2>5, <2>6, Assemble
<1>2. ASSUME NEW k \in Keys, NEW b \in Blocks, GetMiss(k, b)
      PROVE  IInv'
  <2>1. /\ b \notin Live /\ table[k] = NULL /\ LockFree
        /\ InsertRoom(k, b) \/ InsertEvict(k, b)
        /\ Obtain(b) /\ UNCHANGED <<cleaner, now, proc>>
    BY <1>2 DEF GetMiss, Miss, Get
  <2>2. /\ SizeExact' /\ TableOK' /\ current_size' \in Nat
        /\ ListOK(Live', lru_prev', lru_next', head', tail')
    BY <2>1, InsertRoomOK, InsertEvictOK
  <2>3. ThreadsOK'
    BY <1>0, <2>1 DEF Obtain, cleaner, FieldsOK, ThreadsOK
  <2>4. CASE InsertRoom(k, b)
    <3>1. FieldsOK'
      BY <1>0, <2>1, <2>4 DEF InsertRoom, FieldsOK
    <3>2. SweepOnLiveEntry'
      BY <2>1 DEF LockFree, cleaner, SweepOnLiveEntry
    <3> QED BY <2>2, <2>3, <3>1, <3>2, Assemble
  <2>5. CASE InsertEvict(k, b)
    <3>1. FieldsOK'
      BY <1>0, <2>1, <2>5 DEF InsertEvict, FieldsOK, TcpStates
    <3>2. SweepOnLiveEntry'
      BY <2>1 DEF LockFree, cleaner, SweepOnLiveEntry
    <3> QED BY <2>2, <2>3, <3>1, <3>2, Assemble
  <2> QED BY <2>1, <2>4, <2>5
<1>3. ASSUME NEW flag \in Flags, UpdateConn(flag)
      PROVE  IInv'
  <2>1. UNCHANGED <<table, tuple, links, current_size>>
    BY <1>3 DEF UpdateConn
  <2>2. \A st \in TcpStates : TcpState(st, flag) \in TcpStates
    BY DEF TcpState, TcpStates
  <2>3. FieldsOK'
    BY <1>0, <1>3, <2>2 DEF UpdateConn, FieldsOK, Live
  <2>4. ThreadsOK' /\ UNCHANGED <<cpc, cursor>>
    BY <1>0, <1>3 DEF UpdateConn, cleaner, ThreadsOK
  <2>5. SweepOnLiveEntry'
    BY <1>0, <2>1, <2>4, CacheUnchanged DEF SweepOnLiveEntry
  <2> QED BY <2>1, <2>3, <2>4, <2>5, CacheUnchanged, Assemble
<1>4. ASSUME Update
      PROVE  IInv'
  <2>1. /\ held \in Live /\ lru_move_to_head(held) /\ Live' = Live
        /\ UNCHANGED <<table, tuple, current_size>>
    BY <1>4 DEF Update, Live
  <2>2. ListOK(Live', lru_prev', lru_next', head', tail')
    BY <2>1, MoveOK
  <2>3. FieldsOK' /\ ThreadsOK'
    BY <1>0, <1>4, <2>1 DEF Update, worker, cleaner, FieldsOK, ThreadsOK
  <2>4. SweepOnLiveEntry'
    BY <1>0, <1>4, <2>1 DEF Update, cleaner, SweepOnLiveEntry
  <2>5. TableOK' /\ SizeExact' /\ current_size' \in Nat
    BY <1>0, <2>1 DEF TableOK, SizeExact, IInv, TypeOK
  <2> QED BY <2>2, <2>3, <2>4, <2>5, Assemble
<1>5. ASSUME RemoveConn
      PROVE  IInv'
  <2>1. held \in Live /\ Unlink(held) /\ LockFree /\ UNCHANGED <<cleaner, now, proc>>
        /\ wpc' = "idle" /\ held' = NULL /\ got' = 0
    BY <1>5 DEF RemoveConn, Slowloris
  <2>2. FieldsOK' /\ ThreadsOK'
    BY <1>0, <2>1 DEF Unlink, cleaner, FieldsOK, ThreadsOK, TcpStates
  <2>3. SweepOnLiveEntry'
    BY <2>1 DEF LockFree, cleaner, SweepOnLiveEntry
  <2> QED BY <2>1, <2>2, <2>3, UnlinkOK, Assemble
<1>6. ASSUME SweepUnlink
      PROVE  IInv'
  <2>1. /\ cursor \in Live /\ Unlink(cursor) /\ UNCHANGED <<worker, cnow, now, proc>>
        /\ cursor' = lru_prev[cursor] /\ cpc' = "sweep"
    BY <1>0, <1>6 DEF SweepUnlink, SweepOnLiveEntry
  <2>2. lru_prev[cursor] \in Live \cup {NULL} /\ lru_prev[cursor] # cursor
    BY <1>0, <2>1, NoSelfLoop DEF ListOK
  <2>3. FieldsOK' /\ ThreadsOK'
    BY <1>0, <2>1, <2>2 DEF Unlink, worker, FieldsOK, ThreadsOK, TcpStates
  <2>4. SweepOnLiveEntry'
    BY <2>1, <2>2, UnlinkOK DEF SweepOnLiveEntry
  <2> QED BY <2>1, <2>3, <2>4, UnlinkOK, Assemble
<1>7. ASSUME SweepBegin \/ SweepCheck
      PROVE  IInv'
  <2>1. UNCHANGED <<table, tuple, links, fields, current_size, worker, cnow, now, proc>>
    BY <1>7 DEF SweepBegin, SweepCheck
  <2>2. /\ cpc' \in {"sweep", "unlink"} /\ cursor' \in Live \cup {NULL}
        /\ cpc' = "unlink" => cursor' \in Live
    BY <1>0, <1>7 DEF SweepBegin, SweepCheck, ListOK, SweepOnLiveEntry
  <2>3. FieldsOK' /\ ThreadsOK'
    BY <1>0, <2>1, <2>2 DEF fields, worker, FieldsOK, ThreadsOK
  <2>4. SweepOnLiveEntry'
    BY <2>1, <2>2, CacheUnchanged DEF SweepOnLiveEntry
  <2> QED BY <2>1, <2>3, <2>4, CacheUnchanged, Assemble
<1>8. ASSUME \/ Return \/ UseAfterFree \/ RemoveConnAbort \/ SweepAbort \/ Tick \/ Destroy
             \/ Wake \/ SweepEnd \/ (\E k \in Keys : GetMissAbort(k)) \/ UNCHANGED vars
      PROVE  IInv'
  <2>1. UNCHANGED <<table, tuple, links, fields, current_size, cursor>>
    BY <1>8 DEF Return, UseAfterFree, RemoveConnAbort, SweepAbort, Tick, Destroy, Wake,
                SweepEnd, GetMissAbort, Abort, vars, cleaner
  <2>2. /\ now' \in Nat /\ cnow' \in Nat /\ wpc' \in {"idle", wpc} /\ held' \in {NULL, held}
        /\ got' \in {got, 0} /\ cpc' \in {"asleep", "woke", cpc} /\ cursor' = cursor
        /\ proc' \in {proc, "aborted", "undefined", "destroyed"}
    BY <1>0, <1>8 DEF Return, UseAfterFree, RemoveConnAbort, SweepAbort, Tick, Destroy, Wake,
                      SweepEnd, GetMissAbort, Abort, vars, cleaner, worker, FieldsOK, ThreadsOK
  <2>3. FieldsOK' /\ ThreadsOK'
    BY <1>0, <2>1, <2>2 DEF fields, FieldsOK, ThreadsOK
  <2>4. SweepOnLiveEntry'
    BY <1>0, <2>1, <2>2, CacheUnchanged DEF SweepOnLiveEntry
  <2> QED BY <2>1, <2>3, <2>4, CacheUnchanged, Assemble
<1> QED
  BY <1>1, <1>2, <1>3, <1>4, <1>5, <1>6, <1>7, <1>8 DEF Next, PacketThread, CleanupThread

-----------------------------------------------------------------------------
(* The inductive invariant holds in every reachable state. *)
THEOREM IInvCorrect == Spec => []IInv
<1>1. Init => IInv
  <2> SUFFICES ASSUME Init
               PROVE  IInv
    OBVIOUS
  <2>1. Live = {}
    BY DEF Init, Live
  <2>2. Cardinality(Live) = 0
    BY <2>1, FS_EmptySet
  <2>3. TypeOK
    BY DEF Init, TypeOK, TcpStates
  <2>4. SizeExact
    BY <2>2, LruAssumption DEF Init, SizeExact
  <2>5. Linked /\ SweepOnLiveEntry
    BY <2>1 DEF Init, Linked, SweepOnLiveEntry
  <2>6. Ranked(Live, lru_next)
    <3>1. [b \in Blocks |-> 0] \in [Blocks -> Int]
      OBVIOUS
    <3> QED BY <2>1, <3>1 DEF Ranked
  <2> QED BY <2>3, <2>4, <2>5, <2>6 DEF IInv
<1> QED BY <1>1, IInvInductive, PTL DEF Spec

(* Every variable of the cache and of its two threads keeps its type. *)
THEOREM TypeCorrect == Spec => []TypeOK
<1>1. IInv => TypeOK
  BY DEF IInv
<1> QED BY <1>1, IInvCorrect, PTL

(* The cache never holds more than max_size connections and current_size    *)
(* counts them, for every capacity and number of connections                *)
(* (lru_cache.c:171, 194, 249, 330).                                        *)
THEOREM SizeCorrect == Spec => []SizeExact
<1>1. IInv => SizeExact
  BY DEF IInv
<1> QED BY <1>1, IInvCorrect, PTL

(* The hash table and the doubly linked list stay consistent under hits,    *)
(* evictions, removals and sweeps in any order.                             *)
THEOREM LinkedCorrect == Spec => []Linked
<1>1. IInv => Linked
  BY DEF IInv
<1> QED BY <1>1, IInvCorrect, PTL

(* A sweep never stands on an entry that has been freed, whatever the       *)
(* packet thread does meanwhile (lru_cache.c:280, 335).                     *)
THEOREM SweepCorrect == Spec => []SweepOnLiveEntry
<1>1. IInv => SweepOnLiveEntry
  BY DEF IInv
<1> QED BY <1>1, IInvCorrect, PTL

-----------------------------------------------------------------------------
(* The packet thread got its entry longer ago than some timeout. *)
Stalled == \E k \in Keys, st \in TcpStates : now - got > Timeout(Proto[k], st)

(* What keeps the entry in use from the sweep: neither thread's time is     *)
(* ahead of the clock, an entry in use was seen no earlier than it was      *)
(* obtained, and an entry found expired while in use was obtained long ago. *)
StallInv == /\ cnow <= now /\ got <= now
            /\ wpc # "idle" => held \in Blocks
            /\ wpc # "idle" /\ held \in Live => last_seen[held] >= got
            /\ cpc = "unlink" /\ wpc # "idle" /\ held = cursor => Stalled
            /\ wpc # "idle" /\ held \notin Live => Stalled

(* Timeouts are numbers of seconds. *)
LEMMA TimeoutIsNat ==
    ASSUME NEW k \in Keys, NEW st \in TcpStates
    PROVE  Timeout(Proto[k], st) \in Nat
BY LruAssumption DEF Timeout, TcpStates

(* Being stalled does not end while the entry is in use. *)
LEMMA StalledStays ==
    ASSUME Stalled, got' = got, now \in Nat, now' \in Nat, got \in Nat, now <= now'
    PROVE  Stalled'
<1>1. PICK k \in Keys, st \in TcpStates : now - got > Timeout(Proto[k], st)
  BY DEF Stalled
<1>2. Timeout(Proto[k], st) \in Nat
  BY TimeoutIsNat
<1>3. now' - got' > Timeout(Proto[k], st)
  BY <1>1, <1>2
<1> QED BY <1>3 DEF Stalled, Timeout

(* Every step preserves StallInv. *)
LEMMA StallInductive == IInv /\ StallInv /\ [Next]_vars => StallInv'
<1> SUFFICES ASSUME IInv, StallInv, [Next]_vars
             PROVE  StallInv'
  OBVIOUS
<1>0. /\ now \in Nat /\ cnow \in Nat /\ got \in Nat /\ last_seen \in [Blocks -> Nat]
      /\ state \in [Blocks -> TcpStates] /\ tuple \in [Blocks -> Keys \cup {NULL}]
      /\ table \in [Keys -> Blocks \cup {NULL}] /\ TableOK /\ SweepOnLiveEntry
      /\ Live \subseteq Blocks
  BY LinkedIsList DEF IInv, TypeOK, Live
<1>1. ASSUME NEW k \in Keys, GetHit(k)
      PROVE  StallInv'
  <2>1. /\ held' = table[k] /\ got' = now /\ wpc' = "got" /\ cpc' = cpc /\ cnow' = cnow
        /\ now' = now /\ last_seen' = [last_seen EXCEPT ![table[k]] = now] /\ tuple' = tuple
        /\ table[k] # NULL /\ cpc # "unlink"
    BY <1>1 DEF GetHit, Get, Obtain, cleaner, LockFree
  <2>2. held' \in Live' /\ held' \in Blocks
    BY <1>0, <2>1, LruAssumption DEF TableOK, Live
  <2> QED BY <1>0, <2>1, <2>2 DEF StallInv
<1>2. ASSUME NEW k \in Keys, NEW b \in Blocks, GetMiss(k, b)
      PROVE  StallInv'
  <2>1. /\ held' = b /\ got' = now /\ wpc' = "got" /\ cpc' = cpc /\ cnow' = cnow /\ now' = now
        /\ cpc # "unlink" /\ b \notin Live /\ table[k] = NULL
        /\ InsertRoom(k, b) \/ InsertEvict(k, b)
    BY <1>2 DEF GetMiss, Miss, Get, Obtain, cleaner, LockFree
  <2>2. b \in Live'
    BY <2>1, InsertRoomOK, InsertEvictOK
  <2>3. last_seen'[b] = now
    BY <1>0, <2>1 DEF InsertRoom, InsertEvict
  <2> QED BY <1>0, <2>1, <2>2, <2>3 DEF StallInv
<1>3. ASSUME NEW flag \in Flags, UpdateConn(flag)
      PROVE  StallInv'
  <2>1. /\ UNCHANGED <<tuple, held, got, cpc, cnow, cursor, now>> /\ held \in Live
        /\ last_seen' = [last_seen EXCEPT ![held] = now] /\ wpc # "idle" /\ wpc' # "idle"
    BY <1>3 DEF UpdateConn, cleaner
  <2>2. Live' = Live
    BY <2>1 DEF Live
  <2>3. Stalled => Stalled'
    BY <1>0, <2>1, StalledStays
  <2> QED BY <1>0, <2>1, <2>2, <2>3 DEF StallInv
<1>4. ASSUME Update
      PROVE  StallInv'
  <2>1. /\ UNCHANGED <<tuple, wpc, held, got, cpc, cnow, cursor, now>> /\ held \in Live
        /\ last_seen' = [last_seen EXCEPT ![held] = now]
    BY <1>4 DEF Update, cleaner, worker
  <2>2. Live' = Live
    BY <2>1 DEF Live
  <2>3. Stalled => Stalled'
    BY <1>0, <2>1, StalledStays
  <2> QED BY <1>0, <2>1, <2>2, <2>3 DEF StallInv
<1>5. ASSUME RemoveConn \/ Return
      PROVE  StallInv'
  <2>1. wpc' = "idle" /\ got' = 0 /\ UNCHANGED <<cnow, now>>
    BY <1>5 DEF RemoveConn, Return, cleaner
  <2> QED BY <1>0, <2>1 DEF StallInv
<1>6. ASSUME SweepUnlink
      PROVE  StallInv'
  <2>1. /\ cursor \in Live /\ Unlink(cursor) /\ UNCHANGED <<wpc, held, got, cnow, now>>
        /\ cpc' = "sweep" /\ cpc = "unlink"
    BY <1>0, <1>6 DEF SweepUnlink, SweepOnLiveEntry, worker
  <2>2. Live' = Live \ {cursor} /\ \A b \in Live' : last_seen'[b] = last_seen[b]
    BY <1>0, <2>1, UnlinkOK DEF Unlink
  <2>3. Stalled => Stalled'
    BY <1>0, <2>1, StalledStays
  <2> QED BY <1>0, <2>1, <2>2, <2>3 DEF StallInv
<1>7. ASSUME SweepCheck
      PROVE  StallInv'
  <2>1. UNCHANGED <<tuple, last_seen, wpc, held, got, cnow, now>> /\ Live' = Live
        /\ cpc = "sweep" /\ cursor # NULL
    BY <1>7 DEF SweepCheck, fields, worker, Live
  <2>2. ASSUME cpc' = "unlink", wpc # "idle", held = cursor'
        PROVE  Stalled
    <3>1. cursor' = cursor /\ Expired(cursor, cnow)
      BY <1>7, <2>1, <2>2 DEF SweepCheck
    <3>2. held \in Live /\ held \in Blocks /\ tuple[held] \in Keys /\ state[held] \in TcpStates
      BY <1>0, <2>1, <2>2, <3>1 DEF SweepOnLiveEntry, Live
    <3>3. cnow - last_seen[held] > Timeout(Proto[tuple[held]], state[held])
      BY <2>2, <3>1 DEF Expired
    <3>4. last_seen[held] >= got /\ last_seen[held] \in Nat /\ cnow <= now
      BY <1>0, <2>2, <3>2 DEF StallInv
    <3>5. Timeout(Proto[tuple[held]], state[held]) \in Nat
      BY <3>2, TimeoutIsNat
    <3>6. now - got > Timeout(Proto[tuple[held]], state[held])
      BY <1>0, <3>3, <3>4, <3>5
    <3> QED BY <3>2, <3>6 DEF Stalled
  <2>3. Stalled => Stalled'
    BY <1>0, <2>1, StalledStays
  <2> QED BY <1>0, <2>1, <2>2, <2>3 DEF StallInv
<1>8. ASSUME \/ UseAfterFree \/ RemoveConnAbort \/ SweepAbort \/ Tick \/ Destroy \/ Wake
             \/ SweepBegin \/ SweepEnd \/ (\E k \in Keys : GetMissAbort(k)) \/ UNCHANGED vars
      PROVE  StallInv'
  <2>1. UNCHANGED <<tuple, last_seen, wpc, held, got>>
    BY <1>8 DEF UseAfterFree, RemoveConnAbort, SweepAbort, Tick, Destroy, Wake, SweepBegin,
                SweepEnd, GetMissAbort, Abort, vars, worker, fields
  <2>2. /\ now' \in Nat /\ now <= now' /\ cnow' \in {0, cnow, now}
        /\ cpc' = "unlink" => cpc = "unlink" /\ cursor' = cursor
    BY <1>0, <1>8 DEF UseAfterFree, RemoveConnAbort, SweepAbort, Tick, Destroy, Wake,
                      SweepBegin, SweepEnd, GetMissAbort, Abort, vars, cleaner
  <2>3. Live' = Live
    BY <2>1 DEF Live
  <2>4. Stalled => Stalled'
    BY <1>0, <2>1, <2>2, StalledStays
  <2> QED BY <1>0, <2>1, <2>2, <2>3, <2>4 DEF StallInv
<1> QED
  BY <1>1, <1>2, <1>3, <1>4, <1>5, <1>6, <1>7, <1>8 DEF Next, PacketThread, CleanupThread

(* The sweep can free the entry the packet thread works on only after a     *)
(* stall longer than a timeout, for all timeouts, any number of connections *)
(* and any interleaving (tcp_protect.c:97-108 against lru_cache.c:310-331). *)
THEOREM StallCorrect == Spec => []HeldFreedOnlyIfStalled
<1>1. Init => StallInv
  BY DEF Init, StallInv
<1>2. Spec => []StallInv
  BY <1>1, IInvCorrect, StallInductive, PTL DEF Spec
<1>3. StallInv => HeldFreedOnlyIfStalled
  BY DEF StallInv, HeldFreedOnlyIfStalled, Stalled
<1> QED BY <1>2, <1>3, PTL

-----------------------------------------------------------------------------
(* s lists the blocks L from h to t along the pointers n, each one once. *)
Chain(L, n, h, t, s, m) ==
    /\ s \in [1..m -> L]
    /\ \A b \in L : \E i \in 1..m : s[i] = b
    /\ \A i, j \in 1..m : s[i] = s[j] => i = j
    /\ \A i \in 1..m : i + 1 \in 1..m => n[s[i]] = s[i + 1]
    /\ m = 0 => h = NULL
    /\ m # 0 => s[1] = h /\ s[m] = t

(* It is sorted by ls, the largest in front. *)
Sorted(s, m, ls) == \A i, j \in 1..m : i < j => ls[s[i]] >= ls[s[j]]

(* s without its j-th element, and with e in front. *)
CutSeq(s, m, j) == [i \in 1..(m - 1) |-> IF i < j THEN s[i] ELSE s[i + 1]]
LinkSeq(s, m, e) == [i \in 1..(m + 1) |-> IF i = 1 THEN e ELSE s[i - 1]]

(* Unlinking a block takes it out of the order and changes no other place   *)
(* (lru_cache.c:83-93, 231-243, 311-323).                                   *)
LEMMA CutChain ==
    ASSUME NEW L, NEW p, NEW n, NEW h, NEW t, ListOK(L, p, n, h, t), NEW m \in Nat, NEW s,
           Chain(L, n, h, t, s, m), NEW j \in 1..m, NEW e, e = s[j]
    PROVE  Chain(L \ {e}, NextCut(p, n, e), IF h = e THEN n[e] ELSE h,
                 IF t = e THEN p[e] ELSE t, CutSeq(s, m, j), m - 1)
<1> DEFINE M  == L \ {e}
           n1 == NextCut(p, n, e)
           h1 == IF h = e THEN n[e] ELSE h
           t1 == IF t = e THEN p[e] ELSE t
           c  == CutSeq(s, m, j)
<1>1. /\ s \in [1..m -> L] /\ L \subseteq Blocks /\ e \in L /\ NULL \notin L
      /\ \A b \in L : \E i \in 1..m : s[i] = b
      /\ \A i, k \in 1..m : s[i] = s[k] => i = k
      /\ \A i \in 1..m : i + 1 \in 1..m => n[s[i]] = s[i + 1]
      /\ s[1] = h /\ s[m] = t
  BY LruAssumption DEF Chain, ListOK
<1>2. /\ \A b \in L : n[b] # NULL => p[n[b]] = b
      /\ \A b \in L : p[b] # NULL => n[p[b]] = b
      /\ \A b \in L : n[b] = NULL <=> b = t
      /\ \A b \in L : p[b] = NULL <=> b = h
  BY DEF ListOK
<1>3. \A b \in M : n1[b] = IF b = p[e] THEN n[e] ELSE n[b]
  BY <1>1 DEF NextCut
<1>4. \A i \in 1..(m - 1) : /\ i < j => c[i] = s[i]
                            /\ i >= j => c[i] = s[i + 1]
                            /\ i \in 1..m /\ i + 1 \in 1..m
  BY DEF CutSeq
<1>5. j > 1 => p[e] = s[j - 1]
  <2> SUFFICES ASSUME j > 1 PROVE p[e] = s[j - 1]
    OBVIOUS
  <2>1. j - 1 \in 1..m /\ (j - 1) + 1 = j
    OBVIOUS
  <2>2. n[s[j - 1]] = s[j] /\ s[j - 1] \in L
    BY <1>1, <2>1
  <2> QED
    BY <1>1, <1>2, <2>2
<1>6. j = 1 => p[e] = NULL /\ h = e
  BY <1>1, <1>2
<1>7. j < m => n[e] = s[j + 1]
  BY <1>1
<1>8. j = m => n[e] = NULL /\ t = e
  BY <1>1, <1>2
<1>9. c \in [1..(m - 1) -> M]
  <2>1. \A i \in 1..(m - 1) : c[i] \in M
    BY <1>1, <1>4
  <2>2. c = [i \in 1..(m - 1) |-> c[i]]
    BY DEF CutSeq
  <2> HIDE DEF c, M
  <2> QED
    BY <2>1, <2>2
<1> HIDE DEF n1, c
<1>10. ASSUME NEW b \in M PROVE \E i \in 1..(m - 1) : c[i] = b
  <2>1. PICK i \in 1..m : s[i] = b
    BY <1>1
  <2>2. i # j
    BY <2>1
  <2>3. CASE i < j
    BY <1>4, <2>1, <2>3
  <2>4. CASE i > j
    <3>1. i - 1 \in 1..(m - 1) /\ i - 1 >= j /\ (i - 1) + 1 = i
      BY <2>4
    <3>2. c[i - 1] = b
      BY <1>4, <2>1, <3>1
    <3> QED
      BY <3>1, <3>2
  <2> QED
    BY <2>2, <2>3, <2>4
<1>11. ASSUME NEW i \in 1..(m - 1), NEW k \in 1..(m - 1), c[i] = c[k] PROVE i = k
  BY <1>1, <1>4, <1>11
<1>12. ASSUME NEW i \in 1..(m - 1), i + 1 \in 1..(m - 1) PROVE n1[c[i]] = c[i + 1]
  <2>1. c[i] \in M
    BY <1>9
  <2>2. CASE i + 1 < j
    <3>1. c[i] = s[i] /\ c[i + 1] = s[i + 1] /\ i + 1 \in 1..m /\ i # j - 1 /\ j - 1 \in 1..m /\ j > 1
      BY <1>4, <1>12, <2>2
    <3>2. n[s[i]] = s[i + 1] /\ s[i] # s[j - 1]
      BY <1>1, <3>1
    <3> QED
      BY <1>3, <1>5, <2>1, <3>1, <3>2
  <2>3. CASE i + 1 = j
    <3>1. c[i] = s[i] /\ c[i + 1] = s[i + 2] /\ j > 1 /\ j < m /\ i = j - 1 /\ i + 2 = j + 1
      BY <1>4, <1>12, <2>3
    <3> QED
      BY <1>3, <1>5, <1>7, <2>1, <3>1
  <2>4. CASE i >= j
    <3>1. c[i] = s[i + 1] /\ c[i + 1] = s[i + 2] /\ i + 1 \in 1..m /\ (i + 1) + 1 \in 1..m /\ (i + 1) + 1 = i + 2
      BY <1>4, <1>12, <2>4
    <3>2. n[s[i + 1]] = s[i + 2]
      BY <1>1, <3>1
    <3>3. s[i + 1] # p[e]
      BY <1>1, <1>5, <1>6, <2>4, <3>1
    <3> QED
      BY <1>3, <2>1, <3>1, <3>2, <3>3
  <2> QED
    BY <2>2, <2>3, <2>4
<1>13. ASSUME m - 1 = 0 PROVE h1 = NULL
  BY <1>6, <1>8, <1>13
<1>14. ASSUME m - 1 # 0 PROVE c[1] = h1 /\ c[m - 1] = t1
  <2>1. 1 \in 1..(m - 1) /\ m - 1 \in 1..(m - 1) /\ (m - 1) + 1 = m /\ 1 \in 1..m
    BY <1>14
  <2>2. c[1] = h1
    <3>1. CASE j = 1
      BY <1>4, <1>6, <1>7, <1>14, <2>1, <3>1
    <3>2. CASE j > 1
      <4>1. s[1] # s[j]
        BY <1>1, <2>1, <3>2
      <4> QED
        BY <1>1, <1>4, <2>1, <3>2, <4>1
    <3> QED
      BY <3>1, <3>2
  <2>3. c[m - 1] = t1
    <3>1. CASE j = m
      BY <1>4, <1>5, <1>8, <1>14, <2>1, <3>1
    <3>2. CASE j < m
      <4>1. s[m] # s[j] /\ m - 1 >= j
        BY <1>1, <3>2
      <4> QED
        BY <1>1, <1>4, <2>1, <4>1
    <3> QED
      BY <3>1, <3>2
  <2> QED
    BY <2>2, <2>3
<1>15. Chain(M, n1, h1, t1, c, m - 1)
  <2> HIDE DEF M, h1, t1
  <2> QED
    BY <1>9, <1>10, <1>11, <1>12, <1>13, <1>14 DEF Chain
<1> QED
  BY <1>15 DEF n1, c

(* Linking a block in front puts it before all others (lru_cache.c:95-109,  *)
(* 181-192).                                                                *)
LEMMA LinkChain ==
    ASSUME NEW L, NEW p, NEW n, NEW h, NEW t, ListOK(L, p, n, h, t), NEW m \in Nat, NEW s,
           Chain(L, n, h, t, s, m), NEW e \in Blocks, e \notin L
    PROVE  Chain(L \cup {e}, NextLinked(n, h, e), e, IF t = NULL THEN e ELSE t,
                 LinkSeq(s, m, e), m + 1)
<1> DEFINE M  == L \cup {e}
           n1 == NextLinked(n, h, e)
           t1 == IF t = NULL THEN e ELSE t
           c  == LinkSeq(s, m, e)
<1>1. /\ s \in [1..m -> L] /\ L \subseteq Blocks /\ NULL \notin L /\ n \in [Blocks -> Blocks \cup {NULL}]
      /\ \A b \in L : \E i \in 1..m : s[i] = b
      /\ \A i, k \in 1..m : s[i] = s[k] => i = k
      /\ \A i \in 1..m : i + 1 \in 1..m => n[s[i]] = s[i + 1]
      /\ m = 0 => h = NULL /\ t = NULL
      /\ m # 0 => s[1] = h /\ s[m] = t /\ s[m] \in L
  BY LruAssumption DEF Chain, ListOK
<1>2. n1[e] = h /\ \A b \in L : n1[b] = n[b]
  BY <1>1 DEF NextLinked
<1>3. c[1] = e /\ \A i \in 1..(m + 1) : i # 1 => c[i] = s[i - 1] /\ i - 1 \in 1..m
  BY DEF LinkSeq
<1>4. c \in [1..(m + 1) -> M]
  <2>1. \A i \in 1..(m + 1) : c[i] \in M
    BY <1>1, <1>3
  <2>2. c = [i \in 1..(m + 1) |-> c[i]]
    BY DEF LinkSeq
  <2> HIDE DEF c, M
  <2> QED
    BY <2>1, <2>2
<1> HIDE DEF n1, c
<1>5. ASSUME NEW b \in M PROVE \E i \in 1..(m + 1) : c[i] = b
  <2>1. CASE b = e
    BY <1>3, <2>1
  <2>2. CASE b \in L
    <3>1. PICK i \in 1..m : s[i] = b
      BY <1>1, <2>2
    <3>2. i + 1 \in 1..(m + 1) /\ i + 1 # 1 /\ (i + 1) - 1 = i
      OBVIOUS
    <3>3. c[i + 1] = b
      BY <1>3, <3>1, <3>2
    <3> QED
      BY <3>2, <3>3
  <2> QED
    BY <2>1, <2>2
<1>6. ASSUME NEW i \in 1..(m + 1), NEW k \in 1..(m + 1), c[i] = c[k] PROVE i = k
  <2>1. i # 1 => c[i] # e
    BY <1>1, <1>3
  <2>2. k # 1 => c[k] # e
    BY <1>1, <1>3
  <2>3. CASE i # 1 /\ k # 1
    <3>1. i - 1 = k - 1
      BY <1>1, <1>3, <1>6, <2>3
    <3> QED
      BY <3>1
  <2> QED
    BY <1>3, <1>6, <2>1, <2>2, <2>3
<1>7. ASSUME NEW i \in 1..(m + 1), i + 1 \in 1..(m + 1) PROVE n1[c[i]] = c[i + 1]
  <2>1. c[i + 1] = s[i] /\ i \in 1..m
    BY <1>3, <1>7
  <2>2. CASE i = 1
    BY <1>1, <1>2, <1>3, <2>1, <2>2
  <2>3. CASE i # 1
    <3>1. c[i] = s[i - 1] /\ i - 1 \in 1..m /\ (i - 1) + 1 = i
      BY <1>3, <2>3
    <3>2. n[s[i - 1]] = s[i]
      BY <1>1, <2>1, <3>1
    <3> QED
      BY <1>1, <1>2, <2>1, <3>1, <3>2
  <2> QED
    BY <2>2, <2>3
<1>8. c[m + 1] = t1
  <2>1. CASE m = 0
    BY <1>1, <1>3, <2>1
  <2>2. CASE m # 0
    <3>1. m + 1 \in 1..(m + 1) /\ m + 1 # 1 /\ (m + 1) - 1 = m
      BY <2>2
    <3>2. c[m + 1] = s[m]
      BY <1>3, <3>1
    <3> QED
      BY <1>1, <2>2, <3>2
  <2> QED
    BY <2>1, <2>2
<1>9. Chain(M, n1, e, t1, c, m + 1)
  <2> HIDE DEF M, t1
  <2> QED
    BY <1>3, <1>4, <1>5, <1>6, <1>7, <1>8 DEF Chain
<1> QED
  BY <1>9 DEF n1, c

(* A removal keeps the rest sorted. *)
LEMMA CutSorted ==
    ASSUME NEW m \in Nat, NEW s, NEW ls, NEW j \in 1..m, Sorted(s, m, ls)
    PROVE  Sorted(CutSeq(s, m, j), m - 1, ls)
<1> SUFFICES ASSUME NEW a \in 1..(m - 1), NEW b \in 1..(m - 1), a < b
             PROVE  ls[CutSeq(s, m, j)[a]] >= ls[CutSeq(s, m, j)[b]]
  BY DEF Sorted
<1> DEFINE x == IF a < j THEN a ELSE a + 1
           y == IF b < j THEN b ELSE b + 1
<1>1. x \in 1..m /\ y \in 1..m /\ x < y
  OBVIOUS
<1>2. CutSeq(s, m, j)[a] = s[x] /\ CutSeq(s, m, j)[b] = s[y]
  BY DEF CutSeq
<1> HIDE DEF x, y
<1> QED
  BY <1>1, <1>2 DEF Sorted

(* What is put in front was seen last. *)
LEMMA LinkSorted ==
    ASSUME NEW m \in Nat, NEW s, NEW ls, NEW e, Sorted(s, m, ls),
           \A i \in 1..m : ls[e] >= ls[s[i]]
    PROVE  Sorted(LinkSeq(s, m, e), m + 1, ls)
<1> SUFFICES ASSUME NEW a \in 1..(m + 1), NEW b \in 1..(m + 1), a < b
             PROVE  ls[LinkSeq(s, m, e)[a]] >= ls[LinkSeq(s, m, e)[b]]
  BY DEF Sorted
<1>1. LinkSeq(s, m, e)[b] = s[b - 1] /\ b - 1 \in 1..m
  BY DEF LinkSeq
<1>2. CASE a = 1
  BY <1>1, <1>2 DEF LinkSeq
<1>3. CASE a # 1
  <2>1. LinkSeq(s, m, e)[a] = s[a - 1] /\ a - 1 \in 1..m /\ a - 1 < b - 1
    BY <1>3 DEF LinkSeq
  <2> QED
    BY <1>1, <2>1 DEF Sorted
<1> QED
  BY <1>2, <1>3

(* Only the times of the blocks in s matter. *)
LEMMA SameSorted ==
    ASSUME NEW m, NEW s, NEW ls, NEW lt, Sorted(s, m, ls), \A i \in 1..m : lt[s[i]] = ls[s[i]]
    PROVE  Sorted(s, m, lt)
BY DEF Sorted

-----------------------------------------------------------------------------
(* The entries in the order of the list, which is the order of last_seen;   *)
(* none was seen after now, and the entry the packet thread works on is in  *)
(* front: its unlocked write of last_seen cannot break the order.           *)
Ordered(s) == /\ Chain(Live, lru_next, head, tail, s, current_size)
              /\ Sorted(s, current_size, last_seen)
OrderInv == /\ \E s : Ordered(s)
            /\ \A b \in Live : last_seen[b] <= now
            /\ wpc # "idle" /\ held \in Live => head = held

(* Being in order after a step. *)
LEMMA OrderedNext ==
    ASSUME NEW c, Chain(Live', lru_next', head', tail', c, current_size'),
           Sorted(c, current_size', last_seen')
    PROVE  Ordered(c)'
BY DEF Ordered, Chain, Sorted

(* An entry taken out of list and table leaves the others in order. *)
LEMMA OrderedUnlink ==
    ASSUME IInv, NEW e \in Live, Unlink(e), NEW s, Ordered(s)
    PROVE  \E j \in 1..current_size : \E c :
              s[j] = e /\ c = CutSeq(s, current_size, j) /\ Ordered(c)'
<1>1. /\ ListOK(Live, lru_prev, lru_next, head, tail) /\ Live' = Live \ {e}
      /\ current_size \in Nat /\ last_seen \in [Blocks -> Nat] /\ Live \subseteq Blocks
  BY LinkedIsList, UnlinkOK DEF IInv, TypeOK, Live
<1>2. /\ lru_next' = NextCut(lru_prev, lru_next, e) /\ current_size' = current_size - 1
      /\ head' = (IF head = e THEN lru_next[e] ELSE head)
      /\ tail' = (IF tail = e THEN lru_prev[e] ELSE tail)
      /\ last_seen' = [last_seen EXCEPT ![e] = 0]
  BY DEF Unlink, NextWithout, HeadWithout, TailWithout, NextCut
<1>3. PICK j \in 1..current_size : s[j] = e
  BY DEF Ordered, Chain
<1> DEFINE c == CutSeq(s, current_size, j)
<1>4. Chain(Live', lru_next', head', tail', c, current_size')
  BY <1>1, <1>2, <1>3, CutChain DEF Ordered
<1>5. Sorted(c, current_size', last_seen)
  BY <1>1, <1>2, CutSorted DEF Ordered
<1> HIDE DEF c
<1>6. \A i \in 1..current_size' : c[i] \in Live \ {e}
  BY <1>1, <1>4 DEF Chain
<1>7. \A i \in 1..current_size' : last_seen'[c[i]] = last_seen[c[i]]
  BY <1>1, <1>2, <1>6
<1>8. Sorted(c, current_size', last_seen')
  BY <1>5, <1>7, SameSorted
<1>9. Chain(Live', lru_next', head', tail', c, current_size') /\ Sorted(c, current_size', last_seen')
      /\ c = CutSeq(s, current_size, j)
  BY <1>4, <1>8 DEF c
<1> QED
  BY <1>3, <1>9, OrderedNext

(* An entry moved to the front and seen now is where it belongs. *)
LEMMA OrderedMove ==
    ASSUME IInv, NEW e \in Live, lru_move_to_head(e), NEW s, Ordered(s),
           \A b \in Live : last_seen[b] <= now, last_seen' = [last_seen EXCEPT ![e] = now],
           tuple' = tuple, current_size' = current_size
    PROVE  \E c : /\ Ordered(c)'
                  /\ \/ c = s /\ s[1] = e
                     \/ \E j \in 1..current_size :
                           s[j] = e /\ c = LinkSeq(CutSeq(s, current_size, j), current_size - 1, e)
<1>1. /\ ListOK(Live, lru_prev, lru_next, head, tail) /\ Live' = Live /\ now \in Nat
      /\ current_size \in Nat /\ last_seen \in [Blocks -> Nat] /\ Live \subseteq Blocks
  BY LinkedIsList DEF IInv, TypeOK, Live
<1>2. PICK j \in 1..current_size : s[j] = e
  BY DEF Ordered, Chain
<1>3. /\ last_seen'[e] = now /\ \A b \in Live \ {e} : last_seen'[b] = last_seen[b]
      /\ s \in [1..current_size -> Live] /\ last_seen' \in [Blocks -> Nat]
      /\ \A b \in Live : last_seen'[b] <= now
  BY <1>1 DEF Ordered, Chain
<1>4. CASE head = e
  <2>1. lru_next' = lru_next /\ head' = head /\ tail' = tail
    BY <1>4 DEF lru_move_to_head, links
  <2>2. s[1] = e /\ \A i \in 1..current_size : s[i] = e => i = 1
    <3>1. 1 \in 1..current_size
      BY <1>1, <1>2
    <3> QED
      BY <3>1, <1>2, <1>4 DEF Ordered, Chain
  <2>3. Sorted(s, current_size, last_seen')
    <3> SUFFICES ASSUME NEW a \in 1..current_size, NEW b \in 1..current_size, a < b
                 PROVE  last_seen'[s[a]] >= last_seen'[s[b]]
      BY DEF Sorted
    <3>1. s[b] # e /\ s[b] \in Live /\ s[a] \in Live
      BY <1>3, <2>2
    <3>2. CASE a = 1
      BY <1>1, <1>3, <2>2, <3>1, <3>2
    <3>3. CASE a # 1
      BY <1>3, <2>2, <3>1, <3>3 DEF Ordered, Sorted
    <3> QED
      BY <3>2, <3>3
  <2>4. Chain(Live', lru_next', head', tail', s, current_size')
    BY <1>1, <2>1 DEF Ordered
  <2>5. Sorted(s, current_size', last_seen')
    BY <2>3
  <2> QED
    BY <2>2, <2>4, <2>5, OrderedNext
<1>5. CASE head # e
  <2> DEFINE p == PrevCut(lru_prev, lru_next, e)
             n == NextCut(lru_prev, lru_next, e)
             t == IF tail = e THEN lru_prev[e] ELSE tail
             d == CutSeq(s, current_size, j)
             c == LinkSeq(d, current_size - 1, e)
             L == Live \ {e}
             m == current_size - 1
  <2>1. lru_next' = NextLinked(n, head, e) /\ head' = e /\ tail' = IF t = NULL THEN e ELSE t
    BY <1>5 DEF lru_move_to_head, LinkAtHead, NextWithout, TailWithout, NextLinked, NextCut
  <2>2. ListOK(L, p, n, head, t)
    BY <1>1, <1>5, CutOK
  <2>3. Chain(L, n, head, t, d, m)
    BY <1>1, <1>2, <1>5, CutChain DEF Ordered
  <2>4. Sorted(d, m, last_seen)
    BY <1>1, CutSorted DEF Ordered
  <2>5. m \in Nat /\ m + 1 = current_size /\ e \in Blocks /\ e \notin L /\ L \cup {e} = Live
    BY <1>1
  <2> HIDE DEF p, n, t, d, L
  <2>6. Chain(L \cup {e}, NextLinked(n, head, e), e, IF t = NULL THEN e ELSE t, LinkSeq(d, m, e), m + 1)
    <3> HIDE DEF m
    <3> QED
      BY <2>2, <2>3, <2>5, LinkChain
  <2>7. \A i \in 1..m : d[i] \in L
    BY <2>3 DEF Chain
  <2>8. \A i \in 1..m : last_seen'[d[i]] = last_seen[d[i]] /\ last_seen'[e] >= last_seen'[d[i]]
    BY <1>1, <1>3, <2>7 DEF L
  <2>9. Sorted(d, m, last_seen')
    BY <2>4, <2>8, SameSorted
  <2>10. Sorted(LinkSeq(d, m, e), m + 1, last_seen')
    <3> HIDE DEF m
    <3> QED
      BY <2>5, <2>8, <2>9, LinkSorted
  <2>11. Chain(Live', lru_next', head', tail', c, current_size') /\ Sorted(c, current_size', last_seen')
    BY <1>1, <2>1, <2>5, <2>6, <2>10
  <2>12. c = LinkSeq(CutSeq(s, current_size, j), current_size - 1, e)
    BY DEF d
  <2> HIDE DEF c
  <2> QED
    BY <1>2, <2>11, <2>12, OrderedNext
<1> QED
  BY <1>4, <1>5

(* A new entry, seen now, in front of entries that were seen earlier. *)
LEMMA OrderedInsert ==
    ASSUME IInv, NEW L, NEW p, NEW n, NEW h, NEW t, ListOK(L, p, n, h, t), NEW m \in Nat, NEW s,
           Chain(L, n, h, t, s, m), Sorted(s, m, last_seen), L \subseteq Live,
           \A a \in Live : last_seen[a] <= now, NEW b \in Blocks, b \notin L,
           \A a \in L : last_seen'[a] = last_seen[a], last_seen'[b] = now,
           LinkAtHead(b, p, n, h, t), Live' = L \cup {b}, current_size' = m + 1
    PROVE  \E c : c = LinkSeq(s, m, b) /\ Ordered(c)'
<1>1. Chain(L \cup {b}, NextLinked(n, h, b), b, IF t = NULL THEN b ELSE t, LinkSeq(s, m, b), m + 1)
  BY LinkChain
<1>2. lru_next' = NextLinked(n, h, b) /\ head' = b /\ tail' = IF t = NULL THEN b ELSE t
  BY DEF LinkAtHead, NextLinked
<1>3. \A i \in 1..m : s[i] \in L
  BY DEF Chain
<1>4. last_seen \in [Blocks -> Nat] /\ now \in Nat
  BY DEF IInv, TypeOK
<1>5. \A i \in 1..m : last_seen'[s[i]] = last_seen[s[i]] /\ last_seen'[b] >= last_seen'[s[i]]
  <2> TAKE i \in 1..m
  <2>1. s[i] \in L /\ s[i] \in Live /\ s[i] \in Blocks
    BY <1>3 DEF Live
  <2>2. last_seen[s[i]] <= now /\ last_seen[s[i]] \in Nat
    BY <1>4, <2>1
  <2> QED
    BY <1>4, <2>1, <2>2
<1>6. Sorted(s, m, last_seen')
  BY <1>5, SameSorted
<1>7. Sorted(LinkSeq(s, m, b), m + 1, last_seen')
  BY <1>5, <1>6, LinkSorted
<1>8. Chain(Live', lru_next', head', tail', LinkSeq(s, m, b), current_size')
      /\ Sorted(LinkSeq(s, m, b), current_size', last_seen')
  BY <1>1, <1>2, <1>7
<1> QED
  BY <1>8, OrderedNext

(* A miss keeps the order, with room and with an eviction. *)
LEMMA OrderedMiss ==
    ASSUME IInv, NEW k \in Keys, NEW b \in Blocks, b \notin Live, table[k] = NULL, NEW s, Ordered(s),
           \A a \in Live : last_seen[a] <= now, InsertRoom(k, b) \/ InsertEvict(k, b)
    PROVE  /\ \E c : /\ Ordered(c)'
                     /\ \/ current_size < MaxSize /\ c = LinkSeq(s, current_size, b)
                        \/ /\ current_size >= MaxSize
                           /\ c = LinkSeq(CutSeq(s, current_size, current_size), current_size - 1, b)
           /\ head' = b /\ last_seen'[b] = now
           /\ Live' \subseteq Live \cup {b} /\ \A a \in Live' \ {b} : last_seen'[a] = last_seen[a]
<1>1. /\ ListOK(Live, lru_prev, lru_next, head, tail) /\ now \in Nat /\ NULL \notin Blocks
      /\ current_size \in Nat /\ last_seen \in [Blocks -> Nat] /\ Live \subseteq Blocks
  BY LinkedIsList, LruAssumption DEF IInv, TypeOK, Live
<1>2. ASSUME InsertRoom(k, b)
      PROVE  /\ \E c : c = LinkSeq(s, current_size, b) /\ Ordered(c)'
             /\ current_size < MaxSize
             /\ Live' = Live \cup {b} /\ last_seen'[b] = now
             /\ \A a \in Live : last_seen'[a] = last_seen[a]
  <2>1. Live' = Live \cup {b}
    BY <1>2, InsertRoomOK
  <2>2. /\ last_seen'[b] = now /\ \A a \in Live : last_seen'[a] = last_seen[a]
        /\ LinkAtHead(b, lru_prev, lru_next, head, tail) /\ current_size' = current_size + 1
        /\ current_size < MaxSize
    BY <1>1, <1>2 DEF InsertRoom
  <2>3. Chain(Live, lru_next, head, tail, s, current_size) /\ Sorted(s, current_size, last_seen)
        /\ Live \subseteq Live
    BY DEF Ordered
  <2>4. \E c : c = LinkSeq(s, current_size, b) /\ Ordered(c)'
    BY <1>1, <2>1, <2>2, <2>3, OrderedInsert
  <2> QED
    BY <2>1, <2>2, <2>4
<1>3. ASSUME InsertEvict(k, b)
      PROVE  /\ \E c : /\ c = LinkSeq(CutSeq(s, current_size, current_size), current_size - 1, b)
                       /\ Ordered(c)'
             /\ current_size >= MaxSize
             /\ Live' = (Live \ {tail}) \cup {b} /\ last_seen'[b] = now
             /\ \A a \in Live \ {tail} : last_seen'[a] = last_seen[a]
  <2> DEFINE p == PrevCut(lru_prev, lru_next, tail)
             n == NextCut(lru_prev, lru_next, tail)
             h == IF head = tail THEN lru_next[tail] ELSE head
             t == lru_prev[tail]
             L == Live \ {tail}
             m == current_size - 1
  <2>1. Live' = L \cup {b}
    BY <1>3, InsertEvictOK
  <2>2. tail \in Live /\ tail # b /\ lru_next[tail] = NULL
    BY <1>1, <1>3 DEF InsertEvict, ListOK
  <2>3. last_seen'[b] = now /\ \A a \in L : last_seen'[a] = last_seen[a]
    BY <1>1, <1>3, <2>2 DEF InsertEvict
  <2>4. LinkAtHead(b, p, n, h, t) /\ current_size' = current_size /\ current_size >= MaxSize
    BY <1>3, <2>2 DEF InsertEvict, PrevWithout, NextWithout, PrevCut, NextCut
  <2>5. ListOK(L, p, n, h, t)
    BY <1>1, <2>2, CutOK
  <2>6. current_size \in 1..current_size /\ s[current_size] = tail
    BY <1>1, <2>2 DEF Ordered, Chain
  <2> DEFINE d == CutSeq(s, current_size, current_size)
  <2>7. Chain(L, n, h, t, d, m)
    BY <1>1, <2>6, CutChain DEF Ordered
  <2>8. Sorted(d, m, last_seen)
    BY <1>1, <2>6, CutSorted DEF Ordered
  <2>9. m \in Nat /\ current_size' = m + 1 /\ L \subseteq Live /\ b \notin L
    BY <1>1, <2>4, <2>6
  <2> HIDE DEF p, n, h, t, L, m, d
  <2>10. \E c : c = LinkSeq(d, m, b) /\ Ordered(c)'
    BY <2>1, <2>3, <2>4, <2>5, <2>7, <2>8, <2>9, OrderedInsert
  <2> QED
    BY <2>1, <2>3, <2>4, <2>10 DEF L, m, d
<1>4. head' = b
  BY DEF InsertRoom, InsertEvict, LinkAtHead
<1> QED
  BY <1>2, <1>3, <1>4

-----------------------------------------------------------------------------
(* Every step preserves OrderInv. *)
LEMMA OrderInductive == IInv /\ OrderInv /\ [Next]_vars => OrderInv'
<1> SUFFICES ASSUME IInv, OrderInv, [Next]_vars
             PROVE  OrderInv'
  OBVIOUS
<1>0. /\ now \in Nat /\ last_seen \in [Blocks -> Nat] /\ table \in [Keys -> Blocks \cup {NULL}]
      /\ TableOK /\ SweepOnLiveEntry /\ Live \subseteq Blocks /\ NULL \notin Keys /\ NULL \notin Blocks
  BY LinkedIsList, LruAssumption DEF IInv, TypeOK, Live
<1>s. PICK s : Ordered(s)
  BY DEF OrderInv
<1>1. ASSUME NEW e \in Live, lru_move_to_head(e), last_seen' = [last_seen EXCEPT ![e] = now],
             tuple' = tuple, current_size' = current_size, held' = e, now' = now
      PROVE  OrderInv'
  <2>1. \E c : Ordered(c)'
    BY <1>1, <1>s, OrderedMove DEF OrderInv
  <2>2. Live' = Live /\ \A b \in Live : last_seen'[b] <= now
    BY <1>0, <1>1 DEF OrderInv, Live
  <2>3. head' = e
    BY <1>1 DEF lru_move_to_head, LinkAtHead, links
  <2> QED
    BY <1>1, <2>1, <2>2, <2>3 DEF OrderInv
<1>2. ASSUME NEW k \in Keys, GetHit(k)
      PROVE  OrderInv'
  <2>1. table[k] \in Live
    BY <1>0, <1>2 DEF GetHit, TableOK, Live
  <2> QED
    BY <1>1, <1>2, <2>1 DEF GetHit, Obtain
<1>3. ASSUME Update
      PROVE  OrderInv'
  BY <1>1, <1>3 DEF Update, worker
<1>4. ASSUME NEW k \in Keys, NEW b \in Blocks, GetMiss(k, b)
      PROVE  OrderInv'
  <2>1. /\ held' = b /\ now' = now /\ b \notin Live /\ table[k] = NULL
        /\ InsertRoom(k, b) \/ InsertEvict(k, b)
    BY <1>4 DEF GetMiss, Miss, Obtain
  <2>2. \A a \in Live : last_seen[a] <= now
    BY DEF OrderInv
  <2>3. /\ \E c : Ordered(c)'
        /\ head' = b /\ last_seen'[b] = now
        /\ Live' \subseteq Live \cup {b} /\ \A a \in Live' \ {b} : last_seen'[a] = last_seen[a]
    BY <1>s, <2>1, <2>2, OrderedMiss
  <2>4. \A a \in Live' : last_seen'[a] <= now'
    BY <1>0, <2>1, <2>2, <2>3
  <2> QED
    BY <2>1, <2>3, <2>4 DEF OrderInv
<1>5. ASSUME NEW flag \in Flags, UpdateConn(flag)
      PROVE  OrderInv'
  <2>1. /\ UNCHANGED <<tuple, lru_prev, lru_next, head, tail, current_size, held, now>>
        /\ held \in Live /\ wpc # "idle" /\ last_seen' = [last_seen EXCEPT ![held] = now]
    BY <1>5 DEF UpdateConn, links
  <2>2. head = held
    BY <2>1 DEF OrderInv
  <2>3. lru_move_to_head(held)
    BY <2>1, <2>2 DEF lru_move_to_head, links
  <2> QED
    BY <1>1, <2>1, <2>3
<1>6. ASSUME NEW e \in Live, Unlink(e), now' = now, wpc' # "idle" => wpc' = wpc /\ held' = held
      PROVE  OrderInv'
  <2>1. \E c : Ordered(c)'
    BY <1>6, <1>s, OrderedUnlink
  <2>2. Live' = Live \ {e} /\ last_seen' = [last_seen EXCEPT ![e] = 0]
        /\ head' = IF head = e THEN lru_next[e] ELSE head
    BY <1>6, UnlinkOK DEF Unlink, HeadWithout
  <2>3. \A b \in Live' : last_seen'[b] <= now'
    BY <1>0, <1>6, <2>2 DEF OrderInv
  <2>4. wpc' # "idle" /\ held' \in Live' => head' = held'
    BY <1>6, <2>2 DEF OrderInv
  <2> QED
    BY <2>1, <2>3, <2>4 DEF OrderInv
<1>7. ASSUME RemoveConn \/ SweepUnlink
      PROVE  OrderInv'
  <2>1. \/ held \in Live /\ Unlink(held) /\ now' = now /\ wpc' = "idle"
        \/ cursor \in Live /\ Unlink(cursor) /\ now' = now /\ wpc' = wpc /\ held' = held
    BY <1>0, <1>7 DEF RemoveConn, Slowloris, SweepUnlink, SweepOnLiveEntry, worker
  <2> QED
    BY <1>6, <2>1
<1>8. ASSUME \/ Return \/ UseAfterFree \/ RemoveConnAbort \/ SweepAbort \/ Tick \/ Destroy \/ Wake
             \/ SweepBegin \/ SweepCheck \/ SweepEnd \/ (\E k \in Keys : GetMissAbort(k)) \/ UNCHANGED vars
      PROVE  OrderInv'
  <2>1. /\ UNCHANGED <<tuple, lru_next, head, tail, current_size, last_seen>>
        /\ now' \in Nat /\ now <= now' /\ (wpc' # "idle" => wpc' = wpc /\ held' = held)
    BY <1>0, <1>8 DEF Return, UseAfterFree, RemoveConnAbort, SweepAbort, Tick, Destroy, Wake, SweepBegin,
                      SweepCheck, SweepEnd, GetMissAbort, Abort, vars, worker, fields, links
  <2>2. Live' = Live
    BY <2>1 DEF Live
  <2>3. Chain(Live', lru_next', head', tail', s, current_size') /\ Sorted(s, current_size', last_seen')
    BY <1>s, <2>1, <2>2 DEF Ordered
  <2>4. \E c : Ordered(c)'
    BY <2>3, OrderedNext
  <2>5. \A b \in Live' : last_seen'[b] <= now'
    BY <1>0, <2>1, <2>2 DEF OrderInv
  <2> QED
    BY <2>1, <2>2, <2>4, <2>5 DEF OrderInv
<1> QED
  BY <1>2, <1>3, <1>4, <1>5, <1>7, <1>8 DEF Next, PacketThread, CleanupThread

-----------------------------------------------------------------------------
(* g is what following f from start meets in n steps. *)
Follows(g, start, f, n) ==
    g = [i \in 1..n |-> IF i = 1 THEN start ELSE IF g[i - 1] = NULL THEN NULL ELSE f[g[i - 1]]]

(* What a walk along pointers meets is determined step by step. *)
LEMMA WalkIs ==
    ASSUME NEW start, NEW f, NEW g, NEW N \in Nat, N = Cardinality(Blocks),
           Follows(g, start, f, N)
    PROVE  Walk(start, f) = g
<1> DEFINE D(w) == w = [i \in 1..N |-> IF i = 1 THEN start ELSE IF w[i - 1] = NULL THEN NULL ELSE f[w[i - 1]]]
           W == CHOOSE w : D(w)
<1>1. Walk(start, f) = W
  BY DEF Walk
<1>2. D(g)
  BY DEF Follows
<1>3. D(W)
  <2> HIDE DEF D
  <2> QED
    BY <1>2
<1> HIDE DEF W
<1>4. /\ \A i \in 1..N : W[i] = IF i = 1 THEN start ELSE IF W[i - 1] = NULL THEN NULL ELSE f[W[i - 1]]
      /\ \A i \in 1..N : g[i] = IF i = 1 THEN start ELSE IF g[i - 1] = NULL THEN NULL ELSE f[g[i - 1]]
      /\ W = [i \in 1..N |-> W[i]] /\ g = [i \in 1..N |-> g[i]]
  BY <1>2, <1>3
<1> HIDE DEF D
<1>5. \A i \in 1..N : W[i] = g[i]
  <2> SUFFICES ASSUME NEW i0 \in 1..N, W[i0] # g[i0]
               PROVE  FALSE
    OBVIOUS
  <2> DEFINE T == {i \in 1..N : W[i] # g[i]}
             R == OpToRel(<, Nat)
  <2>1. T \subseteq Nat /\ T # {}
    OBVIOUS
  <2>2. \E x \in T : \A y \in T : ~(<<y, x>> \in R)
    <3> HIDE DEF T
    <3> QED
      BY <2>1, NatLessThanWellFounded, WFMin
  <2>3. PICK x \in T : \A y \in T : ~(<<y, x>> \in R)
    BY <2>2
  <2>4. x # 1 /\ x - 1 \in 1..N
    <3>1. x \in 1..N /\ W[x] # g[x]
      OBVIOUS
    <3>2. 1 \in 1..N => W[1] = start /\ g[1] = start
      BY <1>4
    <3>3. x # 1
      BY <3>1, <3>2
    <3> QED
      BY <3>1, <3>3
  <2>5. x - 1 \in T
    <3>1. W[x] # g[x] /\ x \in 1..N
      OBVIOUS
    <3>2. W[x] = IF W[x - 1] = NULL THEN NULL ELSE f[W[x - 1]]
      BY <1>4, <2>4, <3>1
    <3>3. g[x] = IF g[x - 1] = NULL THEN NULL ELSE f[g[x - 1]]
      BY <1>4, <2>4, <3>1
    <3>4. W[x - 1] # g[x - 1]
      BY <3>1, <3>2, <3>3, Zenon
    <3> QED
      BY <2>4, <3>4
  <2>6. <<x - 1, x>> \in R
    BY <2>4 DEF OpToRel
  <2> QED
    BY <2>3, <2>5, <2>6
<1> QED
  BY <1>1, <1>4, <1>5

(* The two walks of the list go through it forwards and backwards. *)
LEMMA WalksOf ==
    ASSUME IInv, NEW s, Ordered(s), NEW N, N = Cardinality(Blocks)
    PROVE  /\ N \in Nat /\ current_size \in 0..N
           /\ Walk(head, lru_next) = [i \in 1..N |-> IF i <= current_size THEN s[i] ELSE NULL]
           /\ Walk(tail, lru_prev) = [i \in 1..N |-> IF i <= current_size THEN s[current_size + 1 - i] ELSE NULL]
<1>1. /\ ListOK(Live, lru_prev, lru_next, head, tail) /\ current_size \in Nat
      /\ NULL \notin Live /\ current_size = Cardinality(Live)
  BY LinkedIsList, LruAssumption DEF IInv, TypeOK, Live, SizeExact
<1>2. N \in Nat /\ current_size <= N
  <2>1. Live \subseteq Blocks /\ IsFiniteSet(Blocks)
    BY LruAssumption DEF Live
  <2> QED
    BY <1>1, <2>1, FS_Subset, FS_CardinalityType
<1> DEFINE m == current_size
           g == [i \in 1..N |-> IF i <= m THEN s[i] ELSE NULL]
           r == [i \in 1..N |-> IF i <= m THEN s[m + 1 - i] ELSE NULL]
<1>3. /\ s \in [1..m -> Live]
      /\ \A i \in 1..m : i + 1 \in 1..m => lru_next[s[i]] = s[i + 1]
      /\ m = 0 => head = NULL /\ tail = NULL
      /\ m # 0 => s[1] = head /\ s[m] = tail
  BY <1>1 DEF Ordered, Chain, ListOK
<1>4. \A i \in 1..m : i + 1 \in 1..m => lru_prev[s[i + 1]] = s[i]
  BY <1>1, <1>3 DEF ListOK
<1>5. m # 0 => lru_next[s[m]] = NULL /\ lru_prev[s[1]] = NULL
  BY <1>1, <1>3 DEF ListOK
<1>6. ASSUME NEW i \in 1..N
      PROVE  /\ g[i] = IF i = 1 THEN head ELSE IF g[i - 1] = NULL THEN NULL ELSE lru_next[g[i - 1]]
             /\ r[i] = IF i = 1 THEN tail ELSE IF r[i - 1] = NULL THEN NULL ELSE lru_prev[r[i - 1]]
  <2>1. g[i] = (IF i <= m THEN s[i] ELSE NULL) /\ r[i] = (IF i <= m THEN s[m + 1 - i] ELSE NULL)
    OBVIOUS
  <2>2. CASE i = 1
    BY <1>1, <1>3, <2>1, <2>2
  <2>3. CASE i # 1
    <3>1. /\ i - 1 \in 1..N
          /\ g[i - 1] = (IF i - 1 <= m THEN s[i - 1] ELSE NULL)
          /\ r[i - 1] = (IF i - 1 <= m THEN s[m + 1 - (i - 1)] ELSE NULL)
      BY <1>2, <2>3
    <3> HIDE DEF g, r
    <3>2. CASE i <= m
      <4>1. i - 1 \in 1..m /\ (i - 1) + 1 = i /\ i \in 1..m
        BY <1>1, <2>3, <3>2
      <4>2. m + 1 - i \in 1..m /\ (m + 1 - i) + 1 = m + 1 - (i - 1) /\ m + 1 - (i - 1) \in 1..m
        BY <1>1, <2>3, <3>2
      <4>3. lru_next[s[i - 1]] = s[i] /\ s[i - 1] # NULL
        BY <1>1, <1>3, <4>1
      <4>4. lru_prev[s[m + 1 - (i - 1)]] = s[m + 1 - i] /\ s[m + 1 - (i - 1)] # NULL
        BY <1>1, <1>3, <1>4, <4>2
      <4> QED
        BY <2>1, <2>3, <3>1, <3>2, <4>1, <4>3, <4>4
    <3>3. CASE i = m + 1
      <4>1. i - 1 = m /\ m # 0 /\ m + 1 - (i - 1) = 1 /\ ~(i <= m) /\ i - 1 <= m
        BY <1>1, <2>3, <3>3
      <4>2. g[i - 1] = s[m] /\ r[i - 1] = s[1]
        BY <3>1, <4>1
      <4> QED
        BY <1>5, <2>1, <2>3, <4>1, <4>2
    <3>4. CASE i > m + 1
      BY <1>1, <2>1, <2>3, <3>1, <3>4
    <3> QED
      BY <1>1, <3>2, <3>3, <3>4
  <2> QED
    BY <2>2, <2>3
<1>7. /\ g = [i \in 1..N |-> IF i = 1 THEN head ELSE IF g[i - 1] = NULL THEN NULL ELSE lru_next[g[i - 1]]]
      /\ r = [i \in 1..N |-> IF i = 1 THEN tail ELSE IF r[i - 1] = NULL THEN NULL ELSE lru_prev[r[i - 1]]]
  <2>1. g = [i \in 1..N |-> g[i]] /\ r = [i \in 1..N |-> r[i]]
    OBVIOUS
  <2> HIDE DEF g, r
  <2> QED
    BY <1>6, <2>1
<1> HIDE DEF g, r
<1>8. Follows(g, head, lru_next, N) /\ Follows(r, tail, lru_prev, N)
  BY <1>7 DEF Follows
<1>9. Walk(head, lru_next) = g /\ Walk(tail, lru_prev) = r
  BY <1>2, <1>8, WalkIs
<1> QED
  BY <1>1, <1>2, <1>9 DEF g, r

(* The cache starts in order. *)
LEMMA OrderInit == Init => OrderInv
<1> SUFFICES ASSUME Init PROVE OrderInv
  OBVIOUS
<1>1. Live = {} /\ head = NULL /\ current_size = 0 /\ wpc = "idle"
  BY DEF Init, Live
<1> DEFINE s == [i \in 1..0 |-> NULL]
<1>2. Chain(Live, lru_next, head, tail, s, current_size) /\ Sorted(s, current_size, last_seen)
  BY <1>1 DEF Chain, Sorted
<1> QED
  BY <1>1, <1>2 DEF OrderInv, Ordered

(* Both walks of the list meet every entry once, in opposite orders, and    *)
(* end: no sweep (lru_cache.c:279-337) and no lru_cache_destroy             *)
(* (lru_cache.c:55-63) misses an entry or runs for ever, for every heap,    *)
(* capacity and interleaving.                                               *)
THEOREM ListCorrect == Spec => []ListExact
<1>1. Spec => [](IInv /\ OrderInv)
  BY OrderInit, OrderInductive, IInvCorrect, PTL DEF Spec
<1>2. IInv /\ OrderInv => ListExact
  <2> SUFFICES ASSUME IInv, OrderInv PROVE ListExact
    OBVIOUS
  <2>1. PICK s : Ordered(s)
    BY DEF OrderInv
  <2> DEFINE N == Cardinality(Blocks)
             n == current_size
             fwd == Walk(head, lru_next)
             bwd == Walk(tail, lru_prev)
  <2>2. /\ N \in Nat /\ n \in 0..N
        /\ fwd = [i \in 1..N |-> IF i <= n THEN s[i] ELSE NULL]
        /\ bwd = [i \in 1..N |-> IF i <= n THEN s[n + 1 - i] ELSE NULL]
    BY <2>1, WalksOf
  <2> HIDE DEF fwd, bwd, N
  <2>3. \A i \in 1..n : fwd[i] = s[i] /\ bwd[i] = s[n + 1 - i] /\ n + 1 - i \in 1..n
    BY <2>2
  <2>4. {fwd[i] : i \in 1..n} = Live
    <3>1. /\ \A i \in 1..n : s[i] \in Live
          /\ \A b \in Live : \E i \in 1..n : s[i] = b
      BY <2>1 DEF Ordered, Chain
    <3> HIDE DEF n
    <3> QED
      BY <2>3, <3>1
  <2>5. \A i \in 1..n : bwd[i] = fwd[n + 1 - i]
    BY <2>3
  <2>6. \A i \in (n + 1)..N : fwd[i] = NULL /\ bwd[i] = NULL
    BY <2>2
  <2> QED
    BY <2>4, <2>5, <2>6 DEF ListExact, fwd, bwd, N
<1> QED
  BY <1>1, <1>2, PTL

(* The list is sorted by last_seen although tcp_protect_analyze writes it   *)
(* without the lock (tcp_protect.c:97): the entry it writes to is in front. *)
THEOREM RecencyCorrect == Spec => []RecencySorted
<1>1. Spec => [](IInv /\ OrderInv)
  BY OrderInit, OrderInductive, IInvCorrect, PTL DEF Spec
<1>2. IInv /\ OrderInv => RecencySorted
  <2> SUFFICES ASSUME IInv, OrderInv PROVE RecencySorted
    OBVIOUS
  <2>1. PICK s : Ordered(s)
    BY DEF OrderInv
  <2> DEFINE fwd == Walk(head, lru_next)
  <2>2. \A i \in 1..current_size : fwd[i] = s[i]
    BY <2>1, WalksOf
  <2> HIDE DEF fwd
  <2>3. \A i, j \in 1..current_size : i < j => last_seen[fwd[i]] >= last_seen[fwd[j]]
    BY <2>1, <2>2 DEF Ordered, Sorted
  <2> QED
    BY <2>3 DEF RecencySorted, fwd
<1> QED
  BY <1>1, <1>2, PTL

-----------------------------------------------------------------------------
(* The sequence operations of LruSpec, position by position. *)
LEMMA SeqOps ==
    ASSUME NEW q \in Seq(Keys), NEW k \in Keys
    PROVE  /\ <<k>> \o q = LinkSeq(q, Len(q), k)
           /\ \A j \in 1..Len(q) : Lru!RemoveAt(q, j) = CutSeq(q, Len(q), j)
           /\ Len(q) # 0 => Lru!Front(q) = CutSeq(q, Len(q), Len(q))
<1> DEFINE m == Len(q)
<1>0. m \in Nat /\ q \in [1..m -> Keys]
  OBVIOUS
<1>1. <<k>> \o q = LinkSeq(q, m, k)
  <2> DEFINE x == <<k>> \o q
  <2>1. x \in Seq(Keys) /\ Len(x) = m + 1
        /\ \A i \in 1..(m + 1) : x[i] = IF i <= 1 THEN k ELSE q[i - 1]
    <3>1. <<k>> \in Seq(Keys) /\ Len(<<k>>) = 1 /\ <<k>>[1] = k
      OBVIOUS
    <3> QED
      BY <3>1, ConcatProperties
  <2> HIDE DEF x
  <2>2. x = [i \in 1..(m + 1) |-> x[i]]
    BY <2>1
  <2> QED
    BY <1>0, <2>1, <2>2 DEF LinkSeq, x
<1>2. ASSUME NEW j \in 1..m PROVE Lru!RemoveAt(q, j) = CutSeq(q, m, j)
  <2> DEFINE u == SubSeq(q, 1, j - 1)
             v == SubSeq(q, j + 1, m)
             x == u \o v
  <2>1. u \in Seq(Keys) /\ Len(u) = j - 1 /\ \A i \in 1..(j - 1) : u[i] = q[i]
    BY <1>0
  <2>2. v \in Seq(Keys) /\ Len(v) = m - j /\ \A i \in 1..(m - j) : v[i] = q[j + i]
    <3>1. \A i \in (j + 1)..m : q[i] \in Keys
      BY <1>0
    <3>2. /\ v \in Seq(Keys) /\ Len(v) = (IF j + 1 <= m THEN m - (j + 1) + 1 ELSE 0)
          /\ \A i \in 1..(m - (j + 1) + 1) : v[i] = q[(j + 1) + i - 1]
      BY <1>0, <3>1, SubSeqProperties
    <3> HIDE DEF m
    <3>3. (IF j + 1 <= m THEN m - (j + 1) + 1 ELSE 0) = m - j /\ m - (j + 1) + 1 = m - j
      BY <1>0
    <3>4. \A i \in 1..(m - j) : (j + 1) + i - 1 = j + i
      BY <1>0
    <3> QED
      BY <3>2, <3>3, <3>4
  <2> HIDE DEF u, v
  <2>3. x \in Seq(Keys) /\ Len(x) = m - 1
        /\ \A i \in 1..(m - 1) : x[i] = IF i <= j - 1 THEN u[i] ELSE v[i - (j - 1)]
    <3> HIDE DEF m
    <3>1. Len(u) + Len(v) = m - 1
      BY <1>0, <2>1, <2>2
    <3>2. /\ x \in Seq(Keys) /\ Len(x) = Len(u) + Len(v)
          /\ \A i \in 1..(Len(u) + Len(v)) : x[i] = IF i <= Len(u) THEN u[i] ELSE v[i - Len(u)]
      BY <2>1, <2>2, ConcatProperties
    <3> HIDE DEF x
    <3> QED
      BY <2>1, <3>1, <3>2
  <2> HIDE DEF x
  <2>4. x = [i \in 1..(m - 1) |-> x[i]]
    BY <2>3
  <2>5. \A i \in 1..(m - 1) : x[i] = IF i < j THEN q[i] ELSE q[i + 1]
    BY <1>0, <2>1, <2>2, <2>3
  <2>6. x = CutSeq(q, m, j)
    BY <2>4, <2>5 DEF CutSeq
  <2> QED
    BY <2>6 DEF Lru!RemoveAt, x, u, v
<1>3. ASSUME m # 0 PROVE Lru!Front(q) = CutSeq(q, m, m)
  <2> DEFINE x == SubSeq(q, 1, m - 1)
  <2>1. x \in Seq(Keys) /\ Len(x) = m - 1 /\ \A i \in 1..(m - 1) : x[i] = q[i]
    BY <1>0, <1>3
  <2> HIDE DEF x
  <2>2. x = [i \in 1..(m - 1) |-> x[i]]
    BY <2>1
  <2>3. x = CutSeq(q, m, m)
    BY <1>0, <2>1, <2>2 DEF CutSeq
  <2> QED
    BY <2>3 DEF Lru!Front, x
<1> QED
  BY <1>1, <1>2, <1>3

(* The keys of the chain s. *)
KeysOf(tp, s, m) == [i \in 1..m |-> tp[s[i]]]

(* order is the keys of the chain. *)
LEMMA OrderIs ==
    ASSUME IInv, NEW s, Ordered(s)
    PROVE  /\ order = KeysOf(tuple, s, current_size)
           /\ order \in Seq(Keys) /\ Len(order) = current_size
<1>1. /\ current_size \in Nat /\ current_size <= Cardinality(Blocks) /\ Cardinality(Blocks) \in Nat
      /\ \A i \in 1..current_size : Walk(head, lru_next)[i] = s[i]
  <2>1. /\ Cardinality(Blocks) \in Nat /\ current_size \in 0..Cardinality(Blocks)
        /\ Walk(head, lru_next) = [i \in 1..Cardinality(Blocks) |-> IF i <= current_size THEN s[i] ELSE NULL]
    BY WalksOf
  <2> QED
    BY <2>1
<1>2. order = KeysOf(tuple, s, current_size)
  BY <1>1 DEF order, KeysOf
<1>3. \A i \in 1..current_size : tuple[s[i]] \in Keys
  BY DEF Ordered, Chain, Live, IInv, TypeOK
<1>4. order \in [1..current_size -> Keys]
  BY <1>2, <1>3 DEF KeysOf
<1> QED
  BY <1>1, <1>2, <1>4

(* The same after a step. *)
LEMMA OrderIsNext ==
    ASSUME NEW s
    PROVE  (IInv /\ Ordered(s) => order = KeysOf(tuple, s, current_size))'
<1>1. IInv /\ Ordered(s) => order = KeysOf(tuple, s, current_size)
  BY OrderIs
<1> QED
  BY <1>1, PTL

(* Removing the j-th block and its key come to the same. *)
LEMMA KeysCut ==
    ASSUME NEW tp, NEW tq, NEW s, NEW m \in Nat, NEW j \in 1..m,
           \A i \in 1..m : i # j => tq[s[i]] = tp[s[i]]
    PROVE  KeysOf(tq, CutSeq(s, m, j), m - 1) = CutSeq(KeysOf(tp, s, m), m, j)
<1>1. \A i \in 1..(m - 1) : /\ i < j => CutSeq(s, m, j)[i] = s[i] /\ i \in 1..m /\ i # j
                            /\ i >= j => CutSeq(s, m, j)[i] = s[i + 1] /\ i + 1 \in 1..m /\ i + 1 # j
  BY DEF CutSeq
<1>2. \A i \in 1..m : KeysOf(tp, s, m)[i] = tp[s[i]]
  BY DEF KeysOf
<1>3. \A i \in 1..(m - 1) : CutSeq(KeysOf(tp, s, m), m, j)[i] = tq[CutSeq(s, m, j)[i]]
  <2> TAKE i \in 1..(m - 1)
  <2>1. CutSeq(KeysOf(tp, s, m), m, j)[i] = IF i < j THEN KeysOf(tp, s, m)[i] ELSE KeysOf(tp, s, m)[i + 1]
    BY DEF CutSeq
  <2> QED
    BY <1>1, <1>2, <2>1
<1>4. CutSeq(KeysOf(tp, s, m), m, j) = [i \in 1..(m - 1) |-> CutSeq(KeysOf(tp, s, m), m, j)[i]]
  BY DEF CutSeq
<1> QED
  BY <1>3, <1>4 DEF KeysOf

(* So do putting a block and its key in front. *)
LEMMA KeysLink ==
    ASSUME NEW tp, NEW tq, NEW s, NEW m \in Nat, NEW e, NEW k, tq[e] = k,
           \A i \in 1..m : tq[s[i]] = tp[s[i]]
    PROVE  KeysOf(tq, LinkSeq(s, m, e), m + 1) = LinkSeq(KeysOf(tp, s, m), m, k)
<1>1. LinkSeq(s, m, e)[1] = e /\ \A i \in 1..(m + 1) : i # 1 => LinkSeq(s, m, e)[i] = s[i - 1] /\ i - 1 \in 1..m
  BY DEF LinkSeq
<1>2. \A i \in 1..m : KeysOf(tp, s, m)[i] = tp[s[i]]
  BY DEF KeysOf
<1>3. \A i \in 1..(m + 1) : LinkSeq(KeysOf(tp, s, m), m, k)[i] = tq[LinkSeq(s, m, e)[i]]
  <2> TAKE i \in 1..(m + 1)
  <2>1. LinkSeq(KeysOf(tp, s, m), m, k)[i] = IF i = 1 THEN k ELSE KeysOf(tp, s, m)[i - 1]
    BY DEF LinkSeq
  <2> QED
    BY <1>1, <1>2, <2>1
<1>4. LinkSeq(KeysOf(tp, s, m), m, k) = [i \in 1..(m + 1) |-> LinkSeq(KeysOf(tp, s, m), m, k)[i]]
  BY DEF LinkSeq
<1> QED
  BY <1>3, <1>4 DEF KeysOf

(* Removing an entry drops its key (lru_cache.c:231-249, 311-330). *)
LEMMA UnlinkDrops ==
    ASSUME IInv, IInv', NEW e \in Live, Unlink(e), NEW s, Ordered(s)
    PROVE  \E k \in Keys : Lru!Drop(k)
<1>1. PICK j \in 1..current_size : \E c : s[j] = e /\ c = CutSeq(s, current_size, j) /\ Ordered(c)'
  BY OrderedUnlink
<1>2. PICK c : s[j] = e /\ c = CutSeq(s, current_size, j) /\ Ordered(c)'
  BY <1>1
<1>3. /\ order = KeysOf(tuple, s, current_size) /\ order \in Seq(Keys) /\ Len(order) = current_size
      /\ current_size \in Nat /\ tuple \in [Blocks -> Keys \cup {NULL}]
  BY OrderIs DEF IInv, TypeOK
<1>4. order' = KeysOf(tuple', c, current_size')
  BY <1>2, OrderIsNext DEF KeysOf
<1>5. current_size' = current_size - 1 /\ tuple' = [tuple EXCEPT ![e] = NULL]
  BY DEF Unlink
<1>6. \A i \in 1..current_size : i # j => tuple'[s[i]] = tuple[s[i]]
  BY <1>2, <1>3, <1>5 DEF Ordered, Chain, Live
<1>7. order' = CutSeq(order, current_size, j)
  <2>1. current_size \in Nat
    BY <1>3
  <2>2. KeysOf(tuple', CutSeq(s, current_size, j), current_size - 1)
        = CutSeq(KeysOf(tuple, s, current_size), current_size, j)
    BY <1>6, <2>1, KeysCut
  <2> QED
    BY <1>2, <1>3, <1>4, <1>5, <2>2
<1>8. tuple[e] \in Keys /\ order[j] = tuple[e]
  BY <1>2, <1>3 DEF KeysOf, Live
<1>9. order' = Lru!RemoveAt(order, j)
  BY <1>3, <1>7, <1>8, SeqOps
<1>10. Lru!Drop(tuple[e])
  BY <1>3, <1>8, <1>9 DEF Lru!Drop
<1> QED
  BY <1>8, <1>10

(* A hit moves the key to the front (lru_cache.c:78-109). *)
LEMMA MoveTouches ==
    ASSUME IInv, IInv', NEW e \in Live, lru_move_to_head(e), NEW s, Ordered(s),
           \A b \in Live : last_seen[b] <= now, last_seen' = [last_seen EXCEPT ![e] = now],
           tuple' = tuple, current_size' = current_size
    PROVE  order' = order \/ \E k \in Keys : Lru!Touch(k)
<1> DEFINE m == current_size
           k == tuple[e]
<1>1. PICK c : /\ Ordered(c)'
               /\ \/ c = s /\ s[1] = e
                  \/ \E j \in 1..m : s[j] = e /\ c = LinkSeq(CutSeq(s, m, j), m - 1, e)
  BY OrderedMove
<1>2. /\ order = KeysOf(tuple, s, m) /\ order \in Seq(Keys) /\ Len(order) = m
      /\ m \in Nat /\ tuple \in [Blocks -> Keys \cup {NULL}] /\ k \in Keys
  BY OrderIs DEF IInv, TypeOK, Live
<1>3. order' = KeysOf(tuple, c, m)
  BY <1>1, OrderIsNext DEF KeysOf
<1>4. CASE c = s
  BY <1>2, <1>3, <1>4
<1>5. ASSUME NEW j \in 1..m, s[j] = e, c = LinkSeq(CutSeq(s, m, j), m - 1, e)
      PROVE  Lru!Touch(k)
  <2> DEFINE d == CutSeq(s, m, j)
             q == CutSeq(order, m, j)
  <2>1. KeysOf(tuple, d, m - 1) = q
    BY <1>2, KeysCut
  <2>2. m - 1 \in Nat /\ (m - 1) + 1 = m
    BY <1>2
  <2>3. KeysOf(tuple, LinkSeq(d, m - 1, e), (m - 1) + 1) = LinkSeq(KeysOf(tuple, d, m - 1), m - 1, k)
    BY <2>2, KeysLink
  <2>4. order' = LinkSeq(q, m - 1, k)
    BY <1>3, <1>5, <2>1, <2>2, <2>3
  <2>5. q = Lru!RemoveAt(order, j) /\ order[j] = k
    BY <1>2, <1>5, SeqOps DEF KeysOf
  <2>6. q \in Seq(Keys) /\ Len(q) = m - 1
    <3>1. q \in [1..(m - 1) -> Keys]
      BY <1>2 DEF CutSeq
    <3> QED
      BY <2>2, <3>1
  <2> HIDE DEF q, d
  <2>7. order' = <<k>> \o q
    BY <1>2, <2>4, <2>6, SeqOps
  <2>8. j \in DOMAIN order
    BY <1>2
  <2>9. order' = <<k>> \o Lru!RemoveAt(order, j)
    BY <2>5, <2>7
  <2> HIDE DEF k
  <2> QED
    BY <2>5, <2>8, <2>9 DEF Lru!Touch
<1> QED
  BY <1>1, <1>2, <1>4, <1>5

(* A miss puts the key in front, and drops the last one exactly when the    *)
(* cache is full (lru_cache.c:158-194).                                     *)
LEMMA MissInserts ==
    ASSUME IInv, IInv', NEW k \in Keys, NEW b \in Blocks, b \notin Live, table[k] = NULL, NEW s, Ordered(s),
           \A a \in Live : last_seen[a] <= now, InsertRoom(k, b) \/ InsertEvict(k, b)
    PROVE  Lru!Insert(k)
<1> DEFINE m == current_size
<1>1. PICK c : /\ Ordered(c)'
               /\ \/ m < MaxSize /\ c = LinkSeq(s, m, b)
                  \/ m >= MaxSize /\ c = LinkSeq(CutSeq(s, m, m), m - 1, b)
  BY OrderedMiss
<1>2. /\ order = KeysOf(tuple, s, m) /\ order \in Seq(Keys) /\ Len(order) = m /\ MaxSize \in Nat \ {0}
      /\ m \in Nat /\ tuple \in [Blocks -> Keys \cup {NULL}] /\ TableOK
      /\ ListOK(Live, lru_prev, lru_next, head, tail)
      /\ s \in [1..m -> Live] /\ (m # 0 => s[m] = tail) /\ \A i, j \in 1..m : s[i] = s[j] => i = j
  BY OrderIs, LinkedIsList, LruAssumption DEF IInv, TypeOK, Ordered, Chain
<1>3. order' = KeysOf(tuple', c, current_size')
  BY <1>1, OrderIsNext DEF KeysOf
<1>4. ~Lru!Cached(k)
  <2>1. \A i \in 1..m : order[i] # k
    <3> SUFFICES ASSUME NEW i \in 1..m, order[i] = k PROVE FALSE
      OBVIOUS
    <3>1. s[i] \in Live /\ tuple[s[i]] = k
      BY <1>2 DEF KeysOf
    <3>2. table[k] = s[i] /\ s[i] # NULL
      BY <1>2, <3>1, LruAssumption DEF TableOK, Live
    <3> QED
      BY <3>2
  <2>2. DOMAIN order = 1..m
    BY <1>2
  <2> QED
    BY <2>1, <2>2 DEF Lru!Cached, Lru!ToSet
<1>5. CASE m < MaxSize
  <2>1. InsertRoom(k, b) /\ c = LinkSeq(s, m, b)
    BY <1>1, <1>2, <1>5 DEF InsertEvict
  <2>2. current_size' = m + 1 /\ tuple' = [tuple EXCEPT ![b] = k]
    BY <2>1 DEF InsertRoom
  <2>3. tuple'[b] = k /\ \A i \in 1..m : tuple'[s[i]] = tuple[s[i]]
    BY <1>2, <2>2
  <2>4. order' = LinkSeq(order, m, k)
    <3>1. m \in Nat
      BY <1>2
    <3>2. KeysOf(tuple', LinkSeq(s, m, b), m + 1) = LinkSeq(KeysOf(tuple, s, m), m, k)
      BY <2>3, <3>1, KeysLink
    <3> QED
      BY <1>2, <1>3, <2>1, <2>2, <3>2
  <2>5. order' = <<k>> \o order
    BY <1>2, <2>4, SeqOps
  <2> QED
    BY <1>2, <1>4, <1>5, <2>5 DEF Lru!Insert
<1>6. CASE m >= MaxSize
  <2> DEFINE d == CutSeq(s, m, m)
             q == CutSeq(order, m, m)
  <2>1. InsertEvict(k, b) /\ c = LinkSeq(d, m - 1, b) /\ m # 0
    BY <1>1, <1>2, <1>6 DEF InsertRoom
  <2>2. current_size' = m /\ tuple' = [tuple EXCEPT ![tail] = NULL, ![b] = k] /\ tail \in Live
    BY <1>2, <2>1 DEF InsertEvict
  <2>3. m \in 1..m /\ m - 1 \in Nat /\ (m - 1) + 1 = m
    BY <1>2, <2>1
  <2>4. tuple'[b] = k /\ \A i \in 1..m : i # m => tuple'[s[i]] = tuple[s[i]]
    BY <1>2, <2>1, <2>2, <2>3 DEF Live
  <2>5. KeysOf(tuple', d, m - 1) = q
    <3>1. m \in Nat
      BY <1>2
    <3>2. KeysOf(tuple', CutSeq(s, m, m), m - 1) = CutSeq(KeysOf(tuple, s, m), m, m)
      BY <2>3, <2>4, <3>1, KeysCut
    <3> QED
      BY <1>2, <3>2
  <2>6. KeysOf(tuple', LinkSeq(d, m - 1, b), (m - 1) + 1) = LinkSeq(KeysOf(tuple', d, m - 1), m - 1, k)
    BY <2>3, <2>4, KeysLink
  <2>7. order' = LinkSeq(q, m - 1, k)
    BY <1>3, <2>1, <2>2, <2>3, <2>5, <2>6
  <2>8. q = Lru!Front(order)
    BY <1>2, <2>1, SeqOps
  <2>9. q \in Seq(Keys) /\ Len(q) = m - 1
    <3>1. q \in [1..(m - 1) -> Keys]
      BY <1>2 DEF CutSeq
    <3> QED
      BY <2>3, <3>1
  <2> HIDE DEF q, d
  <2>10. order' = <<k>> \o q
    BY <2>7, <2>9, SeqOps
  <2> QED
    BY <1>2, <1>4, <1>6, <2>8, <2>10 DEF Lru!Insert
<1> QED
  BY <1>2, <1>5, <1>6

(* What lru_cache.c does with pointers, table and heap is what LruSpec      *)
(* promises about the order of keys, for every capacity, heap and           *)
(* interleaving of the packet thread and the cleanup thread.                *)
THEOREM RefinementCorrect == Spec => ImplementsLru
<1>1. Init => Lru!Init
  <2> SUFFICES ASSUME Init PROVE order = <<>>
    BY DEF Lru!Init
  <2>1. current_size = 0
    BY DEF Init
  <2> QED
    BY <2>1 DEF order
<1>2. IInv /\ IInv' /\ OrderInv /\ [Next]_vars => [Lru!Next]_order
  <2> SUFFICES ASSUME IInv, IInv', OrderInv, [Next]_vars
               PROVE  order' = order \/ Lru!Next
    OBVIOUS
  <2>0. PICK s : Ordered(s)
    BY DEF OrderInv
  <2>1. SweepOnLiveEntry /\ TableOK /\ table \in [Keys -> Blocks \cup {NULL}] /\ NULL \notin Keys
        /\ \A b \in Live : last_seen[b] <= now
    BY LinkedIsList, LruAssumption DEF IInv, TypeOK, OrderInv
  <2>2. ASSUME NEW k \in Keys, GetHit(k) PROVE order' = order \/ Lru!Next
    <3>1. table[k] \in Live
      BY <2>1, <2>2 DEF GetHit, TableOK, Live
    <3> QED
      BY <2>0, <2>1, <2>2, <3>1, MoveTouches DEF GetHit, Lru!Next
  <2>3. ASSUME Update PROVE order' = order \/ Lru!Next
    BY <2>0, <2>1, <2>3, MoveTouches DEF Update, Lru!Next
  <2>4. ASSUME NEW k \in Keys, NEW b \in Blocks, GetMiss(k, b) PROVE Lru!Next
    <3>1. b \notin Live /\ table[k] = NULL /\ (InsertRoom(k, b) \/ InsertEvict(k, b))
      BY <2>4 DEF GetMiss, Miss
    <3>2. Lru!Insert(k)
      BY <2>0, <2>1, <3>1, MissInserts
    <3> QED
      BY <3>2 DEF Lru!Next
  <2>5. ASSUME RemoveConn \/ SweepUnlink PROVE Lru!Next
    <3>1. (held \in Live /\ Unlink(held)) \/ (cursor \in Live /\ Unlink(cursor))
      BY <2>1, <2>5 DEF RemoveConn, Slowloris, SweepUnlink, SweepOnLiveEntry
    <3>2. \E k \in Keys : Lru!Drop(k)
      BY <2>0, <3>1, UnlinkDrops
    <3> QED
      BY <3>2 DEF Lru!Next
  <2>6. ASSUME \/ Return \/ UseAfterFree \/ RemoveConnAbort \/ SweepAbort \/ Tick \/ Destroy \/ Wake
               \/ SweepBegin \/ SweepCheck \/ SweepEnd \/ (\E k \in Keys : GetMissAbort(k))
               \/ (\E flag \in Flags : UpdateConn(flag)) \/ UNCHANGED vars
        PROVE  order' = order
    <3>1. UNCHANGED <<tuple, lru_next, head, current_size>>
      BY <2>6 DEF Return, UseAfterFree, RemoveConnAbort, SweepAbort, Tick, Destroy, Wake, SweepBegin,
                  SweepCheck, SweepEnd, GetMissAbort, Abort, UpdateConn, vars, links
    <3> QED
      BY <3>1 DEF order, Walk
  <2> QED
    BY <2>2, <2>3, <2>4, <2>5, <2>6 DEF Next, PacketThread, CleanupThread
<1>3. Spec => [](IInv /\ OrderInv)
  BY OrderInit, OrderInductive, IInvCorrect, PTL DEF Spec
<1>4. Spec => Lru!Spec
  BY <1>1, <1>2, <1>3, PTL DEF Spec, Lru!Spec
<1> QED
  BY <1>4 DEF ImplementsLru
=============================================================================
