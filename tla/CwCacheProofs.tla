--------------------------- MODULE CwCacheProofs ---------------------------
(***************************************************************************)
(* Proofs about CwCache, for any heap, capacity, channels and words: the   *)
(* doubly linked list stays a list, a channel has one valid entry at most, *)
(* and the cache implements the abstract store CwStore.                    *)
(***************************************************************************)
EXTENDS CwCache, FiniteSetTheorems, TLAPS

-----------------------------------------------------------------------------
(* What a loop visits: a set closed under its walk, and the least one.     *)

List == [head : Pointer, tail : Pointer,
         prev : [Node -> Pointer], next : [Node -> Pointer]]

\* A loop over the list visits the head, and the successor of what it goes
\* on from; and nothing that some closed set lacks.
LEMMA VisitedLeast ==
  ASSUME NEW l \in List, NEW Stop
  PROVE  /\ Visited(l, Stop) \subseteq Node
         /\ ClosedUnderWalk(l, Stop, Visited(l, Stop))
         /\ \A R \in SUBSET Node :
               ClosedUnderWalk(l, Stop, R) => Visited(l, Stop) \subseteq R
<1>1. l.head \in Pointer /\ \A n \in Node : l.next[n] \in Pointer
  BY DEF List
<1>2. \A n : n \in Visited(l, Stop) <=>
         /\ n \in Node
         /\ \A R \in SUBSET Node : ClosedUnderWalk(l, Stop, R) => n \in R
  BY DEF Visited
<1>3. l.head # Null => l.head \in Visited(l, Stop)
  BY <1>1, <1>2 DEF ClosedUnderWalk, Pointer
<1>4. \A n \in Visited(l, Stop) \ Stop :
         l.next[n] # Null => l.next[n] \in Visited(l, Stop)
  BY <1>1, <1>2 DEF ClosedUnderWalk, Pointer
<1>5. QED BY <1>2, <1>3, <1>4 DEF ClosedUnderWalk

\* To show that all of A is visited: every closed set contains it.
LEMMA AllVisited ==
  ASSUME NEW l \in List, NEW A \in SUBSET Node, ClosedUnderWalk(l, {}, A),
         \A R \in SUBSET Node : ClosedUnderWalk(l, {}, R) => A \subseteq R
  PROVE  Visited(l, {}) = A
BY VisitedLeast

\* A closed set contains every entry of the list.
LEMMA ListCovered ==
  ASSUME NEW l \in List, NEW A \in SUBSET Node, ListOf(l, A),
         NEW R \in SUBSET Node, ClosedUnderWalk(l, {}, R)
  PROVE  A \subseteq R
BY VisitedLeast DEF ListOf

\* No entry is its own neighbour, and the only entry without neighbours is
\* alone.
LEMMA Neighbours ==
  ASSUME NEW l \in List, NEW A \in SUBSET Node, ListOf(l, A), NEW n \in A
  PROVE  /\ l.next[n] # n /\ l.prev[n] # n
         /\ l.next[n] = Null /\ l.prev[n] = Null => A = {n}
<1>1. ASSUME l.next[n] = n PROVE FALSE
  <2>1. ClosedUnderWalk(l, {}, A \ {n})
    BY <1>1, CacheAssumption DEF ListOf, ClosedUnderWalk
  <2>2. QED BY <2>1, ListCovered
<1>2. ASSUME l.next[n] = Null, l.prev[n] = Null PROVE A = {n}
  <2>1. ClosedUnderWalk(l, {}, {n})
    BY <1>2 DEF ListOf, ClosedUnderWalk
  <2>2. QED BY <2>1, ListCovered
<1>3. QED BY <1>1, <1>2 DEF ListOf

-----------------------------------------------------------------------------
(* The two operations on the list. *)

LEMMA UnlinkFields ==
  ASSUME NEW l \in List, NEW n \in Node
  PROVE  /\ Unlink(l, n) \in List
         /\ Unlink(l, n).head = IF l.prev[n] = Null THEN l.next[n] ELSE l.head
         /\ Unlink(l, n).tail = IF l.next[n] = Null THEN l.prev[n] ELSE l.tail
         /\ \A m \in Node :
              /\ Unlink(l, n).next[m] = IF m = n THEN Null
                                        ELSE IF m = l.prev[n] THEN l.next[n]
                                        ELSE l.next[m]
              /\ Unlink(l, n).prev[m] = IF m = n THEN Null
                                        ELSE IF m = l.next[n] THEN l.prev[n]
                                        ELSE l.prev[m]
BY DEF List, Unlink, Pointer

LEMMA PushFields ==
  ASSUME NEW l \in List, NEW n \in Node
  PROVE  /\ PushHead(l, n) \in List
         /\ PushHead(l, n).head = n
         /\ PushHead(l, n).tail = IF l.tail = Null THEN n ELSE l.tail
         /\ \A m \in Node :
              /\ PushHead(l, n).next[m] = IF m = n THEN l.head ELSE l.next[m]
              /\ PushHead(l, n).prev[m] = IF m = n THEN Null
                                          ELSE IF m = l.head THEN n
                                          ELSE l.prev[m]
BY DEF List, PushHead, Pointer

\* cache_unlink (cache.c:47) takes one entry out of the list and leaves the
\* others a list, wherever the entry was.
LEMMA Unlinked ==
  ASSUME NEW l \in List, NEW A \in SUBSET Node, ListOf(l, A), NEW n \in A
  PROVE  Unlink(l, n) \in List /\ ListOf(Unlink(l, n), A \ {n})
<1> DEFINE k == Unlink(l, n)
           p == l.prev[n]
           x == l.next[n]
           B == A \ {n}
<1> HIDE DEF k
<1>1. /\ k \in List
      /\ k.head = IF p = Null THEN x ELSE l.head
      /\ k.tail = IF x = Null THEN p ELSE l.tail
      /\ \A m \in B : /\ k.next[m] = IF m = p THEN x ELSE l.next[m]
                      /\ k.prev[m] = IF m = x THEN p ELSE l.prev[m]
  BY UnlinkFields DEF k
<1>2. /\ p \in B \cup {Null} /\ x \in B \cup {Null}
      /\ p = Null <=> n = l.head
      /\ x = Null <=> n = l.tail
      /\ x = Null /\ p = Null => A = {n}
      /\ Null \notin A
  BY Neighbours, CacheAssumption DEF ListOf
<1>3. /\ A # {} /\ l.head \in A /\ l.tail \in A
      /\ \A m \in A : /\ l.prev[m] \in A \cup {Null}
                      /\ l.prev[m] = Null <=> m = l.head
                      /\ l.next[m] \in A \cup {Null}
                      /\ l.next[m] = Null <=> m = l.tail
      /\ \A m, q \in A : l.next[m] = q <=> l.prev[q] = m
  BY DEF ListOf
<1>4. \A m \in B : (l.next[m] = n <=> m = p) /\ (l.prev[m] = n <=> m = x)
  BY <1>2, <1>3
<1>5. /\ B = {} => k.head = Null /\ k.tail = Null
      /\ B # {} => k.head \in B /\ k.tail \in B
  BY <1>1, <1>2, <1>3
<1>6. \A m \in B : /\ k.prev[m] \in B \cup {Null}
                   /\ k.prev[m] = Null <=> m = k.head
                   /\ k.next[m] \in B \cup {Null}
                   /\ k.next[m] = Null <=> m = k.tail
  BY <1>1, <1>2, <1>3, <1>4
<1>7. \A m, q \in B : k.next[m] = q <=> k.prev[q] = m
  BY <1>1, <1>2, <1>3, <1>4
<1>8. ClosedUnderWalk(k, {}, B)
  BY <1>5, <1>6 DEF ClosedUnderWalk
<1>9. ASSUME NEW R \in SUBSET Node, ClosedUnderWalk(k, {}, R) PROVE B \subseteq R
  <2> DEFINE S == (R \cap B) \cup (IF p = Null \/ p \in R THEN {n} ELSE {})
  <2>1. /\ k.head \in R \cup {Null}
        /\ \A m \in R : k.next[m] \in R \cup {Null}
    BY <1>9 DEF ClosedUnderWalk
  <2>2. CASE p = Null
    <3>1. x \in R \cup {Null} BY <1>1, <2>1, <2>2
    <3>2. l.head \in S BY <1>2, <2>2
    <3>3. l.next[n] \in S \cup {Null} BY <1>2, <3>1
    <3>4. \A m \in R \cap B : l.next[m] \in S \cup {Null}
      BY <1>1, <1>2, <1>3, <2>1, <2>2
    <3>5. ClosedUnderWalk(l, {}, S) BY <2>2, <3>2, <3>3, <3>4 DEF ClosedUnderWalk
    <3>6. QED BY <3>5, ListCovered
  <2>3. CASE p # Null
    <3>1. l.head \in S BY <1>1, <1>2, <1>3, <2>1, <2>3
    <3>2. \A m \in R \cap B : l.next[m] \in S \cup {Null}
      BY <1>1, <1>2, <1>3, <1>4, <2>1, <2>3
    <3>3. p \in R => l.next[n] \in S \cup {Null}
      BY <1>1, <1>2, <2>1, <2>3
    <3>4. ClosedUnderWalk(l, {}, S) BY <2>3, <3>1, <3>2, <3>3 DEF ClosedUnderWalk
    <3>5. QED BY <3>4, ListCovered
  <2>4. QED BY <2>2, <2>3
<1>10. Visited(k, {}) = B BY <1>1, <1>8, <1>9, AllVisited
<1>11. QED BY <1>1, <1>5, <1>6, <1>7, <1>10 DEF ListOf, k

\* The insertion at the head (cache.c:165) of an entry that is not in the
\* list makes it the first and keeps the others.
LEMMA Pushed ==
  ASSUME NEW l \in List, NEW A \in SUBSET Node, ListOf(l, A), NEW n \in Node \ A
  PROVE  PushHead(l, n) \in List /\ ListOf(PushHead(l, n), A \cup {n})
<1> DEFINE k == PushHead(l, n)
           B == A \cup {n}
<1> HIDE DEF k
<1>1. /\ k \in List
      /\ k.head = n
      /\ k.tail = IF l.tail = Null THEN n ELSE l.tail
      /\ k.next[n] = l.head /\ k.prev[n] = Null
      /\ \A m \in A : /\ k.next[m] = l.next[m]
                      /\ k.prev[m] = IF m = l.head THEN n ELSE l.prev[m]
  BY PushFields DEF k
<1>2. /\ A = {} => l.head = Null /\ l.tail = Null
      /\ A # {} => l.head \in A /\ l.tail \in A
      /\ \A m \in A : /\ l.prev[m] \in A \cup {Null}
                      /\ l.prev[m] = Null <=> m = l.head
                      /\ l.next[m] \in A \cup {Null}
                      /\ l.next[m] = Null <=> m = l.tail
      /\ \A m, q \in A : l.next[m] = q <=> l.prev[q] = m
      /\ Null \notin Node
  BY CacheAssumption DEF ListOf
<1>3. k.head \in B /\ k.tail \in B BY <1>1, <1>2
<1>4. \A m \in B : /\ k.prev[m] \in B \cup {Null}
                   /\ k.prev[m] = Null <=> m = k.head
                   /\ k.next[m] \in B \cup {Null}
                   /\ k.next[m] = Null <=> m = k.tail
  BY <1>1, <1>2
<1>5. \A m, q \in B : k.next[m] = q <=> k.prev[q] = m
  BY <1>1, <1>2
<1>6. ClosedUnderWalk(k, {}, B) BY <1>3, <1>4 DEF ClosedUnderWalk
<1>7. ASSUME NEW R \in SUBSET Node, ClosedUnderWalk(k, {}, R) PROVE B \subseteq R
  <2>1. n \in R /\ l.head \in R \cup {Null}
    BY <1>1, <1>2, <1>7 DEF ClosedUnderWalk
  <2>2. ClosedUnderWalk(l, {}, R \cap A)
    BY <1>1, <1>2, <1>7, <2>1 DEF ClosedUnderWalk
  <2>3. QED BY <2>1, <2>2, ListCovered
<1>8. Visited(k, {}) = B BY <1>1, <1>6, <1>7, AllVisited
<1>9. QED BY <1>1, <1>3, <1>4, <1>5, <1>8 DEF ListOf, k

\* cache_move_to_head (cache.c:57) keeps the entries of the list.
LEMMA Moved ==
  ASSUME NEW l \in List, NEW A \in SUBSET Node, ListOf(l, A), NEW n \in A
  PROVE  MoveToHead(l, n) \in List /\ ListOf(MoveToHead(l, n), A)
<1>1. CASE l.head = n BY <1>1 DEF MoveToHead
<1>2. CASE l.head # n
  <2>1. Unlink(l, n) \in List /\ ListOf(Unlink(l, n), A \ {n}) BY Unlinked
  <2>2. (A \ {n}) \cup {n} = A /\ n \in Node \ (A \ {n}) /\ A \ {n} \in SUBSET Node
    OBVIOUS
  <2>3. QED BY <1>2, <2>1, <2>2, Pushed DEF MoveToHead
<1>3. QED BY <1>1, <1>2

-----------------------------------------------------------------------------
(* The inductive invariant.  A cleaning that does not hold the lock stands *)
(* at no entry, so that what others free is never its current one; it only *)
(* frees what has expired by now; and a disabled cache stays empty.        *)

IInv ==
    /\ ListWellFormed
    /\ OneValidPerChannel
    /\ ~wrlocked => current = Null
    /\ cnow <= clock
    /\ ~g_cache_enabled => Alloc = {}

\* A search (cache.c:127, 196, 231) finds an entry that matches if there is
\* one: a loop that returned at none would have visited the whole list.
LEMMA SearchFinds ==
  ASSUME ListWellFormed, NEW ch
  PROVE  /\ FirstMatch(ch) # Null => FirstMatch(ch) \in Matches(ch)
         /\ FirstMatch(ch) = Null => Matches(ch) = {}
<1> DEFINE V == Visited(list, Matches(ch))
<1>1. list \in List /\ Alloc \in SUBSET Node /\ ListOf(list, Alloc)
  BY DEF ListWellFormed, TypeOK, List
<1>2. Null \notin Matches(ch) /\ Matches(ch) \subseteq Alloc
  BY <1>1, CacheAssumption DEF Matches
<1>3. V \cap Matches(ch) = {} => Matches(ch) = {}
  <2>1. V \in SUBSET Node /\ ClosedUnderWalk(list, Matches(ch), V)
    BY <1>1, VisitedLeast
  <2>2. V \cap Matches(ch) = {} => ClosedUnderWalk(list, {}, V)
    BY <2>1 DEF ClosedUnderWalk
  <2>3. V \cap Matches(ch) = {} => Alloc \subseteq V
    BY <1>1, <2>1, <2>2, ListCovered
  <2>4. QED BY <1>2, <2>3
<1>4. QED BY <1>2, <1>3 DEF FirstMatch

\* The allocated entries are finitely many, and freeing one is one less.
LEMMA Counted ==
  ASSUME ListWellFormed
  PROVE  /\ IsFiniteSet(Alloc) /\ Cardinality(Alloc) \in Nat
         /\ \A n \in Alloc : /\ Cardinality(Alloc \ {n}) = Cardinality(Alloc) - 1
                             /\ Cardinality(Alloc) >= 1
<1>1. IsFiniteSet(Alloc)
  BY CacheAssumption, FS_Subset DEF ListWellFormed, TypeOK
<1>2. Cardinality(Alloc) \in Nat BY <1>1, FS_CardinalityType
<1>3. ASSUME NEW n \in Alloc
      PROVE  /\ Cardinality(Alloc \ {n}) = Cardinality(Alloc) - 1
             /\ Cardinality(Alloc) >= 1
  <2>1. IsFiniteSet(Alloc \ {n}) /\ Cardinality(Alloc \ {n}) = Cardinality(Alloc) - 1
    BY <1>1, FS_RemoveElement
  <2>2. Cardinality(Alloc \ {n}) \in Nat BY <2>1, FS_CardinalityType
  <2>3. QED BY <1>2, <2>1, <2>2
<1>4. QED BY <1>1, <1>2, <1>3

\* cache_evict_lru (cache.c:66, 144) makes room for one entry, and one
\* eviction is enough.
LEMMA RoomMade ==
  ASSUME ListWellFormed
  PROVE  /\ WithRoom \in List /\ ListOf(WithRoom, Alloc \ Evicted)
         /\ Evicted \subseteq Alloc
         /\ IsFiniteSet(Alloc \ Evicted)
         /\ Cardinality(Alloc \ Evicted) = g_cache_entries - Cardinality(Evicted)
         /\ g_cache_entries - Cardinality(Evicted) \in 0..(MaxEntries - 1)
<1>1. /\ list \in List /\ Alloc \in SUBSET Node /\ ListOf(list, Alloc)
      /\ g_cache_entries = Cardinality(Alloc)
      /\ g_cache_entries \in 0..MaxEntries /\ MaxEntries \in Nat \ {0}
  BY CacheAssumption DEF ListWellFormed, TypeOK, List
<1>2. IsFiniteSet(Alloc) BY Counted
<1>3. CASE Evicts
  <2>1. list.tail \in Alloc BY <1>1, <1>3 DEF Evicts, ListOf
  <2>2. Evicted = {list.tail} /\ Cardinality(Evicted) = 1
    BY <1>3, FS_Singleton DEF Evicted
  <2>3. WithRoom = Unlink(list, list.tail) BY <1>3 DEF WithRoom
  <2>4. /\ IsFiniteSet(Alloc \ {list.tail})
        /\ Cardinality(Alloc \ {list.tail}) = Cardinality(Alloc) - 1
    BY <1>2, <2>1, FS_RemoveElement
  <2>5. WithRoom \in List /\ ListOf(WithRoom, Alloc \ Evicted)
    BY <1>1, <2>1, <2>2, <2>3, Unlinked
  <2>6. Cardinality(Alloc) >= 1 BY <2>1, Counted
  <2>7. QED BY <1>1, <2>1, <2>2, <2>4, <2>5, <2>6
<1>4. CASE ~Evicts
  <2>1. Evicted = {} /\ Cardinality(Evicted) = 0 /\ WithRoom = list /\ Alloc \ Evicted = Alloc
    BY <1>4, FS_EmptySet DEF Evicted, WithRoom
  <2>2. g_cache_entries # MaxEntries
    <3>1. Alloc = {} => Cardinality(Alloc) = 0 BY FS_EmptySet
    <3>2. Alloc # {} => list.tail # Null BY <1>1, CacheAssumption DEF ListOf
    <3>3. QED BY <1>1, <1>4, <3>1, <3>2 DEF Evicts
  <2>3. QED BY <1>1, <1>2, <2>1, <2>2
<1>5. QED BY <1>3, <1>4

\* A channel has one valid entry: an entry that matches is the only one.
LEMMA OneMatch ==
  ASSUME OneValidPerChannel, NEW ch, NEW n \in Matches(ch)
  PROVE  Matches(ch) = {n}
BY DEF OneValidPerChannel, Matches

\* What becomes of the entries when those of S are freed.
LEMMA Freed ==
  ASSUME TypeOK, OneValidPerChannel, NEW S, ent' = Survivors(S)
  PROVE  /\ Alloc' = Alloc \ S
         /\ ent' \in [Alloc' -> Entry]
         /\ \A m \in Alloc' : ent'[m] = ent[m]
         /\ \A d : Matches(d)' = Matches(d) \ S
         /\ OneValidPerChannel'
<1>1. /\ Alloc' = Alloc \ S
      /\ \A m \in Alloc' : ent'[m] = ent[m]
  BY DEF Survivors, Alloc
<1>2. ent' \in [Alloc' -> Entry]
  BY <1>1 DEF Survivors, TypeOK
<1>3. QED BY <1>1, <1>2 DEF Matches, OneValidPerChannel

Fill(A, n, ch, w) ==
    [m \in A \cup {n} |-> IF m = n THEN Filled(ch, w) ELSE ent[m]]

\* ... and when one is filled for a channel that had no other valid entry,
\* in a block n taken anew or used again, with the entries of A.
LEMMA Filling ==
  ASSUME TypeOK, OneValidPerChannel, NEW A \in SUBSET Alloc, NEW n \in Node,
         NEW ch \in Chan, NEW w \in Cw,
         Matches(ch) \cap A \subseteq {n},
         ent' = Fill(A, n, ch, w)
  PROVE  /\ Alloc' = A \cup {n}
         /\ ent' \in [Alloc' -> Entry]
         /\ ent'[n] = Filled(ch, w) /\ \A m \in A \ {n} : ent'[m] = ent[m]
         /\ Matches(ch)' = {n}
         /\ \A d \in Chan : d # ch => Matches(d)' = (Matches(d) \cap A) \ {n}
         /\ OneValidPerChannel'
<1>1. /\ Alloc' = A \cup {n}
      /\ ent'[n] = Filled(ch, w) /\ \A m \in A \ {n} : ent'[m] = ent[m]
  BY DEF Alloc, Fill
<1>2. Filled(ch, w) \in Entry
  BY CacheAssumption DEF Filled, Entry, TypeOK
<1>3. ent' \in [Alloc' -> Entry]
  BY <1>1, <1>2 DEF TypeOK, Fill
<1>4. Filled(ch, w).valid /\ Filled(ch, w).chan = ch
  BY DEF Filled
<1>5. Matches(ch)' = {n}
  BY <1>1, <1>4 DEF Matches
<1>6. \A d \in Chan : d # ch => Matches(d)' = (Matches(d) \cap A) \ {n}
  BY <1>1, <1>4 DEF Matches
<1>7. \A m \in A \ {n} : ~(ent[m].valid /\ ent[m].chan = ch)
  BY DEF Matches
<1>8. OneValidPerChannel'
  BY <1>1, <1>4, <1>7 DEF OneValidPerChannel
<1>9. QED BY <1>1, <1>3, <1>5, <1>6, <1>8

-----------------------------------------------------------------------------
(* Every operation keeps the invariant. *)

LEMMA InitIInv == Init => IInv
<1> SUFFICES ASSUME Init PROVE IInv
  OBVIOUS
<1>1. Alloc = {} BY DEF Init, Alloc
<1>2. TypeOK
  <2>1. list \in List BY DEF Init, List, Pointer
  <2>2. ent \in [Alloc -> Entry] BY <1>1 DEF Init, Alloc
  <2>3. clock \in 0..MaxTime /\ cnow \in -1..MaxTime /\ g_cache_entries \in 0..MaxEntries
    BY CacheAssumption DEF Init
  <2>4. pending \in [Thread -> Pointer] BY DEF Init, Pointer
  <2>5. QED BY <1>1, <2>1, <2>2, <2>3, <2>4 DEF Init, TypeOK, List, Pointer
<1>3. ListOf(list, Alloc)
  <2>1. list \in List /\ list.head = Null /\ list.tail = Null
    BY DEF Init, List, Pointer
  <2>2. ClosedUnderWalk(list, {}, {}) BY <2>1 DEF ClosedUnderWalk
  <2>3. Visited(list, {}) = {} BY <2>1, <2>2, AllVisited
  <2>4. QED BY <1>1, <2>1, <2>3 DEF ListOf
<1>4. Cardinality(Alloc) = 0 BY <1>1, FS_EmptySet
<1>5. QED BY <1>1, <1>2, <1>3, <1>4, CacheAssumption
          DEF Init, IInv, ListWellFormed, OneValidPerChannel

LEMMA AddOverwriteKeeps ==
  ASSUME IInv, NEW ch \in Chan, NEW w \in Cw, AddOverwrite(ch, w)
  PROVE  IInv'
<1> DEFINE n == FirstMatch(ch)
<1>1. n \in Matches(ch) /\ Matches(ch) = {n} /\ n \in Alloc
  BY SearchFinds, OneMatch DEF AddOverwrite, IInv, Matches
<1>2. /\ list \in List /\ Alloc \in SUBSET Node /\ ListOf(list, Alloc)
      /\ TypeOK /\ OneValidPerChannel /\ n \in Node
  BY <1>1 DEF IInv, ListWellFormed, TypeOK, List
<1> HIDE DEF n
<1>3. ent' = Fill(Alloc, n, ch, w)
  <2>1. ent' = [ent EXCEPT ![n] = Filled(ch, w)]
    BY DEF AddOverwrite, n
  <2>2. DOMAIN ent = Alloc /\ Alloc \cup {n} = Alloc
    BY <1>1 DEF Alloc
  <2>3. [ent EXCEPT ![n] = Filled(ch, w)]
          = [m \in Alloc |-> IF m = n THEN Filled(ch, w) ELSE ent[m]]
    BY <2>2
  <2>4. QED BY <2>1, <2>2, <2>3 DEF Fill
<1>4. /\ Alloc' = Alloc \cup {n}
      /\ ent' \in [Alloc' -> Entry]
      /\ OneValidPerChannel'
  BY <1>1, <1>2, <1>3, Filling
<1>5. Alloc' = Alloc BY <1>1, <1>4
<1>6. list' \in List /\ ListOf(list', Alloc)
  BY <1>1, <1>2, Moved DEF AddOverwrite, n
<1>7. TypeOK'
  BY <1>2, <1>4, <1>5, <1>6 DEF AddOverwrite, TypeOK, List, cleaning
<1>8. QED BY <1>4, <1>5, <1>6, <1>7
          DEF AddOverwrite, IInv, ListWellFormed, cleaning

LEMMA AddInsertKeeps ==
  ASSUME IInv, NEW t \in Thread, NEW ch \in Chan, NEW w \in Cw,
         AddInsert(t, ch, w)
  PROVE  IInv'
<1> DEFINE A == Alloc \ Evicted
<1>1. /\ ListWellFormed /\ TypeOK /\ OneValidPerChannel
      /\ ~wrlocked /\ current = Null /\ g_cache_enabled
      /\ Matches(ch) = {}
      /\ MaxEntries \in Nat \ {0}
  BY SearchFinds, CacheAssumption DEF AddInsert, IInv, ListWellFormed
<1>2. /\ WithRoom \in List /\ ListOf(WithRoom, A)
      /\ Evicted \subseteq Alloc /\ Alloc \subseteq Node
      /\ IsFiniteSet(A)
      /\ Cardinality(A) = g_cache_entries - Cardinality(Evicted)
      /\ g_cache_entries - Cardinality(Evicted) \in 0..(MaxEntries - 1)
  BY <1>1, RoomMade DEF TypeOK
<1>3. PICK n \in (Node \ Alloc) \cup Evicted :
         /\ ent' = Fill(A, n, ch, w)
         /\ list' = PushHead(WithRoom, n)
         /\ pending' = [pending EXCEPT ![t] = n]
  BY DEF AddInsert, Fill
<1>4. /\ A \in SUBSET Alloc /\ A \in SUBSET Node
      /\ n \in Node \ A /\ n \in Node
  BY <1>2
<1> HIDE DEF A
<1>5. /\ Alloc' = A \cup {n}
      /\ ent' \in [Alloc' -> Entry]
      /\ OneValidPerChannel'
  BY <1>1, <1>3, <1>4, Filling
<1>6. list' \in List /\ ListOf(list', Alloc')
  BY <1>2, <1>3, <1>4, <1>5, Pushed
<1>7. /\ g_cache_entries' = Cardinality(A) + 1
      /\ g_cache_entries' \in 0..MaxEntries
  BY <1>1, <1>2 DEF AddInsert
<1>8. Cardinality(Alloc') = Cardinality(A) + 1
  BY <1>2, <1>4, <1>5, FS_AddElement
<1>9. pending' \in [Thread -> Pointer]
  BY <1>1, <1>3, <1>4 DEF TypeOK, Pointer
<1>10. TypeOK'
  BY <1>1, <1>4, <1>5, <1>6, <1>7, <1>9 DEF AddInsert, TypeOK, List, cleaning
<1>11. QED
  BY <1>1, <1>5, <1>6, <1>7, <1>8, <1>10
  DEF AddInsert, IInv, ListWellFormed, cleaning

LEMMA AddNoMemoryKeeps ==
  ASSUME IInv, NEW ch \in Chan, AddNoMemory(ch)
  PROVE  IInv'
<1>1. /\ ListWellFormed /\ TypeOK /\ OneValidPerChannel
      /\ ~wrlocked /\ current = Null /\ g_cache_enabled
      /\ MaxEntries \in Nat \ {0}
  BY CacheAssumption DEF AddNoMemory, IInv, ListWellFormed
<1>2. /\ WithRoom \in List /\ ListOf(WithRoom, Alloc \ Evicted)
      /\ Cardinality(Alloc \ Evicted) = g_cache_entries - Cardinality(Evicted)
      /\ g_cache_entries - Cardinality(Evicted) \in 0..(MaxEntries - 1)
  BY <1>1, RoomMade
<1>3. /\ Alloc' = Alloc \ Evicted
      /\ ent' \in [Alloc' -> Entry]
      /\ OneValidPerChannel'
  BY <1>1, Freed DEF AddNoMemory
<1>4. list' = WithRoom /\ g_cache_entries' = Cardinality(Alloc')
      /\ g_cache_entries' \in 0..MaxEntries
  BY <1>1, <1>2, <1>3 DEF AddNoMemory
<1>5. TypeOK'
  BY <1>1, <1>2, <1>3, <1>4 DEF AddNoMemory, TypeOK, List, cleaning
<1>6. QED
  BY <1>1, <1>2, <1>3, <1>4, <1>5 DEF AddNoMemory, IInv, ListWellFormed, cleaning

LEMMA FindKeeps ==
  ASSUME IInv, NEW ch \in Chan, Find(ch)
  PROVE  IInv'
<1> DEFINE n == FirstMatch(ch)
<1>1. ListWellFormed /\ TypeOK /\ OneValidPerChannel
  BY DEF IInv, ListWellFormed
<1>2. n # Null => n \in Alloc
  BY <1>1, SearchFinds DEF Matches
<1>3. ent' = ent \/ (n \in Alloc /\ ent' = [ent EXCEPT ![n].valid = FALSE])
  BY <1>2 DEF Find
<1>4. answer' \in [chan : Chan, cw : Cw \cup {Absent}]
  <2>1. n # Null => ent[n].cw \in Cw BY <1>1, <1>2 DEF TypeOK, Entry
  <2>2. QED BY <2>1 DEF Find
<1> HIDE DEF n
<1>5. /\ Alloc' = Alloc
      /\ ent' \in [Alloc' -> Entry]
      /\ \A m \in Alloc : (ent'[m].valid => ent[m].valid)
                          /\ ent'[m].chan = ent[m].chan
  <2>1. ent \in [Alloc -> Entry]
    BY <1>1 DEF TypeOK
  <2>2. CASE ent' = ent
    BY <2>1, <2>2 DEF Alloc
  <2>3. CASE n \in Alloc /\ ent' = [ent EXCEPT ![n].valid = FALSE]
    <3> DEFINE e == [ent[n] EXCEPT !.valid = FALSE]
    <3>1. e \in Entry /\ e.valid = FALSE /\ e.chan = ent[n].chan
      <4>1. ent[n] \in Entry
        BY <2>1, <2>3
      <4>2. QED BY <4>1 DEF Entry
    <3>2. ent' = [ent EXCEPT ![n] = e]
      BY <2>3
    <3> HIDE DEF e
    <3>3. /\ DOMAIN ent' = Alloc /\ ent' \in [Alloc -> Entry]
          /\ \A m \in Alloc : ent'[m] = IF m = n THEN e ELSE ent[m]
      BY <2>1, <2>3, <3>1, <3>2
    <3>4. Alloc' = Alloc
      BY <3>3 DEF Alloc
    <3>5. QED BY <3>1, <3>3, <3>4
  <2>4. QED BY <1>3, <2>2, <2>3
<1>6. OneValidPerChannel'
  BY <1>1, <1>5 DEF OneValidPerChannel
<1>7. TypeOK'
  BY <1>1, <1>4, <1>5 DEF Find, TypeOK, cleaning
<1>8. QED
  BY <1>1, <1>5, <1>6, <1>7 DEF Find, IInv, ListWellFormed, cleaning

\* Unlinking and freeing one entry, the part that a removal and a turn of
\* the cleaning share.
LEMMA OneFreed ==
  ASSUME ListWellFormed, OneValidPerChannel, NEW n \in Alloc,
         list' = Unlink(list, n), ent' = Survivors({n}),
         g_cache_entries' = g_cache_entries - 1
  PROVE  /\ list' \in List /\ ListOf(list', Alloc')
         /\ Alloc' = Alloc \ {n} /\ ent' \in [Alloc' -> Entry]
         /\ g_cache_entries' = Cardinality(Alloc')
         /\ g_cache_entries' \in 0..MaxEntries
         /\ OneValidPerChannel'
<1>1. /\ list \in List /\ Alloc \in SUBSET Node /\ ListOf(list, Alloc)
      /\ TypeOK /\ g_cache_entries = Cardinality(Alloc)
      /\ g_cache_entries \in 0..MaxEntries
      /\ MaxEntries \in Nat \ {0}
  BY CacheAssumption DEF ListWellFormed, TypeOK, List
<1>2. /\ Alloc' = Alloc \ {n} /\ ent' \in [Alloc' -> Entry]
      /\ OneValidPerChannel'
  BY <1>1, Freed
<1>3. list' \in List /\ ListOf(list', Alloc')
  BY <1>1, <1>2, Unlinked
<1>4. /\ Cardinality(Alloc \ {n}) = Cardinality(Alloc) - 1
      /\ Cardinality(Alloc) >= 1
  BY Counted
<1>5. Cardinality(Alloc') = g_cache_entries - 1 /\ g_cache_entries >= 1
  BY <1>1, <1>2, <1>4
<1>6. /\ g_cache_entries' = Cardinality(Alloc')
      /\ g_cache_entries' \in 0..MaxEntries
  BY <1>1, <1>5
<1>7. QED BY <1>2, <1>3, <1>6

LEMMA RemoveKeeps ==
  ASSUME IInv, NEW ch \in Chan, Remove(ch)
  PROVE  IInv'
<1> DEFINE n == FirstMatch(ch)
<1>1. ListWellFormed /\ TypeOK /\ OneValidPerChannel
  BY DEF IInv, ListWellFormed
<1>2. n \in Alloc
  BY <1>1, SearchFinds DEF Matches, Remove
<1>3. /\ list' = Unlink(list, n) /\ ent' = Survivors({n})
      /\ g_cache_entries' = g_cache_entries - 1
      /\ ~wrlocked
      /\ UNCHANGED <<g_cache_enabled, clock, pending, cleaning, answer>>
  BY DEF Remove
<1> HIDE DEF n
<1>4. /\ list' \in List /\ ListOf(list', Alloc')
      /\ Alloc' = Alloc \ {n} /\ ent' \in [Alloc' -> Entry]
      /\ g_cache_entries' = Cardinality(Alloc')
      /\ g_cache_entries' \in 0..MaxEntries
      /\ OneValidPerChannel'
  BY <1>1, <1>2, <1>3, OneFreed
<1>5. TypeOK'
  BY <1>1, <1>3, <1>4 DEF TypeOK, List, cleaning
<1>6. QED
  BY <1>1, <1>3, <1>4, <1>5 DEF IInv, ListWellFormed, cleaning

\* The successor read before the entry is freed is another entry, so the
\* walk of cache_clean_expired (cache.c:255) never stands on freed memory.
LEMMA CleanTurnKeeps ==
  ASSUME IInv, CleanTurn
  PROVE  IInv'
<1>1. ListWellFormed /\ TypeOK /\ OneValidPerChannel
  BY DEF IInv, ListWellFormed
<1>2. /\ list \in List /\ Alloc \in SUBSET Node /\ ListOf(list, Alloc)
      /\ current \in Alloc
  BY <1>1 DEF CleanTurn, ListWellFormed, TypeOK, List
<1>3. current' = list.next[current] /\ current' \in (Alloc \ {current}) \cup {Null}
  BY <1>2, Neighbours DEF CleanTurn, ListOf
<1>4. current' \in Pointer BY <1>2, <1>3 DEF Pointer
<1>5. /\ wrlocked /\ wrlocked' = wrlocked
      /\ UNCHANGED <<g_cache_enabled, clock, pending, cnow, answer>>
  BY DEF CleanTurn
<1>6. CASE Cleanable(current)
  <2>1. /\ list' = Unlink(list, current) /\ ent' = Survivors({current})
        /\ g_cache_entries' = g_cache_entries - 1
    BY <1>6 DEF CleanTurn
  <2>2. /\ list' \in List /\ ListOf(list', Alloc')
        /\ Alloc' = Alloc \ {current} /\ ent' \in [Alloc' -> Entry]
        /\ g_cache_entries' = Cardinality(Alloc')
        /\ g_cache_entries' \in 0..MaxEntries
        /\ OneValidPerChannel'
    BY <1>1, <1>2, <2>1, OneFreed
  <2>3. TypeOK' BY <1>1, <1>4, <1>5, <2>2 DEF TypeOK, List
  <2>4. QED BY <1>3, <1>5, <2>2, <2>3 DEF IInv, ListWellFormed
<1>7. CASE ~Cleanable(current)
  <2>1. UNCHANGED <<list, ent, g_cache_entries>> BY <1>7 DEF CleanTurn
  <2>2. TypeOK' BY <1>1, <1>4, <1>5, <2>1 DEF TypeOK, Alloc
  <2>3. QED
    BY <1>1, <1>3, <1>5, <2>1, <2>2
    DEF IInv, ListWellFormed, OneValidPerChannel, Alloc
<1>8. QED BY <1>6, <1>7

\* The steps that leave the list and its entries alone.
LEMMA OthersKeep ==
  ASSUME IInv,
         \/ \E t \in Thread : LogAfterAdd(t)
         \/ CleanStart \/ CleanLock \/ CleanEnd \/ Tick
         \/ UNCHANGED vars
  PROVE  IInv'
<1>1. ListWellFormed /\ TypeOK /\ OneValidPerChannel /\ Alloc \subseteq Node
  BY DEF IInv, ListWellFormed, TypeOK
<1>2. list' = list /\ ent' = ent /\ g_cache_entries' = g_cache_entries
      /\ g_cache_enabled' = g_cache_enabled /\ answer' = answer
  BY DEF LogAfterAdd, CleanStart, CleanLock, CleanEnd, Tick, vars
<1>3. Alloc' = Alloc /\ OneValidPerChannel' /\ ListOf(list', Alloc')
  BY <1>1, <1>2 DEF Alloc, OneValidPerChannel, ListWellFormed
<1>4. list.head \in Alloc \cup {Null}
  BY <1>1 DEF ListWellFormed, ListOf
<1>5. /\ current \in Alloc \cup {Null} /\ (~wrlocked => current = Null)
      /\ clock \in 0..MaxTime /\ cnow \in -1..MaxTime /\ cnow <= clock
      /\ wrlocked \in BOOLEAN /\ pending \in [Thread -> Pointer]
      /\ MaxTime \in Nat \ {0}
  BY <1>1, CacheAssumption DEF IInv, ListWellFormed, TypeOK
<1>6. pending' \in [Thread -> Pointer]
  BY <1>5 DEF LogAfterAdd, CleanStart, CleanLock, CleanEnd, Tick, vars, Pointer
<1>7. /\ current' \in Alloc \cup {Null} /\ (~wrlocked' => current' = Null)
      /\ wrlocked' \in BOOLEAN
  BY <1>4, <1>5
  DEF LogAfterAdd, CleanStart, CleanLock, CleanEnd, Tick, vars, cleaning
<1>8. clock' \in 0..MaxTime /\ cnow' \in -1..MaxTime /\ cnow' <= clock'
  BY <1>5
  DEF LogAfterAdd, CleanStart, CleanLock, CleanEnd, Tick, vars, cleaning
<1>9. TypeOK'
  BY <1>1, <1>2, <1>3, <1>6, <1>7, <1>8 DEF TypeOK, Pointer
<1>10. QED BY <1>1, <1>2, <1>3, <1>7, <1>8, <1>9 DEF IInv, ListWellFormed

LEMMA NextIInv == IInv /\ [Next]_vars => IInv'
BY AddOverwriteKeeps, AddInsertKeeps, AddNoMemoryKeeps, FindKeeps, RemoveKeeps,
   CleanTurnKeeps, OthersKeep
DEF Next, CleanLoop

THEOREM IInvHolds == Spec => []IInv
<1>1. QED BY InitIInv, NextIInv, PTL DEF Spec

\* The pointers of the list, the entries and their count agree after any
\* sequence of additions, evictions, removals and cleanings, and a walk that
\* frees what it visits never stands on a freed entry (cache.c:47, 66, 251).
THEOREM ListAlwaysWellFormed == Spec => []ListWellFormed
BY IInvHolds, PTL DEF IInv

\* No two valid entries are for one channel (cache.c:127): the older one
\* would be served when the newer is evicted.
THEOREM OneValidHolds == Spec => []OneValidPerChannel
BY IInvHolds, PTL DEF IInv

-----------------------------------------------------------------------------
(* Refinement of the abstract store.  A step of the list is a step of the  *)
(* map from channels to what Shown says of them: Stored.                   *)

Stored == [ch \in Chan |-> Shown(ch)]

\* What a match says, before a step ...
LEMMA ShownIs ==
  ASSUME NEW d, NEW n, Matches(d) = {n}
  PROVE  Shown(d) = [cw |-> ent[n].cw, exp |-> ent[n].exp]
BY DEF Shown

\* ... and after it.
LEMMA ShownBecomes ==
  ASSUME NEW d
  PROVE  /\ Matches(d)' = {} => Shown(d)' = Absent
         /\ \A n : Matches(d)' = {n} =>
               Shown(d)' = [cw |-> ent'[n].cw, exp |-> ent'[n].exp]
BY DEF Shown

\* A channel whose match is not touched is shown as before.
LEMMA ShownKept ==
  ASSUME OneValidPerChannel, NEW d, Matches(d)' = Matches(d),
         \A m \in Matches(d) : ent'[m].cw = ent[m].cw /\ ent'[m].exp = ent[m].exp
  PROVE  Shown(d)' = Shown(d)
<1>1. CASE Matches(d) = {} BY <1>1, ShownBecomes DEF Shown
<1>2. CASE Matches(d) # {}
  <2>1. PICK n : n \in Matches(d) BY <1>2
  <2>2. Matches(d) = {n} BY <2>1, OneMatch
  <2>3. QED BY <2>1, <2>2, ShownIs, ShownBecomes
<1>3. QED BY <1>1, <1>2

\* An eviction forgets one channel at most: none if the tail was invalid.
Kept == [d \in Chan |-> IF Matches(d) \cap Evicted = {} THEN Shown(d) ELSE Absent]

LEMMA EvictionForgets ==
  ASSUME ListWellFormed, OneValidPerChannel
  PROVE  Kept \in Abstract!ForgetOne(Stored)
<1>1. CASE \A d \in Chan : Matches(d) \cap Evicted = {}
  <2>1. Kept = Stored BY <1>1 DEF Kept, Stored
  <2>2. QED BY <2>1 DEF Abstract!ForgetOne
<1>2. CASE ~(\A d \in Chan : Matches(d) \cap Evicted = {})
  <2>1. PICK c \in Chan : Matches(c) \cap Evicted # {} BY <1>2
  <2>2. Evicted = {list.tail} /\ list.tail \in Matches(c) BY <2>1 DEF Evicted
  <2>3. \A d \in Chan : d # c => Matches(d) \cap Evicted = {}
    BY <2>2 DEF Matches
  <2>4. Kept = [Stored EXCEPT ![c] = Absent]
    BY <2>1, <2>3 DEF Kept, Stored
  <2>5. QED BY <2>4 DEF Abstract!ForgetOne
<1>3. QED BY <1>1, <1>2

LEMMA AddOverwriteRefines ==
  ASSUME IInv, NEW ch \in Chan, NEW w \in Cw, AddOverwrite(ch, w)
  PROVE  Abstract!SAdd(ch, w)
<1> DEFINE n == FirstMatch(ch)
<1>1. n \in Matches(ch) /\ Matches(ch) = {n} /\ n \in Alloc
  BY SearchFinds, OneMatch DEF AddOverwrite, IInv, Matches
<1>2. Alloc \in SUBSET Node /\ TypeOK /\ OneValidPerChannel /\ n \in Node
  BY <1>1 DEF IInv, ListWellFormed, TypeOK
<1> HIDE DEF n
<1>3. ent' = Fill(Alloc, n, ch, w)
  <2>1. ent' = [ent EXCEPT ![n] = Filled(ch, w)]
    BY DEF AddOverwrite, n
  <2>2. DOMAIN ent = Alloc /\ Alloc \cup {n} = Alloc
    BY <1>1 DEF Alloc
  <2>3. [ent EXCEPT ![n] = Filled(ch, w)]
          = [m \in Alloc |-> IF m = n THEN Filled(ch, w) ELSE ent[m]]
    BY <2>2
  <2>4. QED BY <2>1, <2>2, <2>3 DEF Fill
<1>4. /\ Matches(ch)' = {n} /\ ent'[n] = Filled(ch, w)
      /\ \A m \in Alloc \ {n} : ent'[m] = ent[m]
      /\ \A d \in Chan : d # ch => Matches(d)' = (Matches(d) \cap Alloc) \ {n}
  <2>1. Matches(ch) \cap Alloc \subseteq {n} /\ Alloc \in SUBSET Alloc
    BY <1>1
  <2>2. /\ Matches(ch)' = {n}
        /\ \A m \in Alloc \ {n} : ent'[m] = ent[m]
        /\ \A d \in Chan : d # ch => Matches(d)' = (Matches(d) \cap Alloc) \ {n}
    <3>1. TypeOK /\ OneValidPerChannel /\ n \in Node BY <1>2
    <3>2. ent' = Fill(Alloc, n, ch, w) BY <1>3
    <3>3. Matches(ch)' = {n}
      BY <2>1, <3>1, <3>2, Filling, ZenonT(40)
    <3>4. \A m \in Alloc \ {n} : ent'[m] = ent[m]
      BY <2>1, <3>1, <3>2, Filling, ZenonT(40)
    <3>5. \A d \in Chan : d # ch => Matches(d)' = (Matches(d) \cap Alloc) \ {n}
      BY <2>1, <3>1, <3>2, Filling, ZenonT(40)
    <3>6. QED BY <3>3, <3>4, <3>5
  <2>3. ent'[n] = Filled(ch, w) BY <1>3 DEF Fill
  <2>4. QED BY <2>2, <2>3
<1>5. Shown(ch)' = [cw |-> w, exp |-> clock + Timeout]
  BY <1>4, ShownBecomes DEF Filled
<1>6. ASSUME NEW d \in Chan, d # ch PROVE Shown(d)' = Shown(d)
  <2>1. n \notin Matches(d) /\ Matches(d) \subseteq Alloc BY <1>1, <1>6 DEF Matches
  <2>2. Matches(d)' = Matches(d) /\ \A m \in Matches(d) : ent'[m] = ent[m]
    BY <1>4, <1>6, <2>1
  <2>3. QED BY <1>2, <2>2, ShownKept
<1>7. Stored' = [Stored EXCEPT ![ch] = [cw |-> w, exp |-> clock + Timeout]]
  BY <1>5, <1>6 DEF Stored
<1>8. Stored \in Abstract!ForgetOne(Stored) BY DEF Abstract!ForgetOne
<1>9. UNCHANGED <<answer, clock>> BY DEF AddOverwrite
<1>10. QED BY <1>7, <1>8, <1>9 DEF Abstract!SAdd, Stored

LEMMA AddInsertRefines ==
  ASSUME IInv, NEW t \in Thread, NEW ch \in Chan, NEW w \in Cw,
         AddInsert(t, ch, w)
  PROVE  Abstract!SAdd(ch, w)
<1> DEFINE A == Alloc \ Evicted
<1>1. ListWellFormed /\ TypeOK /\ OneValidPerChannel /\ Matches(ch) = {}
  BY SearchFinds DEF AddInsert, IInv, ListWellFormed
<1>2. Alloc \subseteq Node /\ Evicted \subseteq Alloc
  BY <1>1, RoomMade DEF TypeOK
<1>3. PICK n \in (Node \ Alloc) \cup Evicted : ent' = Fill(A, n, ch, w)
  BY DEF AddInsert, Fill
<1>4. A \in SUBSET Alloc /\ n \in Node /\ n \notin A
  BY <1>2
<1>5. /\ Matches(ch)' = {n} /\ ent'[n] = Filled(ch, w)
      /\ \A m \in A \ {n} : ent'[m] = ent[m]
      /\ \A d \in Chan : d # ch => Matches(d)' = (Matches(d) \cap A) \ {n}
  <2> HIDE DEF A
  <2>1. QED BY <1>1, <1>3, <1>4, Filling
<1>6. Shown(ch)' = [cw |-> w, exp |-> clock + Timeout]
  BY <1>5, ShownBecomes DEF Filled
<1>7. ASSUME NEW d \in Chan, d # ch
      PROVE  Shown(d)' = IF Matches(d) \cap Evicted = {} THEN Shown(d) ELSE Absent
  <2>1. Matches(d) \subseteq Alloc BY DEF Matches
  <2>2. Matches(d)' = Matches(d) \ Evicted BY <1>4, <1>5, <1>7, <2>1
  <2>3. CASE Matches(d) \cap Evicted = {}
    <3>1. Matches(d)' = Matches(d) /\ \A m \in Matches(d) : ent'[m] = ent[m]
      BY <1>4, <1>5, <2>1, <2>2, <2>3
    <3>2. QED BY <1>1, <2>3, <3>1, ShownKept
  <2>4. CASE Matches(d) \cap Evicted # {}
    <3>1. PICK e : e \in Matches(d) /\ e \in Evicted BY <2>4
    <3>2. Matches(d) = {e} BY <1>1, <3>1, OneMatch
    <3>3. Matches(d)' = {} BY <2>2, <3>1, <3>2
    <3>4. QED BY <2>4, <3>3, ShownBecomes
  <2>5. QED BY <2>3, <2>4
<1>8. Stored' = [Kept EXCEPT ![ch] = [cw |-> w, exp |-> clock + Timeout]]
  BY <1>6, <1>7 DEF Stored, Kept
<1>9. Kept \in Abstract!ForgetOne(Stored) BY <1>1, EvictionForgets
<1>10. UNCHANGED <<answer, clock>> BY DEF AddInsert
<1>11. QED BY <1>8, <1>9, <1>10 DEF Abstract!SAdd, Stored

LEMMA AddNoMemoryRefines ==
  ASSUME IInv, NEW ch \in Chan, AddNoMemory(ch)
  PROVE  Abstract!SAddFails(ch)
<1>1. ListWellFormed /\ TypeOK /\ OneValidPerChannel /\ Matches(ch) = {}
  BY SearchFinds DEF AddNoMemory, IInv, ListWellFormed
<1>2. /\ Alloc' = Alloc \ Evicted
      /\ \A m \in Alloc' : ent'[m] = ent[m]
      /\ \A d : Matches(d)' = Matches(d) \ Evicted
  BY <1>1, Freed DEF AddNoMemory
<1>3. ASSUME NEW d \in Chan
      PROVE  Shown(d)' = IF Matches(d) \cap Evicted = {} THEN Shown(d) ELSE Absent
  <2>1. Matches(d) \subseteq Alloc BY DEF Matches
  <2>2. CASE Matches(d) \cap Evicted = {}
    <3>1. Matches(d)' = Matches(d) /\ \A m \in Matches(d) : ent'[m] = ent[m]
      BY <1>2, <2>1, <2>2
    <3>2. QED BY <1>1, <2>2, <3>1, ShownKept
  <2>3. CASE Matches(d) \cap Evicted # {}
    <3>1. PICK e : e \in Matches(d) /\ e \in Evicted BY <2>3
    <3>2. Matches(d) = {e} BY <1>1, <3>1, OneMatch
    <3>3. Matches(d)' = {} BY <1>2, <3>1, <3>2
    <3>4. QED BY <2>3, <3>3, ShownBecomes
  <2>4. QED BY <2>2, <2>3
<1>4. Stored' = Kept BY <1>3 DEF Stored, Kept
<1>5. Kept \in Abstract!ForgetOne(Stored) BY <1>1, EvictionForgets
<1>6. Shown(ch) = Absent BY <1>1 DEF Shown
<1>7. UNCHANGED <<answer, clock>> BY DEF AddNoMemory
<1>8. QED BY <1>4, <1>5, <1>6, <1>7 DEF Abstract!SAddFails, Abstract!Known, Stored

LEMMA FindRefines ==
  ASSUME IInv, NEW ch \in Chan, Find(ch)
  PROVE  Abstract!SFind(ch)
<1> DEFINE n == FirstMatch(ch)
<1>1. TypeOK /\ OneValidPerChannel /\ clock' = clock /\ clock \in Nat
  BY CacheAssumption DEF IInv, ListWellFormed, TypeOK, Find
<1>2. CASE n = Null
  <2>1. Matches(ch) = {} BY <1>2, SearchFinds DEF IInv
  <2>2. Shown(ch) = Absent BY <2>1 DEF Shown
  <2>3. answer' = [chan |-> ch, cw |-> Absent] /\ ent' = ent
    BY <1>2 DEF Find
  <2>4. ASSUME NEW d \in Chan PROVE Shown(d)' = Shown(d)
    BY <2>3 DEF Shown, Matches, Alloc
  <2>5. Stored' = Stored BY <2>4 DEF Stored
  <2>6. [Stored EXCEPT ![ch] = Absent] = Stored BY <2>2 DEF Stored
  <2>7. QED
    BY <1>1, <2>2, <2>3, <2>5, <2>6
    DEF Abstract!SFind, Abstract!Known, Abstract!Expired, Stored
<1>3. CASE n # Null
  <2>1. n \in Matches(ch) /\ Matches(ch) = {n} /\ n \in Alloc
    BY <1>1, <1>3, SearchFinds, OneMatch DEF IInv, Matches
  <2>2. Shown(ch) = [cw |-> ent[n].cw, exp |-> ent[n].exp]
    BY <2>1, ShownIs
  <2>3. ent[n] \in Entry BY <1>1, <2>1 DEF TypeOK
  <2>4. Shown(ch) # Absent
    <3>1. Shown(ch) \in [cw : Cw, exp : Nat]
      BY <2>2, <2>3, CacheAssumption DEF Entry
    <3>2. QED BY <3>1, CacheAssumption
  <2>5. Stored[ch] = Shown(ch) /\ Stored[ch].exp = ent[n].exp /\ Stored[ch].cw = ent[n].cw
    BY <2>2 DEF Stored
  <2>6. g_cache_enabled BY <2>1 DEF IInv
  <2>7. CASE Stale(n)
    <3>1. answer' = [chan |-> ch, cw |-> Absent]
          /\ ent' = [ent EXCEPT ![n].valid = FALSE]
      BY <1>3, <2>7 DEF Find
    <3> HIDE DEF n
    <3>2. /\ Alloc' = Alloc
          /\ ~ent'[n].valid
          /\ \A m \in Alloc \ {n} : ent'[m] = ent[m]
      BY <1>1, <2>1, <3>1 DEF TypeOK, Entry, Alloc
    <3>3. Matches(ch)' = {} BY <2>1, <3>2 DEF Matches
    <3>4. ASSUME NEW d \in Chan, d # ch PROVE Shown(d)' = Shown(d)
      <4>1. n \notin Matches(d) /\ Matches(d) \subseteq Alloc
        BY <2>1, <3>4 DEF Matches
      <4>2. Matches(d)' = Matches(d) /\ \A m \in Matches(d) : ent'[m] = ent[m]
        BY <3>2, <4>1 DEF Matches
      <4>3. QED BY <1>1, <4>2, ShownKept
    <3>5. Shown(ch)' = Absent BY <3>3, ShownBecomes
    <3>6. Stored' = [Stored EXCEPT ![ch] = Absent] BY <3>4, <3>5 DEF Stored
    <3>7. clock > Stored[ch].exp BY <2>5, <2>7 DEF Stale
    <3>8. Stored[ch] # Absent BY <2>4, <2>5
    <3>9. QED
      BY <1>1, <3>1, <3>6, <3>7, <3>8
      DEF Abstract!SFind, Abstract!Known, Abstract!Expired, Stored
  <2>8. CASE ~Stale(n)
    <3>1. answer' = [chan |-> ch, cw |-> ent[n].cw] /\ ent' = ent
      BY <1>3, <2>6, <2>8 DEF Find
    <3> HIDE DEF n
    <3>2. ASSUME NEW d \in Chan PROVE Shown(d)' = Shown(d)
      BY <3>1 DEF Shown, Matches, Alloc
    <3>3. Stored' = Stored BY <3>2 DEF Stored
    <3>4. ~(clock > Stored[ch].exp) BY <2>5, <2>8 DEF Stale
    <3>5. Stored[ch] # Absent BY <2>4, <2>5
    <3>6. [Stored EXCEPT ![ch] = @] = Stored BY DEF Stored
    <3>7. QED
      BY <1>1, <2>5, <3>1, <3>3, <3>4, <3>5, <3>6
      DEF Abstract!SFind, Abstract!Known, Abstract!Expired, Stored
  <2>9. QED BY <2>7, <2>8
<1>4. QED BY <1>2, <1>3

\* Freeing an entry forgets its channel if the entry was valid, and is not
\* seen otherwise.
LEMMA FreeingForgets ==
  ASSUME TypeOK, OneValidPerChannel, NEW n \in Alloc, ent' = Survivors({n})
  PROVE  Stored' = [d \in Chan |-> IF n \in Matches(d) THEN Absent ELSE Shown(d)]
<1>1. /\ Alloc' = Alloc \ {n}
      /\ \A m \in Alloc' : ent'[m] = ent[m]
      /\ \A d : Matches(d)' = Matches(d) \ {n}
  BY Freed
<1>2. ASSUME NEW d \in Chan, n \in Matches(d) PROVE Shown(d)' = Absent
  <2>1. Matches(d) = {n} BY <1>2, OneMatch
  <2>2. Matches(d)' = {} BY <1>1, <2>1
  <2>3. QED BY <2>2, ShownBecomes
<1>3. ASSUME NEW d \in Chan, n \notin Matches(d) PROVE Shown(d)' = Shown(d)
  <2>1. Matches(d)' = Matches(d) /\ \A m \in Matches(d) : ent'[m] = ent[m]
    <3>1. Matches(d) \subseteq Alloc BY DEF Matches
    <3>2. QED BY <1>1, <1>3, <3>1
  <2>2. QED BY <2>1, ShownKept
<1>4. QED BY <1>2, <1>3 DEF Stored

LEMMA RemoveRefines ==
  ASSUME IInv, NEW ch \in Chan, Remove(ch)
  PROVE  Abstract!SRemove(ch)
<1> DEFINE n == FirstMatch(ch)
<1>1. TypeOK /\ OneValidPerChannel BY DEF IInv, ListWellFormed
<1>2. n \in Matches(ch) /\ n \in Alloc
  BY SearchFinds DEF Remove, IInv, Matches
<1>3. ent' = Survivors({n}) /\ UNCHANGED <<answer, clock>> BY DEF Remove
<1> HIDE DEF n
<1>4. \A d \in Chan : n \in Matches(d) <=> d = ch BY <1>2 DEF Matches
<1>5. Stored' = [d \in Chan |-> IF n \in Matches(d) THEN Absent ELSE Shown(d)]
  BY <1>1, <1>2, <1>3, FreeingForgets
<1>6. Stored' = [Stored EXCEPT ![ch] = Absent]
  BY <1>4, <1>5 DEF Stored
<1>7. QED BY <1>3, <1>6 DEF Abstract!SRemove, Stored

LEMMA CleanTurnRefines ==
  ASSUME IInv, CleanTurn
  PROVE  Abstract!SClean
<1> DEFINE gone == {d \in Chan : Cleanable(current) /\ current \in Matches(d)}
<1>1. /\ TypeOK /\ OneValidPerChannel /\ current \in Alloc
      /\ cnow <= clock /\ UNCHANGED <<answer, clock>>
  BY DEF IInv, ListWellFormed, CleanTurn
<1>2. Stored' = [d \in Chan |-> IF d \in gone THEN Absent ELSE Stored[d]]
  <2>1. CASE Cleanable(current)
    <3>1. ent' = Survivors({current}) BY <2>1 DEF CleanTurn
    <3>2. Stored' = [d \in Chan |-> IF current \in Matches(d) THEN Absent ELSE Shown(d)]
      BY <1>1, <3>1, FreeingForgets
    <3>3. QED BY <2>1, <3>2 DEF Stored
  <2>2. CASE ~Cleanable(current)
    <3>1. ent' = ent BY <2>2 DEF CleanTurn
    <3>2. ASSUME NEW d \in Chan PROVE Shown(d)' = Shown(d)
      BY <3>1 DEF Shown, Matches, Alloc
    <3>3. QED BY <2>2, <3>2 DEF Stored
  <2>3. QED BY <2>1, <2>2
<1>3. ASSUME NEW d \in gone PROVE Stored[d] # Absent /\ clock > Stored[d].exp
  <2>1. /\ d \in Chan /\ Cleanable(current) /\ current \in Matches(d)
        /\ Matches(d) = {current}
    BY <1>1, <1>3, OneMatch
  <2>2. Shown(d) = [cw |-> ent[current].cw, exp |-> ent[current].exp]
    BY <2>1, ShownIs
  <2>3. ent[current] \in Entry /\ clock \in Nat /\ cnow \in Int
    BY <1>1, CacheAssumption DEF TypeOK
  <2>4. Shown(d) \in [cw : Cw, exp : Nat]
    BY <2>2, <2>3, CacheAssumption DEF Entry
  <2>5. Stored[d] = Shown(d) BY <2>1 DEF Stored
  <2>6. clock > Shown(d).exp
    BY <1>1, <2>1, <2>2, <2>3, CacheAssumption DEF Cleanable, Entry
  <2>7. QED BY <2>4, <2>5, <2>6, CacheAssumption
<1>4. gone \in SUBSET {d \in Chan : Abstract!Expired(d)}
  BY <1>3 DEF Abstract!Expired, Abstract!Known, Stored
<1> HIDE DEF gone
<1>5. QED BY <1>1, <1>2, <1>4 DEF Abstract!SClean, Stored

\* The other steps are a tick of the clock, or not seen by the callers.
LEMMA OthersRefine ==
  ASSUME \/ \E t \in Thread : LogAfterAdd(t)
         \/ CleanStart \/ CleanLock \/ CleanEnd \/ Tick
         \/ UNCHANGED vars
  PROVE  Abstract!STick \/ UNCHANGED Abstract!svars
<1>1. ent' = ent /\ answer' = answer
  BY DEF LogAfterAdd, CleanStart, CleanLock, CleanEnd, Tick, vars
<1>2. ASSUME NEW d \in Chan PROVE Shown(d)' = Shown(d)
  BY <1>1 DEF Shown, Matches, Alloc
<1>3. Stored' = Stored BY <1>2 DEF Stored
<1>4. clock' = clock \/ Tick
  BY DEF LogAfterAdd, CleanStart, CleanLock, CleanEnd, Tick, vars
<1>5. QED BY <1>1, <1>3, <1>4 DEF Abstract!STick, Abstract!svars, Tick, Stored

LEMMA InitRefines == Init => Abstract!SInit
<1> SUFFICES ASSUME Init PROVE Abstract!SInit
  OBVIOUS
<1>1. Alloc = {} BY DEF Init, Alloc
<1>2. \A d \in Chan : Shown(d) = Absent BY <1>1 DEF Shown, Matches
<1>3. QED BY <1>2 DEF Abstract!SInit, Init

LEMMA NextRefines == IInv /\ [Next]_vars => [Abstract!SNext]_(Abstract!svars)
BY AddOverwriteRefines, AddInsertRefines, AddNoMemoryRefines, FindRefines,
   RemoveRefines, CleanTurnRefines, OthersRefine
DEF Next, CleanLoop, Abstract!SNext

\* The cache is the store its callers see (cache.c:106, 188, 223): a find
\* answers with the latest control word added for its channel, never after
\* its expiry, and an addition forgets one other channel at most.
THEOREM CacheImplementsStore == Spec => StoreRefined
BY InitRefines, NextRefines, IInvHolds, PTL DEF Spec, StoreRefined, Abstract!SSpec

=============================================================================
