------------------------------ MODULE CwCache ------------------------------
(***************************************************************************)
(* The control-word cache, CCshare/cccam3_cache.c: a doubly linked list    *)
(* kept by recency, searched from the head, bounded by evicting the tail.  *)
(* The pointers are modelled as they are (list.head, list.tail, prev and   *)
(* next of every heap block), because the list operations are what could   *)
(* be wrong; a channel is the triple (caid, provid, sid) and a control     *)
(* word carries the hop of its origin.                                     *)
(*                                                                         *)
(* Every section under g_cache_rwlock is one action, but for the loop of   *)
(* clean_expired: it frees entries of the list it walks, and each turn of  *)
(* it is an action, with the write lock held in between.  Readers overlap  *)
(* only other readers; the one write they make (valid = 0 on an expired    *)
(* entry) is the same for all of them, so overlapping finds act as some    *)
(* order of atomic ones.  Outside the lock are the debug message of an     *)
(* addition, which reads the entry again (LogAfterAdd), and the reading of *)
(* the time by clean_expired (CleanStart).                                 *)
(***************************************************************************)
EXTENDS Integers, FiniteSets

CONSTANTS Thread,    \* threads that process ECMs
          Node,      \* heap blocks a cache_entry_t may occupy
          Null,      \* the NULL pointer
          Chan, Cw, Absent,
          MaxEntries,\* CCCAM_CACHE_MAX_ENTRIES
          Timeout,   \* g_cache_timeout
          MaxTime    \* bound on the clock

ASSUME CacheAssumption ==
    /\ Null \notin Node
    /\ IsFiniteSet(Node)
    /\ Absent \notin Cw /\ Absent \notin [cw : Cw, exp : Nat]
    /\ MaxEntries \in Nat \ {0}
    /\ Cardinality(Node) >= MaxEntries
    /\ Timeout \in Nat \ {0}
    /\ MaxTime \in Nat \ {0}

VARIABLES list,            \* head, tail, prev and next
          ent,             \* allocated block -> its data fields
          g_cache_entries,
          g_cache_enabled,
          clock,           \* time(NULL)
          pending,         \* thread -> entry its debug message will read
          cnow,            \* now of the cleaning under way, or -1
          wrlocked,        \* the cleaning holds g_cache_rwlock
          current,         \* the entry its loop has come to
          answer           \* channel and result of the latest find

cleaning == <<cnow, wrlocked, current>>
vars == <<list, ent, g_cache_entries, g_cache_enabled, clock, pending,
          cleaning, answer>>

Pointer == Node \cup {Null}
Entry == [chan : Chan, cw : Cw, exp : 0..(MaxTime + Timeout), valid : BOOLEAN]
Alloc == DOMAIN ent

TypeOK ==
    /\ list \in [head : Pointer, tail : Pointer,
                 prev : [Node -> Pointer], next : [Node -> Pointer]]
    /\ Alloc \subseteq Node
    /\ ent \in [Alloc -> Entry]
    /\ g_cache_entries \in 0..MaxEntries
    /\ g_cache_enabled \in BOOLEAN
    /\ clock \in 0..MaxTime
    /\ pending \in [Thread -> Pointer]
    /\ cnow \in -1..MaxTime
    /\ wrlocked \in BOOLEAN
    /\ current \in Pointer
    /\ answer \in [chan : Chan, cw : Cw \cup {Absent}] \cup {Absent}

Init ==
    /\ list = [head |-> Null, tail |-> Null,
               prev |-> [n \in Node |-> Null], next |-> [n \in Node |-> Null]]
    /\ ent = <<>>
    /\ g_cache_entries = 0
    /\ g_cache_enabled \in BOOLEAN
    /\ clock = 1    \* time(NULL) is never 0
    /\ pending = [t \in Thread |-> Null]
    /\ cnow = -1
    /\ wrlocked = FALSE
    /\ current = Null
    /\ answer = Absent

-----------------------------------------------------------------------------
(* The list. *)

\* Mutant: the tail is not moved when the last entry is unlinked.
UnlinkKeepsTail(l, n) ==
    LET p == l.prev[n]
        x == l.next[n]
    IN  [head |-> IF p = Null THEN x ELSE l.head,
         tail |-> l.tail,
         next |-> [m \in Node |-> IF m = n THEN Null
                                  ELSE IF m = p THEN x ELSE l.next[m]],
         prev |-> [m \in Node |-> IF m = n THEN Null
                                  ELSE IF m = x THEN p ELSE l.prev[m]]]

\* cache_unlink
Unlink(l, n) ==
    LET p == l.prev[n]
        x == l.next[n]
    IN  [head |-> IF p = Null THEN x ELSE l.head,
         tail |-> IF x = Null THEN p ELSE l.tail,
         next |-> [m \in Node |-> IF m = n THEN Null
                                  ELSE IF m = p THEN x ELSE l.next[m]],
         prev |-> [m \in Node |-> IF m = n THEN Null
                                  ELSE IF m = x THEN p ELSE l.prev[m]]]

\* The insertion at the head shared by cache_move_to_head and cache_add.
PushHead(l, n) ==
    [head |-> n,
     tail |-> IF l.tail = Null THEN n ELSE l.tail,
     next |-> [m \in Node |-> IF m = n THEN l.head ELSE l.next[m]],
     prev |-> [m \in Node |-> IF m = n THEN Null
                              ELSE IF m = l.head THEN n ELSE l.prev[m]]]

\* cache_move_to_head
MoveToHead(l, n) == IF l.head = n THEN l ELSE PushHead(Unlink(l, n), n)

\* The loops current = current->next that return at an entry of Stop: R has
\* the head, and the successor of every entry the loop goes on from.  What
\* the loop visits is the least such set.
ClosedUnderWalk(l, Stop, R) ==
    /\ l.head \in R \cup {Null}
    /\ \A n \in R \ Stop : l.next[n] \in R \cup {Null}
Visited(l, Stop) ==
    LET closed == {R \in SUBSET Node : ClosedUnderWalk(l, Stop, R)}
    IN  {n \in Node : \A R \in closed : n \in R}

\* cache_match
Matches(ch) == {n \in Alloc : ent[n].valid /\ ent[n].chan = ch}

\* The entry a search for the channel returns at, Null when there is none.
FirstMatch(ch) ==
    LET found == Visited(list, Matches(ch)) \cap Matches(ch)
    IN  IF found = {} THEN Null ELSE CHOOSE n \in found : TRUE

-----------------------------------------------------------------------------
(* The operations. *)

Filled(ch, w) == [chan |-> ch, cw |-> w, exp |-> clock + Timeout,
                  valid |-> TRUE]

\* cache_evict_lru, as cache_add calls it in a loop: one eviction is enough
\* to leave the loop, since every addition has made room for itself.
Evicts == g_cache_entries >= MaxEntries /\ list.tail # Null
Evicted == IF Evicts THEN {list.tail} ELSE {}
WithRoom == IF Evicts THEN Unlink(list, list.tail) ELSE list
Survivors(S) == [n \in Alloc \ S |-> ent[n]]

\* cache_add finds the channel: new contents, moved to the head, no message.
AddOverwrite(ch, w) ==
    LET n == FirstMatch(ch)
    IN  /\ g_cache_enabled /\ ~wrlocked
        /\ n # Null
        /\ ent' = [ent EXCEPT ![n] = Filled(ch, w)]
        /\ list' = MoveToHead(list, n)
        /\ UNCHANGED <<g_cache_entries, g_cache_enabled, clock, pending,
                       cleaning, answer>>

\* Mutant: an addition never looks for the channel it is about to store.
AddInsertAlways(t, ch, w) ==
    /\ g_cache_enabled /\ ~wrlocked
    /\ pending[t] = Null
    /\ \E n \in (Node \ Alloc) \cup Evicted :
           /\ ent' = [m \in (Alloc \ Evicted) \cup {n} |->
                          IF m = n THEN Filled(ch, w) ELSE ent[m]]
           /\ list' = PushHead(WithRoom, n)
           /\ pending' = [pending EXCEPT ![t] = n]
    /\ g_cache_entries' = g_cache_entries - Cardinality(Evicted) + 1
    /\ UNCHANGED <<g_cache_enabled, clock, cleaning, answer>>

\* cache_add inserts a new entry after evicting, and leaves the lock with
\* the pointer its debug message is going to read.
AddInsert(t, ch, w) ==
    /\ g_cache_enabled /\ ~wrlocked
    /\ pending[t] = Null
    /\ FirstMatch(ch) = Null
    /\ \E n \in (Node \ Alloc) \cup Evicted :
           /\ ent' = [m \in (Alloc \ Evicted) \cup {n} |->
                          IF m = n THEN Filled(ch, w) ELSE ent[m]]
           /\ list' = PushHead(WithRoom, n)
           /\ pending' = [pending EXCEPT ![t] = n]
    /\ g_cache_entries' = g_cache_entries - Cardinality(Evicted) + 1
    /\ UNCHANGED <<g_cache_enabled, clock, cleaning, answer>>

\* cache_add when malloc fails: the eviction has already happened.
AddNoMemory(ch) ==
    /\ g_cache_enabled /\ ~wrlocked
    /\ FirstMatch(ch) = Null
    /\ ent' = Survivors(Evicted)
    /\ list' = WithRoom
    /\ g_cache_entries' = g_cache_entries - Cardinality(Evicted)
    /\ UNCHANGED <<g_cache_enabled, clock, pending, cleaning, answer>>

\* The debug message at the end of cache_add, after the unlock.
LogAfterAdd(t) ==
    /\ pending[t] # Null
    /\ pending' = [pending EXCEPT ![t] = Null]
    /\ UNCHANGED <<list, ent, g_cache_entries, g_cache_enabled, clock, cleaning,
                   answer>>

\* Mutant: a find that trusts the cleaning to have removed what expired.
StaleNever(n) == FALSE

Stale(n) == clock > ent[n].exp

\* cache_find: a hit copies the control word, an expired match is marked
\* invalid and reported as a miss.
Find(ch) ==
    LET n == FirstMatch(ch)
        dead == n # Null /\ Stale(n)
        hit == g_cache_enabled /\ n # Null /\ ~dead
    IN  /\ ~wrlocked
        /\ answer' = [chan |-> ch, cw |-> IF hit THEN ent[n].cw ELSE Absent]
        /\ ent' = IF dead THEN [ent EXCEPT ![n].valid = FALSE] ELSE ent
        /\ UNCHANGED <<list, g_cache_entries, g_cache_enabled, clock,
                       pending, cleaning>>

\* cache_remove, a part of the interface that nothing in the program calls.
Remove(ch) ==
    LET n == FirstMatch(ch)
    IN  /\ n # Null /\ ~wrlocked
        /\ list' = Unlink(list, n)
        /\ ent' = Survivors({n})
        /\ g_cache_entries' = g_cache_entries - 1
        /\ UNCHANGED <<g_cache_enabled, clock, pending, cleaning, answer>>

\* cache_clean_expired reads the time before it asks for the lock ...
CleanStart ==
    /\ cnow = -1
    /\ cnow' = clock
    /\ UNCHANGED <<list, ent, g_cache_entries, g_cache_enabled, clock,
                   pending, wrlocked, current, answer>>

CleanLock ==
    /\ cnow # -1 /\ ~wrlocked
    /\ wrlocked' = TRUE
    /\ current' = list.head
    /\ UNCHANGED <<list, ent, g_cache_entries, g_cache_enabled, clock,
                   pending, cnow, answer>>

\* Mutant: only entries that a find has not invalidated are cleaned.
CleanableValid(n) == cnow > ent[n].exp /\ ent[n].valid

Cleanable(n) == cnow > ent[n].exp

\* ... frees what had expired at that time, valid or not, and goes on to
\* the successor it read before ...
CleanTurn ==
    /\ wrlocked /\ current # Null
    /\ current' = list.next[current]
    /\ IF Cleanable(current)
       THEN /\ list' = Unlink(list, current)
            /\ ent' = Survivors({current})
            /\ g_cache_entries' = g_cache_entries - 1
       ELSE UNCHANGED <<list, ent, g_cache_entries>>
    /\ UNCHANGED <<g_cache_enabled, clock, pending, cnow, wrlocked, answer>>

\* ... until the end of the list.
CleanEnd ==
    /\ wrlocked /\ current = Null
    /\ wrlocked' = FALSE
    /\ cnow' = -1
    /\ UNCHANGED <<list, ent, g_cache_entries, g_cache_enabled, clock,
                   pending, current, answer>>

CleanLoop == CleanLock \/ CleanTurn \/ CleanEnd

Tick ==
    /\ clock < MaxTime
    /\ clock' = clock + 1
    /\ UNCHANGED <<list, ent, g_cache_entries, g_cache_enabled, pending,
                   cleaning, answer>>

Next ==
    \/ \E ch \in Chan, w \in Cw : AddOverwrite(ch, w)
    \/ \E t \in Thread, ch \in Chan, w \in Cw : AddInsert(t, ch, w)
    \/ \E ch \in Chan : AddNoMemory(ch) \/ Find(ch) \/ Remove(ch)
    \/ \E t \in Thread : LogAfterAdd(t)
    \/ CleanStart
    \/ CleanLoop
    \/ Tick

Spec == Init /\ [][Next]_vars

\* cccam3_run calls clean_expired from a loop whose select has a timeout of one
\* second, at the end of a turn if 30 s have passed.  A turn in which a
\* connection is refused or fails is cut short (server.c:997, 1004, 1011, 1022,
\* 1033, 1085) and does not come to it; it is assumed that such turns do not
\* go on for ever.  Nothing obliges a client to add or find.
FairSpec == Spec /\ WF_vars(CleanStart) /\ WF_vars(CleanLoop)

-----------------------------------------------------------------------------
(* Properties. *)

\* The list l is made of the entries of A: the walk from the head visits
\* these and no others, prev inverts next, and the head and the tail are the
\* entries without a predecessor and without a successor, so that the walk
\* meets each entry once and ends at the tail.
ListOf(l, A) ==
    /\ Visited(l, {}) = A
    /\ A = {} => l.head = Null /\ l.tail = Null
    /\ A # {} => l.head \in A /\ l.tail \in A
    /\ \A n \in A : /\ l.prev[n] \in A \cup {Null}
                    /\ l.prev[n] = Null <=> n = l.head
                    /\ l.next[n] \in A \cup {Null}
                    /\ l.next[n] = Null <=> n = l.tail
    /\ \A m, n \in A : l.next[m] = n <=> l.prev[n] = m

\* The list holds every allocated entry, g_cache_entries counts them and
\* they are within the capacity, after any mixture of overwrites, evictions
\* in the middle of an addition and removals during a walk; the entry a
\* cleaning has come to is never one that it has freed.
ListWellFormed ==
    /\ TypeOK
    /\ ListOf(list, Alloc)
    /\ g_cache_entries = Cardinality(Alloc)
    /\ current \in Alloc \cup {Null}

\* A channel has one valid entry at most, so that the first match of a walk
\* is the only one and an overwrite never leaves an older control word
\* behind for a later find.
OneValidPerChannel ==
    \A m, n \in Alloc : ent[m].valid /\ ent[n].valid
                          /\ ent[m].chan = ent[n].chan => m = n

\* What the callers see is CwStore: one control word per channel, the
\* latest, never after its expiry.
Shown(ch) ==
    LET n == CHOOSE m \in Matches(ch) : TRUE
    IN  IF Matches(ch) = {} THEN Absent
        ELSE [cw |-> ent[n].cw, exp |-> ent[n].exp]
Abstract == INSTANCE CwStore WITH store <- [ch \in Chan |-> Shown(ch)]
StoreRefined == Abstract!SSpec

\* An entry that has expired does not stay, as long as turns of the main loop
\* reach the cleaning: it is freed, or its channel is added again.  This is what lets find leave expired entries to the
\* cleaning instead of freeing them under the read lock.
ExpiredGone ==
    \A n \in Node : (n \in Alloc /\ clock > ent[n].exp)
                       ~> ~(n \in Alloc /\ clock > ent[n].exp)

=============================================================================
