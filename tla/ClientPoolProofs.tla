-------------------------- MODULE ClientPoolProofs --------------------------
(***************************************************************************)
(* Proofs about the serving phase of ClientPool, for any number of heap    *)
(* blocks, slots and REST threads.                                         *)
(***************************************************************************)
EXTENDS ClientPool, FiniteSetTheorems, TLAPS

(***************************************************************************)
(* The invariants of ClientPool are not inductive alone.  What they need   *)
(* is where each party stands: a thread that has not yet begun to exit and *)
(* the accept loop before the thread exists find the client in its slot,   *)
(* a party past the destroy finds it a zombie, and a live client outside   *)
(* the slots is a zombie.                                                  *)
(***************************************************************************)
Marked == {"ca_join", "ca_deref", "ca_drop", "ca_dec", "ca_free", "closed"}

PoolOK ==
    \A c \in Client : /\ Pooled(c) => mem[c] = "live" /\ ~zombie[c]
                      /\ mem[c] = "live" /\ ~zombie[c] => Pooled(c)

ThreadsOK ==
    \A c \in Client :
      /\ tpc[c] \in {"unborn", "start", "select", "reader", "ecm", "destroy"}
           => Pooled(c)
      /\ tpc[c] \in {"rel", "rel_w", "unref", "ufree"} => zombie[c]
      /\ tpc[c] # "dfree"

MainOK ==
    /\ mpc \in {"session", "ref", "spawn", "mdestroy", "mfree"} => mclient \in Client
    /\ mpc \in {"session", "ref", "spawn", "mdestroy"} => Pooled(mclient)
    /\ mpc \in {"session", "ref", "mdestroy", "mfree"} => tpc[mclient] = "none"
    /\ mpc = "spawn" => tpc[mclient] = "unborn"
    /\ mpc = "mfree" => zombie[mclient]
    /\ mpc \notin Marked

RestOK ==
    \A r \in Rest : /\ rpc[r] # "idle" => rclient[r] \in Client
                    /\ rpc[r] = "free" => zombie[rclient[r]]

RefsInv == RefsAreHolders /\ HoldersAreLive /\ NoLeak

SafetyInv == PoolOK /\ ThreadsOK /\ MainOK /\ RestOK /\ RefsInv

IInv == TypeOK /\ SafetyInv

USE DEF Marked, Serving

-----------------------------------------------------------------------------
(* Type correctness, of the whole specification including shutdown.        *)

\* The locked sections keep the types of the fields they write, whatever
\* pointer they are given.
LEMMA LockedTypes ==
  ASSUME TypeOK, NEW x
  PROVE  /\ AcquireLocked(x) => refs' \in [Client -> Int]
         /\ UnrefLocked(x) => refs' \in [Client -> Int]
         /\ DestroyLocked(x) => /\ refs' \in [Client -> Int]
                                /\ zombie' \in [Client -> BOOLEAN]
                                /\ g_clients' \in [Slots -> Client \cup {NoClient}]
                                /\ g_client_count' \in Int
         /\ FreeBlock(x) => mem' \in [Client -> {"free", "live"}]
<1>1. CASE x \in Client
  <2>1. AcquireLocked(x) => refs' \in [Client -> Int]
    BY <1>1 DEF TypeOK, AcquireLocked
  <2>2. UnrefLocked(x) => refs' \in [Client -> Int]
    BY <1>1 DEF TypeOK, UnrefLocked
  <2>3. ASSUME DestroyLocked(x)
        PROVE  /\ refs' \in [Client -> Int]
               /\ zombie' \in [Client -> BOOLEAN]
               /\ g_clients' \in [Slots -> Client \cup {NoClient}]
               /\ g_client_count' \in Int
    BY <1>1, <2>3 DEF TypeOK, DestroyLocked
  <2>4. FreeBlock(x) => mem' \in [Client -> {"free", "live"}]
    BY <1>1 DEF TypeOK, FreeBlock
  <2>5. QED BY <2>1, <2>2, <2>3, <2>4
<1>2. CASE x \notin Client
  BY <1>2 DEF TypeOK, AcquireLocked, UnrefLocked, DestroyLocked, FreeBlock
<1>3. QED BY <1>1, <1>2

\* Every step of the server and of its shutdown keeps the type invariant.
LEMMA TypeStep == TypeOK /\ [Next]_vars => TypeOK'
<1> SUFFICES ASSUME TypeOK, [Next]_vars PROVE TypeOK' OBVIOUS
<1> USE PoolAssumption
<1> USE DEF TypeOK, MainPC, ThreadPC, Protocols, Slots, pool, balancer, mainv,
            threadv, restv
<1>1. CASE Accept BY <1>1 DEF Accept
<1>2. CASE AllowRead BY <1>2 DEF AllowRead
<1>3. CASE AllowWrite BY <1>3 DEF AllowWrite
<1>4. CASE CreateFails BY <1>4 DEF CreateFails
<1>5. CASE SessionStart BY <1>5 DEF SessionStart
<1>6. CASE RefForThread
  BY <1>6, LockedTypes DEF RefForThread
<1>7. CASE Spawn BY <1>7 DEF Spawn
<1>8. CASE SpawnFails
  BY <1>8, LockedTypes DEF SpawnFails
<1>9. CASE TouchAfterSpawn BY <1>9 DEF TouchAfterSpawn
<1>10. CASE MainDestroy
  BY <1>10, LockedTypes DEF MainDestroy
<1>11. CASE MainFree BY <1>11, LockedTypes DEF MainFree
<1>12. CASE MainReleaseRead BY <1>12 DEF MainReleaseRead
<1>13. CASE MainReleaseWrite BY <1>13 DEF MainReleaseWrite
<1>14. CASE LeaveLoop BY <1>14 DEF LeaveLoop
<1>15. CASE CloseMark BY <1>15 DEF CloseMark
<1>16. CASE CloseJoinRead BY <1>16 DEF CloseJoinRead
<1>17. CASE CloseJoin BY <1>17 DEF CloseJoin
<1>18. CASE CloseDropRead
  <2>1. CASE midx \in Slots
    <3>1. g_clients[midx] \in Client \cup {NoClient} BY <2>1
    <3>2. g_clients' = [g_clients EXCEPT ![midx] = NoClient]
      BY <1>18, <2>1 DEF CloseDropRead
    <3>3. g_clients' \in [Slots -> Client \cup {NoClient}] BY <3>2
    <3>4. mclient' = g_clients[midx] /\ mpc' \in MainPC /\ midx' \in Nat
      BY <1>18, <2>1 DEF CloseDropRead
    <3>5. QED BY <1>18, <2>1, <3>1, <3>3, <3>4 DEF CloseDropRead
  <2>2. CASE midx \notin Slots BY <1>18, <2>2 DEF CloseDropRead
  <2>3. QED BY <2>1, <2>2
<1>19. CASE CloseDec
  BY <1>19, LockedTypes DEF CloseDec
<1>20. CASE CloseFree BY <1>20, LockedTypes DEF CloseFree
<1>21. ASSUME NEW c \in Client, NEW p \in {"cccam3", "newcamd"}, Create(c, p)
      PROVE TypeOK'
  BY <1>21 DEF Create
<1>22. ASSUME NEW c \in Client, DetectError(c) PROVE TypeOK' BY <1>22 DEF DetectError
<1>23. ASSUME NEW c \in Client, DetectLegacy(c) PROVE TypeOK' BY <1>23 DEF DetectLegacy
<1>24. ASSUME NEW c \in Client, DetectOwn(c) PROVE TypeOK' BY <1>24 DEF DetectOwn
<1>25. ASSUME NEW c \in Client, LoopTop(c) PROVE TypeOK' BY <1>25 DEF LoopTop
<1>26. ASSUME NEW c \in Client, ServeOther(c) PROVE TypeOK' BY <1>26 DEF ServeOther
<1>27. ASSUME NEW c \in Client, ServeBreak(c) PROVE TypeOK' BY <1>27 DEF ServeBreak
<1>28. ASSUME NEW c \in Client, NewcamdFails(c) PROVE TypeOK' BY <1>28 DEF NewcamdFails
<1>29. ASSUME NEW c \in Client, EcmFind(c) PROVE TypeOK' BY <1>29, LockedTypes DEF EcmFind
<1>30. ASSUME NEW c \in Client, EcmUnref(c) PROVE TypeOK' BY <1>30, LockedTypes DEF EcmUnref
<1>31. ASSUME NEW c \in Client, ExitTest(c) PROVE TypeOK' BY <1>31 DEF ExitTest
<1>32. ASSUME NEW c \in Client, ThreadDestroy(c) PROVE TypeOK'
  BY <1>32, LockedTypes
  DEF ThreadDestroy
<1>33. ASSUME NEW c \in Client, ThreadDestroyFree(c) PROVE TypeOK'
  BY <1>33, LockedTypes
  DEF ThreadDestroyFree
<1>34. ASSUME NEW c \in Client, ThreadReleaseRead(c) PROVE TypeOK' BY <1>34 DEF ThreadReleaseRead
<1>35. ASSUME NEW c \in Client, ThreadReleaseWrite(c) PROVE TypeOK' BY <1>35 DEF ThreadReleaseWrite
<1>36. ASSUME NEW c \in Client, ThreadUnref(c) PROVE TypeOK' BY <1>36, LockedTypes DEF ThreadUnref
<1>37. ASSUME NEW c \in Client, ThreadFree(c) PROVE TypeOK' BY <1>37, LockedTypes DEF ThreadFree
<1>38. ASSUME NEW r \in Rest, NEW c \in Client, RestAcquire(r, c) PROVE TypeOK'
  BY <1>38, LockedTypes DEF RestAcquire
<1>39. ASSUME NEW r \in Rest, RestKick(r) PROVE TypeOK' BY <1>39 DEF RestKick
<1>40. ASSUME NEW r \in Rest, RestUnref(r) PROVE TypeOK'
  BY <1>40, LockedTypes DEF RestUnref
<1>41. ASSUME NEW r \in Rest, RestFree(r) PROVE TypeOK' BY <1>41, LockedTypes DEF RestFree
<1>42. CASE Signal BY <1>42 DEF Signal
<1>43. CASE UNCHANGED vars BY <1>43 DEF vars
<1>44. ASSUME NEW c \in Client, AskReader(c) PROVE TypeOK' BY <1>44 DEF AskReader
<1>45. QED
  BY <1>1, <1>2, <1>3, <1>4, <1>5, <1>6, <1>7, <1>8, <1>9, <1>10, <1>11, <1>12,
     <1>13, <1>14, <1>15, <1>16, <1>17, <1>18, <1>19, <1>20, <1>21, <1>22,
     <1>23, <1>24, <1>25, <1>26, <1>27, <1>28, <1>29, <1>30, <1>31, <1>32,
     <1>33, <1>34, <1>35, <1>36, <1>37, <1>38, <1>39, <1>40, <1>41, <1>42,
     <1>43, <1>44
  DEF Next, ServeNext, MainServe, MainClose, Thread, RestThread

\* client.c, server.c: the reference counters, slots, flags and program
\* positions keep their types in every behaviour, shutdown included; in
\* particular the connection counter never goes negative, although its
\* updates race.
THEOREM TypeCorrect == Spec => []TypeOK
<1>1. Init => TypeOK
  BY PoolAssumption DEF Init, TypeOK, MainPC, ThreadPC, Protocols, Slots
<1>2. QED BY <1>1, TypeStep, PTL DEF Spec

-----------------------------------------------------------------------------
(* Counting holders.                                                       *)

\* One holder more is one reference more; one holder less is one reference
\* less, and it was the last one exactly when the count was one.
LEMMA AddHolder ==
  ASSUME NEW S, IsFiniteSet(S), NEW x, x \notin S
  PROVE  Cardinality(S \cup {x}) = Cardinality(S) + 1
BY FS_AddElement

LEMMA DropHolder ==
  ASSUME NEW S, IsFiniteSet(S), NEW x \in S
  PROVE  /\ Cardinality(S) \in Nat
         /\ Cardinality(S) >= 1
         /\ Cardinality(S \ {x}) = Cardinality(S) - 1
         /\ Cardinality(S) = 1 <=> S \ {x} = {}
<1>1. IsFiniteSet(S \ {x}) /\ Cardinality(S \ {x}) = Cardinality(S) - 1
  BY FS_RemoveElement
<1>2. Cardinality(S) \in Nat /\ Cardinality(S \ {x}) \in Nat
  BY <1>1, FS_CardinalityType
<1>3. Cardinality(S \ {x}) = 0 <=> S \ {x} = {}
  BY <1>1, FS_EmptySet
<1>4. QED BY <1>1, <1>2, <1>3

\* A client has finitely many holders.
LEMMA HoldersFinite ==
  ASSUME NEW c \in Client
  PROVE  IsFiniteSet(Holders(c))
<1>1. IsFiniteSet(RestHolders(c))
  BY RestAssumption, FS_Subset DEF RestHolders
<1>2. IsFiniteSet({"pool", "thread", "ecm"})
  <2>1. IsFiniteSet({"pool"}) BY FS_Singleton
  <2>2. IsFiniteSet({"pool"} \cup {"thread"}) BY <2>1, FS_AddElement
  <2>3. IsFiniteSet(({"pool"} \cup {"thread"}) \cup {"ecm"}) BY <2>2, FS_AddElement
  <2>4. ({"pool"} \cup {"thread"}) \cup {"ecm"} = {"pool", "thread", "ecm"} OBVIOUS
  <2>5. QED BY <2>3, <2>4
<1>3. IsFiniteSet(RestHolders(c) \cup {"pool", "thread", "ecm"})
  BY <1>1, <1>2, FS_Union
<1>4. Holders(c) \subseteq RestHolders(c) \cup {"pool", "thread", "ecm"}
  BY DEF Holders
<1>5. QED BY <1>3, <1>4, FS_Subset

\* Membership in Holders, party by party.
LEMMA WhoHolds ==
  ASSUME NEW c \in Client
  PROVE  /\ "pool" \in Holders(c) <=> Pooled(c)
         /\ "thread" \in Holders(c) <=> tpc[c] \notin {"none", "ufree"}
         /\ "ecm" \in Holders(c) <=> tpc[c] = "ecm"
         /\ \A r \in Rest : r \in Holders(c) <=> rpc[r] = "hold" /\ rclient[r] = c
         /\ \A x \in Holders(c) : x \in Rest \cup {"pool", "thread", "ecm"}
BY RestAssumption DEF Holders, RestHolders

\* unref on a positive count takes one reference away.
LEMMA UnrefEffect ==
  ASSUME NEW c, UnrefLocked(c), refs[c] \in Nat, refs[c] >= 1
  PROVE  refs' = [refs EXCEPT ![c] = refs[c] - 1]
<1>1. (IF refs[c] > 0 THEN refs[c] - 1 ELSE refs[c]) = refs[c] - 1 OBVIOUS
<1>2. QED BY <1>1 DEF UnrefLocked

-----------------------------------------------------------------------------
(* Every step of the serving phase keeps the invariant: one lemma for each *)
(* step that moves a reference or frees a block, one for the others.       *)

\* What a step that concerns one client leaves alone.
SameExcept(c) ==
    \A d \in Client :
      d # c => /\ Holders(d)' = Holders(d)
               /\ mem'[d] = mem[d] /\ refs'[d] = refs[d]
               /\ MainFreeing(d)' <=> MainFreeing(d)
               /\ ThreadFreeing(d)' <=> ThreadFreeing(d)
               /\ \A r \in Rest : RestFreeing(r, d)' <=> RestFreeing(r, d)

NobodyFrees(c) == ~MainFreeing(c) /\ ~ThreadFreeing(c)
                    /\ \A r \in Rest : ~RestFreeing(r, c)

\* A live client gains the holder x and one reference.
LEMMA Gain ==
  ASSUME TypeOK, RefsInv, NEW c \in Client, NEW x, x \notin Holders(c),
         mem[c] = "live", Holders(c) # {}, SameExcept(c), NobodyFrees(c)',
         refs'[c] = refs[c] + 1, mem'[c] = mem[c],
         Holders(c)' = Holders(c) \cup {x}
  PROVE  RefsInv'
<1>1. Cardinality(Holders(c)') = refs'[c]
  BY AddHolder, HoldersFinite DEF RefsInv, RefsAreHolders
<1>2. RefsAreHolders'
  BY <1>1 DEF RefsInv, RefsAreHolders, SameExcept
<1>3. HoldersAreLive'
  BY DEF RefsInv, HoldersAreLive, SameExcept, NobodyFrees, Freeing
<1>4. NoLeak'
  BY DEF RefsInv, NoLeak, SameExcept, NobodyFrees, Freeing
<1>5. QED BY <1>2, <1>3, <1>4 DEF RefsInv

\* What holding a reference means for the count.
LEMMA Held ==
  ASSUME RefsInv, NEW c \in Client, NEW x \in Holders(c)
  PROVE  /\ mem[c] = "live" /\ NobodyFrees(c)
         /\ refs[c] \in Nat /\ refs[c] >= 1
         /\ Cardinality(Holders(c) \ {x}) = refs[c] - 1
         /\ refs[c] = 1 <=> Holders(c) \ {x} = {}
<1>1. mem[c] = "live" /\ NobodyFrees(c)
  BY DEF RefsInv, HoldersAreLive, NobodyFrees, Freeing
<1>2. refs[c] = Cardinality(Holders(c)) BY <1>1 DEF RefsInv, RefsAreHolders
<1>3. IsFiniteSet(Holders(c)) BY HoldersFinite
<1>4. QED BY <1>1, <1>2, <1>3, DropHolder

\* A client loses the holder x and one reference, and somebody remains.
LEMMA Lose ==
  ASSUME TypeOK, RefsInv, NEW c \in Client, NEW x \in Holders(c),
         Holders(c) \ {x} # {}, SameExcept(c), NobodyFrees(c)',
         refs'[c] = refs[c] - 1, mem'[c] = mem[c],
         Holders(c)' = Holders(c) \ {x}
  PROVE  RefsInv'
<1>1. mem[c] = "live" /\ Cardinality(Holders(c)') = refs'[c] BY Held
<1>2. RefsAreHolders'
  BY <1>1 DEF RefsInv, RefsAreHolders, SameExcept
<1>3. HoldersAreLive'
  BY <1>1 DEF RefsInv, HoldersAreLive, SameExcept, NobodyFrees, Freeing
<1>4. NoLeak'
  BY DEF RefsInv, NoLeak, SameExcept, NobodyFrees, Freeing
<1>5. QED BY <1>2, <1>3, <1>4 DEF RefsInv

\* Exactly one party is about to free c.
OnlyFreer(c) ==
    /\ Freeing(c)
    /\ MainFreeing(c) => ~ThreadFreeing(c)
    /\ \A r, q \in Rest : RestFreeing(r, c) =>
          /\ ~MainFreeing(c) /\ ~ThreadFreeing(c)
          /\ RestFreeing(q, c) => q = r

\* A client loses its last holder, and one party goes on to free it.
LEMMA LoseLast ==
  ASSUME TypeOK, RefsInv, NEW c \in Client, NEW x \in Holders(c),
         Holders(c) \ {x} = {}, SameExcept(c), OnlyFreer(c)',
         refs'[c] = refs[c] - 1, mem'[c] = mem[c],
         Holders(c)' = Holders(c) \ {x}
  PROVE  RefsInv'
<1>1. mem[c] = "live" /\ Cardinality(Holders(c)') = refs'[c] BY Held
<1>2. RefsAreHolders'
  BY <1>1 DEF RefsInv, RefsAreHolders, SameExcept
<1>3. HoldersAreLive'
  BY <1>1 DEF RefsInv, HoldersAreLive, SameExcept, OnlyFreer, Freeing
<1>4. NoLeak'
  BY DEF RefsInv, NoLeak, SameExcept, OnlyFreer, Freeing
<1>5. QED BY <1>2, <1>3, <1>4 DEF RefsInv

\* The one party that had decided to free c frees it.
LEMMA Freed ==
  ASSUME TypeOK, RefsInv, NEW c \in Client, Freeing(c), SameExcept(c),
         NobodyFrees(c)', mem'[c] = "free", Holders(c)' = Holders(c)
  PROVE  RefsInv'
<1>1. Holders(c) = {} BY DEF RefsInv, HoldersAreLive
<1>2. RefsAreHolders'
  BY DEF RefsInv, RefsAreHolders, SameExcept
<1>3. HoldersAreLive'
  BY <1>1 DEF RefsInv, HoldersAreLive, SameExcept, NobodyFrees, Freeing
<1>4. NoLeak'
  BY DEF RefsInv, NoLeak, SameExcept, Freeing
<1>5. QED BY <1>2, <1>3, <1>4 DEF RefsInv

\* The thread of a destroyed client drops its reference (server.c:937).
LEMMA ThreadUnrefSafe ==
  ASSUME IInv, TypeOK', NEW c \in Client, ThreadUnref(c)
  PROVE  SafetyInv'
<1>0. TypeOK /\ SafetyInv /\ RefsInv BY DEF IInv, SafetyInv
<1>1. tpc[c] = "unref" /\ zombie[c] /\ "thread" \in Holders(c)
  BY <1>0, WhoHolds DEF SafetyInv, ThreadUnref, ThreadsOK
<1>2. /\ refs[c] \in Nat /\ refs[c] >= 1
      /\ refs[c] = 1 <=> Holders(c) \ {"thread"} = {}
      /\ NobodyFrees(c)
  BY <1>0, <1>1, Held
<1>3. refs' = [refs EXCEPT ![c] = refs[c] - 1]
  BY <1>2, UnrefEffect DEF ThreadUnref
<1>4. /\ tpc' = [tpc EXCEPT ![c] = IF refs[c] = 1 THEN "ufree" ELSE "none"]
      /\ UNCHANGED <<mem, zombie, g_clients, mpc, mclient, rpc, rclient>>
  <2>1. FreeAfterUnref(c) <=> refs[c] = 1
    BY <1>1, <1>2 DEF FreeAfterUnref
  <2>2. QED BY <2>1 DEF ThreadUnref, mainv, restv
<1>5. \A d \in Client : Pooled(d)' <=> Pooled(d)
  BY <1>4 DEF Pooled
<1>6. Holders(c)' = Holders(c) \ {"thread"}
  BY <1>0, <1>1, <1>4, <1>5, RestAssumption DEF Holders, RestHolders, TypeOK
<1>7. SameExcept(c)
  <2>1. \A d \in Client : d # c => Holders(d)' = Holders(d)
    BY <1>0, <1>3, <1>4, <1>5 DEF Holders, RestHolders, TypeOK
  <2>2. QED
    BY <2>1, <1>0, <1>3, <1>4, <1>5 DEF SameExcept, MainFreeing, ThreadFreeing, RestFreeing, TypeOK
<1>8. PoolOK' BY <1>0, <1>4, <1>5 DEF SafetyInv, PoolOK, TypeOK
<1>9. ThreadsOK' BY <1>0, <1>1, <1>4, <1>5 DEF SafetyInv, ThreadsOK, TypeOK
<1>10. MainOK' BY <1>0, <1>1, <1>4, <1>5 DEF SafetyInv, MainOK, TypeOK
<1>11. RestOK' BY <1>0, <1>4 DEF SafetyInv, RestOK, TypeOK
<1>12. refs'[c] = refs[c] - 1 /\ mem'[c] = mem[c]
  BY <1>0, <1>3, <1>4 DEF TypeOK
<1>13. CASE refs[c] = 1
  <2>1. OnlyFreer(c)'
    BY <1>0, <1>2, <1>4, <1>13
    DEF OnlyFreer, NobodyFrees, Freeing, MainFreeing, ThreadFreeing, RestFreeing, TypeOK
  <2>2. RefsInv' BY <1>0, <1>1, <1>2, <1>6, <1>7, <1>12, <1>13, <2>1, LoseLast
  <2>3. QED BY <1>8, <1>9, <1>10, <1>11, <2>2 DEF SafetyInv
<1>14. CASE refs[c] # 1
  <2>1. NobodyFrees(c)'
    BY <1>0, <1>2, <1>4, <1>14
    DEF NobodyFrees, MainFreeing, ThreadFreeing, RestFreeing, TypeOK
  <2>2. RefsInv' BY <1>0, <1>1, <1>2, <1>6, <1>7, <1>12, <1>14, <2>1, Lose
  <2>3. QED BY <1>8, <1>9, <1>10, <1>11, <2>2 DEF SafetyInv
<1>15. QED BY <1>13, <1>14

\* A REST request drops its reference (rest_api.c:434, 781).
LEMMA RestUnrefSafe ==
  ASSUME IInv, TypeOK', NEW r \in Rest, RestUnref(r)
  PROVE  SafetyInv'
<1>0. TypeOK /\ SafetyInv /\ RefsInv BY DEF IInv, SafetyInv
<1>. PICK c \in Client : rclient[r] = c
  BY <1>0 DEF SafetyInv, RestUnref, RestOK
<1>1. rclient[r] = c /\ rpc[r] = "hold" /\ r \in Holders(c)
  BY WhoHolds DEF RestUnref
<1>2. /\ refs[c] \in Nat /\ refs[c] >= 1
      /\ refs[c] = 1 <=> Holders(c) \ {r} = {}
      /\ NobodyFrees(c) /\ mem[c] = "live"
  BY <1>0, <1>1, Held
<1>3. refs' = [refs EXCEPT ![c] = refs[c] - 1]
  BY <1>1, <1>2, UnrefEffect DEF RestUnref
<1>4. refs[c] = 1 => zombie[c]
  <2>1. ~zombie[c] => Pooled(c)
    BY <1>0, <1>1, <1>2 DEF SafetyInv, PoolOK
  <2>2. Pooled(c) => "pool" \in Holders(c) \ {r}
    BY <1>1, WhoHolds, RestAssumption
  <2>3. QED BY <1>2, <2>1, <2>2
<1>5. /\ rpc' = [rpc EXCEPT ![r] = IF refs[c] = 1 THEN "free" ELSE "idle"]
      /\ rclient' = [rclient EXCEPT ![r] = IF refs[c] = 1 THEN c ELSE NoClient]
      /\ UNCHANGED <<mem, zombie, g_clients, mpc, mclient, tpc>>
  <2>1. FreeAfterUnref(c) <=> refs[c] = 1
    BY <1>2, <1>4 DEF FreeAfterUnref
  <2>2. QED BY <1>1, <2>1 DEF RestUnref, mainv, threadv
<1>6. \A d \in Client : Pooled(d)' <=> Pooled(d)
  BY <1>5 DEF Pooled
<1>7. Holders(c)' = Holders(c) \ {r}
  <2>1. RestHolders(c)' = RestHolders(c) \ {r}
    BY <1>0, <1>1, <1>5 DEF RestHolders, TypeOK
  <2>2. QED BY <1>1, <1>5, <1>6, <2>1, RestAssumption DEF Holders
<1>8. SameExcept(c)
  <2>1. \A d \in Client : d # c => RestHolders(d)' = RestHolders(d)
    BY <1>0, <1>1, <1>5 DEF RestHolders, TypeOK
  <2>2. \A d \in Client : d # c => Holders(d)' = Holders(d)
    BY <1>5, <1>6, <2>1 DEF Holders
  <2>3. \A d \in Client : d # c =>
           \A q \in Rest : RestFreeing(q, d)' <=> RestFreeing(q, d)
    BY <1>0, <1>1, <1>5 DEF RestFreeing, TypeOK
  <2>4. QED
    BY <1>0, <1>3, <1>5, <2>2, <2>3 DEF SameExcept, MainFreeing, ThreadFreeing, TypeOK
<1>9. PoolOK' BY <1>0, <1>5, <1>6 DEF SafetyInv, PoolOK
<1>10. ThreadsOK' BY <1>0, <1>5, <1>6 DEF SafetyInv, ThreadsOK
<1>11. MainOK' BY <1>0, <1>5, <1>6 DEF SafetyInv, MainOK
<1>12. RestOK' BY <1>0, <1>1, <1>4, <1>5 DEF SafetyInv, RestOK, TypeOK
<1>13. refs'[c] = refs[c] - 1 /\ mem'[c] = mem[c]
  BY <1>0, <1>1, <1>3, <1>5 DEF TypeOK
<1>14. CASE refs[c] = 1
  <2>1. OnlyFreer(c)'
    BY <1>0, <1>1, <1>2, <1>5, <1>14
    DEF OnlyFreer, NobodyFrees, Freeing, MainFreeing, ThreadFreeing, RestFreeing, TypeOK
  <2>2. RefsInv' BY <1>0, <1>1, <1>2, <1>7, <1>8, <1>13, <1>14, <2>1, LoseLast
  <2>3. QED BY <1>9, <1>10, <1>11, <1>12, <2>2 DEF SafetyInv
<1>15. CASE refs[c] # 1
  <2>1. NobodyFrees(c)'
    BY <1>0, <1>1, <1>2, <1>5, <1>15
    DEF NobodyFrees, MainFreeing, ThreadFreeing, RestFreeing, TypeOK
  <2>2. RefsInv' BY <1>0, <1>1, <1>2, <1>7, <1>8, <1>13, <1>15, <2>1, Lose
  <2>3. QED BY <1>9, <1>10, <1>11, <1>12, <2>2 DEF SafetyInv
<1>16. QED BY <1>14, <1>15

\* A REST request takes a reference through find_by_id or get_by_index_ref.
LEMMA RestAcquireSafe ==
  ASSUME IInv, TypeOK', NEW r \in Rest, NEW c \in Client, RestAcquire(r, c)
  PROVE  SafetyInv'
<1>0. TypeOK /\ SafetyInv /\ RefsInv BY DEF IInv, SafetyInv
<1>1. Pooled(c) /\ rpc[r] = "idle"
  BY <1>0, WhoHolds DEF RestAcquire, Acquirable
<1>2. /\ refs' = [refs EXCEPT ![c] = refs[c] + 1]
      /\ rpc' = [rpc EXCEPT ![r] = "hold"]
      /\ rclient' = [rclient EXCEPT ![r] = c]
      /\ UNCHANGED <<mem, zombie, g_clients, mpc, mclient, tpc>>
  BY <1>0, <1>1 DEF RestAcquire, AcquireLocked, mainv, threadv
<1>3. \A d \in Client : Pooled(d)' <=> Pooled(d)
  BY <1>2 DEF Pooled
<1>4. "pool" \in Holders(c) /\ mem[c] = "live" /\ NobodyFrees(c) /\ r \notin Holders(c)
  BY <1>0, <1>1, WhoHolds, Held
<1>5. Holders(c)' = Holders(c) \cup {r}
  <2>1. RestHolders(c)' = RestHolders(c) \cup {r}
    BY <1>0, <1>1, <1>2 DEF RestHolders, TypeOK
  <2>2. QED BY <1>0, <1>1, <1>2, <1>3, <2>1, RestAssumption DEF Holders, TypeOK
<1>6. SameExcept(c)
  <2>1. \A d \in Client : d # c => RestHolders(d)' = RestHolders(d)
    BY <1>0, <1>1, <1>2 DEF RestHolders, TypeOK
  <2>2. \A d \in Client : d # c => Holders(d)' = Holders(d)
    BY <1>0, <1>1, <1>2, <1>3, <2>1 DEF Holders, TypeOK
  <2>3. QED
    BY <1>0, <1>1, <1>2, <2>2
    DEF SameExcept, MainFreeing, ThreadFreeing, RestFreeing, TypeOK
<1>7. NobodyFrees(c)'
  BY <1>0, <1>1, <1>2, <1>4 DEF NobodyFrees, MainFreeing, ThreadFreeing, RestFreeing, TypeOK
<1>8. refs'[c] = refs[c] + 1 /\ mem'[c] = mem[c] BY <1>0, <1>2 DEF TypeOK
<1>9. RefsInv' BY <1>0, <1>4, <1>5, <1>6, <1>7, <1>8, Gain
<1>10. PoolOK' BY <1>0, <1>2, <1>3 DEF SafetyInv, PoolOK
<1>11. ThreadsOK' BY <1>0, <1>1, <1>2, <1>3 DEF SafetyInv, ThreadsOK, TypeOK
<1>12. MainOK' BY <1>0, <1>1, <1>2, <1>3 DEF SafetyInv, MainOK, TypeOK
<1>13. RestOK' BY <1>0, <1>1, <1>2 DEF SafetyInv, RestOK, TypeOK
<1>14. QED BY <1>9, <1>10, <1>11, <1>12, <1>13 DEF SafetyInv

\* The ECM handler takes a second reference to its own client.
LEMMA EcmFindSafe ==
  ASSUME IInv, TypeOK', NEW c \in Client, EcmFind(c)
  PROVE  SafetyInv'
<1>0. TypeOK /\ SafetyInv /\ RefsInv BY DEF IInv, SafetyInv
<1>1. Pooled(c) /\ tpc[c] \in {"select", "reader"}
  BY <1>0, WhoHolds DEF EcmFind, Acquirable
<1>2. /\ refs' = [refs EXCEPT ![c] = refs[c] + 1]
      /\ tpc' = [tpc EXCEPT ![c] = "ecm"]
      /\ UNCHANGED <<mem, zombie, g_clients, mpc, mclient, rpc, rclient>>
  BY <1>0, <1>1 DEF EcmFind, AcquireLocked, mainv, restv
<1>3. \A d \in Client : Pooled(d)' <=> Pooled(d)
  BY <1>2 DEF Pooled
<1>4. "pool" \in Holders(c) /\ mem[c] = "live" /\ NobodyFrees(c) /\ "ecm" \notin Holders(c)
  BY <1>0, <1>1, WhoHolds, Held
<1>5. Holders(c)' = Holders(c) \cup {"ecm"}
  <2>1. RestHolders(c)' = RestHolders(c)
    BY <1>0, <1>1, <1>2 DEF RestHolders, TypeOK
  <2>2. QED BY <1>0, <1>1, <1>2, <1>3, <2>1, RestAssumption DEF Holders, TypeOK
<1>6. SameExcept(c)
  <2>1. \A d \in Client : d # c => RestHolders(d)' = RestHolders(d)
    BY <1>0, <1>1, <1>2 DEF RestHolders, TypeOK
  <2>2. \A d \in Client : d # c => Holders(d)' = Holders(d)
    BY <1>0, <1>1, <1>2, <1>3, <2>1 DEF Holders, TypeOK
  <2>3. QED
    BY <1>0, <1>1, <1>2, <2>2
    DEF SameExcept, MainFreeing, ThreadFreeing, RestFreeing, TypeOK
<1>7. NobodyFrees(c)'
  BY <1>0, <1>1, <1>2, <1>4 DEF NobodyFrees, MainFreeing, ThreadFreeing, RestFreeing, TypeOK
<1>8. refs'[c] = refs[c] + 1 /\ mem'[c] = mem[c] BY <1>0, <1>2 DEF TypeOK
<1>9. RefsInv' BY <1>0, <1>4, <1>5, <1>6, <1>7, <1>8, Gain
<1>10. PoolOK' BY <1>0, <1>2, <1>3 DEF SafetyInv, PoolOK
<1>11. ThreadsOK' BY <1>0, <1>1, <1>2, <1>3 DEF SafetyInv, ThreadsOK, TypeOK
<1>12. MainOK' BY <1>0, <1>1, <1>2, <1>3 DEF SafetyInv, MainOK, TypeOK
<1>13. RestOK' BY <1>0, <1>1, <1>2 DEF SafetyInv, RestOK, TypeOK
<1>14. QED BY <1>9, <1>10, <1>11, <1>12, <1>13 DEF SafetyInv

\* The accept loop takes the reference of the thread it is about to create.
LEMMA RefForThreadSafe ==
  ASSUME IInv, TypeOK', RefForThread
  PROVE  SafetyInv'
<1>0. TypeOK /\ SafetyInv /\ RefsInv BY DEF IInv, SafetyInv
<1>. PICK c \in Client : mclient = c
  BY <1>0 DEF SafetyInv, RefForThread, MainOK
<1>1. Pooled(c) /\ tpc[c] = "none" /\ mpc = "ref" /\ mclient = c
  BY <1>0, WhoHolds DEF SafetyInv, RefForThread, MainOK
<1>2. /\ refs' = [refs EXCEPT ![c] = refs[c] + 1]
      /\ tpc' = [tpc EXCEPT ![c] = "unborn"]
      /\ mpc' = "spawn"
      /\ UNCHANGED <<mem, zombie, g_clients, mclient, rpc, rclient>>
  BY <1>0, <1>1 DEF RefForThread, AcquireLocked, restv
<1>3. \A d \in Client : Pooled(d)' <=> Pooled(d)
  BY <1>2 DEF Pooled
<1>4. "pool" \in Holders(c) /\ mem[c] = "live" /\ NobodyFrees(c) /\ "thread" \notin Holders(c)
  BY <1>0, <1>1, WhoHolds, Held
<1>5. Holders(c)' = Holders(c) \cup {"thread"}
  <2>1. RestHolders(c)' = RestHolders(c)
    BY <1>0, <1>1, <1>2 DEF RestHolders, TypeOK
  <2>2. QED BY <1>0, <1>1, <1>2, <1>3, <2>1, RestAssumption DEF Holders, TypeOK
<1>6. SameExcept(c)
  <2>1. \A d \in Client : d # c => RestHolders(d)' = RestHolders(d)
    BY <1>0, <1>1, <1>2 DEF RestHolders, TypeOK
  <2>2. \A d \in Client : d # c => Holders(d)' = Holders(d)
    BY <1>0, <1>1, <1>2, <1>3, <2>1 DEF Holders, TypeOK
  <2>3. QED
    BY <1>0, <1>1, <1>2, <2>2
    DEF SameExcept, MainFreeing, ThreadFreeing, RestFreeing, TypeOK
<1>7. NobodyFrees(c)'
  BY <1>0, <1>1, <1>2, <1>4 DEF NobodyFrees, MainFreeing, ThreadFreeing, RestFreeing, TypeOK
<1>8. refs'[c] = refs[c] + 1 /\ mem'[c] = mem[c] BY <1>0, <1>2 DEF TypeOK
<1>9. RefsInv' BY <1>0, <1>4, <1>5, <1>6, <1>7, <1>8, Gain
<1>10. PoolOK' BY <1>0, <1>2, <1>3 DEF SafetyInv, PoolOK
<1>11. ThreadsOK' BY <1>0, <1>1, <1>2, <1>3 DEF SafetyInv, ThreadsOK, TypeOK
<1>12. MainOK' BY <1>0, <1>1, <1>2, <1>3 DEF SafetyInv, MainOK, TypeOK
<1>13. RestOK' BY <1>0, <1>1, <1>2 DEF SafetyInv, RestOK, TypeOK
<1>14. QED BY <1>9, <1>10, <1>11, <1>12, <1>13 DEF SafetyInv

\* The ECM handler drops its second reference; the pool and the thread remain.
LEMMA EcmUnrefSafe ==
  ASSUME IInv, TypeOK', NEW c \in Client, EcmUnref(c)
  PROVE  SafetyInv'
<1>0. TypeOK /\ SafetyInv /\ RefsInv BY DEF IInv, SafetyInv
<1>1. Pooled(c) /\ tpc[c] = "ecm" /\ "ecm" \in Holders(c)
  BY <1>0, WhoHolds DEF SafetyInv, ThreadsOK, EcmUnref
<1>2. /\ refs[c] \in Nat /\ refs[c] >= 1 /\ NobodyFrees(c)
      /\ "pool" \in Holders(c) \ {"ecm"}
  BY <1>0, <1>1, Held, WhoHolds
<1>3. refs' = [refs EXCEPT ![c] = refs[c] - 1]
  BY <1>1, <1>2, UnrefEffect DEF EcmUnref
<1>4. /\ tpc' = [tpc EXCEPT ![c] = "loop"]
      /\ UNCHANGED <<mem, zombie, g_clients, mpc, mclient, rpc, rclient>>
  BY <1>1 DEF EcmUnref, mainv, restv
<1>5. \A d \in Client : Pooled(d)' <=> Pooled(d)
  BY <1>4 DEF Pooled
<1>6. Holders(c)' = Holders(c) \ {"ecm"}
  BY <1>0, <1>1, <1>4, <1>5, RestAssumption DEF Holders, RestHolders, TypeOK
<1>7. SameExcept(c)
  <2>1. \A d \in Client : d # c => Holders(d)' = Holders(d)
    BY <1>0, <1>4, <1>5 DEF Holders, RestHolders, TypeOK
  <2>2. QED
    BY <1>0, <1>1, <1>3, <1>4, <2>1
    DEF SameExcept, MainFreeing, ThreadFreeing, RestFreeing, TypeOK
<1>8. NobodyFrees(c)'
  BY <1>0, <1>1, <1>2, <1>4 DEF NobodyFrees, MainFreeing, ThreadFreeing, RestFreeing, TypeOK
<1>9. refs'[c] = refs[c] - 1 /\ mem'[c] = mem[c] BY <1>0, <1>3, <1>4 DEF TypeOK
<1>10. RefsInv' BY <1>0, <1>1, <1>2, <1>6, <1>7, <1>8, <1>9, Lose
<1>11. PoolOK' BY <1>0, <1>4, <1>5 DEF SafetyInv, PoolOK
<1>12. ThreadsOK' BY <1>0, <1>1, <1>4, <1>5 DEF SafetyInv, ThreadsOK, TypeOK
<1>13. MainOK' BY <1>0, <1>1, <1>4, <1>5 DEF SafetyInv, MainOK, TypeOK
<1>14. RestOK' BY <1>0, <1>4 DEF SafetyInv, RestOK
<1>15. QED BY <1>10, <1>11, <1>12, <1>13, <1>14 DEF SafetyInv

\* pthread_create failed: the reference of the unborn thread is given back.
LEMMA SpawnFailsSafe ==
  ASSUME IInv, TypeOK', SpawnFails
  PROVE  SafetyInv'
<1>0. TypeOK /\ SafetyInv /\ RefsInv BY DEF IInv, SafetyInv
<1>. PICK c \in Client : mclient = c
  BY <1>0 DEF SafetyInv, SpawnFails, MainOK
<1>1. Pooled(c) /\ tpc[c] = "unborn" /\ mpc = "spawn" /\ mclient = c /\ "thread" \in Holders(c)
  BY <1>0, WhoHolds DEF SafetyInv, MainOK, SpawnFails
<1>2. /\ refs[c] \in Nat /\ refs[c] >= 1 /\ NobodyFrees(c)
      /\ "pool" \in Holders(c) \ {"thread"}
  BY <1>0, <1>1, Held, WhoHolds
<1>3. refs' = [refs EXCEPT ![c] = refs[c] - 1]
  BY <1>1, <1>2, UnrefEffect DEF SpawnFails
<1>4. /\ tpc' = [tpc EXCEPT ![c] = "none"] /\ mpc' = "mdestroy"
      /\ UNCHANGED <<mem, zombie, g_clients, mclient, rpc, rclient>>
  BY <1>1 DEF SpawnFails, restv
<1>5. \A d \in Client : Pooled(d)' <=> Pooled(d)
  BY <1>4 DEF Pooled
<1>6. Holders(c)' = Holders(c) \ {"thread"}
  BY <1>0, <1>1, <1>4, <1>5, RestAssumption DEF Holders, RestHolders, TypeOK
<1>7. SameExcept(c)
  <2>1. \A d \in Client : d # c => Holders(d)' = Holders(d)
    BY <1>0, <1>4, <1>5 DEF Holders, RestHolders, TypeOK
  <2>2. QED
    BY <1>0, <1>1, <1>3, <1>4, <2>1
    DEF SameExcept, MainFreeing, ThreadFreeing, RestFreeing, TypeOK
<1>8. NobodyFrees(c)'
  BY <1>0, <1>1, <1>2, <1>4 DEF NobodyFrees, MainFreeing, ThreadFreeing, RestFreeing, TypeOK
<1>9. refs'[c] = refs[c] - 1 /\ mem'[c] = mem[c] BY <1>0, <1>3, <1>4 DEF TypeOK
<1>10. RefsInv' BY <1>0, <1>1, <1>2, <1>6, <1>7, <1>8, <1>9, Lose
<1>11. PoolOK' BY <1>0, <1>4, <1>5 DEF SafetyInv, PoolOK
<1>12. ThreadsOK' BY <1>0, <1>1, <1>4, <1>5 DEF SafetyInv, ThreadsOK, TypeOK
<1>13. MainOK' BY <1>0, <1>1, <1>4, <1>5 DEF SafetyInv, MainOK, TypeOK
<1>14. RestOK' BY <1>0, <1>4 DEF SafetyInv, RestOK
<1>15. QED BY <1>10, <1>11, <1>12, <1>13, <1>14 DEF SafetyInv

\* cccam_client_destroy takes the client, and only it, out of the slots.
LEMMA DestroyEffect ==
  ASSUME TypeOK, NEW c \in Client, DestroyLocked(c)
  PROVE  /\ ~Pooled(c)'
         /\ \A d \in Client : d # c => (Pooled(d)' <=> Pooled(d))
         /\ zombie' = [zombie EXCEPT ![c] = TRUE]
         /\ refs' = [refs EXCEPT ![c] = refs[c] - 1]
BY PoolAssumption DEF DestroyLocked, Pooled, TypeOK

\* A client thread destroys its client; its own reference remains, so the
\* block is not freed here (server.c:787, 831, 844, 935).
LEMMA ThreadDestroySafe ==
  ASSUME IInv, TypeOK', NEW c \in Client, ThreadDestroy(c)
  PROVE  SafetyInv'
<1>0. TypeOK /\ SafetyInv /\ RefsInv BY DEF IInv, SafetyInv
<1>1. /\ tpc[c] = "destroy" /\ Pooled(c) /\ "pool" \in Holders(c)
      /\ "thread" \in Holders(c) \ {"pool"}
  BY <1>0, WhoHolds DEF SafetyInv, ThreadsOK, ThreadDestroy
<1>2. refs[c] # 1 /\ NobodyFrees(c) BY <1>0, <1>1, Held
<1>3. /\ ~Pooled(c)'
      /\ \A d \in Client : d # c => (Pooled(d)' <=> Pooled(d))
      /\ zombie' = [zombie EXCEPT ![c] = TRUE]
      /\ refs' = [refs EXCEPT ![c] = refs[c] - 1]
  BY <1>0, DestroyEffect DEF ThreadDestroy
<1>4. /\ tpc' = [tpc EXCEPT ![c] = "rel"]
      /\ UNCHANGED <<mem, mpc, mclient, rpc, rclient>>
  BY <1>2 DEF ThreadDestroy, FreeAfterDestroy, mainv, restv
<1>5. Holders(c)' = Holders(c) \ {"pool"}
  BY <1>0, <1>1, <1>3, <1>4, RestAssumption DEF Holders, RestHolders, TypeOK
<1>6. SameExcept(c)
  <2>1. \A d \in Client : d # c => Holders(d)' = Holders(d)
    BY <1>0, <1>3, <1>4 DEF Holders, RestHolders, TypeOK
  <2>2. QED
    BY <1>0, <1>1, <1>3, <1>4, <2>1
    DEF SameExcept, MainFreeing, ThreadFreeing, RestFreeing, TypeOK
<1>7. NobodyFrees(c)'
  BY <1>0, <1>1, <1>2, <1>4 DEF NobodyFrees, MainFreeing, ThreadFreeing, RestFreeing, TypeOK
<1>8. refs'[c] = refs[c] - 1 /\ mem'[c] = mem[c] BY <1>0, <1>3, <1>4 DEF TypeOK
<1>9. RefsInv' BY <1>0, <1>1, <1>5, <1>6, <1>7, <1>8, Lose
<1>10. PoolOK' BY <1>0, <1>3, <1>4 DEF SafetyInv, PoolOK, TypeOK
<1>11. ThreadsOK' BY <1>0, <1>3, <1>4 DEF SafetyInv, ThreadsOK, TypeOK
<1>12. MainOK' BY <1>0, <1>1, <1>3, <1>4 DEF SafetyInv, MainOK, TypeOK
<1>13. RestOK' BY <1>0, <1>3, <1>4 DEF SafetyInv, RestOK, TypeOK
<1>14. QED BY <1>9, <1>10, <1>11, <1>12, <1>13 DEF SafetyInv

\* The accept loop destroys a client whose session or thread could not be
\* started, and frees it unless a REST request is looking at it.
LEMMA MainDestroySafe ==
  ASSUME IInv, TypeOK', MainDestroy
  PROVE  SafetyInv'
<1>0. TypeOK /\ SafetyInv /\ RefsInv BY DEF IInv, SafetyInv
<1>. PICK c \in Client : mclient = c
  BY <1>0 DEF SafetyInv, MainDestroy, MainOK
<1>1. /\ mpc = "mdestroy" /\ mclient = c /\ tpc[c] = "none"
      /\ Pooled(c) /\ "pool" \in Holders(c)
  BY <1>0, WhoHolds DEF SafetyInv, MainOK, MainDestroy
<1>2. /\ refs[c] = 1 <=> Holders(c) \ {"pool"} = {}
      /\ NobodyFrees(c)
  BY <1>0, <1>1, Held
<1>3. /\ ~Pooled(c)'
      /\ \A d \in Client : d # c => (Pooled(d)' <=> Pooled(d))
      /\ zombie' = [zombie EXCEPT ![c] = TRUE]
      /\ refs' = [refs EXCEPT ![c] = refs[c] - 1]
  BY <1>0, <1>1, DestroyEffect DEF MainDestroy
<1>4. /\ mpc' = IF refs[c] = 1 THEN "mfree" ELSE "mrel"
      /\ UNCHANGED <<mem, mclient, tpc, rpc, rclient>>
  BY <1>1 DEF MainDestroy, FreeAfterDestroy, threadv, restv
<1>5. Holders(c)' = Holders(c) \ {"pool"}
  BY <1>0, <1>1, <1>3, <1>4, RestAssumption DEF Holders, RestHolders, TypeOK
<1>6. SameExcept(c)
  <2>1. \A d \in Client : d # c => Holders(d)' = Holders(d)
    BY <1>0, <1>3, <1>4 DEF Holders, RestHolders, TypeOK
  <2>2. QED
    BY <1>0, <1>1, <1>3, <1>4, <2>1
    DEF SameExcept, MainFreeing, ThreadFreeing, RestFreeing, TypeOK
<1>7. refs'[c] = refs[c] - 1 /\ mem'[c] = mem[c] BY <1>0, <1>3, <1>4 DEF TypeOK
<1>8. RefsInv'
  <2>1. CASE refs[c] = 1
    <3>1. OnlyFreer(c)'
      BY <1>0, <1>1, <1>2, <1>4, <2>1
      DEF OnlyFreer, Freeing, NobodyFrees, MainFreeing, ThreadFreeing, RestFreeing, TypeOK
    <3>2. QED BY <1>0, <1>1, <1>2, <1>5, <1>6, <1>7, <2>1, <3>1, LoseLast
  <2>2. CASE refs[c] # 1
    <3>1. NobodyFrees(c)'
      BY <1>0, <1>1, <1>2, <1>4, <2>2
      DEF NobodyFrees, MainFreeing, ThreadFreeing, RestFreeing, TypeOK
    <3>2. QED BY <1>0, <1>1, <1>2, <1>5, <1>6, <1>7, <2>2, <3>1, Lose
  <2>3. QED BY <2>1, <2>2
<1>9. PoolOK' BY <1>0, <1>3, <1>4 DEF SafetyInv, PoolOK, TypeOK
<1>10. ThreadsOK' BY <1>0, <1>1, <1>3, <1>4 DEF SafetyInv, ThreadsOK, TypeOK
<1>11. MainOK' BY <1>0, <1>1, <1>3, <1>4 DEF SafetyInv, MainOK, TypeOK
<1>12. RestOK' BY <1>0, <1>3, <1>4 DEF SafetyInv, RestOK, TypeOK
<1>13. QED BY <1>8, <1>9, <1>10, <1>11, <1>12 DEF SafetyInv

\* calloc hands out a free block and the client enters its slot.
LEMMA CreateSafe ==
  ASSUME IInv, TypeOK', NEW c \in Client, NEW p, Create(c, p)
  PROVE  SafetyInv'
<1>0. TypeOK /\ SafetyInv /\ RefsInv BY DEF IInv, SafetyInv
<1>1. /\ mem[c] = "free" /\ mpc = "create"
      /\ mem' = [mem EXCEPT ![c] = "live"]
      /\ refs' = [refs EXCEPT ![c] = 1]
      /\ zombie' = [zombie EXCEPT ![c] = FALSE]
      /\ mclient' = c /\ mpc' \in {"session", "ref"}
      /\ UNCHANGED <<tpc, rpc, rclient>>
  BY DEF Create, threadv, restv
<1>2. Holders(c) = {} /\ NobodyFrees(c)
  BY <1>0, <1>1 DEF RefsInv, HoldersAreLive, NobodyFrees, Freeing
<1>3. /\ tpc[c] = "none" /\ ~Pooled(c)
      /\ RestHolders(c) = {}
  BY <1>0, <1>2, WhoHolds DEF NobodyFrees, ThreadFreeing, TypeOK, ThreadPC, Holders
<1>4. /\ Pooled(c)'
      /\ \A d \in Client : d # c => (Pooled(d)' <=> Pooled(d))
  <2>1. PICK s \in Slots : /\ g_clients[s] = NoClient
                           /\ g_clients' = [g_clients EXCEPT ![s] = c]
    BY DEF Create, FirstFree
  <2>2. QED BY <1>0, <2>1, PoolAssumption DEF Pooled, TypeOK
<1>5. Holders(c)' = {"pool"}
  BY <1>1, <1>3, <1>4 DEF Holders, RestHolders
<1>6. SameExcept(c)
  <2>1. \A d \in Client : d # c => Holders(d)' = Holders(d)
    BY <1>1, <1>4 DEF Holders, RestHolders
  <2>2. QED BY <1>0, <1>1, <2>1 DEF SameExcept, MainFreeing, ThreadFreeing, RestFreeing, TypeOK
<1>7. NobodyFrees(c)'
  BY <1>1, <1>2 DEF NobodyFrees, MainFreeing, ThreadFreeing, RestFreeing, TypeOK
<1>8. Cardinality({"pool"}) = 1 BY FS_Singleton
<1>9. mem'[c] = "live" /\ refs'[c] = 1 BY <1>0, <1>1 DEF TypeOK
<1>10. RefsAreHolders'
  BY <1>0, <1>5, <1>6, <1>8, <1>9 DEF RefsInv, RefsAreHolders, SameExcept
<1>11. HoldersAreLive'
  BY <1>0, <1>6, <1>7, <1>9 DEF RefsInv, HoldersAreLive, SameExcept, NobodyFrees, Freeing
<1>12. NoLeak'
  BY <1>0, <1>5, <1>6 DEF RefsInv, NoLeak, SameExcept, Freeing
<1>13. PoolOK' BY <1>0, <1>1, <1>4 DEF SafetyInv, PoolOK, TypeOK
<1>14. ThreadsOK' BY <1>0, <1>1, <1>3, <1>4 DEF SafetyInv, ThreadsOK, TypeOK
<1>15. MainOK' BY <1>1, <1>3, <1>4 DEF MainOK
<1>16. RestOK'
  BY <1>0, <1>1, <1>2 DEF SafetyInv, RestOK, NobodyFrees, RestFreeing, TypeOK
<1>17. QED BY <1>10, <1>11, <1>12, <1>13, <1>14, <1>15, <1>16 DEF SafetyInv, RefsInv

\* The accept loop frees the client it destroyed.
LEMMA MainFreeSafe ==
  ASSUME IInv, TypeOK', MainFree
  PROVE  SafetyInv'
<1>0. TypeOK /\ SafetyInv /\ RefsInv BY DEF IInv, SafetyInv
<1>. PICK c \in Client : mclient = c
  BY <1>0 DEF SafetyInv, MainFree, MainOK
<1>1. Freeing(c) /\ zombie[c] /\ mpc = "mfree" /\ mclient = c
  BY <1>0 DEF Freeing, MainFreeing, ThreadFreeing, RestFreeing, SafetyInv, MainFree, MainOK
<1>2. /\ mem' = [mem EXCEPT ![c] = "free"]
      /\ mpc' = "mrel"
      /\ UNCHANGED <<refs, zombie, g_clients, mclient, tpc, rpc, rclient>>
  BY <1>1 DEF FreeBlock, MainFree, threadv, restv
<1>3. Holders(c) = {} BY <1>0, <1>1 DEF RefsInv, HoldersAreLive
<1>4. tpc[c] \in {"none", "ufree"} /\ ~Pooled(c) /\ RestHolders(c) = {}
  BY <1>3, WhoHolds DEF Holders
<1>5. \A d \in Client : Pooled(d)' <=> Pooled(d) BY <1>2 DEF Pooled
<1>6. \A d \in Client : RestHolders(d)' = RestHolders(d)
  BY <1>0, <1>1, <1>2 DEF RestHolders, TypeOK
<1>7. \A d \in Client : Holders(d)' = Holders(d)
  BY <1>0, <1>1, <1>2, <1>4, <1>5, <1>6 DEF Holders, TypeOK
<1>8. SameExcept(c)
  BY <1>0, <1>1, <1>2, <1>7 DEF SameExcept, MainFreeing, ThreadFreeing, RestFreeing, TypeOK
<1>9. NobodyFrees(c)'
  BY <1>0, <1>1, <1>2, <1>4
  DEF RefsInv, HoldersAreLive, NobodyFrees, MainFreeing, ThreadFreeing,
      RestFreeing, TypeOK
<1>10. RefsInv'
  <2>1. mem'[c] = "free" BY <1>0, <1>2 DEF TypeOK
  <2>2. QED BY <1>0, <1>1, <1>7, <1>8, <1>9, <2>1, Freed
<1>11. PoolOK' BY <1>0, <1>1, <1>2, <1>4, <1>5 DEF SafetyInv, PoolOK, TypeOK
<1>12. ThreadsOK' BY <1>0, <1>2, <1>4, <1>5 DEF SafetyInv, ThreadsOK, TypeOK
<1>13. MainOK' BY <1>0, <1>1, <1>2, <1>4, <1>5 DEF SafetyInv, MainOK, TypeOK
<1>14. RestOK' BY <1>0, <1>2 DEF SafetyInv, RestOK, TypeOK
<1>15. QED BY <1>10, <1>11, <1>12, <1>13, <1>14 DEF SafetyInv

\* A client thread frees its client and ends.
LEMMA ThreadFreeSafe ==
  ASSUME IInv, TypeOK', NEW c \in Client, ThreadFree(c)
  PROVE  SafetyInv'
<1>0. TypeOK /\ SafetyInv /\ RefsInv BY DEF IInv, SafetyInv
<1>1. Freeing(c) /\ zombie[c] /\ tpc[c] = "ufree"
  BY <1>0 DEF Freeing, MainFreeing, ThreadFreeing, RestFreeing, SafetyInv, ThreadFree, ThreadsOK
<1>2. /\ mem' = [mem EXCEPT ![c] = "free"]
      /\ tpc' = [tpc EXCEPT ![c] = "none"]
      /\ UNCHANGED <<refs, zombie, g_clients, mpc, mclient, rpc, rclient>>
  BY <1>1 DEF FreeBlock, ThreadFree, mainv, restv
<1>3. Holders(c) = {} BY <1>0, <1>1 DEF RefsInv, HoldersAreLive
<1>4. tpc[c] \in {"none", "ufree"} /\ ~Pooled(c) /\ RestHolders(c) = {}
  BY <1>3, WhoHolds DEF Holders
<1>5. \A d \in Client : Pooled(d)' <=> Pooled(d) BY <1>2 DEF Pooled
<1>6. \A d \in Client : RestHolders(d)' = RestHolders(d)
  BY <1>0, <1>1, <1>2 DEF RestHolders, TypeOK
<1>7. \A d \in Client : Holders(d)' = Holders(d)
  BY <1>0, <1>1, <1>2, <1>4, <1>5, <1>6 DEF Holders, TypeOK
<1>8. SameExcept(c)
  BY <1>0, <1>1, <1>2, <1>7 DEF SameExcept, MainFreeing, ThreadFreeing, RestFreeing, TypeOK
<1>9. NobodyFrees(c)'
  BY <1>0, <1>1, <1>2, <1>4
  DEF RefsInv, HoldersAreLive, NobodyFrees, MainFreeing, ThreadFreeing,
      RestFreeing, TypeOK
<1>10. RefsInv'
  <2>1. mem'[c] = "free" BY <1>0, <1>2 DEF TypeOK
  <2>2. QED BY <1>0, <1>1, <1>7, <1>8, <1>9, <2>1, Freed
<1>11. PoolOK' BY <1>0, <1>1, <1>2, <1>4, <1>5 DEF SafetyInv, PoolOK, TypeOK
<1>12. ThreadsOK' BY <1>0, <1>2, <1>4, <1>5 DEF SafetyInv, ThreadsOK, TypeOK
<1>13. MainOK' BY <1>0, <1>1, <1>2, <1>4, <1>5 DEF SafetyInv, MainOK, TypeOK
<1>14. RestOK' BY <1>0, <1>2 DEF SafetyInv, RestOK, TypeOK
<1>15. QED BY <1>10, <1>11, <1>12, <1>13, <1>14 DEF SafetyInv

\* A REST request that dropped the last reference frees the client.
LEMMA RestFreeSafe ==
  ASSUME IInv, TypeOK', NEW r \in Rest, RestFree(r)
  PROVE  SafetyInv'
<1>0. TypeOK /\ SafetyInv /\ RefsInv BY DEF IInv, SafetyInv
<1>. PICK c \in Client : rclient[r] = c
  BY <1>0 DEF SafetyInv, RestFree, RestOK
<1>1. Freeing(c) /\ zombie[c] /\ rpc[r] = "free" /\ rclient[r] = c
  BY <1>0 DEF Freeing, MainFreeing, ThreadFreeing, RestFreeing, SafetyInv, RestFree, RestOK
<1>2. /\ mem' = [mem EXCEPT ![c] = "free"]
      /\ rpc' = [rpc EXCEPT ![r] = "idle"]
      /\ rclient' = [rclient EXCEPT ![r] = NoClient]
      /\ UNCHANGED <<refs, zombie, g_clients, mpc, mclient, tpc>>
  BY <1>1 DEF FreeBlock, RestFree, mainv, threadv
<1>3. Holders(c) = {} BY <1>0, <1>1 DEF RefsInv, HoldersAreLive
<1>4. tpc[c] \in {"none", "ufree"} /\ ~Pooled(c) /\ RestHolders(c) = {}
  BY <1>3, WhoHolds DEF Holders
<1>5. \A d \in Client : Pooled(d)' <=> Pooled(d) BY <1>2 DEF Pooled
<1>6. \A d \in Client : RestHolders(d)' = RestHolders(d)
  BY <1>0, <1>1, <1>2 DEF RestHolders, TypeOK
<1>7. \A d \in Client : Holders(d)' = Holders(d)
  BY <1>0, <1>1, <1>2, <1>4, <1>5, <1>6 DEF Holders, TypeOK
<1>8. SameExcept(c)
  BY <1>0, <1>1, <1>2, <1>7 DEF SameExcept, MainFreeing, ThreadFreeing, RestFreeing, TypeOK
<1>9. NobodyFrees(c)'
  BY <1>0, <1>1, <1>2, <1>4
  DEF RefsInv, HoldersAreLive, NobodyFrees, MainFreeing, ThreadFreeing,
      RestFreeing, TypeOK
<1>10. RefsInv'
  <2>1. mem'[c] = "free" BY <1>0, <1>2 DEF TypeOK
  <2>2. QED BY <1>0, <1>1, <1>7, <1>8, <1>9, <2>1, Freed
<1>11. PoolOK' BY <1>0, <1>1, <1>2, <1>4, <1>5 DEF SafetyInv, PoolOK, TypeOK
<1>12. ThreadsOK' BY <1>0, <1>2, <1>4, <1>5 DEF SafetyInv, ThreadsOK, TypeOK
<1>13. MainOK' BY <1>0, <1>1, <1>2, <1>4, <1>5 DEF SafetyInv, MainOK, TypeOK
<1>14. RestOK' BY <1>0, <1>2 DEF SafetyInv, RestOK, TypeOK
<1>15. QED BY <1>10, <1>11, <1>12, <1>13, <1>14 DEF SafetyInv

\* A step that moves a program counter between positions of equal standing.
LEMMA Neutral ==
  ASSUME IInv, UNCHANGED <<mem, refs, zombie, g_clients, rpc, rclient>>,
         \A d \in Client : /\ tpc'[d] \in {"none", "ufree"} <=> tpc[d] \in {"none", "ufree"}
                           /\ tpc'[d] = "ecm" <=> tpc[d] = "ecm"
                           /\ tpc'[d] = "ufree" <=> tpc[d] = "ufree",
         \A d \in Client : MainFreeing(d)' <=> MainFreeing(d),
         ThreadsOK', MainOK'
  PROVE  SafetyInv'
<1>1. SafetyInv BY DEF IInv
<1>2. \A d \in Client : Pooled(d)' <=> Pooled(d) BY DEF Pooled
<1>3. \A d \in Client : RestHolders(d)' = RestHolders(d) BY DEF RestHolders
<1>4. \A d \in Client : Holders(d)' = Holders(d) BY <1>2, <1>3 DEF Holders
<1>5. \A d \in Client : /\ ThreadFreeing(d)' <=> ThreadFreeing(d)
                        /\ \A r \in Rest : RestFreeing(r, d)' <=> RestFreeing(r, d)
                        /\ Freeing(d)' <=> Freeing(d)
  BY DEF ThreadFreeing, RestFreeing, Freeing
<1>6. PoolOK' BY <1>1, <1>2 DEF SafetyInv, PoolOK
<1>7. RestOK' BY <1>1 DEF SafetyInv, RestOK
<1>8. RefsAreHolders' BY <1>1, <1>4 DEF SafetyInv, RefsInv, RefsAreHolders
<1>9. HoldersAreLive'
  BY <1>1, <1>4, <1>5 DEF SafetyInv, RefsInv, HoldersAreLive
<1>10. NoLeak' BY <1>1, <1>4, <1>5 DEF SafetyInv, RefsInv, NoLeak
<1>11. QED BY <1>6, <1>7, <1>8, <1>9, <1>10 DEF SafetyInv, RefsInv

\* A step of the main thread that touches neither references nor threads.
LEMMA MainNeutral ==
  ASSUME IInv, UNCHANGED <<mem, refs, zombie, g_clients, tpc, rpc, rclient>>,
         mpc # "mfree", mpc' # "mfree", MainOK'
  PROVE  SafetyInv'
<1>1. \A d \in Client : Pooled(d)' <=> Pooled(d) BY DEF Pooled
<1>2. ThreadsOK' BY <1>1 DEF IInv, SafetyInv, ThreadsOK
<1>3. QED BY <1>2, Neutral DEF MainFreeing

\* A step of a client thread that keeps its reference.
LEMMA ThreadNeutral ==
  ASSUME IInv, NEW c \in Client, NEW x,
         UNCHANGED <<mem, refs, zombie, g_clients, mpc, mclient, rpc, rclient>>,
         tpc' = [tpc EXCEPT ![c] = x],
         tpc[c] \in {"start", "loop", "select", "reader", "exit", "rel", "rel_w"},
         x \in {"loop", "select", "reader", "exit", "destroy", "rel_w", "unref"},
         x \in {"select", "reader", "destroy"} => Pooled(c),
         x \in {"rel_w", "unref"} => zombie[c]
  PROVE  SafetyInv'
<1>0. TypeOK /\ SafetyInv BY DEF IInv
<1>1. \A d \in Client : Pooled(d)' <=> Pooled(d) BY DEF Pooled
<1>2. ThreadsOK' BY <1>0, <1>1 DEF SafetyInv, ThreadsOK, TypeOK
<1>3. MainOK' BY <1>0, <1>1 DEF SafetyInv, MainOK, TypeOK
<1>4. \A d \in Client : /\ tpc'[d] \in {"none", "ufree"} <=> tpc[d] \in {"none", "ufree"}
                        /\ tpc'[d] = "ecm" <=> tpc[d] = "ecm"
                        /\ tpc'[d] = "ufree" <=> tpc[d] = "ufree"
  BY <1>0 DEF TypeOK
<1>5. QED BY <1>2, <1>3, <1>4, Neutral DEF MainFreeing

\* Every step of the serving phase keeps the inductive invariant.
LEMMA SafetyStep == IInv /\ [ServeNext]_vars => IInv'
<1> SUFFICES ASSUME IInv, [ServeNext]_vars PROVE IInv' OBVIOUS
<1>1. TypeOK' BY TypeStep DEF IInv, Next
<1>2. \A c \in Client : mem[c] = "live" /\ ~zombie[c] => Pooled(c)
  BY DEF IInv, SafetyInv, PoolOK
<1>3. \A c \in Client : tpc[c] # "none" => mem[c] = "live"
  <2> TAKE c \in Client
  <2>1. tpc[c] # "none" => Holders(c) # {} \/ Freeing(c)
    BY WhoHolds DEF Freeing, ThreadFreeing
  <2>2. QED BY <2>1 DEF IInv, SafetyInv, RefsInv, HoldersAreLive
<1> USE DEF pool, balancer, mainv, threadv, restv
<1>4. CASE Accept
  <2>1. MainOK' BY <1>4 DEF Accept, IInv, SafetyInv, MainOK, Pooled
  <2>2. QED BY <1>1, <1>4, <2>1, MainNeutral DEF IInv, Accept
<1>5. CASE AllowRead
  <2>1. MainOK' BY <1>5 DEF AllowRead, IInv, SafetyInv, MainOK, Pooled
  <2>2. QED BY <1>1, <1>5, <2>1, MainNeutral DEF IInv, AllowRead
<1>6. CASE AllowWrite
  <2>1. MainOK' BY <1>6 DEF AllowWrite, IInv, SafetyInv, MainOK, Pooled
  <2>2. QED BY <1>1, <1>6, <2>1, MainNeutral DEF IInv, AllowWrite
<1>7. CASE CreateFails
  <2>1. MainOK' BY <1>7 DEF CreateFails, IInv, SafetyInv, MainOK, Pooled
  <2>2. QED BY <1>1, <1>7, <2>1, MainNeutral DEF IInv, CreateFails
<1>8. CASE SessionStart
  <2>1. MainOK' BY <1>8 DEF SessionStart, IInv, SafetyInv, MainOK, Pooled
  <2>2. QED BY <1>1, <1>8, <2>1, MainNeutral DEF IInv, SessionStart
<1>9. CASE TouchAfterSpawn
  <2>1. MainOK' BY <1>9 DEF TouchAfterSpawn, IInv, SafetyInv, MainOK, Pooled
  <2>2. QED BY <1>1, <1>9, <2>1, MainNeutral DEF IInv, TouchAfterSpawn
<1>10. CASE MainReleaseRead
  <2>1. MainOK' BY <1>10 DEF MainReleaseRead, IInv, SafetyInv, MainOK, Pooled
  <2>2. QED BY <1>1, <1>10, <2>1, MainNeutral DEF IInv, MainReleaseRead
<1>11. CASE MainReleaseWrite
  <2>1. MainOK' BY <1>11 DEF MainReleaseWrite, IInv, SafetyInv, MainOK, Pooled
  <2>2. QED BY <1>1, <1>11, <2>1, MainNeutral DEF IInv, MainReleaseWrite
<1>12. CASE Spawn
  <2>0. PICK c \in Client : mclient = c
    BY <1>12 DEF Spawn, IInv, SafetyInv, MainOK
  <2>1. mpc = "spawn" /\ tpc[c] = "unborn" /\ Pooled(c)
    BY <1>12, <2>0 DEF Spawn, IInv, SafetyInv, MainOK
  <2>2. tpc' = [tpc EXCEPT ![c] = "start"] /\ mpc' = "touch"
    BY <1>12, <2>0 DEF Spawn
  <2>3. \A d \in Client : Pooled(d)' <=> Pooled(d) BY <1>12 DEF Spawn, Pooled
  <2>4. ThreadsOK'
    BY <1>12, <2>1, <2>2, <2>3 DEF Spawn, IInv, SafetyInv, ThreadsOK, TypeOK
  <2>5. MainOK' BY <2>2 DEF MainOK
  <2>6. \A d \in Client : /\ tpc'[d] \in {"none", "ufree"} <=> tpc[d] \in {"none", "ufree"}
                          /\ tpc'[d] = "ecm" <=> tpc[d] = "ecm"
                          /\ tpc'[d] = "ufree" <=> tpc[d] = "ufree"
    BY <2>1, <2>2 DEF IInv, TypeOK
  <2>7. SafetyInv'
    BY <1>12, <2>1, <2>2, <2>4, <2>5, <2>6, Neutral DEF Spawn, MainFreeing
  <2>8. QED BY <1>1, <1>12, <2>7 DEF Spawn, IInv
<1>13. CASE RefForThread BY <1>1, <1>13, RefForThreadSafe DEF IInv, RefForThread
<1>14. CASE SpawnFails BY <1>1, <1>14, SpawnFailsSafe DEF IInv, SpawnFails
<1>15. CASE MainDestroy BY <1>1, <1>15, MainDestroySafe DEF IInv, MainDestroy
<1>16. CASE MainFree BY <1>1, <1>16, MainFreeSafe DEF IInv, MainFree
<1>17. ASSUME NEW c \in Client, NEW p \in {"cccam3", "newcamd"}, Create(c, p)
      PROVE  IInv'
  BY <1>1, <1>17, CreateSafe DEF IInv, Create
<1>18. ASSUME NEW c \in Client, DetectError(c) PROVE IInv'
  <2>1. SafetyInv'
    BY <1>18, ThreadNeutral DEF DetectError, IInv, SafetyInv, ThreadsOK
  <2>2. QED BY <1>1, <1>18, <2>1 DEF IInv, DetectError
<1>19. ASSUME NEW c \in Client, DetectOwn(c) PROVE IInv'
  <2>1. SafetyInv'
    BY <1>19, ThreadNeutral DEF DetectOwn, IInv, SafetyInv, ThreadsOK
  <2>2. QED BY <1>1, <1>19, <2>1 DEF IInv, DetectOwn
<1>20. ASSUME NEW c \in Client, ServeOther(c) PROVE IInv'
  <2>1. SafetyInv'
    BY <1>20, ThreadNeutral DEF ServeOther, IInv, SafetyInv, ThreadsOK
  <2>2. QED BY <1>1, <1>20, <2>1 DEF IInv, ServeOther
<1>21. ASSUME NEW c \in Client, ServeBreak(c) PROVE IInv'
  <2>1. SafetyInv'
    BY <1>21, ThreadNeutral DEF ServeBreak, IInv, SafetyInv, ThreadsOK
  <2>2. QED BY <1>1, <1>21, <2>1 DEF IInv, ServeBreak
<1>22. ASSUME NEW c \in Client, NewcamdFails(c) PROVE IInv'
  <2>1. SafetyInv'
    BY <1>22, ThreadNeutral DEF NewcamdFails, IInv, SafetyInv, ThreadsOK
  <2>2. QED BY <1>1, <1>22, <2>1 DEF IInv, NewcamdFails
<1>23. ASSUME NEW c \in Client, ThreadReleaseRead(c) PROVE IInv'
  <2>1. SafetyInv'
    BY <1>23, ThreadNeutral DEF ThreadReleaseRead, IInv, SafetyInv, ThreadsOK
  <2>2. QED BY <1>1, <1>23, <2>1 DEF IInv, ThreadReleaseRead
<1>24. ASSUME NEW c \in Client, DetectLegacy(c) PROVE IInv'
  <2>1. PICK x \in {"loop", "exit"} : tpc' = [tpc EXCEPT ![c] = x]
    BY <1>24 DEF DetectLegacy
  <2>2. SafetyInv' BY <1>24, <2>1, ThreadNeutral DEF DetectLegacy
  <2>3. QED BY <1>1, <1>24, <2>2 DEF IInv, DetectLegacy
<1>25. ASSUME NEW c \in Client, LoopTop(c) PROVE IInv'
  <2>1. KeepServing(c) => Pooled(c)
    BY <1>2, <1>3, <1>25 DEF LoopTop, KeepServing
  <2>2. SafetyInv'
    <3>1. CASE KeepServing(c) BY <1>25, <2>1, <3>1, ThreadNeutral DEF LoopTop
    <3>2. CASE ~KeepServing(c) BY <1>25, <3>2, ThreadNeutral DEF LoopTop
    <3>3. QED BY <3>1, <3>2
  <2>3. QED BY <1>1, <1>25, <2>2 DEF IInv, LoopTop
<1>26. ASSUME NEW c \in Client, ExitTest(c) PROVE IInv'
  <2>1. SafetyInv'
    <3>1. CASE zombie[c] BY <1>26, <3>1, ThreadNeutral DEF ExitTest
    <3>2. CASE ~zombie[c]
      BY <1>2, <1>3, <1>26, <3>2, ThreadNeutral DEF ExitTest
    <3>3. QED BY <3>1, <3>2
  <2>2. QED BY <1>1, <1>26, <2>1 DEF IInv, ExitTest
<1>27. ASSUME NEW c \in Client, ThreadReleaseWrite(c) PROVE IInv'
  <2>1. tpc[c] = "rel_w" /\ zombie[c] /\ tret[c] \in {"loop", "unref"}
    BY <1>27 DEF ThreadReleaseWrite, IInv, TypeOK, SafetyInv, ThreadsOK
  <2>2. SafetyInv' BY <1>27, <2>1, ThreadNeutral DEF ThreadReleaseWrite
  <2>3. QED BY <1>1, <1>27, <2>2 DEF IInv, ThreadReleaseWrite
<1>28. ASSUME NEW c \in Client, EcmFind(c) PROVE IInv'
  BY <1>1, <1>28, EcmFindSafe DEF IInv, EcmFind
<1>29. ASSUME NEW c \in Client, EcmUnref(c) PROVE IInv'
  BY <1>1, <1>29, EcmUnrefSafe DEF IInv, EcmUnref
<1>30. ASSUME NEW c \in Client, ThreadDestroy(c) PROVE IInv'
  BY <1>1, <1>30, ThreadDestroySafe DEF IInv, ThreadDestroy
<1>31. ASSUME NEW c \in Client, ThreadUnref(c) PROVE IInv'
  BY <1>1, <1>31, ThreadUnrefSafe DEF IInv, ThreadUnref
<1>32. ASSUME NEW c \in Client, ThreadFree(c) PROVE IInv'
  BY <1>1, <1>32, ThreadFreeSafe DEF IInv, ThreadFree
<1>33. ASSUME NEW c \in Client, ThreadDestroyFree(c) PROVE IInv'
  BY <1>33 DEF ThreadDestroyFree, IInv, SafetyInv, ThreadsOK
<1>34. ASSUME NEW r \in Rest, NEW c \in Client, RestAcquire(r, c) PROVE IInv'
  BY <1>1, <1>34, RestAcquireSafe DEF IInv, RestAcquire
<1>35. ASSUME NEW r \in Rest, RestUnref(r) PROVE IInv'
  BY <1>1, <1>35, RestUnrefSafe DEF IInv, RestUnref
<1>36. ASSUME NEW r \in Rest, RestFree(r) PROVE IInv'
  BY <1>1, <1>36, RestFreeSafe DEF IInv, RestFree
<1>37. CASE UNCHANGED <<mem, refs, zombie, g_clients, mpc, mclient,
                        tpc, rpc, rclient>>
  <2>1. \A d \in Client : Pooled(d)' <=> Pooled(d) BY <1>37 DEF Pooled
  <2>2. ThreadsOK' /\ MainOK'
    BY <1>37, <2>1 DEF IInv, SafetyInv, ThreadsOK, MainOK, Pooled
  <2>3. SafetyInv' BY <1>37, <2>2, Neutral DEF MainFreeing
  <2>4. QED BY <1>1, <1>37, <2>3 DEF IInv
<1>38. ASSUME NEW r \in Rest, RestKick(r) PROVE IInv'
  BY <1>38, <1>37 DEF RestKick
<1>39. ASSUME NEW c \in Client, AskReader(c) PROVE IInv'
  <2>1. SafetyInv'
    BY <1>39, ThreadNeutral DEF AskReader, IInv, SafetyInv, ThreadsOK
  <2>2. QED BY <1>1, <1>39, <2>1 DEF IInv, AskReader
<1>40. QED
  BY <1>4, <1>5, <1>6, <1>7, <1>8, <1>9, <1>10, <1>11, <1>12, <1>13, <1>14,
     <1>15, <1>16, <1>17, <1>18, <1>19, <1>20, <1>21, <1>22, <1>23,
     <1>24, <1>25, <1>26, <1>27, <1>28, <1>29, <1>30, <1>31, <1>32,
     <1>33, <1>34, <1>35, <1>36, <1>37, <1>38, <1>39
  DEF ServeNext, MainServe, Thread, RestThread, vars

\* The initial state satisfies the inductive invariant.
LEMMA SafetyInit == Init => IInv
<1> SUFFICES ASSUME Init PROVE IInv OBVIOUS
<1>1. TypeOK
  BY PoolAssumption DEF Init, TypeOK, MainPC, ThreadPC, Protocols, Slots
<1>2. \A c \in Client : ~Pooled(c) BY PoolAssumption DEF Init, Pooled
<1>3. PoolOK /\ ThreadsOK /\ MainOK /\ RestOK
  BY <1>2 DEF Init, PoolOK, ThreadsOK, MainOK, RestOK
<1>4. \A c \in Client : Holders(c) = {} /\ ~Freeing(c)
  BY <1>2 DEF Init, Holders, RestHolders, Freeing, MainFreeing, ThreadFreeing, RestFreeing
<1>5. RefsInv
  BY <1>4 DEF Init, RefsInv, RefsAreHolders, HoldersAreLive, NoLeak, Freeing
<1>6. QED BY <1>1, <1>3, <1>5 DEF IInv, SafetyInv, Init

\* The strengthened invariant holds throughout the serving phase.
THEOREM Inductive == ServeSpec => []IInv
BY SafetyInit, SafetyStep, PTL DEF ServeSpec

\* client.c:17-20: while the server is serving, the reference count of every
\* live client is the number of its holders, for any number of clients,
\* slots and REST requests.
THEOREM RefsAreExact == ServeSpec => []RefsAreHolders
<1>1. IInv => RefsAreHolders BY DEF IInv, SafetyInv, RefsInv
<1>2. QED BY <1>1, Inductive, PTL

\* client.c:99-142: while the server is serving, no slot, client thread or
\* REST request ever points to freed memory, and nothing is freed twice.
THEOREM NoUseAfterFree == ServeSpec => []HoldersAreLive
<1>1. IInv => HoldersAreLive BY DEF IInv, SafetyInv, RefsInv
<1>2. QED BY <1>1, Inductive, PTL

\* client.c, server.c: while the server is serving, a client without holders
\* is being freed: no path loses a client.
THEOREM NoClientLeak == ServeSpec => []NoLeak
<1>1. IInv => NoLeak BY DEF IInv, SafetyInv, RefsInv
<1>2. QED BY <1>1, Inductive, PTL

-----------------------------------------------------------------------------
(* The number of clients.  A client is in one slot at most, so emptying    *)
(* every slot that holds it empties exactly one, and a block that create   *)
(* gets from the allocator is in no slot, because those in slots are live. *)

Occupied == {s \in Slots : g_clients[s] # NoClient}

Distinct == \A s, t \in Slots :
              g_clients[s] # NoClient /\ g_clients[s] = g_clients[t] => s = t

CountInv == Distinct /\ CountMatchesPool

\* There are finitely many slots.
LEMMA OccupiedFinite == IsFiniteSet(Occupied)
<1>1. IsFiniteSet(Slots) BY PoolAssumption, FS_Interval DEF Slots
<1>2. Occupied \subseteq Slots BY DEF Occupied
<1>3. QED BY <1>1, <1>2, FS_Subset

\* A client put into an empty slot is one more.
LEMMA CreateCounts ==
  ASSUME TypeOK, PoolOK, CountInv, NEW c \in Client,
         NEW p \in {"cccam3", "newcamd"}, Create(c, p)
  PROVE  CountInv'
<1>1. c # NoClient BY PoolAssumption
<1>2. PICK s \in Slots : /\ FirstFree(s)
                         /\ g_clients' = [g_clients EXCEPT ![s] = c]
  BY DEF Create
<1>3. g_clients[s] = NoClient /\ s \notin Occupied BY <1>2 DEF FirstFree, Occupied
<1>4. /\ g_clients'[s] = c
      /\ \A t \in Slots : t # s => g_clients'[t] = g_clients[t]
  BY <1>2 DEF TypeOK
<1>5. \A t \in Slots : g_clients[t] # c BY DEF Create, PoolOK, Pooled
<1>6. Occupied' = Occupied \cup {s} BY <1>1, <1>4 DEF Occupied
<1>7. Cardinality(Occupied') = Cardinality(Occupied) + 1
  BY <1>3, <1>6, OccupiedFinite, AddHolder
<1>8. CountMatchesPool'
  BY <1>7 DEF CountInv, Distinct, CountMatchesPool, Occupied, Create
<1>9. QED BY <1>4, <1>5, <1>8 DEF CountInv, Distinct

\* A client taken out of its slot is one less, and destroying one that is
\* in no slot changes nothing.
LEMMA DestroyCounts ==
  ASSUME TypeOK, CountInv, NEW c \in Client, DestroyLocked(c)
  PROVE  CountInv'
<1>1. c # NoClient BY PoolAssumption
<1>2. \A t \in Slots : g_clients'[t] = IF g_clients[t] = c THEN NoClient
                                                           ELSE g_clients[t]
  BY DEF DestroyLocked
<1>3. \A s, t \in Slots :
        g_clients'[s] # NoClient /\ g_clients'[s] = g_clients'[t] => s = t
  BY <1>2 DEF CountInv, Distinct
<1>4. CASE Pooled(c)
  <2>1. PICK s \in Slots : g_clients[s] = c BY <1>4 DEF Pooled
  <2>2. \A t \in Slots : g_clients[t] = c => t = s BY <1>1, <2>1 DEF CountInv, Distinct
  <2>3. s \in Occupied BY <1>1, <2>1 DEF Occupied
  <2>4. Occupied' = Occupied \ {s} BY <1>1, <1>2, <2>1, <2>2 DEF Occupied
  <2>5. Cardinality(Occupied') = Cardinality(Occupied) - 1
    BY <2>3, <2>4, OccupiedFinite, DropHolder
  <2>6. CountMatchesPool'
    BY <1>4, <2>5 DEF CountInv, Distinct, CountMatchesPool, Occupied, DestroyLocked
  <2>7. QED BY <1>3, <2>6 DEF CountInv, Distinct
<1>5. CASE ~Pooled(c)
  <2>1. \A t \in Slots : g_clients'[t] = g_clients[t] BY <1>2, <1>5 DEF Pooled
  <2>2. Occupied' = Occupied BY <2>1 DEF Occupied
  <2>3. CountMatchesPool'
    BY <1>5, <2>2 DEF CountInv, Distinct, CountMatchesPool, Occupied, DestroyLocked
  <2>4. QED BY <1>3, <2>3 DEF CountInv, Distinct
<1>6. QED BY <1>4, <1>5

\* Only create and destroy touch the slots and their count.
LEMMA CountStep == IInv /\ CountInv /\ [ServeNext]_vars => CountInv'
<1> SUFFICES ASSUME IInv, CountInv, [ServeNext]_vars PROVE CountInv' OBVIOUS
<1>1. TypeOK /\ PoolOK /\ MainOK BY DEF IInv, SafetyInv
<1>2. ASSUME UNCHANGED <<g_clients, g_client_count>> PROVE CountInv'
  BY <1>2 DEF CountInv, Distinct, CountMatchesPool
<1>3. ASSUME MainServe PROVE CountInv'
  <2>1. ASSUME NEW c \in Client, NEW p \in {"cccam3", "newcamd"}, Create(c, p)
        PROVE CountInv'
    BY <1>1, <2>1, CreateCounts
  <2>2. CASE MainDestroy
    <3>1. mclient \in Client BY <1>1, <2>2 DEF MainDestroy, MainOK
    <3>2. QED BY <1>1, <2>2, <3>1, DestroyCounts DEF MainDestroy
  <2>3. QED
    BY <1>2, <1>3, <2>1, <2>2
    DEF MainServe, Accept, AllowRead, AllowWrite, CreateFails, SessionStart,
        RefForThread, Spawn, SpawnFails, TouchAfterSpawn, MainFree,
        MainReleaseRead, MainReleaseWrite, pool
<1>4. ASSUME NEW c \in Client, Thread(c) PROVE CountInv'
  <2>1. CASE ThreadDestroy(c) BY <1>1, <2>1, DestroyCounts DEF ThreadDestroy
  <2>2. QED
    BY <1>2, <1>4, <2>1
    DEF Thread, DetectError, DetectLegacy, DetectOwn, LoopTop, AskReader,
        ServeOther, ServeBreak, NewcamdFails, EcmFind, EcmUnref, ExitTest,
        ThreadDestroyFree, ThreadReleaseRead, ThreadReleaseWrite,
        ThreadUnref, ThreadFree, pool
<1>5. ASSUME NEW r \in Rest, RestThread(r) PROVE CountInv'
  BY <1>2, <1>5 DEF RestThread, RestAcquire, RestKick, RestUnref, RestFree, pool
<1>6. CASE UNCHANGED vars BY <1>2, <1>6 DEF vars
<1>7. QED BY <1>3, <1>4, <1>5, <1>6 DEF ServeNext

\* client.c:61, 93: while the server is serving, g_client_count, which create
\* and the limit of clients rely on, is the number of occupied slots.
THEOREM CountIsExact == ServeSpec => []CountMatchesPool
<1>1. Init => CountInv
  <2> SUFFICES ASSUME Init PROVE CountInv OBVIOUS
  <2>1. \A s \in Slots : g_clients[s] = NoClient BY DEF Init
  <2>2. {s \in Slots : g_clients[s] # NoClient} = {} BY <2>1
  <2>3. CountMatchesPool BY <2>2, FS_EmptySet DEF CountMatchesPool, Init
  <2>4. QED BY <2>1, <2>3 DEF CountInv, Distinct
<1>2. CountInv => CountMatchesPool BY DEF CountInv, Distinct
<1>3. QED BY <1>1, <1>2, CountStep, Inductive, PTL DEF ServeSpec

-----------------------------------------------------------------------------
(* Shutdown.  Up to the mark the serving invariant holds, since a signal   *)
(* and the end of the accept loop touch no client.  Once close_all has     *)
(* marked the pool it no longer does: close_all drops references that are  *)
(* not its own and frees blocks their threads still use.  What remains is  *)
(* about the clients that are still in a slot, and is inductive because no *)
(* client gets into a slot any more and each is in one slot only, so that  *)
(* the clients close_all has gone past are out of the pool for good.       *)

ClosingInv ==
    \A c \in Client : Pooled(c) =>
      /\ mem[c] = "live" /\ zombie[c]
      /\ refs[c] = Cardinality(Holders(c))
      /\ tpc[c] \notin {"ufree", "dfree"}
      /\ \A r \in Rest : ~RestFreeing(r, c)
      /\ mpc \in {"ca_dec", "ca_free"} => mclient # c

FullInv ==
    /\ TypeOK
    /\ Distinct
    /\ mpc \notin Marked => SafetyInv /\ CountMatchesPool
    /\ mpc \in Marked => ClosingInv

\* The mark turns one invariant into the other.
LEMMA MarkCloses ==
  ASSUME IInv, CloseMark
  PROVE  ClosingInv'
<1>1. TypeOK /\ PoolOK /\ ThreadsOK /\ RefsInv BY DEF IInv, SafetyInv
<1>2. /\ zombie' = [c \in Client |-> zombie[c] \/ Pooled(c)]
      /\ mpc' = "ca_join"
      /\ UNCHANGED <<mem, refs, g_clients, tpc, rpc, rclient>>
  BY DEF CloseMark, threadv, restv
<1>3. \A d \in Client : /\ Pooled(d)' <=> Pooled(d)
                        /\ Holders(d)' = Holders(d)
                        /\ \A r \in Rest : RestFreeing(r, d)' <=> RestFreeing(r, d)
  BY <1>2 DEF Pooled, Holders, RestHolders, RestFreeing
<1>4. ASSUME NEW c \in Client, Pooled(c)
      PROVE  /\ mem[c] = "live" /\ refs[c] = Cardinality(Holders(c))
             /\ tpc[c] \notin {"ufree", "dfree"}
             /\ \A r \in Rest : ~RestFreeing(r, c)
  <2>1. "pool" \in Holders(c) BY <1>4, WhoHolds
  <2>2. mem[c] = "live" /\ NobodyFrees(c) BY <1>1, <2>1, Held
  <2>3. QED
    BY <1>1, <2>2 DEF RefsInv, RefsAreHolders, NobodyFrees, ThreadFreeing, ThreadsOK
<1>5. QED BY <1>2, <1>3, <1>4 DEF ClosingInv

\* A client in a slot has the slot's reference besides any other, so that
\* another holder's unref leaves it with one at least.
LEMMA PooledUnref ==
  ASSUME ClosingInv, NEW c \in Client, Pooled(c), NEW x \in Holders(c), x # "pool",
         UnrefLocked(c)
  PROVE  /\ refs' = [refs EXCEPT ![c] = refs[c] - 1]
         /\ refs[c] - 1 = Cardinality(Holders(c) \ {x})
         /\ ~FreeAfterUnref(c)
<1>1. "pool" \in Holders(c) \ {x} BY WhoHolds
<1>2. refs[c] = Cardinality(Holders(c)) BY DEF ClosingInv
<1>3. /\ refs[c] \in Nat /\ refs[c] >= 1
      /\ refs[c] - 1 = Cardinality(Holders(c) \ {x})
      /\ refs[c] # 1
  BY <1>1, <1>2, HoldersFinite, DropHolder
<1>4. QED BY <1>3, UnrefEffect DEF FreeAfterUnref

\* What a step leaves of a client that it leaves in its slot.
StillPooled(c) ==
    /\ Pooled(c)
    /\ mem'[c] = mem[c]
    /\ zombie'[c] = zombie[c]
    /\ refs'[c] = Cardinality(Holders(c)')
    /\ tpc'[c] \notin {"ufree", "dfree"}
    /\ \A r \in Rest : ~RestFreeing(r, c)'
    /\ mpc' \in {"ca_dec", "ca_free"} => mclient' # c

LEMMA ClosingKept ==
  ASSUME ClosingInv, \A c \in Client : Pooled(c)' => StillPooled(c)
  PROVE  ClosingInv'
BY DEF ClosingInv, StillPooled

\* A step that changes no reference and no block, and of the program
\* counters none that counts, keeps what holds of the pooled clients.
LEMMA ClosingNeutral ==
  ASSUME ClosingInv, UNCHANGED <<mem, refs, zombie, g_clients, rpc, rclient>>,
         \A d \in Client : Pooled(d) =>
            /\ tpc'[d] \notin {"ufree", "dfree"}
            /\ tpc'[d] = "none" <=> tpc[d] = "none"
            /\ tpc'[d] = "ecm" <=> tpc[d] = "ecm",
         \A d \in Client : Pooled(d) =>
            (mpc' \in {"ca_dec", "ca_free"} => mclient' # d)
  PROVE  ClosingInv'
<1>1. ASSUME NEW c \in Client, Pooled(c)' PROVE StillPooled(c)
  <2>1. Pooled(c) BY <1>1 DEF Pooled
  <2>2. tpc[c] # "ufree" BY <2>1 DEF ClosingInv
  <2>3. RestHolders(c)' = RestHolders(c) BY DEF RestHolders
  <2>4. Holders(c)' = Holders(c) BY <1>1, <2>1, <2>2, <2>3 DEF Holders
  <2>5. \A r \in Rest : RestFreeing(r, c)' <=> RestFreeing(r, c) BY DEF RestFreeing
  <2>6. QED BY <2>1, <2>4, <2>5 DEF StillPooled, ClosingInv
<1>2. QED BY <1>1, ClosingKept

\* After the mark a client thread only leaves the pool, or gives back a
\* reference of its own.
LEMMA ClosingThread ==
  ASSUME TypeOK, ClosingInv, mpc \in Marked, NEW c \in Client, Thread(c)
  PROVE  ClosingInv'
<1> USE DEF pool, mainv, restv
<1>1. ASSUME UNCHANGED <<mem, refs, zombie, g_clients, mpc, mclient, rpc, rclient>>,
             NEW x, tpc' = [tpc EXCEPT ![c] = x],
             tpc[c] \notin {"none", "ecm", "ufree"},
             x \notin {"none", "ecm", "ufree", "dfree"}
      PROVE  ClosingInv'
  <2>1. \A d \in Client : tpc'[d] = IF d = c THEN x ELSE tpc[d]
    BY <1>1 DEF TypeOK
  <2>2. \A d \in Client : Pooled(d) =>
            /\ tpc'[d] \notin {"ufree", "dfree"}
            /\ tpc'[d] = "none" <=> tpc[d] = "none"
            /\ tpc'[d] = "ecm" <=> tpc[d] = "ecm"
    BY <1>1, <2>1 DEF ClosingInv
  <2>3. \A d \in Client : Pooled(d) =>
            (mpc' \in {"ca_dec", "ca_free"} => mclient' # d)
    BY <1>1 DEF ClosingInv
  <2>4. QED BY <1>1, <2>2, <2>3, ClosingNeutral
<1>2. CASE DetectError(c) BY <1>1, <1>2 DEF DetectError
<1>3. CASE DetectOwn(c) BY <1>1, <1>3 DEF DetectOwn
<1>4. CASE ServeOther(c) BY <1>1, <1>4 DEF ServeOther
<1>5. CASE ServeBreak(c) \/ AskReader(c) BY <1>1, <1>5 DEF ServeBreak, AskReader
<1>6. CASE NewcamdFails(c) BY <1>1, <1>6 DEF NewcamdFails
<1>7. CASE ThreadReleaseRead(c) BY <1>1, <1>7 DEF ThreadReleaseRead
<1>8. CASE DetectLegacy(c)
  <2>1. PICK x \in {"loop", "exit"} : tpc' = [tpc EXCEPT ![c] = x]
    BY <1>8 DEF DetectLegacy
  <2>2. QED BY <1>1, <1>8, <2>1 DEF DetectLegacy
<1>9. CASE LoopTop(c)
  <2>1. PICK x \in {"select", "exit"} : tpc' = [tpc EXCEPT ![c] = x]
    BY <1>9 DEF LoopTop
  <2>2. QED BY <1>1, <1>9, <2>1 DEF LoopTop
<1>10. CASE ExitTest(c)
  <2>1. PICK x \in {"unref", "destroy"} : tpc' = [tpc EXCEPT ![c] = x]
    BY <1>10 DEF ExitTest
  <2>2. QED BY <1>1, <1>10, <2>1 DEF ExitTest
<1>11. CASE ThreadReleaseWrite(c)
  <2>1. tret[c] \in {"loop", "unref"} BY DEF TypeOK
  <2>2. QED BY <1>1, <1>11, <2>1 DEF ThreadReleaseWrite
<1>12. ASSUME EcmFind(c) PROVE FALSE
  BY <1>12 DEF EcmFind, Acquirable, ClosingInv
<1>13. ASSUME UNCHANGED <<mem, zombie, g_clients, mpc, mclient, rpc, rclient>>,
              UnrefLocked(c), NEW x \in {"thread", "ecm"}, x \in Holders(c), NEW y,
              tpc' = [tpc EXCEPT ![c] = y],
              Pooled(c) /\ ~FreeAfterUnref(c) =>
                 /\ y \notin {"ufree", "dfree"}
                 /\ Holders(c)' = Holders(c) \ {x}
       PROVE  ClosingInv'
  <2>1. ASSUME NEW d \in Client, Pooled(d)' PROVE StillPooled(d)
    <3>1. Pooled(d) BY <1>13, <2>1 DEF Pooled
    <3>2. \A r \in Rest : ~RestFreeing(r, d)'
      BY <1>13, <3>1 DEF ClosingInv, RestFreeing
    <3>3. CASE d = c
      <4>1. /\ refs' = [refs EXCEPT ![c] = refs[c] - 1]
            /\ refs[c] - 1 = Cardinality(Holders(c) \ {x})
            /\ ~FreeAfterUnref(c)
        BY <1>13, <3>1, <3>3, PooledUnref
      <4>2. refs'[c] = Cardinality(Holders(c)')
        BY <1>13, <3>1, <3>3, <4>1 DEF TypeOK
      <4>3. tpc'[c] \notin {"ufree", "dfree"}
        BY <1>13, <3>1, <3>3, <4>1 DEF TypeOK
      <4>4. QED BY <1>13, <3>1, <3>2, <3>3, <4>2, <4>3 DEF StillPooled, ClosingInv
    <3>4. CASE d # c
      <4>1. tpc'[d] = tpc[d] /\ refs'[d] = refs[d]
        BY <1>13, <3>4 DEF TypeOK, UnrefLocked
      <4>2. RestHolders(d)' = RestHolders(d) BY <1>13 DEF RestHolders
      <4>3. Holders(d)' = Holders(d) BY <2>1, <3>1, <4>1, <4>2 DEF Holders
      <4>4. QED BY <1>13, <3>1, <3>2, <4>1, <4>3 DEF StillPooled, ClosingInv
    <3>5. QED BY <3>3, <3>4
  <2>2. QED BY <2>1, ClosingKept
<1>14. CASE EcmUnref(c)
  <2>1. "ecm" \in Holders(c) BY <1>14, WhoHolds DEF EcmUnref
  <2>2. Holders(c)' = Holders(c) \ {"ecm"}
    BY <1>14, RestAssumption DEF EcmUnref, Holders, RestHolders, Pooled, TypeOK
  <2>3. QED BY <1>13, <1>14, <2>1, <2>2 DEF EcmUnref
<1>15. CASE ThreadUnref(c)
  <2>1. "thread" \in Holders(c) BY <1>15, WhoHolds DEF ThreadUnref
  <2>2. tpc' = [tpc EXCEPT ![c] = IF FreeAfterUnref(c) THEN "ufree" ELSE "none"]
    BY <1>15 DEF ThreadUnref
  <2>3. Holders(c)' = Holders(c) \ {"thread"}
    BY <1>15, RestAssumption DEF ThreadUnref, Holders, RestHolders, Pooled, TypeOK
  <2>4. QED BY <1>13, <1>15, <2>1, <2>2, <2>3 DEF ThreadUnref
<1>16. ASSUME UNCHANGED <<mpc, mclient, rpc, rclient>>,
              \A d \in Client \ {c} :
                 /\ mem'[d] = mem[d] /\ refs'[d] = refs[d]
                 /\ zombie'[d] = zombie[d] /\ tpc'[d] = tpc[d]
                 /\ Pooled(d)' <=> Pooled(d),
              ~Pooled(c)'
       PROVE  ClosingInv'
  <2>1. ASSUME NEW d \in Client, Pooled(d)' PROVE StillPooled(d)
    <3>1. d # c /\ Pooled(d) BY <1>16, <2>1
    <3>2. RestHolders(d)' = RestHolders(d) BY <1>16 DEF RestHolders
    <3>3. Holders(d)' = Holders(d) BY <1>16, <3>1, <3>2 DEF Holders
    <3>4. \A r \in Rest : RestFreeing(r, d)' <=> RestFreeing(r, d)
      BY <1>16 DEF RestFreeing
    <3>5. QED BY <1>16, <3>1, <3>3, <3>4 DEF StillPooled, ClosingInv
  <2>2. QED BY <2>1, ClosingKept
<1>17. CASE ThreadDestroy(c)
  <2>1. ~Pooled(c)' /\ \A d \in Client \ {c} : Pooled(d)' <=> Pooled(d)
    BY <1>17, PoolAssumption DEF ThreadDestroy, DestroyLocked, Pooled, TypeOK
  <2>2. \A d \in Client \ {c} : /\ refs'[d] = refs[d] /\ zombie'[d] = zombie[d]
                                /\ tpc'[d] = tpc[d]
    BY <1>17 DEF ThreadDestroy, DestroyLocked, TypeOK
  <2>3. QED BY <1>16, <1>17, <2>1, <2>2 DEF ThreadDestroy
<1>18. CASE ThreadDestroyFree(c) \/ ThreadFree(c)
  <2>1. ~Pooled(c) BY <1>18 DEF ThreadDestroyFree, ThreadFree, ClosingInv
  <2>2. \A d \in Client : Pooled(d)' <=> Pooled(d)
    BY <1>18 DEF ThreadDestroyFree, ThreadFree, Pooled
  <2>3. \A d \in Client \ {c} : mem'[d] = mem[d] /\ tpc'[d] = tpc[d]
    BY <1>18 DEF ThreadDestroyFree, ThreadFree, FreeBlock, TypeOK
  <2>4. QED BY <1>16, <1>18, <2>1, <2>2, <2>3 DEF ThreadDestroyFree, ThreadFree
<1>19. QED
  BY <1>2, <1>3, <1>4, <1>5, <1>6, <1>7, <1>8, <1>9, <1>10, <1>11, <1>12,
     <1>14, <1>15, <1>17, <1>18 DEF Thread

\* After the mark a REST request gains no reference, and the one it gives
\* back is not the last of a client in a slot.
LEMMA ClosingRest ==
  ASSUME TypeOK, ClosingInv, mpc \in Marked, NEW r \in Rest, RestThread(r)
  PROVE  ClosingInv'
<1> USE DEF pool, mainv, threadv
<1>1. ASSUME NEW c \in Client, RestAcquire(r, c) PROVE FALSE
  BY <1>1 DEF RestAcquire, Acquirable, ClosingInv
<1>2. CASE RestKick(r) BY <1>2, ClosingNeutral DEF RestKick, restv, ClosingInv
<1>3. CASE RestUnref(r)
  <2> DEFINE k == rclient[r]
  <2>1. ASSUME NEW d \in Client, Pooled(d)' PROVE StillPooled(d)
    <3>0. /\ Pooled(d)
          /\ UNCHANGED <<mem, zombie, g_clients, mpc, mclient, tpc>>
      BY <1>3, <2>1 DEF RestUnref, Pooled
    <3>1. CASE d = k
      <4>1. r \in Holders(d) BY <1>3, <3>1, WhoHolds DEF RestUnref
      <4>2. /\ refs' = [refs EXCEPT ![d] = refs[d] - 1]
            /\ refs[d] - 1 = Cardinality(Holders(d) \ {r})
            /\ ~FreeAfterUnref(d)
        BY <1>3, <3>0, <3>1, <4>1, PooledUnref, RestAssumption DEF RestUnref
      <4>3. rpc' = [rpc EXCEPT ![r] = "idle"]
        BY <1>3, <3>1, <4>2 DEF RestUnref
      <4>4. rclient' = [rclient EXCEPT ![r] = NoClient]
        BY <1>3, <3>1, <4>2 DEF RestUnref
      <4>5. RestHolders(d)' = RestHolders(d) \ {r}
        BY <4>3, <4>4, PoolAssumption DEF RestHolders, TypeOK
      <4>6. Holders(d)' = Holders(d) \ {r}
        BY <2>1, <3>0, <4>5, RestAssumption DEF Holders
      <4>7. \A q \in Rest : ~RestFreeing(q, d)'
        BY <3>0, <4>3, <4>4 DEF RestFreeing, ClosingInv, TypeOK
      <4>8. refs'[d] = Cardinality(Holders(d)') BY <4>2, <4>6 DEF TypeOK
      <4>9. QED BY <3>0, <4>7, <4>8 DEF StillPooled, ClosingInv
    <3>2. CASE d # k
      <4>1. refs'[d] = refs[d] BY <1>3, <3>2 DEF RestUnref, UnrefLocked, TypeOK
      <4>2. \A q \in Rest \ {r} : rpc'[q] = rpc[q] /\ rclient'[q] = rclient[q]
        BY <1>3 DEF RestUnref, TypeOK
      <4>3. rclient'[r] # d
        BY <1>3, <3>2, PoolAssumption DEF RestUnref, TypeOK
      <4>4. RestHolders(d)' = RestHolders(d)
        BY <3>2, <4>2, <4>3 DEF RestHolders
      <4>5. Holders(d)' = Holders(d) BY <2>1, <3>0, <4>4 DEF Holders
      <4>6. \A q \in Rest : ~RestFreeing(q, d)'
        BY <3>0, <4>2, <4>3 DEF RestFreeing, ClosingInv
      <4>7. QED BY <3>0, <4>1, <4>5, <4>6 DEF StillPooled, ClosingInv
    <3>3. QED BY <3>1, <3>2
  <2>2. QED BY <2>1, ClosingKept
<1>4. CASE RestFree(r)
  <2>1. ASSUME NEW d \in Client, Pooled(d)' PROVE StillPooled(d)
    <3>0. /\ Pooled(d)
          /\ UNCHANGED <<refs, zombie, g_clients, mpc, mclient, tpc>>
      BY <1>4, <2>1 DEF RestFree, Pooled
    <3>1. rclient[r] # d BY <1>4, <3>0 DEF RestFree, RestFreeing, ClosingInv
    <3>2. mem'[d] = mem[d] BY <1>4, <3>1 DEF RestFree, FreeBlock, TypeOK
    <3>3. \A q \in Rest \ {r} : rpc'[q] = rpc[q] /\ rclient'[q] = rclient[q]
      BY <1>4 DEF RestFree, TypeOK
    <3>4. rclient'[r] # d BY <1>4, PoolAssumption DEF RestFree, TypeOK
    <3>5. RestHolders(d)' = RestHolders(d) BY <3>1, <3>3, <3>4 DEF RestHolders
    <3>6. Holders(d)' = Holders(d) BY <2>1, <3>0, <3>5 DEF Holders
    <3>7. \A q \in Rest : ~RestFreeing(q, d)'
      BY <3>0, <3>3, <3>4 DEF RestFreeing, ClosingInv
    <3>8. QED BY <3>0, <3>2, <3>6, <3>7 DEF StillPooled, ClosingInv
  <2>2. QED BY <2>1, ClosingKept
<1>5. QED BY <1>1, <1>2, <1>3, <1>4 DEF RestThread

\* The passes of close_all over the slots: what the dropping pass takes out
\* of its slot is out of the pool, and it touches nothing else.
LEMMA ClosingMain ==
  ASSUME TypeOK, Distinct, ClosingInv, mpc \in Marked, MainClose
  PROVE  ClosingInv'
<1> USE DEF pool, threadv, restv
<1>1. mpc \notin {"select", "ca_mark"} OBVIOUS
<1>2. CASE CloseJoinRead
  <2>1. mpc' \notin {"ca_dec", "ca_free"} BY <1>2 DEF CloseJoinRead
  <2>2. QED BY <1>2, <2>1, ClosingNeutral DEF CloseJoinRead, ClosingInv
<1>3. CASE CloseJoin BY <1>3, ClosingNeutral DEF CloseJoin, ClosingInv
<1>4. CASE CloseDropRead
  <2>1. CASE midx \notin Slots
    BY <1>4, <2>1, ClosingNeutral DEF CloseDropRead, ClosingInv
  <2>2. CASE midx \in Slots
    <3>1. \A s \in Slots : g_clients'[s] = IF s = midx THEN NoClient ELSE g_clients[s]
      BY <1>4, <2>2 DEF CloseDropRead, TypeOK
    <3>2. ASSUME NEW d \in Client, Pooled(d)' PROVE StillPooled(d)
      <4>1. PICK s \in Slots : s # midx /\ g_clients[s] = d
        BY <3>1, <3>2, PoolAssumption DEF Pooled
      <4>2. Pooled(d) BY <4>1 DEF Pooled
      <4>3. g_clients[midx] # d BY <2>2, <4>1, PoolAssumption DEF Distinct
      <4>4. mclient' # d BY <1>4, <2>2, <4>3 DEF CloseDropRead
      <4>5. UNCHANGED <<mem, refs, zombie, tpc, rpc, rclient>>
        BY <1>4 DEF CloseDropRead
      <4>6. RestHolders(d)' = RestHolders(d) BY <4>5 DEF RestHolders
      <4>7. Holders(d)' = Holders(d) BY <3>2, <4>2, <4>5, <4>6 DEF Holders
      <4>8. \A r \in Rest : RestFreeing(r, d)' <=> RestFreeing(r, d)
        BY <4>5 DEF RestFreeing
      <4>9. QED BY <4>2, <4>4, <4>5, <4>7, <4>8 DEF StillPooled, ClosingInv
    <3>3. QED BY <3>2, ClosingKept
  <2>3. QED BY <2>1, <2>2
<1>5. ASSUME CloseDec \/ CloseFree PROVE ClosingInv'
  <2>1. ASSUME NEW d \in Client, Pooled(d)' PROVE StillPooled(d)
    <3>1. /\ Pooled(d) /\ mclient' = mclient
          /\ UNCHANGED <<zombie, g_clients, tpc, rpc, rclient>>
      BY <1>5, <2>1 DEF CloseDec, CloseFree, Pooled
    <3>2. mclient # d BY <1>5, <3>1 DEF CloseDec, CloseFree, ClosingInv
    <3>3. mem'[d] = mem[d] /\ refs'[d] = refs[d]
      BY <1>5, <3>2 DEF CloseDec, CloseFree, UnrefLocked, FreeBlock, TypeOK
    <3>4. RestHolders(d)' = RestHolders(d) BY <3>1 DEF RestHolders
    <3>5. Holders(d)' = Holders(d) BY <2>1, <3>1, <3>4 DEF Holders
    <3>6. \A r \in Rest : RestFreeing(r, d)' <=> RestFreeing(r, d)
      BY <3>1 DEF RestFreeing
    <3>7. QED BY <3>1, <3>2, <3>3, <3>5, <3>6 DEF StillPooled, ClosingInv
  <2>2. QED BY <2>1, ClosingKept
<1>6. QED BY <1>1, <1>2, <1>3, <1>4, <1>5 DEF MainClose, LeaveLoop, CloseMark

\* A step that fills no slot keeps the clients of the slots distinct.
LEMMA DistinctKept ==
  ASSUME Distinct, \A s \in Slots : g_clients'[s] \in {g_clients[s], NoClient}
  PROVE  Distinct'
BY DEF Distinct

\* Every step of the server and of its shutdown keeps the whole invariant.
LEMMA FullStep == FullInv /\ [Next]_vars => FullInv'
<1> SUFFICES ASSUME FullInv, [Next]_vars PROVE FullInv' OBVIOUS
<1>1. TypeOK /\ TypeOK' /\ Distinct BY TypeStep DEF FullInv
<1> USE DEF pool, threadv, restv, mainv
<1>2. CASE mpc \notin Marked
  <2>1. IInv /\ CountInv BY <1>1, <1>2 DEF FullInv, IInv, CountInv
  <2>2. ASSUME [ServeNext]_vars PROVE FullInv'
    <3>1. IInv' /\ CountInv' BY <2>1, <2>2, SafetyStep, CountStep
    <3>2. mpc' \notin Marked BY <3>1 DEF IInv, SafetyInv, MainOK
    <3>3. QED BY <3>1, <3>2 DEF FullInv, IInv, CountInv
  <2>3. ASSUME UNCHANGED <<mem, refs, zombie, g_clients, g_client_count, mclient,
                           tpc, rpc, rclient>>,
               mpc' = mpc \/ (mpc = "select" /\ mpc' = "ca_mark")
        PROVE FullInv'
    <3>1. \A c \in Client : Pooled(c)' <=> Pooled(c) BY <2>3 DEF Pooled
    <3>2. MainOK' BY <2>1, <2>3, <3>1 DEF IInv, SafetyInv, MainOK
    <3>3. ThreadsOK' BY <2>1, <2>3, <3>1 DEF IInv, SafetyInv, ThreadsOK
    <3>4. SafetyInv' BY <2>1, <2>3, <3>2, <3>3, Neutral DEF MainFreeing
    <3>5. Distinct' /\ CountMatchesPool'
      BY <2>1, <2>3 DEF CountInv, Distinct, CountMatchesPool
    <3>6. QED BY <1>1, <1>2, <2>3, <3>4, <3>5 DEF FullInv
  <2>4. CASE Signal BY <2>3, <2>4 DEF Signal
  <2>5. CASE LeaveLoop BY <2>3, <2>5 DEF LeaveLoop
  <2>6. CASE CloseMark
    <3>1. ClosingInv' BY <2>1, <2>6, MarkCloses
    <3>2. Distinct' BY <1>1, <2>6, DistinctKept DEF CloseMark
    <3>3. mpc' \in Marked BY <2>6 DEF CloseMark
    <3>4. QED BY <1>1, <3>1, <3>2, <3>3 DEF FullInv
  <2>7. QED
    BY <1>2, <2>2, <2>4, <2>5, <2>6
    DEF Next, MainClose, CloseJoinRead, CloseJoin, CloseDropRead, CloseDec, CloseFree
<1>3. CASE mpc \in Marked
  <2>1. ClosingInv BY <1>3 DEF FullInv
  <2>2. ~MainServe
    BY <1>3
    DEF MainServe, Accept, AllowRead, AllowWrite, CreateFails, Create,
        SessionStart, RefForThread, Spawn, SpawnFails, TouchAfterSpawn,
        MainDestroy, MainFree, MainReleaseRead, MainReleaseWrite
  <2>3. ASSUME NEW c \in Client, Thread(c) PROVE FullInv'
    <3>1. ClosingInv' BY <1>1, <1>3, <2>1, <2>3, ClosingThread
    <3>2. mpc' = mpc
      BY <2>3
      DEF Thread, DetectError, DetectLegacy, DetectOwn, LoopTop, AskReader,
          ServeOther, ServeBreak, NewcamdFails, EcmFind, EcmUnref, ExitTest, ThreadDestroy,
          ThreadDestroyFree, ThreadReleaseRead, ThreadReleaseWrite,
          ThreadUnref, ThreadFree
    <3>3. \A s \in Slots : g_clients'[s] \in {g_clients[s], NoClient}
      BY <2>3
      DEF Thread, DetectError, DetectLegacy, DetectOwn, LoopTop, AskReader,
          ServeOther, ServeBreak, NewcamdFails, EcmFind, EcmUnref, ExitTest, ThreadDestroy,
          ThreadDestroyFree, ThreadReleaseRead, ThreadReleaseWrite,
          ThreadUnref, ThreadFree, DestroyLocked
    <3>4. Distinct' BY <1>1, <3>3, DistinctKept
    <3>5. QED BY <1>1, <1>3, <3>1, <3>2, <3>4 DEF FullInv
  <2>4. ASSUME NEW r \in Rest, RestThread(r) PROVE FullInv'
    <3>1. ClosingInv' BY <1>1, <1>3, <2>1, <2>4, ClosingRest
    <3>2. mpc' = mpc /\ g_clients' = g_clients
      BY <2>4 DEF RestThread, RestAcquire, RestKick, RestUnref, RestFree
    <3>3. Distinct' BY <1>1, <3>2, DistinctKept
    <3>4. QED BY <1>1, <1>3, <3>1, <3>2, <3>3 DEF FullInv
  <2>5. CASE MainClose
    <3>1. ClosingInv' BY <1>1, <1>3, <2>1, <2>5, ClosingMain
    <3>2. mpc' \in Marked
      BY <1>3, <2>5
      DEF MainClose, LeaveLoop, CloseMark, CloseJoinRead, CloseJoin,
          CloseDropRead, CloseDec, CloseFree
    <3>3. \A s \in Slots : g_clients'[s] \in {g_clients[s], NoClient}
      BY <1>1, <1>3, <2>5
      DEF MainClose, LeaveLoop, CloseMark, CloseJoinRead, CloseJoin,
          CloseDropRead, CloseDec, CloseFree, TypeOK
    <3>4. Distinct' BY <1>1, <3>3, DistinctKept
    <3>5. QED BY <1>1, <3>1, <3>2, <3>4 DEF FullInv
  <2>6. ASSUME UNCHANGED <<mem, refs, zombie, g_clients, mpc, mclient, tpc, rpc, rclient>>
        PROVE FullInv'
    <3>1. ClosingInv' BY <2>1, <2>6, ClosingNeutral DEF ClosingInv
    <3>2. Distinct' BY <1>1, <2>6, DistinctKept
    <3>3. QED BY <1>1, <1>3, <2>6, <3>1, <3>2 DEF FullInv
  <2>7. CASE Signal BY <2>6, <2>7 DEF Signal
  <2>8. CASE UNCHANGED vars BY <2>6, <2>8 DEF vars
  <2>9. QED
    BY <2>2, <2>3, <2>4, <2>5, <2>7, <2>8 DEF Next, ServeNext
<1>4. QED BY <1>2, <1>3

\* The invariant of both phases holds throughout.
THEOREM FullInductive == Spec => []FullInv
<1>1. Init => FullInv
  <2> SUFFICES ASSUME Init PROVE FullInv OBVIOUS
  <2>1. IInv BY SafetyInit
  <2>2. \A s \in Slots : g_clients[s] = NoClient BY DEF Init
  <2>3. {s \in Slots : g_clients[s] # NoClient} = {} BY <2>2
  <2>4. CountMatchesPool BY <2>3, FS_EmptySet DEF CountMatchesPool, Init
  <2>5. QED BY <2>1, <2>2, <2>4 DEF FullInv, Distinct, IInv, Init
<1>2. QED BY <1>1, FullStep, PTL DEF Spec

\* client.c:222-232: from the mark of close_all to the end, whatever client
\* threads and REST requests still do, every client in a slot is a live
\* zombie, so that no request can take a reference to it any more.
THEOREM ClosingIsMarked == Spec => []ClosingPoolIsZombie
<1>1. FullInv => ClosingPoolIsZombie
  BY DEF FullInv, ClosingInv, ClosingPoolIsZombie
<1>2. QED BY <1>1, FullInductive, PTL

\* client.c:22-29: a destroyed client never gains a reference again, before
\* or during shutdown: the searches skip zombies, and the accept loop takes
\* the reference of a thread while the client is still in its slot.
THEOREM DestroyedStaysDestroyed == Spec => ZombieNotRevived
<1> DEFINE Kept == \A c \in Client :
                     mem[c] = "live" /\ zombie[c] /\ mem'[c] = "live" =>
                       zombie'[c] /\ refs'[c] <= refs[c]
<1>1. FullInv /\ [Next]_vars => [Kept]_vars
  <2> SUFFICES ASSUME FullInv, Next, NEW c \in Client,
                      mem[c] = "live", zombie[c], mem'[c] = "live"
               PROVE  zombie'[c] /\ refs'[c] <= refs[c]
    OBVIOUS
  <2>1. TypeOK BY DEF FullInv
  <2>2. refs[c] \in Int BY <2>1 DEF TypeOK
  <2>3. \A x : UnrefLocked(x) => refs'[c] <= refs[c]
    BY <2>1, <2>2 DEF UnrefLocked, TypeOK
  <2>4. \A x : DestroyLocked(x) => zombie'[c] /\ refs'[c] <= refs[c]
    BY <2>1, <2>2 DEF DestroyLocked, TypeOK
  <2>5. \A x \in Client : AcquireLocked(x) /\ ~zombie[x] => refs'[c] <= refs[c]
    BY <2>1, <2>2 DEF AcquireLocked, TypeOK
  <2>6. CASE RefForThread
    <3>1. SafetyInv /\ mpc = "ref" BY <2>6 DEF RefForThread, FullInv
    <3>2. mclient \in Client /\ ~zombie[mclient]
      BY <3>1 DEF SafetyInv, MainOK, PoolOK
    <3>3. QED BY <2>5, <2>6, <3>2 DEF RefForThread
  <2>7. ASSUME NEW d \in Client, NEW p \in {"cccam3", "newcamd"}, Create(d, p)
        PROVE zombie'[c] /\ refs'[c] <= refs[c]
    <3>1. d # c BY <2>7 DEF Create
    <3>2. zombie'[c] = zombie[c] /\ refs'[c] = refs[c] BY <2>1, <2>7, <3>1 DEF Create, TypeOK
    <3>3. QED BY <2>2, <3>2
  <2>8. CASE MainServe
    BY <2>2, <2>3, <2>4, <2>6, <2>7, <2>8
    DEF MainServe, Accept, AllowRead, AllowWrite, CreateFails, SessionStart,
        Spawn, SpawnFails, TouchAfterSpawn, MainDestroy, MainFree,
        MainReleaseRead, MainReleaseWrite, pool
  <2>9. ASSUME NEW d \in Client, Thread(d)
        PROVE zombie'[c] /\ refs'[c] <= refs[c]
    BY <2>2, <2>3, <2>4, <2>5, <2>9
    DEF Thread, DetectError, DetectLegacy, DetectOwn, LoopTop, AskReader,
        ServeOther, ServeBreak, NewcamdFails, EcmFind, EcmUnref, ExitTest, ThreadDestroy,
        ThreadDestroyFree, ThreadReleaseRead, ThreadReleaseWrite, ThreadUnref,
        ThreadFree, Acquirable, pool
  <2>10. ASSUME NEW r \in Rest, RestThread(r)
         PROVE zombie'[c] /\ refs'[c] <= refs[c]
    BY <2>2, <2>3, <2>5, <2>10
    DEF RestThread, RestAcquire, RestKick, RestUnref, RestFree, Acquirable, pool
  <2>11. CASE Signal BY <2>2, <2>11 DEF Signal, pool
  <2>12. CASE MainClose
    <3>1. CASE CloseMark
      <4>1. zombie'[c] BY <3>1 DEF CloseMark
      <4>2. refs'[c] = refs[c] BY <3>1 DEF CloseMark
      <4>3. QED BY <2>2, <4>1, <4>2
    <3>2. CASE CloseDec
      BY <2>3, <3>2 DEF CloseDec
    <3>3. QED
      BY <2>2, <2>12, <3>1, <3>2
      DEF MainClose, LeaveLoop, CloseJoinRead, CloseJoin, CloseDropRead,
          CloseFree, pool
  <2>13. QED BY <2>8, <2>9, <2>10, <2>11, <2>12 DEF Next, ServeNext
<1>2. QED BY <1>1, FullInductive, PTL DEF Spec, ZombieNotRevived

=============================================================================
