--------------------------- MODULE ServicesProofs ---------------------------
(***************************************************************************)
(* Proofs about Services, for any number of decoders, requests, services   *)
(* and signals.  Each service keeps an invariant of its own, whoever takes *)
(* the steps; cleanup then finds the threads of the card and the decoders  *)
(* at their end because a thread that has ended does not start again, and  *)
(* a count of zero says that no entry is in use.                           *)
(***************************************************************************)
EXTENDS Services, FiniteSetTheorems, WellFoundedInduction, TLAPS

-----------------------------------------------------------------------------
(* The main loop and its handler. *)

LEMMA LoopTyped ==
    ASSUME Loop!TypeOK, [Loop!Next]_loop
    PROVE  Loop!TypeOK'
<1> USE DEF Loop!TypeOK, Loop!flags, Loop!sigv
<1>0. MaxSignals \in Nat
  BY ServicesAssumption
<1>1. CASE Loop!Main
  <2>1. CASE \/ Loop!Top \/ Loop!SelectReturns \/ Loop!SelectFailed
             \/ Loop!TakeReload \/ Loop!TakeRotate \/ Loop!Work
    <3>1. CASE Loop!Top
      BY <3>1 DEF Loop!Top, Loop!MainPC
    <3>2. CASE Loop!SelectReturns
      BY <3>2 DEF Loop!SelectReturns, Loop!MainPC
    <3>3. CASE Loop!SelectFailed
      BY <3>3 DEF Loop!SelectFailed, Loop!MainPC
    <3>4. CASE Loop!TakeReload
      BY <3>4 DEF Loop!TakeReload, Loop!MainPC
    <3>5. CASE Loop!TakeRotate
      BY <3>5 DEF Loop!TakeRotate, Loop!MainPC
    <3>6. CASE Loop!Work
      BY <3>6 DEF Loop!Work, Loop!MainPC
    <3>7. QED BY <2>1, <3>1, <3>2, <3>3, <3>4, <3>5, <3>6
  <2>2. CASE Loop!ReloadPart
    <3>1. (part + 1) % Loop!Parts \in 0..Loop!Parts
      BY DEF Loop!Parts
    <3>2. QED BY <2>2, <3>1 DEF Loop!ReloadPart, Loop!MainPC
  <2>3. ASSUME NEW at \in {"err_log", "hup_log", "usr_log", "rotate", "work_log"},
               Loop!LogLock(at)
        PROVE  Loop!TypeOK'
    BY <2>3 DEF Loop!LogLock
  <2>4. ASSUME NEW at, NEW next \in Loop!MainPC, Loop!LogUnlock(at, next)
        PROVE  Loop!TypeOK'
    BY <2>4 DEF Loop!LogUnlock
  <2>5. {"left", "reload", "rotate", "work", "top"} \subseteq Loop!MainPC
    BY DEF Loop!MainPC
  <2>6. QED BY <1>1, <2>1, <2>2, <2>3, <2>4, <2>5 DEF Loop!Main
<1>2. CASE Loop!OtherLog \/ Loop!OtherUnlog
  BY <1>2 DEF Loop!OtherLog, Loop!OtherUnlog
<1>3. ASSUME NEW h \in {"main", "other"}, Loop!Hup(h) \/ Loop!Usr1(h) \/ Loop!Term(h)
      PROVE  Loop!TypeOK'
  <2>1. Loop!Interrupted(h) \in Loop!MainPC
    BY DEF Loop!Interrupted, Loop!MainPC
  <2>2. CASE Loop!Term(h)
    BY <2>2, <1>3 DEF Loop!Term
  <2>3. CASE Loop!Hup(h)
    BY <2>3, <2>1, <1>0 DEF Loop!Hup
  <2>4. CASE Loop!Usr1(h)
    BY <2>4, <2>1, <1>0 DEF Loop!Usr1
  <2>5. QED BY <1>3, <2>2, <2>3, <2>4
<1>4. CASE Loop!HandlerEnds
  BY <1>4 DEF Loop!HandlerEnds, Loop!Interrupted, Loop!MainPC
<1>5. CASE UNCHANGED loop
  BY <1>5 DEF loop
<1>6. QED BY <1>1, <1>2, <1>3, <1>4, <1>5 DEF Loop!Next

-----------------------------------------------------------------------------
(* The decoders. *)

\* What a decoder's entry is.
Entry == [alive : BOOLEAN, fd : {"open", "shut", "closed"},
          demux : {"none", "nocas", "filtered"},
          pc : {"none", "orphan", "test", "read", "busy", "leave"}]

Counted == g_active_clients = Cardinality(Decoders!Alive)
DecodersOK == Decoders!TypeOK /\ Counted /\ Decoders!EntriesWhole

\* The slots can be counted, and an entry in use counts.
LEMMA Counting ==
    ASSUME Decoders!TypeOK
    PROVE  /\ IsFiniteSet(Decoders!Slot) /\ Cardinality(Decoders!Slot) = MaxDecoders
           /\ IsFiniteSet(Decoders!Alive)
           /\ \A s \in Decoders!Slot \ Decoders!Alive :
                 /\ Cardinality(Decoders!Alive \cup {s}) = Cardinality(Decoders!Alive) + 1
                 /\ Cardinality(Decoders!Alive) + 1 <= MaxDecoders
           /\ \A s \in Decoders!Alive : /\ Cardinality(Decoders!Alive \ {s}) = Cardinality(Decoders!Alive) - 1
                               /\ Cardinality(Decoders!Alive) >= 1
           /\ Cardinality(Decoders!Alive) \in Nat
<1>1. IsFiniteSet(Decoders!Slot) /\ Cardinality(Decoders!Slot) = MaxDecoders
  <2>1. MaxDecoders \in Nat \ {0} BY ServicesAssumption
  <2>2. /\ IsFiniteSet(1..MaxDecoders)
        /\ Cardinality(1..MaxDecoders) = IF 1 > MaxDecoders THEN 0 ELSE MaxDecoders - 1 + 1
    BY <2>1, FS_Interval
  <2>3. QED BY <2>1, <2>2 DEF Decoders!Slot
<1>2. IsFiniteSet(Decoders!Alive) /\ Cardinality(Decoders!Alive) \in Nat
  BY <1>1, FS_Subset, FS_CardinalityType DEF Decoders!Alive
<1>3. ASSUME NEW s \in Decoders!Slot \ Decoders!Alive
      PROVE  /\ Cardinality(Decoders!Alive \cup {s}) = Cardinality(Decoders!Alive) + 1
             /\ Cardinality(Decoders!Alive) + 1 <= MaxDecoders
  <2>1. Cardinality(Decoders!Alive \cup {s}) = Cardinality(Decoders!Alive) + 1
    BY <1>2, <1>3, FS_AddElement
  <2>2. Decoders!Alive \cup {s} \subseteq Decoders!Slot
    BY <1>3 DEF Decoders!Alive
  <2>3. Cardinality(Decoders!Alive \cup {s}) <= MaxDecoders
    BY <1>1, <2>2, FS_Subset
  <2>4. QED BY <2>1, <2>3
<1>4. ASSUME NEW s \in Decoders!Alive
      PROVE  /\ Cardinality(Decoders!Alive \ {s}) = Cardinality(Decoders!Alive) - 1
             /\ Cardinality(Decoders!Alive) >= 1
  <2>1. Cardinality(Decoders!Alive \ {s}) = Cardinality(Decoders!Alive) - 1
    BY <1>2, <1>4, FS_RemoveElement
  <2>2. Cardinality(Decoders!Alive) # 0
    BY <1>2, <1>4, FS_EmptySet
  <2>3. QED BY <1>2, <2>1, <2>2
<1>5. QED BY <1>1, <1>2, <1>3, <1>4

\* An entry changes and stays in use, or stays free.
LEMMA EntryChanges ==
    ASSUME DecodersOK, NEW s \in Decoders!Slot, NEW e \in Entry,
           decoder' = [decoder EXCEPT ![s] = e],
           e.alive = decoder[s].alive,
           e.alive <=> e.pc # "none", e.alive <=> e.fd # "closed",
           UNCHANGED Decoders!server
    PROVE  DecodersOK'
<1>1. decoder \in [Decoders!Slot -> Entry]
  BY DEF DecodersOK, Decoders!TypeOK, Entry
<1>2. decoder' \in [Decoders!Slot -> Entry] /\ decoder'[s] = e
      /\ \A q \in Decoders!Slot \ {s} : decoder'[q] = decoder[q]
  BY <1>1
<1>3. Decoders!TypeOK'
  BY <1>2 DEF DecodersOK, Decoders!TypeOK, Entry, Decoders!server
<1>4. {q \in Decoders!Slot : decoder'[q].alive} = {q \in Decoders!Slot : decoder[q].alive}
  BY <1>2
<1>5. \A q \in Decoders!Slot : /\ decoder'[q].alive <=> decoder'[q].pc # "none"
                               /\ decoder'[q].alive <=> decoder'[q].fd # "closed"
  BY <1>2 DEF DecodersOK, Counted, Decoders!EntriesWhole, Decoders!Alive
<1>6. Counted' /\ Decoders!EntriesWhole'
  BY <1>4, <1>5 DEF DecodersOK, Counted, Decoders!EntriesWhole, Decoders!Alive, Decoders!server
<1>7. QED BY <1>3, <1>6 DEF DecodersOK

\* Only the thread that accepts, its state, changes.
LEMMA EntriesKept ==
    ASSUME DecodersOK, UNCHANGED <<decoder, g_active_clients>>,
           dvbapi_running' \in BOOLEAN, dvbapi_waiting' \in BOOLEAN,
           dvbapi_pc' \in {"bind", "test", "select", "slot", "ended"}
    PROVE  DecodersOK'
BY DEF DecodersOK, Decoders!TypeOK, Counted, Decoders!EntriesWhole, Decoders!Alive

\* The entry a new decoder is given is one that is free.
LEMMA FirstFreeIsFree ==
    ASSUME \E s \in Decoders!Slot : ~decoder[s].alive
    PROVE  Decoders!FirstFree \in Decoders!Slot /\ ~decoder[Decoders!FirstFree].alive
<1> DEFINE free == {s \in Decoders!Slot : ~decoder[s].alive}
<1>1. PICK x \in free : \A q \in 1..(x - 1) : decoder[q].alive
  <2>1. free \subseteq Nat /\ free # {}
    BY DEF Decoders!Slot
  <2> DEFINE R == {ss \in Nat \X Nat : ss[1] < ss[2]}
  <2>2. IsWellFoundedOn(R, Nat)
    BY NatLessThanWellFounded DEF OpToRel
  <2> HIDE DEF R
  <2>3. PICK x \in free : \A y \in free : ~ (<<y, x>> \in R)
    BY <2>1, <2>2, WFMin
  <2>4. ASSUME NEW q \in 1..(x - 1)
        PROVE  decoder[q].alive
    <3>1. x \in Nat /\ q \in Nat /\ q < x /\ q \in Decoders!Slot
      BY <2>1, ServicesAssumption DEF Decoders!Slot
    <3>2. q \notin free
      BY <2>3, <3>1 DEF R
    <3>3. QED BY <3>1, <3>2
  <2>5. QED BY <2>4
<1>2. QED BY <1>1 DEF Decoders!FirstFree

LEMMA AcceptorKeeps ==
    ASSUME DecodersOK, Decoders!Acceptor
    PROVE  DecodersOK'
<1> USE DEF Decoders!AcceptorGoes
<1>1. CASE \/ Decoders!Bind \/ Decoders!AcceptorTest \/ Decoders!AcceptorSelect
           \/ Decoders!NoSlot
  <2>1. /\ UNCHANGED <<dvbapi_running, decoder, g_active_clients, dvbapi_waiting>>
        /\ dvbapi_pc' \in {"bind", "test", "select", "slot", "ended"}
    BY <1>1 DEF Decoders!Bind, Decoders!AcceptorTest, Decoders!AcceptorSelect,
                Decoders!NoSlot
  <2>2. QED BY <2>1, EntriesKept DEF DecodersOK, Decoders!TypeOK
<1>2. CASE Decoders!TakeSlot
  <2> DEFINE s == Decoders!FirstFree
  <2>2. s \in Decoders!Slot /\ ~decoder[s].alive
    BY <1>2, FirstFreeIsFree DEF Decoders!TakeSlot
  <2>3. PICK pc \in {"test", "orphan"} :
          decoder' = [decoder EXCEPT ![s] =
              [alive |-> TRUE, fd |-> "open", demux |-> "none", pc |-> pc]]
    BY <1>2 DEF Decoders!TakeSlot
  <2> HIDE DEF s
  <2>4. /\ g_active_clients' = g_active_clients + 1
        /\ dvbapi_pc' = "test" /\ UNCHANGED <<dvbapi_running, dvbapi_waiting>>
    BY <1>2 DEF Decoders!TakeSlot
  <2> DEFINE e == [alive |-> TRUE, fd |-> "open", demux |-> "none", pc |-> pc]
  <2>5. decoder \in [Decoders!Slot -> Entry] /\ e \in Entry
    BY DEF DecodersOK, Decoders!TypeOK, Entry
  <2>6. /\ decoder' \in [Decoders!Slot -> Entry] /\ decoder'[s] = e
        /\ \A q \in Decoders!Slot \ {s} : decoder'[q] = decoder[q]
    BY <2>2, <2>3, <2>5
  <2>7. {q \in Decoders!Slot : decoder'[q].alive} = Decoders!Alive \cup {s}
    BY <2>2, <2>6 DEF Decoders!Alive
  <2>8. /\ Cardinality(Decoders!Alive \cup {s}) = Cardinality(Decoders!Alive) + 1
        /\ Cardinality(Decoders!Alive) + 1 <= MaxDecoders /\ Cardinality(Decoders!Alive) \in Nat
    BY <2>2, Counting DEF DecodersOK, Decoders!Alive
  <2>9. g_active_clients = Cardinality(Decoders!Alive)
    BY DEF DecodersOK, Counted, Decoders!EntriesWhole, Decoders!Alive
  <2>10. g_active_clients' \in 0..MaxDecoders
    BY <2>4, <2>8, <2>9, ServicesAssumption
  <2>11. Decoders!TypeOK'
    BY <2>4, <2>6, <2>10 DEF DecodersOK, Decoders!TypeOK, Entry
  <2>12. \A q \in Decoders!Slot : /\ decoder'[q].alive <=> decoder'[q].pc # "none"
                                  /\ decoder'[q].alive <=> decoder'[q].fd # "closed"
    BY <2>6 DEF DecodersOK, Counted, Decoders!EntriesWhole, Decoders!Alive
  <2>13. Counted' /\ Decoders!EntriesWhole'
    BY <2>4, <2>7, <2>8, <2>9, <2>12 DEF Counted, Decoders!EntriesWhole, Decoders!Alive
  <2>14. QED BY <2>11, <2>13 DEF DecodersOK
<1>3. QED BY <1>1, <1>2 DEF Decoders!Acceptor

LEMMA LeaveKeeps ==
    ASSUME DecodersOK, NEW s \in Decoders!Slot, Decoders!Leave(s)
    PROVE  DecodersOK'
<1>1. decoder \in [Decoders!Slot -> Entry] /\ Decoders!Free \in Entry
  BY DEF DecodersOK, Decoders!TypeOK, Entry, Decoders!Free
<1>2. /\ decoder[s].pc = "leave" /\ decoder' = [decoder EXCEPT ![s] = Decoders!Free]
      /\ g_active_clients' = g_active_clients - 1 /\ dvbapi_waiting' = FALSE
      /\ UNCHANGED <<dvbapi_running, dvbapi_pc>>
  BY DEF Decoders!Leave
<1>3. /\ decoder' \in [Decoders!Slot -> Entry] /\ decoder'[s] = Decoders!Free
      /\ \A q \in Decoders!Slot \ {s} : decoder'[q] = decoder[q]
  BY <1>1, <1>2
<1>4. s \in Decoders!Alive
  BY <1>2 DEF DecodersOK, Counted, Decoders!EntriesWhole, Decoders!Alive
<1>5. {q \in Decoders!Slot : decoder'[q].alive} = Decoders!Alive \ {s}
  BY <1>3 DEF Decoders!Alive, Decoders!Free
<1>6. /\ Cardinality(Decoders!Alive \ {s}) = Cardinality(Decoders!Alive) - 1
      /\ Cardinality(Decoders!Alive) >= 1 /\ Cardinality(Decoders!Alive) \in Nat
  BY <1>4, Counting DEF DecodersOK
<1>7. g_active_clients = Cardinality(Decoders!Alive) /\ g_active_clients \in 0..MaxDecoders
  BY DEF DecodersOK, Counted, Decoders!EntriesWhole, Decoders!Alive, Decoders!TypeOK
<1>8. g_active_clients' \in 0..MaxDecoders
  BY <1>2, <1>6, <1>7, ServicesAssumption
<1>9. Decoders!TypeOK'
  BY <1>2, <1>3, <1>8 DEF DecodersOK, Decoders!TypeOK, Entry
<1>10. \A q \in Decoders!Slot : /\ decoder'[q].alive <=> decoder'[q].pc # "none"
                                /\ decoder'[q].alive <=> decoder'[q].fd # "closed"
  BY <1>3 DEF DecodersOK, Counted, Decoders!EntriesWhole, Decoders!Alive, Decoders!Free
<1>11. Counted' /\ Decoders!EntriesWhole'
  BY <1>2, <1>5, <1>6, <1>7, <1>10 DEF Counted, Decoders!EntriesWhole, Decoders!Alive
<1>12. QED BY <1>9, <1>11 DEF DecodersOK

LEMMA DecoderKeeps ==
    ASSUME DecodersOK, NEW s \in Decoders!Slot,
           Decoders!DecoderSends(s) \/ Decoders!DecoderRuns(s)
    PROVE  DecodersOK'
<1>1. decoder \in [Decoders!Slot -> Entry] /\ decoder[s] \in Entry
  BY DEF DecodersOK, Decoders!TypeOK, Entry
<1>2. /\ decoder[s].alive <=> decoder[s].pc # "none"
      /\ decoder[s].alive <=> decoder[s].fd # "closed"
  BY DEF DecodersOK, Counted, Decoders!EntriesWhole, Decoders!Alive
<1> DEFINE Busy == {"test", "read", "busy", "leave"}
<1>3. ASSUME NEW pc \in Busy, NEW demux \in {"none", "nocas", "filtered"},
             decoder[s].pc \in Busy, UNCHANGED Decoders!server,
             decoder' = [decoder EXCEPT ![s] = [decoder[s] EXCEPT !.pc = pc, !.demux = demux]]
      PROVE  DecodersOK'
  <2> DEFINE e == [decoder[s] EXCEPT !.pc = pc, !.demux = demux]
  <2>1. /\ e \in Entry /\ e.alive = decoder[s].alive /\ e.fd = decoder[s].fd
        /\ e.pc = pc
    BY <1>1 DEF Entry
  <2>2. decoder' = [decoder EXCEPT ![s] = e]
    BY <1>3
  <2> HIDE DEF e
  <2>3. (e.alive <=> e.pc # "none") /\ (e.alive <=> e.fd # "closed")
    BY <1>2, <1>3, <2>1
  <2>4. QED BY <1>3, <2>1, <2>2, <2>3, EntryChanges
<1>4. ASSUME NEW from \in Busy, NEW to \in Busy, Decoders!Goes(s, from, to),
             UNCHANGED Decoders!server
      PROVE  DecodersOK'
  <2>1. decoder' = [decoder EXCEPT ![s] = [decoder[s] EXCEPT !.pc = to]]
    BY <1>1, <1>4 DEF Decoders!Goes
  <2>2. [decoder[s] EXCEPT !.pc = to]
          = [decoder[s] EXCEPT !.pc = to, !.demux = decoder[s].demux]
    BY <1>1 DEF Entry
  <2>3. decoder[s].demux \in {"none", "nocas", "filtered"} /\ decoder[s].pc \in Busy
    BY <1>1, <1>4 DEF Entry, Decoders!Goes
  <2>4. QED BY <1>3, <1>4, <2>1, <2>2, <2>3
<1>5. ASSUME NEW demux \in {"none", "nocas", "filtered"}, Decoders!CaPmt(s, demux)
      PROVE  DecodersOK'
  <2>1. /\ decoder' = [decoder EXCEPT ![s] = [decoder[s] EXCEPT !.pc = "test", !.demux = demux]]
        /\ decoder[s].pc = "read" /\ UNCHANGED Decoders!server
    BY <1>1, <1>5 DEF Decoders!CaPmt
  <2>2. QED BY <1>3, <2>1
<1>6. CASE Decoders!CaStop(s)
  BY <1>5, <1>6 DEF Decoders!CaStop
<1>7. CASE \/ Decoders!OtherMessage(s) \/ Decoders!Section(s) \/ Decoders!Lost(s)
           \/ Decoders!DecoderTest(s) \/ Decoders!Processed(s)
  BY <1>4, <1>7 DEF Decoders!OtherMessage, Decoders!Section, Decoders!Lost,
                    Decoders!DecoderTest, Decoders!Processed
<1>8. CASE Decoders!Leave(s)
  BY <1>8, LeaveKeeps
<1>9. QED BY <1>5, <1>6, <1>7, <1>8 DEF Decoders!DecoderSends, Decoders!DecoderRuns

\* The steps of cleanup.
LEMMA DecodersClose ==
    ASSUME DecodersOK,
           \/ Decoders!Stop \/ Decoders!Wake \/ Decoders!Join \/ Decoders!Wait
           \/ Decoders!AllLeft
    PROVE  DecodersOK'
<1>1. CASE Decoders!Stop \/ Decoders!Wait
  BY <1>1, EntriesKept DEF Decoders!Stop, Decoders!Wait, DecodersOK, Decoders!TypeOK
<1>2. CASE Decoders!Join \/ Decoders!AllLeft
  <2>1. UNCHANGED <<dvbapi_running, dvbapi_pc, decoder, g_active_clients, dvbapi_waiting>>
    BY <1>2 DEF Decoders!Join, Decoders!AllLeft, Decoders!vars
  <2>2. QED BY <2>1, EntriesKept DEF DecodersOK, Decoders!TypeOK
<1>3. CASE Decoders!Wake
  <2>1. decoder \in [Decoders!Slot -> Entry]
    BY DEF DecodersOK, Decoders!TypeOK, Entry
  <2>2. /\ decoder' = [s \in Decoders!Slot |-> IF decoder[s].alive
                                               THEN [decoder[s] EXCEPT !.fd = "shut"]
                                               ELSE decoder[s]]
        /\ UNCHANGED Decoders!server
    BY <1>3 DEF Decoders!Wake
  <2>3. \A s \in Decoders!Slot :
           /\ decoder'[s] \in Entry /\ decoder'[s].alive = decoder[s].alive
           /\ decoder'[s].pc = decoder[s].pc
           /\ decoder'[s].fd = (IF decoder[s].alive THEN "shut" ELSE decoder[s].fd)
    BY <2>1, <2>2 DEF Entry
  <2>4. decoder' \in [Decoders!Slot -> Entry]
    BY <2>2, <2>3
  <2>5. Decoders!TypeOK'
    BY <2>2, <2>4 DEF DecodersOK, Decoders!TypeOK, Entry, Decoders!server
  <2>6. {q \in Decoders!Slot : decoder'[q].alive} = {q \in Decoders!Slot : decoder[q].alive}
    BY <2>3
  <2>7. \A q \in Decoders!Slot : /\ decoder'[q].alive <=> decoder'[q].pc # "none"
                                 /\ decoder'[q].alive <=> decoder'[q].fd # "closed"
    BY <2>3 DEF DecodersOK, Counted, Decoders!EntriesWhole, Decoders!Alive
  <2>8. Counted' /\ Decoders!EntriesWhole'
    BY <2>2, <2>6, <2>7 DEF DecodersOK, Counted, Decoders!EntriesWhole, Decoders!Alive, Decoders!server
  <2>9. QED BY <2>5, <2>8 DEF DecodersOK
<1>4. QED BY <1>1, <1>2, <1>3

-----------------------------------------------------------------------------
(* The requests. *)

Serving == {r \in Request : request[r] # "none"}

\* The thread that accepts has counted a connection that has no thread yet.
Pending == IF rest_pc \in {"over", "spawn"} THEN 1 ELSE 0

RestOK == /\ Rest!TypeOK
          /\ g_rest_active_clients = Cardinality(Serving) + Pending
          /\ rest_pc # "over" => g_rest_active_clients <= MaxRequests

LEMMA ServingCounted ==
    /\ IsFiniteSet(Serving) /\ Cardinality(Serving) \in Nat
    /\ \A r \in Request \ Serving : Cardinality(Serving \cup {r}) = Cardinality(Serving) + 1
    /\ \A r \in Serving : /\ Cardinality(Serving \ {r}) = Cardinality(Serving) - 1
                          /\ Cardinality(Serving) >= 1
<1>1. IsFiniteSet(Serving) /\ Cardinality(Serving) \in Nat
  BY ServicesAssumption, FS_Subset, FS_CardinalityType DEF Serving
<1>2. \A r \in Request \ Serving : Cardinality(Serving \cup {r}) = Cardinality(Serving) + 1
  BY <1>1, FS_AddElement
<1>3. ASSUME NEW r \in Serving
      PROVE  /\ Cardinality(Serving \ {r}) = Cardinality(Serving) - 1
             /\ Cardinality(Serving) >= 1
  <2>1. Cardinality(Serving \ {r}) = Cardinality(Serving) - 1
    BY <1>1, <1>3, FS_RemoveElement
  <2>2. Cardinality(Serving) # 0
    BY <1>1, <1>3, FS_EmptySet
  <2>3. QED BY <1>1, <2>1, <2>2
<1>4. QED BY <1>1, <1>2, <1>3

\* The thread that accepts, and the count with it.
LEMMA RestAcceptorKeeps ==
    ASSUME RestOK, Rest!Acceptor
    PROVE  RestOK'
<1>1. /\ g_rest_active_clients = Cardinality(Serving) + Pending
      /\ Cardinality(Serving) \in Nat /\ MaxRequests \in Nat \ {0}
      /\ g_rest_active_clients \in 0..(MaxRequests + 1)
  BY ServingCounted, ServicesAssumption DEF RestOK, Rest!TypeOK
<1> USE DEF Rest!Goes, Rest!socket
<1>2. CASE Rest!Test \/ Rest!Select \/ Rest!CloseSocket
  <2>1. /\ UNCHANGED <<g_rest_api_running, request, g_rest_active_clients, rounds>>
        /\ rest_pc \notin {"over", "spawn"} /\ rest_pc' \notin {"over", "spawn"}
        /\ rest_pc' \in {"test", "select", "count", "close", "ended"}
        /\ g_rest_api_fd' \in {"open", "closed"}
    BY <1>2 DEF Rest!Test, Rest!Select, Rest!CloseSocket, RestOK, Rest!TypeOK
  <2>2. Serving' = Serving /\ Pending' = Pending
    BY <2>1 DEF Serving, Pending
  <2>3. QED BY <2>1, <2>2 DEF RestOK, Rest!TypeOK
<1>3. CASE Rest!Count
  <2>1. /\ rest_pc = "count" /\ g_rest_active_clients' = g_rest_active_clients + 1
        /\ rest_pc' = (IF g_rest_active_clients + 1 > MaxRequests THEN "over" ELSE "spawn")
        /\ UNCHANGED <<g_rest_api_running, g_rest_api_fd, request, rounds>>
    BY <1>3 DEF Rest!Count
  <2>2. Serving' = Serving /\ Pending = 0 /\ Pending' = 1
    BY <2>1 DEF Serving, Pending
  <2>3. g_rest_active_clients' = Cardinality(Serving') + Pending'
    BY <1>1, <2>1, <2>2
  <2>4. g_rest_active_clients <= MaxRequests
    BY <2>1 DEF RestOK
  <2>5. /\ g_rest_active_clients' \in 0..(MaxRequests + 1)
        /\ rest_pc' # "over" => g_rest_active_clients' <= MaxRequests
    BY <1>1, <2>1, <2>4
  <2>6. Rest!TypeOK'
    BY <2>1, <2>5 DEF RestOK, Rest!TypeOK
  <2>7. QED BY <2>3, <2>5, <2>6 DEF RestOK
<1>4. CASE Rest!Over \/ Rest!SpawnFails
  <2>1. /\ rest_pc \in {"over", "spawn"} /\ rest_pc' = "test"
        /\ g_rest_active_clients' = g_rest_active_clients - 1
        /\ UNCHANGED <<g_rest_api_running, g_rest_api_fd, request, rounds>>
    BY <1>4 DEF Rest!Over, Rest!SpawnFails
  <2>2. Serving' = Serving /\ Pending = 1 /\ Pending' = 0
    BY <2>1 DEF Serving, Pending
  <2>3. g_rest_active_clients' = Cardinality(Serving') + Pending'
    BY <1>1, <2>1, <2>2
  <2>4. g_rest_active_clients' \in 0..(MaxRequests + 1) /\ g_rest_active_clients' <= MaxRequests
    BY <1>1, <2>1, <2>2
  <2>5. Rest!TypeOK'
    BY <2>1, <2>4 DEF RestOK, Rest!TypeOK
  <2>6. QED BY <2>3, <2>4, <2>5 DEF RestOK
<1>5. CASE Rest!Spawn
  <2>1. PICK r \in Request : request[r] = "none" /\ request' = [request EXCEPT ![r] = "read"]
    BY <1>5 DEF Rest!Spawn
  <2>2. /\ rest_pc = "spawn" /\ rest_pc' = "test"
        /\ UNCHANGED <<g_rest_api_running, g_rest_api_fd, g_rest_active_clients, rounds>>
    BY <1>5 DEF Rest!Spawn
  <2>3. request \in [Request -> {"none", "read", "handle", "leave"}]
    BY DEF RestOK, Rest!TypeOK
  <2>4. Serving' = Serving \cup {r} /\ r \in Request \ Serving
    BY <2>1, <2>3 DEF Serving
  <2>5. Pending = 1 /\ Pending' = 0
    BY <2>2 DEF Pending
  <2>6. Cardinality(Serving') = Cardinality(Serving) + 1
    BY <2>4, ServingCounted
  <2>7. g_rest_active_clients' = Cardinality(Serving') + Pending'
    BY <1>1, <2>2, <2>5, <2>6
  <2>8. Rest!TypeOK'
    BY <2>1, <2>2, <2>3 DEF RestOK, Rest!TypeOK
  <2>9. QED BY <2>2, <2>7, <2>8 DEF RestOK
<1>6. QED BY <1>2, <1>3, <1>4, <1>5 DEF Rest!Acceptor

LEMMA RequestKeeps ==
    ASSUME RestOK, NEW r \in Request, Rest!Read(r) \/ Rest!Handle(r) \/ Rest!Leave(r)
    PROVE  RestOK'
<1>1. request \in [Request -> {"none", "read", "handle", "leave"}]
  BY DEF RestOK, Rest!TypeOK
<1> USE DEF Rest!Moves, Rest!socket
<1>2. CASE Rest!Read(r) \/ Rest!Handle(r)
  <2>1. PICK to \in {"handle", "leave"} :
           request[r] # "none" /\ request' = [request EXCEPT ![r] = to]
    BY <1>2 DEF Rest!Read, Rest!Handle
  <2>2. UNCHANGED <<g_rest_api_running, g_rest_api_fd, rest_pc, g_rest_active_clients, rounds>>
    BY <1>2 DEF Rest!Read, Rest!Handle
  <2>3. Serving' = Serving /\ Pending' = Pending
    BY <1>1, <2>1, <2>2 DEF Serving, Pending
  <2>4. Rest!TypeOK'
    BY <1>1, <2>1, <2>2 DEF RestOK, Rest!TypeOK
  <2>5. QED BY <2>2, <2>3, <2>4 DEF RestOK
<1>3. CASE Rest!Leave(r)
  <2>1. /\ request[r] = "leave" /\ request' = [request EXCEPT ![r] = "none"]
        /\ g_rest_active_clients' = g_rest_active_clients - 1
        /\ UNCHANGED <<g_rest_api_running, g_rest_api_fd, rest_pc, rounds>>
    BY <1>3 DEF Rest!Leave
  <2>2. Serving' = Serving \ {r} /\ r \in Serving /\ Pending' = Pending
    BY <1>1, <2>1 DEF Serving, Pending
  <2>3. /\ Cardinality(Serving') = Cardinality(Serving) - 1
        /\ Cardinality(Serving) >= 1 /\ Cardinality(Serving) \in Nat
    BY <2>2, ServingCounted
  <2>4. Pending \in {0, 1} /\ g_rest_active_clients = Cardinality(Serving) + Pending
    BY DEF RestOK, Pending
  <2>5. g_rest_active_clients' = Cardinality(Serving') + Pending'
    BY <2>1, <2>2, <2>3, <2>4
  <2>6. g_rest_active_clients \in 0..(MaxRequests + 1) /\ MaxRequests \in Nat \ {0}
    BY ServicesAssumption DEF RestOK, Rest!TypeOK
  <2>7. /\ g_rest_active_clients' \in 0..(MaxRequests + 1)
        /\ rest_pc' # "over" => g_rest_active_clients' <= MaxRequests
    BY <2>1, <2>3, <2>4, <2>6 DEF RestOK
  <2>8. Rest!TypeOK'
    BY <1>1, <2>1, <2>7 DEF RestOK, Rest!TypeOK
  <2>9. QED BY <2>5, <2>7, <2>8 DEF RestOK
<1>4. QED BY <1>2, <1>3

LEMMA RestCloses ==
    ASSUME RestOK,
           \/ Rest!Stop \/ Rest!MainCloses \/ Rest!Join \/ Rest!WaitRound \/ Rest!WaitOver
    PROVE  RestOK'
<1>1. /\ UNCHANGED <<request, rest_pc, g_rest_active_clients>>
      /\ g_rest_api_running' \in BOOLEAN /\ g_rest_api_fd' \in {"open", "closed"}
  BY DEF Rest!Stop, Rest!MainCloses, Rest!Join, Rest!WaitRound, Rest!WaitOver,
         Rest!socket, Rest!vars, RestOK, Rest!TypeOK
<1>2. rounds' \in 0..MaxRounds
  <2>1. \/ rounds' = rounds
        \/ rounds < MaxRounds /\ rounds' = rounds + 1
    BY DEF Rest!Stop, Rest!MainCloses, Rest!Join, Rest!WaitRound, Rest!WaitOver, Rest!vars
  <2>2. QED BY <2>1, ServicesAssumption DEF RestOK, Rest!TypeOK
<1>3. Serving' = Serving /\ Pending' = Pending
  BY <1>1 DEF Serving, Pending
<1>4. QED BY <1>1, <1>2, <1>3 DEF RestOK, Rest!TypeOK

-----------------------------------------------------------------------------
(* The card. *)

DvbOK == /\ Dvb!TypeOK
         /\ dvb_pc \in {"process", "inject"} => ecm = g_service_id

LEMMA DvbKeeps ==
    ASSUME DvbOK, Dvb!Thread \/ (\E sid \in Dvb!Services : Dvb!Zap(sid)) \/ Dvb!Stop \/ Dvb!Join
    PROVE  DvbOK'
<1> USE DEF Dvb!Goes, Dvb!tuned
<1>1. \A t \in Tables \cup {<<>>} : DOMAIN t \subseteq Dvb!Services
  BY DEF Dvb!Services
<1>2. CASE \/ Dvb!Top \/ Dvb!Tune \/ Dvb!ReadNothing \/ Dvb!SignalLost \/ Dvb!HandleEmm
  <2>1. /\ UNCHANGED <<dvb_running, g_channels, g_service_id, g_emm_pid, g_pending_zap, ecm>>
        /\ dvb_pc' \in Dvb!PC \ {"process", "inject"}
    BY <1>2 DEF Dvb!Top, Dvb!Tune, Dvb!ReadNothing, Dvb!SignalLost, Dvb!HandleEmm,
                Dvb!AfterSection, Dvb!PC
  <2>2. QED BY <2>1 DEF DvbOK, Dvb!TypeOK
<1>3. CASE Dvb!Scan
  <2>1. PICK t \in Tables \cup {<<>>} : \E s \in Dvb!Selection(t) :
           g_channels' = t /\ g_service_id' = s /\ dvb_pc' \in {"top", "setup_emm"}
    BY <1>3 DEF Dvb!Scan
  <2>2. Dvb!Selection(t) \subseteq DOMAIN t \cup {None}
    BY DEF Dvb!Selection, Dvb!Scrambled
  <2>3. /\ g_channels' \in Tables \cup {<<>>} /\ g_service_id' \in DOMAIN g_channels' \cup {None}
        /\ dvb_pc' \in Dvb!PC \ {"process", "inject"}
        /\ UNCHANGED <<dvb_running, g_emm_pid, g_pending_zap, ecm>>
    BY <1>3, <2>1, <2>2 DEF Dvb!Scan, Dvb!PC
  <2>4. QED BY <2>3 DEF DvbOK, Dvb!TypeOK
<1>4. CASE Dvb!SetupEmm
  <2>1. /\ g_emm_pid' \in BOOLEAN /\ dvb_pc' = "zap"
        /\ UNCHANGED <<dvb_running, g_channels, g_service_id, g_pending_zap, ecm>>
    BY <1>4 DEF Dvb!SetupEmm, DvbOK, Dvb!TypeOK
  <2>2. QED BY <2>1 DEF DvbOK, Dvb!TypeOK, Dvb!PC
<1>5. CASE Dvb!ApplyPendingZap
  <2>1. /\ dvb_pc' = "read" /\ g_pending_zap' = None
        /\ g_service_id' = g_service_id \/ g_service_id' \in DOMAIN g_channels
        /\ UNCHANGED <<dvb_running, g_channels, g_emm_pid, ecm>>
    BY <1>5 DEF Dvb!ApplyPendingZap, Dvb!Scrambled
  <2>2. QED BY <2>1 DEF DvbOK, Dvb!TypeOK, Dvb!PC
<1>6. CASE Dvb!ReadEcm
  <2>1. /\ dvb_pc' = "process" /\ ecm' = g_service_id /\ g_service_id \in DOMAIN g_channels
        /\ UNCHANGED <<dvb_running, g_channels, g_service_id, g_emm_pid, g_pending_zap>>
    BY <1>6 DEF Dvb!ReadEcm, Dvb!Scrambled
  <2>2. ecm' \in Dvb!Services
    BY <1>1, <2>1 DEF DvbOK, Dvb!TypeOK
  <2>3. QED BY <2>1, <2>2 DEF DvbOK, Dvb!TypeOK, Dvb!PC
<1>7. CASE Dvb!Process \/ Dvb!Inject
  <2>1. /\ UNCHANGED <<dvb_running, g_channels, g_service_id, g_emm_pid, g_pending_zap>>
        /\ dvb_pc \in {"process", "inject"} /\ dvb_pc' \in {"inject", "emm", "loop"}
        /\ ecm' = None \/ ecm' = ecm
        /\ dvb_pc' = "inject" => ecm' = ecm
    BY <1>7 DEF Dvb!Process, Dvb!Inject, Dvb!AfterSection
  <2>2. QED BY <2>1 DEF DvbOK, Dvb!TypeOK, Dvb!PC
<1>8. CASE (\E sid \in Dvb!Services : Dvb!Zap(sid)) \/ Dvb!Stop
  BY <1>8 DEF Dvb!Zap, Dvb!Stop, DvbOK, Dvb!TypeOK
<1>9. CASE Dvb!Join
  BY <1>9 DEF Dvb!Join, Dvb!vars, DvbOK, Dvb!TypeOK
<1>10. QED BY <1>2, <1>3, <1>4, <1>5, <1>6, <1>7, <1>8, <1>9 DEF Dvb!Thread

-----------------------------------------------------------------------------
(* The process. *)

\* Cleanup has gone past the clients.
Late == {"clients", "users", "rest_stop", "rest_close", "rest_join",
         "rest_wait", "caches", "exit"}

\* Cleanup goes on only when the thread of the card has ended ...
CardEnded == cpc \notin {"run", "dvb_stop", "dvb_join"} => dvb_pc = "ended"

\* ... the one that accepts decoders has, and no entry is in use.
DecodersEnded == /\ cpc \in Late \cup {"dvbapi_wait"} => dvbapi_pc = "ended"
                 /\ cpc \in Late => g_active_clients = 0

IInv == /\ enabled \in Configurations /\ cpc \in CleanupPC
        /\ Loop!TypeOK /\ DecodersOK /\ RestOK /\ DvbOK
        /\ CardEnded /\ DecodersEnded

\* A count of zero says that no decoder has a thread.
LEMMA NoDecoder ==
    ASSUME DecodersOK, g_active_clients = 0
    PROVE  \A s \in Decoders!Slot : decoder[s].pc = "none"
<1>1. IsFiniteSet(Decoders!Alive) /\ Cardinality(Decoders!Alive) = 0
  BY Counting DEF DecodersOK, Counted
<1>2. Decoders!Alive = {}
  BY <1>1, FS_EmptySet
<1>3. QED BY <1>2 DEF DecodersOK, Decoders!Alive, Decoders!EntriesWhole

LEMMA DecodersSame ==
    ASSUME DecodersOK, UNCHANGED decoders
    PROVE  DecodersOK'
BY DEF DecodersOK, decoders, Counted, Decoders!TypeOK, Decoders!EntriesWhole, Decoders!Alive

LEMMA RestSame ==
    ASSUME RestOK, UNCHANGED rest
    PROVE  RestOK'
BY DEF RestOK, rest, Rest!TypeOK, Serving, Pending

LEMMA DvbSame ==
    ASSUME DvbOK, UNCHANGED card
    PROVE  DvbOK'
BY DEF DvbOK, card, Dvb!TypeOK

\* What has ended does not start again.
LEMMA EndedStays ==
    /\ Decoders!Acceptor => dvbapi_pc # "ended"
    /\ Dvb!Thread => dvb_pc # "ended"
    /\ \A sid : Dvb!Zap(sid) => dvb_pc' = dvb_pc
    /\ \A s \in Decoders!Slot : Decoders!DecoderSends(s) \/ Decoders!DecoderRuns(s) =>
           decoder[s].pc # "none" /\ dvbapi_pc' = dvbapi_pc
<1>1. Decoders!Acceptor => dvbapi_pc # "ended"
  BY DEF Decoders!Acceptor, Decoders!Bind, Decoders!AcceptorTest, Decoders!AcceptorSelect,
         Decoders!TakeSlot, Decoders!NoSlot, Decoders!AcceptorGoes
<1>2. Dvb!Thread => dvb_pc # "ended"
  BY DEF Dvb!Thread, Dvb!Top, Dvb!Tune, Dvb!Scan, Dvb!SetupEmm, Dvb!ApplyPendingZap,
         Dvb!ReadEcm, Dvb!ReadNothing, Dvb!SignalLost, Dvb!Process, Dvb!Inject,
         Dvb!HandleEmm, Dvb!Goes
<1>3. \A sid : Dvb!Zap(sid) => dvb_pc' = dvb_pc
  BY DEF Dvb!Zap
<1>4. \A s \in Decoders!Slot : Decoders!DecoderSends(s) \/ Decoders!DecoderRuns(s) =>
           decoder[s].pc # "none" /\ dvbapi_pc' = dvbapi_pc
  BY DEF Decoders!DecoderSends, Decoders!DecoderRuns, Decoders!CaPmt, Decoders!CaStop,
         Decoders!OtherMessage, Decoders!Section, Decoders!Lost, Decoders!DecoderTest,
         Decoders!Processed, Decoders!Leave, Decoders!Goes, Decoders!server
<1>5. QED BY <1>1, <1>2, <1>3, <1>4

LEMMA InitHolds == Init => IInv
<1> SUFFICES ASSUME Init PROVE IInv
  OBVIOUS
<1>1. Loop!TypeOK
  <2>1. mpc \in Loop!MainPC /\ part \in 0..Loop!Parts /\ signals \in 0..MaxSignals
    BY ServicesAssumption DEF Init, Loop!Init, Loop!MainPC, Loop!Parts
  <2>2. /\ g_running \in BOOLEAN /\ g_reload_requested \in BOOLEAN
        /\ g_rotate_requested \in BOOLEAN /\ terminating \in BOOLEAN
    BY Zenon DEF Init, Loop!Init
  <2>3. /\ g_log_mutex \in {"free", "main", "other"} /\ handler \in {"none", "main", "other"}
        /\ owed \in SUBSET {"reload", "rotate"}
    BY DEF Init, Loop!Init
  <2>4. QED BY <2>1, <2>2, <2>3 DEF Loop!TypeOK
<1>2. DecodersOK
  <2>1. Decoders!TypeOK /\ Decoders!EntriesWhole
    <3>1. dvbapi_running \in BOOLEAN /\ dvbapi_waiting \in BOOLEAN
      <4>1. dvbapi_running = ("dvbapi" \in enabled) /\ dvbapi_waiting = FALSE
        BY DEF Init, Decoders!Init
      <4>2. ("dvbapi" \in enabled) \in BOOLEAN
        OBVIOUS
      <4>3. QED BY <4>1, <4>2
    <3>2. dvbapi_pc \in {"bind", "test", "select", "slot", "ended"}
      BY DEF Init, Decoders!Init
    <3>3. g_active_clients \in 0..MaxDecoders
      BY ServicesAssumption DEF Init, Decoders!Init
    <3>4. decoder = [q \in Decoders!Slot |-> Decoders!Free]
      BY DEF Init, Decoders!Init
    <3>5. QED BY <3>1, <3>2, <3>3, <3>4 DEF Decoders!TypeOK, Decoders!EntriesWhole, Decoders!Free
  <2>2. Decoders!Alive = {}
    BY DEF Init, Decoders!Init, Decoders!Alive, Decoders!Free
  <2>3. Counted
    BY <2>2, FS_EmptySet DEF Init, Decoders!Init, Counted
  <2>4. QED BY <2>1, <2>3 DEF DecodersOK
<1>3. RestOK
  <2>1. Serving = {} /\ Pending = 0
    BY DEF Init, Rest!Init, Serving, Pending
  <2>2. Rest!TypeOK
    BY ServicesAssumption DEF Init, Rest!Init, Rest!TypeOK
  <2>3. Cardinality(Serving) = 0
    BY <2>1, FS_EmptySet
  <2>4. g_rest_active_clients = 0 /\ 0 <= MaxRequests
    BY ServicesAssumption DEF Init, Rest!Init
  <2>5. QED BY <2>1, <2>2, <2>3, <2>4 DEF RestOK
<1>4. DvbOK
  <2>1. dvb_running \in BOOLEAN /\ g_emm_pid \in BOOLEAN
    <3>1. dvb_running = ("dvb" \in enabled) /\ g_emm_pid = FALSE
      BY DEF Init, Dvb!Init
    <3>2. ("dvb" \in enabled) \in BOOLEAN
      OBVIOUS
    <3>3. QED BY <3>1, <3>2
  <2>2. dvb_pc \in Dvb!PC \ {"process", "inject"}
    BY DEF Init, Dvb!Init, Dvb!PC
  <2>3. g_channels = <<>> /\ g_service_id = None /\ g_pending_zap = None /\ ecm = None
    BY DEF Init, Dvb!Init
  <2>4. QED BY <2>1, <2>2, <2>3 DEF DvbOK, Dvb!TypeOK
<1>5. CardEnded /\ DecodersEnded /\ enabled \in Configurations /\ cpc \in CleanupPC
  BY DEF Init, CardEnded, DecodersEnded, Late, CleanupPC
<1>6. QED BY <1>1, <1>2, <1>3, <1>4, <1>5 DEF IInv

\* The threads; cleanup is where it was.
LEMMA ThreadsKeep ==
    ASSUME IInv, UNCHANGED <<enabled, cpc>>,
           \/ [Loop!Next]_loop /\ UNCHANGED services
           \/ DecoderAcceptor \/ RestAcceptor \/ DvbThread
           \/ \E s \in Decoders!Slot : DecoderSends(s) \/ DecoderRuns(s)
           \/ \E r \in Request : RequestRuns(r)
    PROVE  IInv'
<1> SUFFICES /\ Loop!TypeOK' /\ DecodersOK' /\ RestOK' /\ DvbOK'
             /\ CardEnded' /\ DecodersEnded'
  BY DEF IInv
<1>1. CASE [Loop!Next]_loop /\ UNCHANGED services
  <2>1. UNCHANGED <<decoders, rest, card>>
    BY <1>1 DEF services
  <2>2. CardEnded' /\ DecodersEnded'
    BY <2>1 DEF IInv, CardEnded, DecodersEnded, card, decoders
  <2>3. QED BY <1>1, <2>1, <2>2, LoopTyped, DecodersSame, RestSame, DvbSame DEF IInv
<1>2. CASE DecoderAcceptor
  <2>1. UNCHANGED loop /\ UNCHANGED rest /\ UNCHANGED card /\ Decoders!Acceptor
    BY <1>2 DEF DecoderAcceptor, others
  <2>2. cpc \notin Late \cup {"dvbapi_wait"}
    BY <2>1, EndedStays DEF IInv, DecodersEnded
  <2>3. CardEnded' /\ DecodersEnded'
    BY <2>1, <2>2 DEF IInv, CardEnded, DecodersEnded, card
  <2>4. QED BY <2>1, <2>3, LoopTyped, AcceptorKeeps, RestSame, DvbSame DEF IInv
<1>3. ASSUME NEW s \in Decoders!Slot, DecoderSends(s) \/ DecoderRuns(s)
      PROVE  /\ Loop!TypeOK' /\ DecodersOK' /\ RestOK' /\ DvbOK'
             /\ CardEnded' /\ DecodersEnded'
  <2>1. /\ UNCHANGED loop /\ UNCHANGED rest /\ UNCHANGED card
        /\ Decoders!DecoderSends(s) \/ Decoders!DecoderRuns(s)
    BY <1>3 DEF DecoderSends, DecoderRuns, others
  <2>2. decoder[s].pc # "none" /\ dvbapi_pc' = dvbapi_pc
    BY <2>1, EndedStays
  <2>3. cpc \notin Late
    BY <2>2, NoDecoder DEF IInv, DecodersEnded
  <2>4. CardEnded' /\ DecodersEnded'
    BY <2>1, <2>2, <2>3 DEF IInv, CardEnded, DecodersEnded, card
  <2>5. QED BY <2>1, <2>4, LoopTyped, DecoderKeeps, RestSame, DvbSame DEF IInv
<1>4. CASE RestAcceptor
  <2>1. UNCHANGED loop /\ UNCHANGED decoders /\ UNCHANGED card /\ Rest!Acceptor
    BY <1>4 DEF RestAcceptor, others
  <2>2. CardEnded' /\ DecodersEnded'
    BY <2>1 DEF IInv, CardEnded, DecodersEnded, card, decoders
  <2>3. QED BY <2>1, <2>2, LoopTyped, DecodersSame, RestAcceptorKeeps, DvbSame DEF IInv
<1>5. CASE DvbThread
  <2>1. UNCHANGED loop /\ UNCHANGED decoders /\ UNCHANGED rest /\ Dvb!Thread
    BY <1>5 DEF DvbThread, others
  <2>2. dvb_pc # "ended"
    BY <2>1, EndedStays
  <2>3. CardEnded' /\ DecodersEnded'
    BY <2>1, <2>2 DEF IInv, CardEnded, DecodersEnded, decoders
  <2>4. QED BY <2>1, <2>3, LoopTyped, DecodersSame, RestSame, DvbKeeps DEF IInv
<1>6. ASSUME NEW r \in Request, RequestRuns(r)
      PROVE  /\ Loop!TypeOK' /\ DecodersOK' /\ RestOK' /\ DvbOK'
             /\ CardEnded' /\ DecodersEnded'
  <2>1. /\ UNCHANGED loop /\ UNCHANGED decoders
        /\ Rest!Read(r) \/ Rest!Handle(r) \/ Rest!Leave(r)
        /\ (\E sid \in Dvb!Services : Dvb!Zap(sid)) \/ UNCHANGED card
    BY <1>6 DEF RequestRuns, Handle, others
  <2>2. dvb_pc' = dvb_pc
    BY <2>1, EndedStays DEF card
  <2>3. CardEnded' /\ DecodersEnded'
    BY <2>1, <2>2 DEF IInv, CardEnded, DecodersEnded, decoders
  <2>4. DvbOK'
    BY <2>1, DvbKeeps, DvbSame DEF IInv
  <2>5. QED BY <2>1, <2>3, <2>4, LoopTyped, DecodersSame, RequestKeeps DEF IInv
<1>7. QED BY <1>1, <1>2, <1>3, <1>4, <1>5, <1>6

\* Cleanup, a step at a time.
LEMMA CleanupKeeps ==
    ASSUME IInv, Cleanup
    PROVE  IInv'
<1>1. UNCHANGED loop /\ enabled' = enabled
  BY DEF Cleanup, CloseDvb, CloseDecoders, CloseUsers, CloseRest, CloseCaches, At
<1>2. Loop!TypeOK' /\ enabled' \in Configurations
  BY <1>1, LoopTyped DEF IInv
<1> SUFFICES /\ cpc' \in CleanupPC /\ DecodersOK' /\ RestOK' /\ DvbOK'
             /\ CardEnded' /\ DecodersEnded'
  BY <1>2 DEF IInv
<1>3. CASE CloseDvb
  <2>1. /\ UNCHANGED decoders /\ UNCHANGED rest
        /\ Dvb!Stop \/ Dvb!Join \/ UNCHANGED card
        /\ cpc \in {"run", "dvb_stop", "dvb_join"}
        /\ cpc' \in {"dvb_stop", "dvb_join", "dvbapi_stop"}
        /\ cpc' = "dvbapi_stop" => dvb_pc = "ended" /\ UNCHANGED card
    BY <1>3 DEF CloseDvb, At, Dvb!Join, Dvb!vars, card
  <2>2. DvbOK'
    BY <2>1, DvbKeeps, DvbSame DEF IInv
  <2>3. CardEnded' /\ DecodersEnded' /\ cpc' \in CleanupPC
    BY <2>1 DEF CardEnded, DecodersEnded, Late, CleanupPC, card
  <2>4. QED BY <2>1, <2>2, <2>3, DecodersSame, RestSame DEF IInv
<1>4. CASE CloseDecoders
  <2>1. /\ UNCHANGED rest /\ UNCHANGED card
        /\ cpc \in {"dvbapi_stop", "dvbapi_wake", "dvbapi_join", "dvbapi_wait"}
        /\ cpc' \in {"dvbapi_wake", "dvbapi_join", "dvbapi_wait", "clients"}
    BY <1>4 DEF CloseDecoders, At
  <2>2. /\ Decoders!Stop \/ Decoders!Wake \/ Decoders!Join \/ Decoders!Wait \/ Decoders!AllLeft
        /\ UNCHANGED dvbapi_pc
        /\ cpc' = "dvbapi_wait" => dvbapi_pc = "ended" \/ cpc = "dvbapi_wait"
        /\ cpc' = "clients" => cpc = "dvbapi_wait" /\ g_active_clients' = 0
    BY <1>4 DEF CloseDecoders, At, Decoders!Stop, Decoders!Wake, Decoders!Join,
                Decoders!Wait, Decoders!AllLeft, Decoders!vars, Decoders!server
  <2>3. DecodersOK'
    BY <2>2, DecodersClose DEF IInv
  <2>4. CardEnded' /\ cpc' \in CleanupPC
    BY <2>1 DEF IInv, CardEnded, card, CleanupPC
  <2>5. DecodersEnded'
    BY <2>1, <2>2 DEF IInv, DecodersEnded, Late
  <2>6. QED BY <2>1, <2>3, <2>4, <2>5, RestSame, DvbSame DEF IInv
<1>5. CASE CloseUsers \/ CloseRest \/ CloseCaches
  <2>1. UNCHANGED decoders /\ UNCHANGED card /\ cpc \in Late /\ cpc' \in Late
    BY <1>5 DEF CloseUsers, CloseRest, CloseCaches, At, services, Late
  <2>2. \/ UNCHANGED rest
        \/ Rest!Stop \/ Rest!MainCloses \/ Rest!Join \/ Rest!WaitRound \/ Rest!WaitOver
    BY <1>5 DEF CloseUsers, CloseRest, CloseCaches, services
  <2>3. RestOK'
    BY <2>2, RestCloses, RestSame DEF IInv
  <2>4. CardEnded' /\ DecodersEnded' /\ cpc' \in CleanupPC
    BY <2>1 DEF IInv, CardEnded, DecodersEnded, Late, CleanupPC, card, decoders
  <2>5. QED BY <2>1, <2>3, <2>4, DecodersSame, DvbSame DEF IInv
<1>6. QED BY <1>3, <1>4, <1>5 DEF Cleanup

LEMMA StepKeeps == IInv /\ [Next]_vars => IInv'
<1> SUFFICES ASSUME IInv, [Next]_vars PROVE IInv'
  OBVIOUS
<1>1. CASE UNCHANGED vars
  <2>1. UNCHANGED <<enabled, cpc>> /\ UNCHANGED loop /\ UNCHANGED services
    BY <1>1 DEF vars
  <2>2. QED BY <2>1, ThreadsKeep
<1>2. CASE MainLoop \/ Signals \/ Unlog \/ HandlerEnds
  <2>1. UNCHANGED <<enabled, cpc>> /\ UNCHANGED services /\ Loop!Next
    BY <1>2 DEF MainLoop, Signals, Unlog, HandlerEnds, Loop!Next
  <2>2. QED BY <2>1, ThreadsKeep
<1>3. CASE \/ DecoderAcceptor \/ RestAcceptor \/ DvbThread
           \/ \E s \in 1..MaxDecoders : DecoderSends(s) \/ DecoderRuns(s)
           \/ \E r \in Request : RequestRuns(r)
  <2>1. UNCHANGED <<enabled, cpc>>
    BY <1>3 DEF DecoderAcceptor, RestAcceptor, DvbThread, DecoderSends, DecoderRuns,
                RequestRuns, Handle, others
  <2>2. QED BY <1>3, <2>1, ThreadsKeep DEF Decoders!Slot
<1>4. CASE Cleanup
  BY <1>4, CleanupKeeps
<1>5. CASE Next
  BY <1>2, <1>3, <1>4, <1>5 DEF Next
<1>6. QED BY <1>1, <1>5

LEMMA Invariant == Spec => []IInv
BY InitHolds, StepKeeps, PTL DEF Spec

\* server.c:1118: when the clients and then the users, readers and caches are
\* given up, no thread of the card or of a decoder is left that uses them.
THEOREM SourcesAreGone == Spec => []SourcesGone
<1>1. IInv => SourcesGone
  <2> SUFFICES ASSUME IInv, cpc \in Late
               PROVE  dvb_pc = "ended" /\ ~Decoders!Busy
    BY DEF SourcesGone, Late
  <2>1. \A s \in Decoders!Slot : decoder[s].pc = "none"
    BY NoDecoder DEF IInv, DecodersEnded
  <2>2. QED BY <2>1 DEF IInv, CardEnded, DecodersEnded, Late, Decoders!Busy
<1>2. QED BY <1>1, Invariant, PTL

\* dvbapi.c:472-484, 549-567: the count that cleanup waits for is that of the
\* entries in use, and everything has its type.
THEOREM DecodersAreCounted == Spec => []DecodersCounted
<1>1. IInv => DecodersCounted
  BY DEF IInv, DecodersCounted, TypeOK, DecodersOK, RestOK, DvbOK, Counted
<1>2. QED BY <1>1, Invariant, PTL

\* dvb.c:487-491: a control word that is injected is of the selected service.
THEOREM InjectedIsOfTuned == Spec => []InjectedIsTuned
<1>1. IInv => InjectedIsTuned
  BY DEF IInv, DvbOK, InjectedIsTuned
<1>2. QED BY <1>1, Invariant, PTL

\* rest_api.c: REST_MAX_CONCURRENT bounds the requests that are served at once,
\* and the count that cleanup waits for is that of the requests that have a
\* thread and of the connection that is being given one.
RequestsCounted ==
    /\ g_rest_active_clients = Cardinality(Serving) + Pending
    /\ Cardinality(Serving) <= MaxRequests

\* rest_api.c: the count is right however requests arrive, end, fail to get a
\* thread or meet the end of the server.
THEOREM RequestsAreCounted == Spec => []RequestsCounted
<1>1. IInv => RequestsCounted
  <2> SUFFICES ASSUME IInv
               PROVE  Cardinality(Serving) <= MaxRequests
    BY DEF IInv, RestOK, RequestsCounted
  <2>1. /\ g_rest_active_clients = Cardinality(Serving) + Pending
        /\ rest_pc # "over" => g_rest_active_clients <= MaxRequests
        /\ g_rest_active_clients \in 0..(MaxRequests + 1)
    BY DEF IInv, RestOK, Rest!TypeOK
  <2>2. Cardinality(Serving) \in Nat /\ MaxRequests \in Nat
    BY ServingCounted, ServicesAssumption
  <2>3. CASE rest_pc = "over"
    <3>1. Pending = 1
      BY <2>3 DEF Pending
    <3>2. QED BY <2>1, <2>2, <3>1
  <2>4. CASE rest_pc # "over"
    <3>1. Pending \in {0, 1}
      BY DEF Pending
    <3>2. QED BY <2>1, <2>2, <2>4, <3>1
  <2>5. QED BY <2>3, <2>4
<1>2. QED BY <1>1, Invariant, PTL

-----------------------------------------------------------------------------
(* What never comes to an end, and the signals. *)

LogPlaces == {"err_log", "hup_log", "usr_log", "rotate", "work_log"}

\* The main thread holds the mutex of the log only where it is about to give
\* it back; it has left the loop once cleanup has begun.
LogHeldBriefly == /\ g_log_mutex = "main" => mpc \in LogPlaces
                  /\ cpc # "run" => mpc = "left"

\* A request to terminate is never lost: until the handler has logged it is
\* pending, then g_running says it, and nothing else clears g_running.
TerminationKept == /\ handler # "none" => terminating /\ g_running
                   /\ handler = "none" => (terminating <=> ~g_running)

SInv == IInv /\ LogHeldBriefly /\ TerminationKept

\* A step of the loop, of a signal or of another thread that logs.
LEMMA LoopSteps ==
    ASSUME SInv, Loop!Next, cpc' = cpc, cpc = "run" \/ ~Loop!Main
    PROVE  LogHeldBriefly' /\ TerminationKept'
<1> USE DEF SInv, LogHeldBriefly, TerminationKept, LogPlaces, Loop!flags, Loop!sigv
<1>0. mpc \in Loop!MainPC /\ handler \in {"none", "main", "other"}
  BY DEF IInv, Loop!TypeOK
<1>1. CASE Loop!Main
  <2>0. cpc' = "run" /\ UNCHANGED Loop!sigv
    BY <1>1 DEF Loop!Main, Loop!Top, Loop!SelectReturns, Loop!SelectFailed,
                Loop!TakeReload, Loop!ReloadPart, Loop!TakeRotate, Loop!Work,
                Loop!LogLock, Loop!LogUnlock
  <2>1. g_log_mutex' = "main" => mpc' \in LogPlaces
    <3>1. CASE \/ Loop!Top \/ Loop!SelectReturns \/ Loop!SelectFailed
               \/ Loop!TakeReload \/ Loop!ReloadPart \/ Loop!TakeRotate \/ Loop!Work
      <4>1. g_log_mutex' = g_log_mutex /\ mpc \notin LogPlaces
        BY <3>1 DEF Loop!Top, Loop!SelectReturns, Loop!SelectFailed,
                    Loop!TakeReload, Loop!ReloadPart, Loop!TakeRotate, Loop!Work
      <4>2. QED BY <4>1
    <3>2. ASSUME NEW at \in LogPlaces, Loop!LogLock(at)
          PROVE  g_log_mutex' = "main" => mpc' \in LogPlaces
      BY <3>2 DEF Loop!LogLock
    <3>3. ASSUME NEW at, NEW next, Loop!LogUnlock(at, next)
          PROVE  g_log_mutex' # "main"
      BY <3>3 DEF Loop!LogUnlock
    <3>4. QED BY <1>1, <3>1, <3>2, <3>3 DEF Loop!Main
  <2>2. QED BY <2>0, <2>1
<1>2. CASE Loop!OtherLog \/ Loop!OtherUnlog
  BY <1>2 DEF Loop!OtherLog, Loop!OtherUnlog
<1>3. ASSUME NEW h \in {"main", "other"}, Loop!Hup(h) \/ Loop!Usr1(h)
      PROVE  LogHeldBriefly' /\ TerminationKept'
  <2>1. /\ UNCHANGED <<g_running, g_log_mutex, handler, terminating>>
        /\ mpc' = Loop!Interrupted(h)
    BY <1>3 DEF Loop!Hup, Loop!Usr1
  <2>2. mpc' = mpc \/ mpc = "select"
    BY <2>1 DEF Loop!Interrupted
  <2>3. QED BY <2>1, <2>2
<1>4. ASSUME NEW h \in {"main", "other"}, Loop!Term(h)
      PROVE  LogHeldBriefly' /\ TerminationKept'
  <2>1. /\ UNCHANGED <<mpc, g_running, g_log_mutex>>
        /\ handler = "none" /\ ~terminating /\ handler' = h /\ terminating' = TRUE
    BY <1>4 DEF Loop!Term
  <2>2. QED BY <2>1
<1>5. CASE Loop!HandlerEnds
  <2>1. /\ handler # "none" /\ g_log_mutex' # "main" /\ g_running' = FALSE
        /\ handler' = "none" /\ terminating' = terminating
        /\ mpc' = Loop!Interrupted(handler)
    BY <1>5 DEF Loop!HandlerEnds
  <2>2. mpc' = mpc \/ mpc = "select"
    BY <2>1 DEF Loop!Interrupted
  <2>3. QED BY <2>1, <2>2
<1>6. QED BY <1>1, <1>2, <1>3, <1>4, <1>5 DEF Loop!Next

\* Cleanup begins when the loop is left, does nothing to it, and waits for a
\* handler that runs on the main thread.
LEMMA CleanupInOrder ==
    ASSUME Cleanup
    PROVE  /\ UNCHANGED loop /\ handler # "main"
           /\ cpc = "run" => mpc = "left"
<1>1. PICK from, to : /\ At(from, to) /\ (from = "run" => mpc = "left")
  <2>1. CASE CloseDvb
    BY <2>1 DEF CloseDvb
  <2>2. CASE CloseDecoders
    BY <2>2 DEF CloseDecoders
  <2>3. CASE CloseUsers \/ CloseCaches
    BY <2>3 DEF CloseUsers, CloseCaches
  <2>4. CASE CloseRest
    BY <2>4 DEF CloseRest
  <2>5. QED BY <2>1, <2>2, <2>3, <2>4 DEF Cleanup
<1>2. QED BY <1>1 DEF At

LEMMA SignalsKept == SInv /\ [Next]_vars => SInv'
<1> SUFFICES ASSUME SInv, [Next]_vars PROVE LogHeldBriefly' /\ TerminationKept'
  BY StepKeeps DEF SInv
<1>1. CASE MainLoop \/ Signals \/ Unlog \/ HandlerEnds
  <2>1. cpc' = cpc /\ Loop!Next
    BY <1>1 DEF MainLoop, Signals, Unlog, HandlerEnds, Loop!Next
  <2>2. CASE MainLoop
    <3>1. cpc = "run"
      BY <2>2 DEF MainLoop
    <3>2. QED BY <2>1, <3>1, LoopSteps
  <2>3. CASE cpc # "run"
    <3>1. Loop!Main => cpc = "run" \/ mpc \in LogPlaces \cup (Loop!MainPC \ {"left"})
      BY <2>3 DEF Loop!Main, Loop!Top, Loop!SelectReturns, Loop!SelectFailed,
                  Loop!TakeReload, Loop!ReloadPart, Loop!TakeRotate, Loop!Work,
                  Loop!LogLock, Loop!LogUnlock, Loop!MainPC, LogPlaces
    <3>2. mpc = "left"
      BY <2>3 DEF SInv, LogHeldBriefly
    <3>3. ~Loop!Main
      BY <2>3, <3>1, <3>2 DEF LogPlaces
    <3>4. QED BY <2>1, <3>3, LoopSteps
  <2>4. QED BY <2>1, <2>3, LoopSteps
<1>2. CASE \/ UNCHANGED vars \/ DecoderAcceptor \/ RestAcceptor \/ DvbThread
           \/ \E s \in 1..MaxDecoders : DecoderSends(s) \/ DecoderRuns(s)
           \/ \E r \in Request : RequestRuns(r)
  <2>1. UNCHANGED <<cpc, loop>>
    BY <1>2 DEF vars, DecoderAcceptor, RestAcceptor, DvbThread, DecoderSends,
                DecoderRuns, RequestRuns, Handle, others
  <2>2. QED BY <2>1 DEF SInv, LogHeldBriefly, TerminationKept, loop
<1>3. CASE Cleanup
  <2>1. UNCHANGED loop
    BY <1>3, CleanupInOrder
  <2>2. cpc' # "run" => cpc # "run" \/ mpc = "left"
    BY <1>3, CleanupInOrder
  <2>3. QED BY <2>1, <2>2 DEF SInv, LogHeldBriefly, TerminationKept, loop
<1>4. QED BY <1>1, <1>2, <1>3 DEF Next

LEMMA SignalsInvariant == Spec => []SInv
<1>1. Init => LogHeldBriefly /\ TerminationKept
  BY DEF Init, Loop!Init, LogHeldBriefly, TerminationKept
<1>2. Init => SInv
  BY <1>1, InitHolds DEF SInv
<1>3. QED BY <1>2, SignalsKept, PTL DEF Spec

\* server.c:239-250: the request of SIGINT or SIGTERM is never lost, and the
\* mutex of the log is held by the main thread only where it gives it back.
THEOREM RequestsToEndAreKept == Spec => [](TerminationKept /\ LogHeldBriefly)
<1>1. SInv => TerminationKept /\ LogHeldBriefly
  BY DEF SInv
<1>2. QED BY <1>1, SignalsInvariant, PTL

\* logger.c:86: a handler that waits for the mutex its own thread holds waits
\* for ever; on the main thread, neither loop nor cleanup makes another step.
StuckForGood ==
    HandlerStuck => /\ HandlerStuck' /\ handler' = handler
                    /\ handler = "main" => mpc' = mpc /\ cpc' = cpc

LEMMA StuckStep == SInv /\ [Next]_vars => StuckForGood
<1> SUFFICES ASSUME SInv, [Next]_vars, HandlerStuck
             PROVE  /\ HandlerStuck' /\ handler' = handler
                    /\ handler = "main" => mpc' = mpc /\ cpc' = cpc
  BY DEF StuckForGood
<1>0. /\ handler = g_log_mutex /\ handler \in {"main", "other"}
      /\ handler = "main" => mpc \in LogPlaces
  BY DEF HandlerStuck, SInv, IInv, Loop!TypeOK, LogHeldBriefly
<1>1. CASE MainLoop \/ Signals \/ Unlog \/ HandlerEnds
  <2>1. cpc' = cpc /\ Loop!Next
    BY <1>1 DEF MainLoop, Signals, Unlog, HandlerEnds, Loop!Next
  <2>2. ASSUME Loop!Main
        PROVE  /\ handler # "main" /\ handler' = handler
               /\ g_log_mutex' = g_log_mutex
    <3>1. handler # "main" /\ g_log_mutex = "other"
      BY <1>0, <2>2 DEF Loop!Main, Loop!Top, Loop!SelectReturns, Loop!SelectFailed,
                Loop!TakeReload, Loop!ReloadPart, Loop!TakeRotate, Loop!Work,
                Loop!LogLock, Loop!LogUnlock, Loop!MainFree
    <3>2. ~ (\E at \in LogPlaces : Loop!LogLock(at))
          /\ ~ (\E at, next : Loop!LogUnlock(at, next))
      BY <3>1 DEF Loop!LogLock, Loop!LogUnlock
    <3>3. \/ Loop!Top \/ Loop!SelectReturns \/ Loop!SelectFailed
          \/ Loop!TakeReload \/ Loop!ReloadPart \/ Loop!TakeRotate \/ Loop!Work
      BY <2>2, <3>2 DEF Loop!Main, LogPlaces
    <3>4. UNCHANGED <<handler, g_log_mutex>>
      BY <3>3 DEF Loop!Top, Loop!SelectReturns, Loop!SelectFailed, Loop!TakeReload,
                  Loop!ReloadPart, Loop!TakeRotate, Loop!Work, Loop!sigv
    <3>5. QED BY <3>1, <3>4
  <2>3. ~Loop!OtherLog /\ ~Loop!OtherUnlog /\ ~Loop!HandlerEnds
    BY <1>0 DEF Loop!OtherLog, Loop!OtherUnlog, Loop!HandlerEnds
  <2>4. \A h : ~Loop!Term(h)
    BY <1>0 DEF Loop!Term
  <2>5. ASSUME NEW h, Loop!Hup(h) \/ Loop!Usr1(h)
        PROVE  UNCHANGED <<handler, g_log_mutex>> /\ (handler = "main" => mpc' = mpc)
    BY <1>0, <2>5 DEF Loop!Hup, Loop!Usr1, Loop!Interrupted, LogPlaces
  <2>6. UNCHANGED <<handler, g_log_mutex>> /\ (handler = "main" => mpc' = mpc)
    BY <2>1, <2>2, <2>3, <2>4, <2>5 DEF Loop!Next
  <2>7. QED BY <1>0, <2>1, <2>6 DEF HandlerStuck
<1>2. CASE \/ UNCHANGED vars \/ DecoderAcceptor \/ RestAcceptor \/ DvbThread
           \/ \E s \in 1..MaxDecoders : DecoderSends(s) \/ DecoderRuns(s)
           \/ \E r \in Request : RequestRuns(r)
  <2>1. UNCHANGED <<cpc, loop>>
    BY <1>2 DEF vars, DecoderAcceptor, RestAcceptor, DvbThread, DecoderSends,
                DecoderRuns, RequestRuns, Handle, others
  <2>2. QED BY <2>1 DEF HandlerStuck, loop
<1>3. CASE Cleanup
  <2>1. UNCHANGED loop /\ handler # "main"
    BY <1>3, CleanupInOrder
  <2>2. QED BY <2>1 DEF HandlerStuck, loop
<1>4. QED BY <1>1, <1>2, <1>3 DEF Next

\* logger.c:86: once a handler waits for the mutex its own thread holds, no step
\* of any thread or signal ends that, and a main thread that is stuck in one
\* leaves loop and cleanup where they are.
THEOREM StuckStaysStuck == Spec => [][StuckForGood]_vars
  BY SignalsInvariant, StuckStep, PTL DEF Spec

\* dvbapi.c:560: the entry of a decoder whose thread could not be started is
\* never given back, so that cleanup does not get past its wait for decoders.
OrphansStay == \A s \in Decoders!Slot : Decoders!Orphan(s) => Decoders!Orphan(s)'

CleanupWaits == (\E s \in Decoders!Slot : Decoders!Orphan(s)) => cpc \notin Late

LEMMA OrphanStep == IInv /\ [Next]_vars => OrphansStay
<1> SUFFICES ASSUME IInv, [Next]_vars, NEW s \in Decoders!Slot, decoder[s].pc = "orphan"
             PROVE  decoder'[s].pc = "orphan"
  BY DEF OrphansStay, Decoders!Orphan
<1>0. decoder \in [Decoders!Slot -> Entry] /\ decoder[s].alive
  BY DEF IInv, DecodersOK, Decoders!TypeOK, Decoders!EntriesWhole, Entry
<1>1. CASE UNCHANGED decoders
  BY <1>1 DEF decoders
<1>2. CASE DecoderAcceptor
  <2>1. CASE Decoders!TakeSlot
    <3> DEFINE q == Decoders!FirstFree
    <3>1. q \in Decoders!Slot /\ ~decoder[q].alive
      BY <2>1, FirstFreeIsFree DEF Decoders!TakeSlot
    <3>2. PICK e : decoder' = [decoder EXCEPT ![q] = e]
      BY <2>1 DEF Decoders!TakeSlot
    <3> HIDE DEF q
    <3>3. QED BY <1>0, <3>1, <3>2
  <2>2. CASE ~Decoders!TakeSlot
    BY <1>2, <2>2 DEF DecoderAcceptor, Decoders!Acceptor, Decoders!Bind,
       Decoders!AcceptorTest, Decoders!AcceptorSelect, Decoders!NoSlot
  <2>3. QED BY <2>1, <2>2
<1>3. ASSUME NEW q \in Decoders!Slot, DecoderSends(q) \/ DecoderRuns(q)
      PROVE  decoder'[s].pc = "orphan"
  <2>1. decoder[q].pc # "orphan" /\ \E e : decoder' = [decoder EXCEPT ![q] = e]
    <3>1. Decoders!DecoderSends(q) \/ Decoders!DecoderRuns(q)
      BY <1>3 DEF DecoderSends, DecoderRuns
    <3>2. decoder[q].pc # "orphan"
      BY <3>1 DEF Decoders!DecoderSends, Decoders!DecoderRuns, Decoders!CaPmt,
         Decoders!CaStop, Decoders!OtherMessage, Decoders!Section, Decoders!Lost,
         Decoders!DecoderTest, Decoders!Processed, Decoders!Leave, Decoders!Goes
    <3>3. \E e : decoder' = [decoder EXCEPT ![q] = e]
      BY <3>1 DEF Decoders!DecoderSends, Decoders!DecoderRuns, Decoders!CaPmt,
         Decoders!CaStop, Decoders!OtherMessage, Decoders!Section, Decoders!Lost,
         Decoders!DecoderTest, Decoders!Processed, Decoders!Leave, Decoders!Goes
    <3>4. QED BY <3>2, <3>3
  <2>2. QED BY <1>0, <2>1
<1>4. CASE Cleanup
  <2>1. CASE CloseDecoders
    <3>1. UNCHANGED decoder \/ Decoders!Wake
      BY <2>1 DEF CloseDecoders, Decoders!Stop, Decoders!Join, Decoders!Wait,
                  Decoders!AllLeft, Decoders!vars
    <3>2. CASE Decoders!Wake
      BY <1>0, <3>2 DEF Decoders!Wake, Entry
    <3>3. QED BY <3>1, <3>2
  <2>2. CASE ~CloseDecoders
    <3>1. UNCHANGED decoders
      BY <1>4, <2>2 DEF Cleanup, CloseDvb, CloseUsers, CloseRest, CloseCaches, services
    <3>2. QED BY <1>1, <3>1
  <2>3. QED BY <2>1, <2>2
<1>5. CASE MainLoop \/ Signals \/ Unlog \/ HandlerEnds
  BY <1>1, <1>5 DEF MainLoop, Signals, Unlog, HandlerEnds, services
<1>6. CASE \/ RestAcceptor \/ DvbThread \/ \E r \in Request : RequestRuns(r)
  BY <1>1, <1>6 DEF RestAcceptor, DvbThread, RequestRuns, Handle
<1>7. CASE UNCHANGED vars
  BY <1>1, <1>7 DEF vars, services
<1>8. QED BY <1>2, <1>3, <1>4, <1>5, <1>6, <1>7 DEF Next, Decoders!Slot

\* dvbapi.c:560: one failed pthread_create is enough for cleanup to wait for
\* ever: the entry stays in use, whatever happens, and while one is in use
\* cleanup does not come past the decoders.
THEOREM OrphansAreNeverFreed == Spec => [][OrphansStay]_vars /\ []CleanupWaits
<1>1. IInv => CleanupWaits
  BY NoDecoder DEF IInv, DecodersEnded, CleanupWaits, Decoders!Orphan
<1>2. QED BY <1>1, Invariant, OrphanStep, PTL DEF Spec
=============================================================================
