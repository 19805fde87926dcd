------------------------ MODULE ReaderManagerProofs ------------------------
(***************************************************************************)
(* Proofs about ReaderManager while no reload is under way (ServeSpec),    *)
(* for any number of readers and threads, any ECMs and any limits.         *)
(*                                                                         *)
(* Why a thread never gets the answer to another ECM: the mutex of a       *)
(* reader is held by the thread that works with it, one at a time, and a   *)
(* connection that has ended an exchange without its answer is closed.  So *)
(* nothing is under way on a connection unless a thread waits for it, and  *)
(* then it is that thread's own ECM or its answer, and nothing else.       *)
(*                                                                         *)
(* On top of it: every path out of a reader gives its mutex back, only     *)
(* failures put a reader in backoff, and what is sent is sent on a         *)
(* connection that is logged in.                                           *)
(***************************************************************************)
EXTENDS ReaderManager, WellFoundedInduction, TLAPS

AtWork == {"card", "connect", "login", "send", "recv"}

\* A thread at work holds the mutex of its reader.
PlacesOK ==
    \A t \in Thread :
      /\ pc[t] # "idle" => job[t] \in Job
      /\ pc[t] \in AtWork \cup {"lock"} => cur[t] \in Reader
      /\ pc[t] \in AtWork => lock[cur[t]] = t

\* Nothing is under way on the connection of reader r.
Quiet(r) == reader[r].up = <<>> /\ reader[r].down = <<>>

\* The one thing under way there is the ECM e or its answer.
InFlight(r, e) ==
    \/ reader[r].up = <<e>> /\ reader[r].down = <<>>
    \/ reader[r].up = <<>> /\ reader[r].down = <<e>>

Awaited(r) == \E t \in Thread : pc[t] = "recv" /\ cur[t] = r

StreamsOK ==
    /\ \A t \in Thread : pc[t] = "recv" => InFlight(cur[t], job[t].ecm)
    /\ \A t \in Thread : pc[t] = "recv" => job[t].emm = None
    /\ \A r \in Reader : Awaited(r) \/ Quiet(r)

IInv == TypeOK /\ PlacesOK /\ StreamsOK /\ AnswerMatches

-----------------------------------------------------------------------------
(* The choice of a reader. *)

\* A nonempty set of natural numbers has a least member.
LEMMA Least ==
  ASSUME NEW T \in SUBSET Nat, T # {}
  PROVE  \E m \in T : \A k \in T : m <= k
<1> DEFINE R == {jk \in Nat \X Nat : jk[1] < jk[2]}
<1>1. IsWellFoundedOn(R, Nat) BY NatLessThanWellFounded DEF OpToRel
<1>2. \A j, k \in Nat : j < k => <<j, k>> \in R OBVIOUS
<1> HIDE DEF R
<1>3. PICK m \in T : \A k \in T : ~(<<k, m>> \in R) BY <1>1, WFMin
<1>4. ASSUME NEW k \in T PROVE m <= k
  <2>1. ~(k < m) BY <1>2, <1>3
  <2>2. QED BY <2>1
<1>5. QED BY <1>4

\* cccam_card_manager_select_reader: what it chooses is a reader on the list
\* that serves the channel, or none when there is none.
LEMMA BestIsReader ==
  ASSUME TypeOK, NEW ch
  PROVE  /\ Best(ch) \in 0..NReaders
         /\ Best(ch) # 0 => Best(ch) \in Candidates(ch)
<1> DEFINE C == Candidates(ch)
           S1 == {Score(r) + 20 : r \in C}
<1>1. C \subseteq Reader BY DEF Candidates, TypeOK
<1>2. \A r \in Reader : Score(r) \in Int /\ Score(r) + 20 \in Nat
  <2> SUFFICES ASSUME NEW r \in Reader
               PROVE  Score(r) \in Int /\ Score(r) + 20 \in Nat
    OBVIOUS
  <2>1. Priority[r] \in 0..255 /\ Hop[r] \in 0..255 BY ReaderAssumption
  <2>2. Type[r] \in {"local", "remote", "emu"} BY ReaderAssumption
  <2>3. PICK a \in {-20, -10, 10}, b \in {0, 100} :
          Score(r) = Priority[r] * 10 + Hop[r] * 5 + a + b
    BY <2>2 DEF Score
  <2> DEFINE p == Priority[r]
             h == Hop[r]
  <2>4. p \in 0..255 /\ h \in 0..255 /\ Score(r) = p * 10 + h * 5 + a + b
    BY <2>1, <2>3
  <2> HIDE DEF p, h
  <2>5. a \in Int /\ a >= -20 /\ b \in Nat BY <2>3
  <2> DEFINE x == p * 10
             y == h * 5
  <2>8. x \in Nat /\ y \in Nat BY <2>4
  <2>6. p * 10 + h * 5 + a + b \in Int /\ p * 10 + h * 5 + a + b + 20 \in Nat
    <3> HIDE DEF x, y
    <3>1. x + y + a + b \in Int /\ x + y + a + b + 20 \in Nat BY <2>5, <2>8
    <3>2. QED BY <3>1 DEF x, y
  <2>7. QED BY <2>4, <2>6
<1>3. NReaders \in Nat BY ReaderAssumption
<1>4. ASSUME C # {}
      PROVE  \E r \in C : \A q \in C : \/ Score(r) < Score(q)
                                       \/ Score(r) = Score(q) /\ r >= q
  <2>1. PICK m \in S1 : \A k \in S1 : m <= k
    <3>1. S1 \subseteq Nat /\ S1 # {} BY <1>1, <1>2, <1>4
    <3>2. QED BY <3>1, Least
  <2> DEFINE S2 == {NReaders - r : r \in {q \in C : Score(q) + 20 = m}}
  <2>2. S2 \subseteq Nat /\ S2 # {} BY <1>1, <1>3, <2>1 DEF Reader
  <2>3. PICK n \in S2 : \A k \in S2 : n <= k BY <2>2, Least
  <2>4. PICK r \in C : Score(r) + 20 = m /\ n = NReaders - r BY <2>3
  <2>5. \A q \in C : Score(r) + 20 <= Score(q) + 20 BY <2>1, <2>4
  <2>6. \A q \in C : Score(q) + 20 = m => NReaders - r <= NReaders - q
    BY <2>3, <2>4
  <2>7. \A q \in C : \/ Score(r) < Score(q)
                     \/ Score(r) = Score(q) /\ r >= q
    <3> SUFFICES ASSUME NEW q \in C
                 PROVE  \/ Score(r) < Score(q)
                        \/ Score(r) = Score(q) /\ r >= q
      OBVIOUS
    <3>1. r \in Int /\ q \in Int BY <1>1, <1>3 DEF Reader
    <3>2. Score(r) \in Int /\ Score(q) \in Int BY <1>1, <1>2
    <3> HIDE DEF C
    <3>3. QED BY <1>3, <2>4, <2>5, <2>6, <3>1, <3>2
  <2>8. QED BY <2>7
<1>5. CASE C = {} BY <1>3, <1>5 DEF Best
<1>6. CASE C # {}
  <2>1. Best(ch) \in C BY <1>4, <1>6 DEF Best
  <2>2. QED BY <1>1, <1>3, <2>1 DEF Reader
<1>7. QED BY <1>5, <1>6

-----------------------------------------------------------------------------
(* The fields of a reader. *)

\* card_manager.c:123-139: marks change neither the connection nor what is
\* under way on it, and a closed connection carries nothing.
LEMMA MarksKeepStreams ==
  ASSUME NEW f \in Fields
  PROVE  /\ MarkFailure(f) \in Fields
         /\ MarkFailure(f).up = f.up /\ MarkFailure(f).down = f.down
         /\ MarkSuccess(f) \in Fields
         /\ MarkSuccess(f).up = f.up /\ MarkSuccess(f).down = f.down
<1>1. MaxFailures \in Nat \ {0} /\ Backoff \in Nat \ {0} BY ReaderAssumption
<1> DEFINE n == IF f.fails < MaxFailures THEN f.fails + 1 ELSE MaxFailures
<1>2. f.fails \in 0..MaxFailures BY DEF Fields
<1>3. n \in 0..MaxFailures BY <1>1, <1>2
<1> HIDE DEF n
<1>4. \A k \in 0..MaxFailures, st \in {"ok", "error"}, w \in 0..Backoff :
        LET g == [f EXCEPT !.fails = k, !.state = st, !.wait = w]
        IN  g \in Fields /\ g.up = f.up /\ g.down = f.down
  BY DEF Fields
<1>5. \A k \in 0..MaxFailures :
        LET g == [f EXCEPT !.fails = k]
        IN  g \in Fields /\ g.up = f.up /\ g.down = f.down
  BY DEF Fields
<1>6. /\ MarkFailure(f) \in Fields
      /\ MarkFailure(f).up = f.up /\ MarkFailure(f).down = f.down
  <2>1. CASE n = MaxFailures
    <3>1. MarkFailure(f) = [f EXCEPT !.fails = n, !.state = "error", !.wait = Backoff]
      BY <2>1 DEF MarkFailure, n
    <3>2. Backoff \in 0..Backoff BY <1>1
    <3> DEFINE g == [f EXCEPT !.fails = n, !.state = "error", !.wait = Backoff]
    <3>3. g \in Fields /\ g.up = f.up /\ g.down = f.down BY <1>3, <1>4, <3>2
    <3>4. QED BY <3>1, <3>3
  <2>2. CASE n # MaxFailures
    <3>1. MarkFailure(f) = [f EXCEPT !.fails = n] BY <2>2 DEF MarkFailure, n
    <3>2. QED BY <1>3, <1>5, <3>1
  <2>3. QED BY <2>1, <2>2
<1>7. MarkSuccess(f) = [f EXCEPT !.fails = 0, !.state = "ok", !.wait = 0]
  BY DEF MarkSuccess, Fields
<1>8. 0 \in 0..MaxFailures /\ 0 \in 0..Backoff BY <1>1
<1>9. /\ MarkSuccess(f) \in Fields
      /\ MarkSuccess(f).up = f.up /\ MarkSuccess(f).down = f.down
  <2> DEFINE g == [f EXCEPT !.fails = 0, !.state = "ok", !.wait = 0]
  <2>1. g \in Fields /\ g.up = f.up /\ g.down = f.down BY <1>4, <1>8
  <2>2. MarkSuccess(f) = g BY <1>7
  <2> HIDE DEF g
  <2>3. QED BY <2>1, <2>2
<1>10. QED BY <1>6, <1>9

LEMMA CloseEmpties ==
  ASSUME NEW f \in Fields
  PROVE  /\ Close(f) \in Fields
         /\ Close(f).up = <<>> /\ Close(f).down = <<>>
<1>1. <<>> \in Seq(Ecm) OBVIOUS
<1>2. FALSE \in BOOLEAN OBVIOUS
<1>3. QED BY <1>1, <1>2 DEF Fields, Close

-----------------------------------------------------------------------------
(* Every step keeps the invariant. *)

\* Two threads at work do not share a reader.
LEMMA Exclusive ==
  ASSUME PlacesOK, NEW t \in Thread, NEW u \in Thread, pc[t] \in AtWork,
         pc[u] \in AtWork, cur[t] = cur[u]
  PROVE  t = u
BY DEF PlacesOK

\* A thread that works with no reader moves on.
LEMMA OutsideStep ==
  ASSUME IInv, TypeOK', NEW t \in Thread, NEW x, pc[t] \notin AtWork,
         x \notin AtWork, pc' = [pc EXCEPT ![t] = x], UNCHANGED <<reader, lock>>,
         \A u \in Thread : u # t => /\ job'[u] = job[u] /\ cur'[u] = cur[u]
                                    /\ cw'[u] = cw[u],
         x # "idle" => job'[t] \in Job,
         x = "lock" => cur'[t] \in Reader,
         cw'[t] # None => cw'[t] = job'[t].ecm
  PROVE  IInv'
<1>1. pc'[t] = x /\ \A u \in Thread : u # t => pc'[u] = pc[u]
  BY DEF IInv, TypeOK
<1>2. PlacesOK' BY <1>1 DEF IInv, PlacesOK
<1>3. \A r \in Reader : Awaited(r) => Awaited(r)'
  BY <1>1 DEF Awaited, AtWork
<1>4. StreamsOK'
  <2>1. \A u \in Thread : pc'[u] = "recv" =>
          /\ u # t /\ pc[u] = "recv" /\ cur'[u] = cur[u] /\ job'[u] = job[u]
    BY <1>1 DEF AtWork
  <2>2. ASSUME NEW u \in Thread, pc'[u] = "recv"
        PROVE  InFlight(cur[u], job[u].ecm)'
    <3>1. InFlight(cur[u], job[u].ecm) BY <2>1, <2>2 DEF IInv, StreamsOK
    <3>2. cur'[u] = cur[u] /\ job'[u].ecm = job[u].ecm /\ reader' = reader
      BY <2>1, <2>2
    <3>3. QED BY <3>1, <3>2 DEF InFlight
  <2>3. \A u \in Thread : pc'[u] = "recv" => job'[u].emm = None
    BY <2>1 DEF IInv, StreamsOK
  <2>4. \A r \in Reader : Awaited(r)' \/ Quiet(r)'
    BY <1>3 DEF IInv, StreamsOK, Quiet
  <2>5. QED BY <2>2, <2>3, <2>4 DEF StreamsOK
<1>5. AnswerMatches' BY <1>1 DEF IInv, AnswerMatches
<1>6. QED BY <1>2, <1>4, <1>5 DEF IInv

\* A thread at work goes on with its reader: it leaves the connection in a
\* state that suits its next position, and touches no other reader.
LEMMA InsideStep ==
  ASSUME IInv, TypeOK', NEW t \in Thread, NEW x \in AtWork,
         pc[t] \in AtWork, pc' = [pc EXCEPT ![t] = x],
         NEW f, reader' = [reader EXCEPT ![cur[t]] = f],
         UNCHANGED <<lock, job, cur, cw>>,
         x = "recv" => job[t].emm = None /\ f.up = <<job[t].ecm>> /\ f.down = <<>>,
         x # "recv" => f.up = <<>> /\ f.down = <<>>
  PROVE  IInv'
<1> DEFINE r == cur[t]
<1>1. r \in Reader BY DEF IInv, PlacesOK
<1>2. /\ pc'[t] = x /\ \A u \in Thread : u # t => pc'[u] = pc[u]
      /\ reader'[r] = f /\ \A q \in Reader : q # r => reader'[q] = reader[q]
  BY <1>1 DEF IInv, TypeOK
<1>3. \A u \in Thread : u # t /\ pc[u] \in AtWork => cur[u] \in Reader /\ cur[u] # r
  BY Exclusive DEF IInv, PlacesOK
<1>4. PlacesOK' BY <1>2 DEF IInv, PlacesOK, AtWork
<1>5. \A u \in Thread : pc'[u] = "recv" =>
        InFlight(cur[u], job[u].ecm)' /\ job'[u].emm = None
  <2> SUFFICES ASSUME NEW u \in Thread, pc'[u] = "recv"
               PROVE  InFlight(cur[u], job[u].ecm)' /\ job'[u].emm = None
    OBVIOUS
  <2>1. CASE u = t BY <1>2, <2>1 DEF InFlight
  <2>2. CASE u # t
    <3>1. pc[u] = "recv" /\ pc[u] \in AtWork BY <1>2, <2>2 DEF AtWork
    <3>2. InFlight(cur[u], job[u].ecm) /\ job[u].emm = None
      BY <3>1 DEF IInv, StreamsOK
    <3>3. reader'[cur[u]] = reader[cur[u]] BY <1>2, <1>3, <2>2, <3>1
    <3>4. QED BY <3>2, <3>3 DEF InFlight
  <2>3. QED BY <2>1, <2>2
<1>6. ASSUME NEW q \in Reader PROVE Awaited(q)' \/ Quiet(q)'
  <2>1. CASE q = r BY <1>2, <2>1 DEF Awaited, Quiet
  <2>2. CASE q # r
    BY <1>2, <2>2 DEF IInv, StreamsOK, Awaited, Quiet
  <2>3. QED BY <2>1, <2>2
<1>7. StreamsOK' BY <1>5, <1>6 DEF StreamsOK
<1>8. AnswerMatches' BY DEF IInv, AnswerMatches
<1>9. QED BY <1>4, <1>7, <1>8 DEF IInv

\* A thread leaves its reader with nothing under way, and with the answer to
\* its own ECM if with any.
LEMMA LeaveStep ==
  ASSUME IInv, NEW t \in Thread, pc[t] \in AtWork,
         NEW f \in Fields, f.up = <<>>, f.down = <<>>, Leave(t, f),
         NEW w \in {cw[t], job[t].ecm}, cw' = [cw EXCEPT ![t] = w]
  PROVE  IInv'
<1> DEFINE r == cur[t]
<1>1. r \in Reader /\ lock[r] = t /\ job[t] \in Job
  BY DEF IInv, PlacesOK, TypeOK, AtWork
<1>2. /\ pc'[t] \in {"idle", "next"}
      /\ \A u \in Thread : u # t => pc'[u] = pc[u] /\ cur'[u] = cur[u]
      /\ reader'[r] = f /\ \A q \in Reader : q # r => reader'[q] = reader[q]
      /\ \A q \in Reader : q # r => lock'[q] = lock[q]
      /\ job' = job
  BY <1>1 DEF Leave, IInv, TypeOK
<1>3. \A u \in Thread : u # t /\ pc[u] \in AtWork => cur[u] \in Reader /\ cur[u] # r
  BY Exclusive DEF IInv, PlacesOK
<1>4. TypeOK'
  <2>1. job[t].ecm \in Ecm \cup {None} BY <1>1 DEF Job
  <2>2. NReaders \in Nat BY ReaderAssumption
  <2>3. cur' \in [Thread -> 0..(NReaders + 1)] BY <2>2 DEF Leave, IInv, TypeOK
  <2>4. cw' \in [Thread -> Ecm \cup {None}] BY <2>1 DEF IInv, TypeOK
  <2>5. reader' \in [Reader -> Fields] BY DEF Leave, IInv, TypeOK
  <2>6. lock' \in [Reader -> Thread \cup {NoThread}] BY DEF Leave, IInv, TypeOK
  <2>7. pc' \in [Thread -> PC] BY DEF Leave, IInv, TypeOK, PC
  <2>8. QED BY <2>3, <2>4, <2>5, <2>6, <2>7 DEF Leave, IInv, TypeOK, emmv, reloadv
<1>5. PlacesOK' BY <1>2, <1>3 DEF IInv, PlacesOK, AtWork
<1>6. \A u \in Thread : pc'[u] = "recv" =>
        InFlight(cur[u], job[u].ecm)' /\ job'[u].emm = None
  <2> SUFFICES ASSUME NEW u \in Thread, pc'[u] = "recv"
               PROVE  InFlight(cur[u], job[u].ecm)' /\ job'[u].emm = None
    OBVIOUS
  <2>1. u # t /\ pc[u] = "recv" /\ cur'[u] = cur[u] BY <1>2
  <2>2. reader'[cur[u]] = reader[cur[u]] BY <1>2, <1>3, <2>1 DEF AtWork
  <2>3. InFlight(cur[u], job[u].ecm) /\ job[u].emm = None
    BY <2>1 DEF IInv, StreamsOK
  <2>4. QED BY <1>2, <2>1, <2>2, <2>3 DEF InFlight
<1>7. ASSUME NEW q \in Reader PROVE Awaited(q)' \/ Quiet(q)'
  <2>1. CASE q = r BY <1>2, <2>1 DEF Quiet
  <2>2. CASE q # r
    BY <1>2, <2>2 DEF IInv, StreamsOK, Awaited, Quiet
  <2>3. QED BY <2>1, <2>2
<1>8. StreamsOK' BY <1>6, <1>7 DEF StreamsOK
<1>9. AnswerMatches'
  <2>1. cw'[t] = w /\ \A u \in Thread : u # t => cw'[u] = cw[u]
    BY DEF IInv, TypeOK
  <2>2. QED BY <1>2, <2>1 DEF IInv, AnswerMatches
<1>10. QED BY <1>4, <1>5, <1>8, <1>9 DEF IInv

\* A step that neither moves a thread nor changes a field but those of time
\* and of the answers under way.
LEMMA StreamStep ==
  ASSUME IInv, TypeOK', UNCHANGED <<lock, pc, job, cur, cw>>,
         \A t \in Thread : pc[t] = "recv" => InFlight(cur[t], job[t].ecm)',
         \A r \in Reader : Quiet(r) => Quiet(r)'
  PROVE  IInv'
<1>1. PlacesOK' /\ AnswerMatches' BY DEF IInv, PlacesOK, AnswerMatches
<1>2. StreamsOK' BY DEF IInv, StreamsOK, Awaited
<1>3. QED BY <1>1, <1>2 DEF IInv

LEMMA AnswerStep ==
  ASSUME IInv, NEW r \in Reader, Answer(r) PROVE IInv'
<1> DEFINE f == reader[r]
           g == [f EXCEPT !.down = Append(f.down, Head(f.up)), !.up = Tail(f.up)]
<1>1. f \in Fields /\ f.up # <<>> BY DEF IInv, TypeOK, Answer
<1>2. f.up \in Seq(Ecm) /\ f.down \in Seq(Ecm) BY <1>1 DEF Fields
<1>3. /\ Append(f.down, Head(f.up)) \in Seq(Ecm) /\ Tail(f.up) \in Seq(Ecm)
  BY <1>1, <1>2
<1>4. g \in Fields BY <1>1, <1>3 DEF Fields
<1>5. reader' = [reader EXCEPT ![r] = g] BY <1>1 DEF Answer, Fields
<1>6. /\ reader'[r].up = Tail(f.up)
      /\ reader'[r].down = Append(f.down, Head(f.up))
      /\ \A q \in Reader : q # r => reader'[q] = reader[q]
  BY <1>1, <1>5 DEF IInv, TypeOK, Fields
<1>7. TypeOK' BY <1>4, <1>5 DEF IInv, TypeOK, Answer, emmv, reloadv
<1>8. ASSUME NEW t \in Thread, pc[t] = "recv"
      PROVE  InFlight(cur[t], job[t].ecm)'
  <2>1. cur[t] \in Reader /\ InFlight(cur[t], job[t].ecm)
    BY <1>8 DEF IInv, PlacesOK, StreamsOK, AtWork
  <2>2. CASE cur[t] # r BY <1>6, <2>1, <2>2 DEF InFlight, Answer
  <2>3. CASE cur[t] = r
    <3>1. f.up = <<job[t].ecm>> /\ f.down = <<>> BY <1>1, <2>1, <2>3 DEF InFlight
    <3>2. Tail(f.up) = <<>> /\ Append(f.down, Head(f.up)) = <<job[t].ecm>>
      BY <3>1
    <3>3. QED BY <1>6, <2>3, <3>2 DEF InFlight, Answer
  <2>4. QED BY <2>2, <2>3
<1>9. ASSUME NEW q \in Reader, Quiet(q) PROVE Quiet(q)'
  BY <1>1, <1>6, <1>9 DEF Quiet
<1>10. QED BY <1>7, <1>8, <1>9, StreamStep DEF Answer

LEMMA TickStep == ASSUME IInv, Tick PROVE IInv'
<1>1. ASSUME NEW r \in Reader
      PROVE  /\ reader'[r] \in Fields
             /\ reader'[r].up = reader[r].up /\ reader'[r].down = reader[r].down
  <2>1. reader[r] \in Fields BY DEF IInv, TypeOK
  <2>2. Backoff \in Nat BY ReaderAssumption
  <2> DEFINE n == IF reader[r].wait > 0 THEN reader[r].wait - 1 ELSE 0
  <2>6. n \in 0..Backoff
    <3>1. reader[r].wait \in 0..Backoff BY <2>1 DEF Fields
    <3>2. QED BY <2>2, <3>1
  <2>3. reader'[r] = [reader[r] EXCEPT !.wait = n] BY DEF Tick
  <2> HIDE DEF n
  <2>4. QED BY <2>1, <2>3, <2>6 DEF Fields
<1>2. reader' \in [Reader -> Fields] BY <1>1 DEF Tick
<1>3. ring' \in [1..DedupSlots -> [emm : Emm \cup {None}, age : 0..DedupWindow]]
  <2>1. DedupWindow \in Nat BY ReaderAssumption
  <2>2. ASSUME NEW s \in 1..DedupSlots
        PROVE  ring'[s] \in [emm : Emm \cup {None}, age : 0..DedupWindow]
    <3>1. ring[s] \in [emm : Emm \cup {None}, age : 0..DedupWindow]
      BY DEF IInv, TypeOK
    <3> DEFINE n == IF ring[s].age < DedupWindow THEN ring[s].age + 1 ELSE ring[s].age
    <3>2. n \in 0..DedupWindow
      <4>1. ring[s].age \in 0..DedupWindow BY <3>1
      <4>2. QED BY <2>1, <4>1
    <3>3. ring'[s] = [ring[s] EXCEPT !.age = n] BY DEF Tick
    <3> HIDE DEF n
    <3>4. QED BY <3>1, <3>2, <3>3
  <2>3. QED BY <2>2 DEF Tick
<1>4. TypeOK' BY <1>2, <1>3 DEF IInv, TypeOK, Tick, reloadv
<1>5. ASSUME NEW t \in Thread, pc[t] = "recv"
      PROVE  InFlight(cur[t], job[t].ecm)'
  <2>1. cur[t] \in Reader /\ InFlight(cur[t], job[t].ecm)
    BY <1>5 DEF IInv, PlacesOK, StreamsOK, AtWork
  <2>2. QED BY <1>1, <2>1 DEF InFlight, Tick
<1>6. ASSUME NEW q \in Reader, Quiet(q) PROVE Quiet(q)'
  BY <1>1, <1>6 DEF Quiet
<1>7. QED BY <1>4, <1>5, <1>6, StreamStep DEF Tick

\* Every step but those of the reload keeps the invariant.
LEMMA Step == IInv /\ [ServeNext]_vars => IInv'
<1> SUFFICES ASSUME IInv, [ServeNext]_vars PROVE IInv' OBVIOUS
<1> USE DEF readersv, emmv, reloadv
<1>1. TypeOK /\ PlacesOK /\ StreamsOK /\ AnswerMatches BY DEF IInv
<1>2. NReaders \in Nat /\ DedupSlots \in Nat \ {0} BY ReaderAssumption
<1>3. \A t \in Thread : pc[t] \in AtWork =>
        /\ cur[t] \in Reader /\ reader[cur[t]] \in Fields /\ job[t] \in Job
        /\ pc[t] # "recv" => Quiet(cur[t])
  <2> SUFFICES ASSUME NEW t \in Thread, pc[t] \in AtWork
               PROVE  /\ cur[t] \in Reader /\ reader[cur[t]] \in Fields
                      /\ job[t] \in Job
                      /\ pc[t] # "recv" => Quiet(cur[t])
    OBVIOUS
  <2>1. cur[t] \in Reader /\ job[t] \in Job BY <1>1 DEF PlacesOK, AtWork
  <2>2. reader[cur[t]] \in Fields /\ job[t] \in Job BY <1>1, <2>1 DEF TypeOK
  <2>3. Awaited(cur[t]) => pc[t] = "recv"
    BY <1>1, Exclusive DEF Awaited, AtWork
  <2>4. QED BY <1>1, <2>1, <2>2, <2>3 DEF StreamsOK
<1>4. ASSUME NEW t \in Thread, NEW ch \in Chan, NEW e \in Ecm, StartEcm(t, ch, e)
      PROVE  IInv'
  <2>1. [chan |-> ch, ecm |-> e, emm |-> None] \in Job BY DEF Job
  <2>2. TypeOK' BY <1>1, <1>4, <2>1 DEF StartEcm, TypeOK, PC
  <2>3. pc[t] \notin AtWork /\ job'[t] \in Job /\ cw'[t] = None
    BY <1>1, <1>4, <2>1 DEF StartEcm, AtWork, TypeOK
  <2>4. \A u \in Thread : u # t => /\ job'[u] = job[u] /\ cur'[u] = cur[u]
                                   /\ cw'[u] = cw[u]
    BY <1>1, <1>4 DEF StartEcm, TypeOK
  <2>5. QED BY <1>4, <2>2, <2>3, <2>4, OutsideStep DEF StartEcm, AtWork
<1>5. ASSUME NEW t \in Thread, NEW ch \in Chan, NEW m \in Emm, StartEmm(t, ch, m)
      PROVE  IInv'
  <2>1. [chan |-> ch, ecm |-> None, emm |-> m] \in Job BY DEF Job
  <2>2. TypeOK' BY <1>1, <1>5, <2>1 DEF StartEmm, TypeOK, PC
  <2>3. pc[t] \notin AtWork /\ job'[t] \in Job /\ cw'[t] = None
    BY <1>1, <1>5, <2>1 DEF StartEmm, AtWork, TypeOK
  <2>4. \A u \in Thread : u # t => /\ job'[u] = job[u] /\ cur'[u] = cur[u]
                                   /\ cw'[u] = cw[u]
    BY <1>1, <1>5 DEF StartEmm, TypeOK
  <2>5. QED BY <1>5, <2>2, <2>3, <2>4, OutsideStep DEF StartEmm, AtWork
<1>6. ASSUME NEW t \in Thread, Select(t) PROVE IInv'
  <2> DEFINE b == Best(job[t].chan)
  <2>1. b \in 0..NReaders BY <1>1, BestIsReader
  <2>2. b \in 0..(NReaders + 1) /\ (b # 0 => b \in Reader)
    BY <1>2, <2>1 DEF Reader
  <2> HIDE DEF b
  <2>3. pc' = [pc EXCEPT ![t] = IF b = 0 THEN "idle" ELSE "lock"]
        /\ cur' = [cur EXCEPT ![t] = b]
    BY <1>6 DEF Select, b
  <2>4. TypeOK' BY <1>1, <1>6, <2>2, <2>3 DEF Select, TypeOK, PC
  <2>5. pc[t] \notin AtWork /\ job'[t] \in Job /\ cur'[t] = b
    BY <1>1, <1>6, <2>3 DEF Select, AtWork, TypeOK, PlacesOK
  <2>6. \A u \in Thread : u # t => cur'[u] = cur[u] BY <1>1, <2>3 DEF TypeOK
  <2>7. cw'[t] # None => cw'[t] = job'[t].ecm BY <1>1, <1>6 DEF Select, AnswerMatches
  <2>8. PICK x \in {"idle", "lock"} : /\ pc' = [pc EXCEPT ![t] = x]
                                      /\ x = "lock" => b # 0
    BY <2>3
  <2>9. x = "lock" => cur'[t] \in Reader BY <2>2, <2>5, <2>8
  <2>10. x \notin AtWork BY <2>8 DEF AtWork
  <2>11. UNCHANGED <<reader, lock, job, cw>> BY <1>6 DEF Select
  <2>12. \A u \in Thread : u # t => /\ job'[u] = job[u] /\ cur'[u] = cur[u]
                                    /\ cw'[u] = cw[u]
    BY <2>6, <2>11
  <2>13. QED
    BY <2>4, <2>5, <2>7, <2>8, <2>9, <2>10, <2>11, <2>12, OutsideStep
<1>7. ASSUME NEW t \in Thread, Lock(t) PROVE IInv'
  <2> DEFINE r == cur[t]
  <2>1. r \in Reader /\ job[t] \in Job BY <1>1, <1>7 DEF Lock, PlacesOK
  <2>2. PICK x \in {"card", "login", "connect"} : pc' = [pc EXCEPT ![t] = x]
    BY <1>7 DEF Lock
  <2>3. /\ lock[r] = NoThread /\ lock'[r] = t
        /\ \A q \in Reader : q # r => lock'[q] = lock[q]
        /\ pc'[t] = x /\ \A u \in Thread : u # t => pc'[u] = pc[u]
    BY <1>1, <1>7, <2>1, <2>2 DEF Lock, TypeOK
  <2>4. TypeOK' BY <1>1, <1>7, <2>1, <2>2 DEF Lock, TypeOK, PC
  <2>5. \A u \in Thread : pc[u] \in AtWork => cur[u] # r
    BY <1>1, <2>3, ReaderAssumption DEF PlacesOK
  <2>6. PlacesOK' BY <1>1, <1>7, <2>1, <2>3, <2>5 DEF Lock, PlacesOK
  <2>7. \A q \in Reader : Awaited(q) => Awaited(q)'
    BY <1>7, <2>3 DEF Lock, Awaited
  <2>8. StreamsOK'
    BY <1>1, <1>7, <2>3, <2>7 DEF Lock, StreamsOK, InFlight, Quiet
  <2>9. AnswerMatches' BY <1>1, <1>7 DEF Lock, AnswerMatches
  <2>10. QED BY <2>4, <2>6, <2>8, <2>9 DEF IInv
<1>8. ASSUME NEW t \in Thread, Fail(t), pc[t] \in AtWork PROVE IInv'
  <2> DEFINE f == MarkFailure(Close(reader[cur[t]]))
  <2>1. f \in Fields /\ f.up = <<>> /\ f.down = <<>>
    BY <1>3, <1>8, CloseEmpties, MarksKeepStreams
  <2> HIDE DEF f
  <2>2. cw' = [cw EXCEPT ![t] = cw[t]] BY <1>1, <1>8 DEF Fail, TypeOK
  <2>3. Leave(t, f) BY <1>8 DEF Fail, f
  <2>4. QED BY <1>8, <2>1, <2>2, <2>3, LeaveStep
<1>9. ASSUME NEW t \in Thread, CardAnswers(t) PROVE IInv'
  <2>1. pc[t] \in AtWork /\ Quiet(cur[t]) /\ reader[cur[t]] \in Fields
    BY <1>3, <1>9 DEF CardAnswers, AtWork
  <2>2. QED
    BY <1>9, <2>1, MarksKeepStreams, LeaveStep DEF CardAnswers, Quiet
<1>10. ASSUME NEW t \in Thread, CardFails(t) \/ ConnectFails(t) PROVE IInv'
  <2>1. pc[t] \in AtWork /\ Quiet(cur[t]) /\ reader[cur[t]] \in Fields
    BY <1>3, <1>10 DEF CardFails, ConnectFails, AtWork
  <2>2. cw' = [cw EXCEPT ![t] = cw[t]]
    BY <1>1, <1>10 DEF CardFails, ConnectFails, TypeOK
  <2>3. Leave(t, MarkFailure(reader[cur[t]])) BY <1>10 DEF CardFails, ConnectFails
  <2>4. QED BY <2>1, <2>2, <2>3, MarksKeepStreams, LeaveStep DEF Quiet
<1>11. ASSUME NEW t \in Thread,
              LoginFails(t) \/ SendEcmFails(t) \/ ReceiveFails(t)
       PROVE  IInv'
  BY <1>8, <1>11 DEF LoginFails, SendEcmFails, ReceiveFails, AtWork
<1>12. ASSUME NEW t \in Thread, Receive(t) PROVE IInv'
  <2> DEFINE f == reader[cur[t]]
             g == [f EXCEPT !.down = Tail(f.down)]
  <2>1. pc[t] \in AtWork /\ pc[t] = "recv" /\ f \in Fields /\ f.down # <<>>
    BY <1>3, <1>12 DEF Receive, AtWork
  <2>2. f.up = <<>> /\ f.down = <<job[t].ecm>>
    BY <1>1, <2>1 DEF StreamsOK, InFlight
  <2>3. Head(f.down) = job[t].ecm /\ Tail(f.down) = <<>> BY <2>2
  <2>4. g \in Fields /\ g.up = <<>> /\ g.down = <<>> BY <2>1, <2>2, <2>3 DEF Fields
  <2>5. cw' = [cw EXCEPT ![t] = job[t].ecm] BY <1>12, <2>3 DEF Receive
  <2>6. Leave(t, MarkSuccess(g)) BY <1>12 DEF Receive
  <2> HIDE DEF g
  <2>7. QED BY <2>1, <2>4, <2>5, <2>6, MarksKeepStreams, LeaveStep
<1>13. ASSUME NEW t \in Thread, SendEmm(t) PROVE IInv'
  <2> DEFINE f == reader[cur[t]]
  <2>1. pc[t] \in AtWork /\ Quiet(cur[t]) /\ f \in Fields
    BY <1>3, <1>13 DEF SendEmm, AtWork
  <2>2. PICK partial \in BOOLEAN :
          Leave(t, [f EXCEPT !.garbled = f.garbled \/ partial])
    BY <1>13 DEF SendEmm
  <2> DEFINE b == f.garbled \/ partial
  <2>3. b \in BOOLEAN OBVIOUS
  <2> DEFINE g == [f EXCEPT !.garbled = b]
  <2>4. Leave(t, g) BY <2>2
  <2> HIDE DEF b
  <2>5. g \in Fields /\ g.up = f.up /\ g.down = f.down BY <2>1, <2>3 DEF Fields
  <2> HIDE DEF g
  <2>6. cw' = [cw EXCEPT ![t] = cw[t]] BY <1>1, <1>13 DEF SendEmm, TypeOK
  <2>7. QED BY <2>1, <2>4, <2>5, <2>6, LeaveStep DEF Quiet
<1>14. ASSUME NEW t \in Thread, Connect(t) PROVE IInv'
  <2> DEFINE f == [Close(reader[cur[t]]) EXCEPT !.fd = TRUE]
  <2>1. cur[t] \in Reader /\ reader[cur[t]] \in Fields
    BY <1>3, <1>14 DEF Connect, AtWork
  <2>2. Close(reader[cur[t]]) \in Fields BY <2>1, CloseEmpties
  <2>3. f \in Fields /\ f.up = <<>> /\ f.down = <<>>
    <3>1. TRUE \in BOOLEAN OBVIOUS
    <3>2. QED BY <2>1, <2>2, <3>1, CloseEmpties DEF Fields
  <2>4. reader' = [reader EXCEPT ![cur[t]] = f] BY <1>14 DEF Connect
  <2> HIDE DEF f
  <2>5. TypeOK' BY <1>1, <1>14, <2>3, <2>4 DEF Connect, TypeOK, PC
  <2>6. QED BY <1>14, <2>3, <2>4, <2>5, InsideStep DEF Connect, AtWork
<1>15. ASSUME NEW t \in Thread, Login(t) PROVE IInv'
  <2> DEFINE h == reader[cur[t]]
             f == [h EXCEPT !.logged_in = TRUE]
  <2>1. cur[t] \in Reader /\ h \in Fields /\ Quiet(cur[t])
    BY <1>3, <1>15 DEF Login, AtWork
  <2>2. f \in Fields /\ f.up = <<>> /\ f.down = <<>>
    <3>1. TRUE \in BOOLEAN OBVIOUS
    <3>2. QED BY <2>1, <3>1 DEF Fields, Quiet
  <2>3. reader' = [reader EXCEPT ![cur[t]] = f] BY <1>15 DEF Login
  <2> HIDE DEF f
  <2>4. TypeOK' BY <1>1, <1>15, <2>2, <2>3 DEF Login, TypeOK, PC
  <2>5. QED BY <1>15, <2>2, <2>3, <2>4, InsideStep DEF Login, AtWork
<1>16. ASSUME NEW t \in Thread, SendEcm(t) PROVE IInv'
  <2> DEFINE h == reader[cur[t]]
             f == [h EXCEPT !.up = Append(h.up, job[t].ecm)]
  <2>1. /\ cur[t] \in Reader /\ h \in Fields /\ Quiet(cur[t]) /\ job[t] \in Job
        /\ job[t].emm = None
    BY <1>3, <1>16 DEF SendEcm, AtWork
  <2>2. job[t].ecm \in Ecm BY <2>1, ReaderAssumption DEF Job
  <2>3. Append(h.up, job[t].ecm) = <<job[t].ecm>> BY <2>1 DEF Quiet
  <2>4. <<job[t].ecm>> \in Seq(Ecm) BY <2>2
  <2>5. f \in Fields /\ f.up = <<job[t].ecm>> /\ f.down = <<>>
    BY <2>1, <2>3, <2>4 DEF Fields, Quiet
  <2>6. reader' = [reader EXCEPT ![cur[t]] = f] BY <1>16 DEF SendEcm
  <2> HIDE DEF f
  <2>7. TypeOK' BY <1>1, <1>16, <2>5, <2>6 DEF SendEcm, TypeOK, PC
  <2>8. QED BY <1>16, <2>1, <2>5, <2>6, <2>7, InsideStep DEF SendEcm, AtWork
<1>17. ASSUME NEW t \in Thread, EmmSeen(t) PROVE IInv'
  <2>1. PICK x \in {"idle", "remember"} : pc' = [pc EXCEPT ![t] = x]
    BY <1>17 DEF EmmSeen
  <2>2. TypeOK' BY <1>1, <1>17, <2>1 DEF EmmSeen, TypeOK, PC
  <2>3. job'[t] \in Job BY <1>1, <1>17 DEF EmmSeen, PlacesOK
  <2>4. cw'[t] # None => cw'[t] = job'[t].ecm
    BY <1>1, <1>17 DEF EmmSeen, AnswerMatches
  <2>5. QED BY <1>17, <2>1, <2>2, <2>3, <2>4, OutsideStep DEF EmmSeen, AtWork
<1>18. ASSUME NEW t \in Thread, EmmRemember(t) PROVE IInv'
  <2>1. pc[t] = "remember" /\ job[t] \in Job BY <1>1, <1>18 DEF EmmRemember, PlacesOK
  <2>2. ring' \in [1..DedupSlots -> [emm : Emm \cup {None}, age : 0..DedupWindow]]
    <3>1. job[t].emm \in Emm \cup {None} BY <2>1 DEF Job
    <3>2. 0 \in 0..DedupWindow BY ReaderAssumption
    <3>3. [emm |-> job[t].emm, age |-> 0] \in [emm : Emm \cup {None}, age : 0..DedupWindow]
      BY <3>1, <3>2
    <3>4. QED BY <1>1, <1>18, <3>3 DEF EmmRemember, TypeOK
  <2>3. g_emm_slot' \in 1..DedupSlots
    <3>1. g_emm_slot \in Nat BY <1>1 DEF TypeOK
    <3>2. g_emm_slot % DedupSlots \in 0..(DedupSlots - 1) BY <1>2, <3>1
    <3>3. QED BY <1>2, <1>18, <3>2 DEF EmmRemember
  <2>4. cur' \in [Thread -> 0..(NReaders + 1)] BY <1>1, <1>2, <1>18 DEF EmmRemember, TypeOK
  <2>5. TypeOK' BY <1>1, <1>18, <2>2, <2>3, <2>4 DEF EmmRemember, TypeOK, PC
  <2>6. \A u \in Thread : u # t => cur'[u] = cur[u]
    BY <1>1, <1>18 DEF EmmRemember, TypeOK
  <2>7. cw'[t] # None => cw'[t] = job'[t].ecm
    BY <1>1, <1>18 DEF EmmRemember, AnswerMatches
  <2>8. QED
    BY <1>18, <2>1, <2>5, <2>6, <2>7, OutsideStep DEF EmmRemember, AtWork
<1>19. ASSUME NEW t \in Thread, EmmNext(t) PROVE IInv'
  <2>1. Ahead(t) \subseteq Reader BY <1>1 DEF Ahead, TypeOK
  <2>2. PICK x \in {"idle", "lock"}, r \in 0..NReaders :
          /\ pc' = [pc EXCEPT ![t] = x] /\ cur' = [cur EXCEPT ![t] = r]
          /\ x = "lock" => r \in Reader
    <3>1. CASE Ahead(t) = {} BY <1>2, <1>19, <3>1 DEF EmmNext
    <3>2. CASE Ahead(t) # {} BY <1>2, <1>19, <2>1, <3>2 DEF EmmNext, Reader
    <3>3. QED BY <3>1, <3>2
  <2>3. r \in 0..(NReaders + 1) BY <1>2
  <2>4. TypeOK' BY <1>1, <1>19, <2>2, <2>3 DEF EmmNext, TypeOK, PC
  <2>5. pc[t] = "next" /\ job'[t] \in Job BY <1>1, <1>19 DEF EmmNext, PlacesOK
  <2>6. cur'[t] = r /\ \A u \in Thread : u # t => cur'[u] = cur[u]
    BY <1>1, <2>2 DEF TypeOK
  <2>7. cw'[t] # None => cw'[t] = job'[t].ecm BY <1>1, <1>19 DEF EmmNext, AnswerMatches
  <2>8. QED
    BY <1>19, <2>2, <2>4, <2>5, <2>6, <2>7, OutsideStep DEF EmmNext, AtWork
<1>20. CASE UNCHANGED vars
  BY <1>1, <1>20
  DEF vars, IInv, TypeOK, PlacesOK, StreamsOK, AnswerMatches, InFlight, Quiet, Awaited
<1>21. ASSUME NEW t \in Thread, Start(t) \/ Lock(t) \/ Work(t) PROVE IInv'
  BY <1>4, <1>5, <1>6, <1>7, <1>9, <1>10, <1>11, <1>12, <1>13, <1>14, <1>15,
     <1>16, <1>17, <1>18, <1>19, <1>21
  DEF Start, Work
<1>22. QED BY <1>20, <1>21, AnswerStep, TickStep DEF ServeNext

LEMMA InitInv == Init => IInv
<1> SUFFICES ASSUME Init PROVE IInv OBVIOUS
<1>1. Fresh \in Fields
  <2>1. 0 \in 0..MaxFailures /\ 0 \in 0..Backoff BY ReaderAssumption
  <2>2. FALSE \in BOOLEAN /\ <<>> \in Seq(Ecm) OBVIOUS
  <2>3. QED BY <2>1, <2>2 DEF Fresh, Fields
<1>2. TypeOK
  <2>1. ring \in [1..DedupSlots -> [emm : Emm \cup {None}, age : 0..DedupWindow]]
    BY ReaderAssumption DEF Init
  <2>2. /\ g_emm_slot \in 1..DedupSlots /\ rpos \in 0..(NReaders + 1)
        /\ reloads \in 0..MaxReloads /\ cur \in [Thread -> 0..(NReaders + 1)]
    BY ReaderAssumption DEF Init
  <2>3. QED BY <1>1, <2>1, <2>2 DEF Init, TypeOK, PC
<1>3. PlacesOK /\ AnswerMatches BY DEF Init, PlacesOK, AnswerMatches, AtWork
<1>4. StreamsOK BY DEF Init, StreamsOK, Quiet, Fresh
<1>5. QED BY <1>2, <1>3, <1>4 DEF IInv

\* The invariant holds as long as the readers are not reloaded.
THEOREM Inductive == ServeSpec => []IInv
BY InitInv, Step, PTL DEF ServeSpec

\* card_manager.c: the fields of every reader, the positions and jobs of the
\* threads and the ring of EMMs are well typed; in particular the choice of a
\* reader yields one, and the ring's index stays inside the ring.
THEOREM TypeCorrect == ServeSpec => []TypeOK
<1>1. IInv => TypeOK BY DEF IInv
<1>2. QED BY <1>1, Inductive, PTL

\* card_manager.c:363-409, 625-633: however many threads share a connection,
\* and however late the server answers, a thread is given the answer to its
\* own ECM.
THEOREM AnswersAreOwn == ServeSpec => []AnswerMatches
<1>1. IInv => AnswerMatches BY DEF IInv
<1>2. QED BY <1>1, Inductive, PTL

-----------------------------------------------------------------------------
(* The mutexes, the health of the readers and their connections. *)

\* A mutex is held by a thread that works with its reader.
LocksHeld ==
    \A r \in Reader :
      lock[r] # NoThread => /\ lock[r] \in Thread
                            /\ pc[lock[r]] \in AtWork
                            /\ cur[lock[r]] = r

\* A reader is in error when MaxFailures uses of it have failed since its last
\* success, and only then waits for a retry; one logged in has a connection.
InError(f) == /\ f.state = "error" <=> f.fails = MaxFailures
              /\ f.wait > 0 => f.state = "error"
Linked(f) == (f.logged_in => f.fd) /\ (f.garbled => f.fd)

Healthy == \A r \in Reader : InError(reader[r]) /\ Linked(reader[r])

\* An ECM or an EMM is sent, and an answer waited for, on a connection that
\* is open and logged in.
Open(t) == /\ pc[t] \in {"send", "recv"} => reader[cur[t]].logged_in
           /\ pc[t] = "login" => reader[cur[t]].fd
SessionsOpen == \A t \in Thread : Open(t)

RInv == LocksHeld /\ Healthy /\ SessionsOpen

\* card_manager.c:123-139: a failure counts, and the last one that is allowed
\* puts the reader in error for Backoff seconds; a success ends both.
LEMMA MarksKeepHealth ==
  ASSUME NEW f \in Fields, InError(f)
  PROVE  /\ InError(MarkFailure(f)) /\ InError(MarkSuccess(f))
         /\ MarkFailure(f).fd = f.fd /\ MarkSuccess(f).fd = f.fd
         /\ MarkFailure(f).logged_in = f.logged_in
         /\ MarkSuccess(f).logged_in = f.logged_in
         /\ MarkFailure(f).garbled = f.garbled
         /\ MarkSuccess(f).garbled = f.garbled
<1>1. MaxFailures \in Nat \ {0} /\ Backoff \in Nat \ {0} BY ReaderAssumption
<1> DEFINE n == IF f.fails < MaxFailures THEN f.fails + 1 ELSE MaxFailures
<1>2. f.fails \in 0..MaxFailures /\ f.wait \in 0..Backoff /\ f.state \in {"ok", "error"}
  BY DEF Fields
<1> HIDE DEF n
<1>3. /\ InError(MarkFailure(f)) /\ MarkFailure(f).fd = f.fd
      /\ MarkFailure(f).logged_in = f.logged_in
      /\ MarkFailure(f).garbled = f.garbled
  <2>1. CASE n = MaxFailures
    <3> DEFINE g == [f EXCEPT !.fails = n, !.state = "error", !.wait = Backoff]
    <3>1. MarkFailure(f) = g BY <2>1 DEF MarkFailure, n
    <3>2. /\ g.fails = n /\ g.state = "error"
          /\ g.fd = f.fd /\ g.logged_in = f.logged_in /\ g.garbled = f.garbled
      BY DEF Fields
    <3> HIDE DEF g
    <3>3. InError(g) BY <2>1, <3>2 DEF InError
    <3>4. QED BY <3>1, <3>2, <3>3
  <2>2. CASE n # MaxFailures
    <3> DEFINE g == [f EXCEPT !.fails = n]
    <3>1. MarkFailure(f) = g BY <2>2 DEF MarkFailure, n
    <3>2. /\ g.fails = n /\ g.state = f.state /\ g.wait = f.wait
          /\ g.fd = f.fd /\ g.logged_in = f.logged_in /\ g.garbled = f.garbled
      BY DEF Fields
    <3> HIDE DEF g
    <3>3. f.fails # MaxFailures BY <1>1, <1>2, <2>2 DEF n
    <3>4. InError(g) BY <2>2, <3>2, <3>3 DEF InError
    <3>5. QED BY <3>1, <3>2, <3>4
  <2>3. QED BY <2>1, <2>2
<1> DEFINE s == [f EXCEPT !.fails = 0, !.wait = 0, !.state = "ok"]
<1>4. /\ s.fails = 0 /\ s.wait = 0 /\ s.state = "ok"
      /\ s.fd = f.fd /\ s.logged_in = f.logged_in /\ s.garbled = f.garbled
  BY DEF Fields
<1>5. MarkSuccess(f) = s BY DEF MarkSuccess
<1> HIDE DEF s
<1>6. InError(s) BY <1>1, <1>4 DEF InError
<1>7. QED BY <1>3, <1>4, <1>5, <1>6, Zenon

\* card_manager.c:626-633: closing changes nothing of a reader's failures.
LEMMA CloseKeepsHealth ==
  ASSUME NEW f \in Fields, InError(f)
  PROVE  /\ InError(Close(f)) /\ Linked(Close(f))
         /\ ~Close(f).logged_in /\ ~Close(f).garbled
<1> DEFINE g == Close(f)
<1>1. g.state = f.state /\ g.fails = f.fails /\ g.wait = f.wait
  BY DEF Fields, Close
<1>2. g.logged_in = FALSE BY DEF Fields, Close
<1>3. g.garbled = FALSE BY DEF Fields, Close
<1> HIDE DEF g
<1>4. InError(g) BY <1>1 DEF InError
<1>5. ~g.logged_in /\ ~g.garbled BY <1>2, <1>3, Zenon
<1>6. QED BY <1>4, <1>5 DEF Linked, g

\* A thread outside the readers moves on: nothing it touches matters here.
LEMMA OutsideKeeps ==
  ASSUME IInv, RInv, NEW t \in Thread, NEW x, pc[t] \notin AtWork,
         x \notin AtWork, pc' = [pc EXCEPT ![t] = x], UNCHANGED <<reader, lock>>,
         \A u \in Thread : u # t => cur'[u] = cur[u]
  PROVE  RInv'
<1>1. pc'[t] = x /\ \A u \in Thread : u # t => pc'[u] = pc[u]
  BY DEF IInv, TypeOK
<1>2. LocksHeld' BY <1>1 DEF RInv, LocksHeld
<1>3. Healthy' BY DEF RInv, Healthy
<1>4. ASSUME NEW u \in Thread PROVE Open(u)'
  <2>1. CASE u = t BY <1>1, <2>1 DEF Open, AtWork
  <2>2. CASE u # t
    <3>1. pc'[u] = pc[u] /\ cur'[u] = cur[u] /\ reader' = reader BY <1>1, <2>2
    <3>2. Open(u) BY DEF RInv, SessionsOpen
    <3>3. QED BY <3>1, <3>2 DEF Open
  <2>3. QED BY <2>1, <2>2
<1>5. QED BY <1>2, <1>3, <1>4 DEF RInv, SessionsOpen

\* The fields of one reader change; only the thread that works with it has
\* its position judged by them.
LEMMA OneReader ==
  ASSUME IInv, RInv, NEW t \in Thread, pc[t] \in AtWork,
         NEW f, reader' = [reader EXCEPT ![cur[t]] = f], InError(f), Linked(f),
         NEW x, pc' = [pc EXCEPT ![t] = x],
         \A u \in Thread : u # t => cur'[u] = cur[u],
         x \in AtWork => cur'[t] = cur[t],
         x \in {"send", "recv"} => f.logged_in,
         x = "login" => f.fd
  PROVE  Healthy' /\ SessionsOpen'
<1>1. cur[t] \in Reader BY DEF IInv, PlacesOK
<1>2. pc'[t] = x /\ \A u \in Thread : u # t => pc'[u] = pc[u]
  BY DEF IInv, TypeOK
<1>3. reader'[cur[t]] = f /\ \A q \in Reader : q # cur[t] => reader'[q] = reader[q]
  BY <1>1 DEF IInv, TypeOK
<1>4. Healthy'
  <2> SUFFICES ASSUME NEW q \in Reader
               PROVE  InError(reader'[q]) /\ Linked(reader'[q])
    BY DEF Healthy, InError, Linked
  <2>1. CASE q = cur[t] BY <1>3, <2>1
  <2>2. CASE q # cur[t]
    <3>1. InError(reader[q]) /\ Linked(reader[q]) BY DEF RInv, Healthy
    <3>2. QED BY <1>3, <2>2, <3>1
  <2>3. QED BY <2>1, <2>2
<1>5. ASSUME NEW u \in Thread PROVE Open(u)'
  <2>1. CASE u = t
    <3>1. x \in {"send", "recv"} => reader'[cur'[t]] = f /\ f.logged_in
      BY <1>3 DEF AtWork
    <3>2. x = "login" => reader'[cur'[t]] = f /\ f.fd BY <1>3 DEF AtWork
    <3>3. QED BY <1>2, <2>1, <3>1, <3>2 DEF Open
  <2>2. CASE u # t
    <3>1. pc'[u] = pc[u] /\ cur'[u] = cur[u] BY <1>2, <2>2
    <3>2. pc[u] \in AtWork => cur[u] \in Reader /\ cur[u] # cur[t]
      BY <2>2, Exclusive DEF IInv, PlacesOK
    <3>3. pc[u] \in AtWork => reader'[cur[u]] = reader[cur[u]] BY <1>3, <3>2
    <3>4. Open(u) BY DEF RInv, SessionsOpen
    <3>5. QED BY <3>1, <3>3, <3>4 DEF Open, AtWork
  <2>3. QED BY <2>1, <2>2
<1>6. QED BY <1>4, <1>5 DEF SessionsOpen

\* A thread at work goes on with its reader.
LEMMA InsideKeeps ==
  ASSUME IInv, RInv, NEW t \in Thread, pc[t] \in AtWork,
         NEW f, reader' = [reader EXCEPT ![cur[t]] = f], InError(f), Linked(f),
         NEW x \in AtWork, pc' = [pc EXCEPT ![t] = x], UNCHANGED <<lock, cur>>,
         x \in {"send", "recv"} => f.logged_in,
         x = "login" => f.fd
  PROVE  RInv'
<1>1. Healthy' /\ SessionsOpen' BY OneReader
<1>2. pc'[t] = x /\ \A u \in Thread : u # t => pc'[u] = pc[u]
  BY DEF IInv, TypeOK
<1>3. LocksHeld' BY <1>2 DEF RInv, LocksHeld
<1>4. QED BY <1>1, <1>3 DEF RInv

\* A thread at work leaves its reader and gives the mutex back.
LEMMA LeaveKeeps ==
  ASSUME IInv, RInv, NEW t \in Thread, pc[t] \in AtWork, NEW f, Leave(t, f),
         InError(f), Linked(f)
  PROVE  RInv'
<1>1. PICK x \in {"idle", "next"} : pc' = [pc EXCEPT ![t] = x] BY DEF Leave
<1>2. \A u \in Thread : u # t => cur'[u] = cur[u] BY DEF Leave, IInv, TypeOK
<1>3. reader' = [reader EXCEPT ![cur[t]] = f] BY DEF Leave
<1>4. x \notin AtWork /\ x \notin {"send", "recv"} /\ x # "login"
  BY <1>1 DEF AtWork
<1>5. Healthy' /\ SessionsOpen' BY <1>1, <1>2, <1>3, <1>4, OneReader
<1>6. pc'[t] = x /\ \A u \in Thread : u # t => pc'[u] = pc[u]
  BY <1>1 DEF IInv, TypeOK
<1>7. cur[t] \in Reader /\ lock[cur[t]] = t BY DEF IInv, PlacesOK
<1>8. /\ lock'[cur[t]] = NoThread
      /\ \A q \in Reader : q # cur[t] => lock'[q] = lock[q]
  BY <1>7 DEF Leave, IInv, TypeOK
<1>9. ASSUME NEW q \in Reader, lock'[q] # NoThread
      PROVE  lock'[q] \in Thread /\ pc'[lock'[q]] \in AtWork /\ cur'[lock'[q]] = q
  <2>1. q # cur[t] /\ lock'[q] = lock[q] BY <1>8, <1>9
  <2>2. lock[q] \in Thread /\ pc[lock[q]] \in AtWork /\ cur[lock[q]] = q
    BY <1>9, <2>1 DEF RInv, LocksHeld
  <2>3. lock[q] # t BY <2>1, <2>2
  <2>4. QED BY <1>2, <1>6, <2>1, <2>2, <2>3
<1>10. LocksHeld' BY <1>9 DEF LocksHeld
<1>11. QED BY <1>5, <1>10 DEF RInv

\* What the server sends and the seconds that pass leave the connections and
\* the count of failures alone, and only shorten a backoff.
LEMMA OnlyWaits ==
  ASSUME RInv, UNCHANGED <<lock, pc, cur>>,
         \A q \in Reader :
           /\ reader'[q].fd = reader[q].fd
           /\ reader'[q].logged_in = reader[q].logged_in
           /\ reader'[q].garbled = reader[q].garbled
           /\ reader'[q].state = reader[q].state
           /\ reader'[q].fails = reader[q].fails
           /\ reader'[q].wait > 0 => reader[q].wait > 0,
         PlacesOK
  PROVE  RInv'
<1>1. LocksHeld' BY DEF RInv, LocksHeld
<1>2. Healthy'
  <2> SUFFICES ASSUME NEW q \in Reader
               PROVE  InError(reader'[q]) /\ Linked(reader'[q])
    BY DEF Healthy, InError, Linked
  <2>1. InError(reader[q]) /\ Linked(reader[q]) BY DEF RInv, Healthy
  <2>2. InError(reader'[q]) BY <2>1 DEF InError
  <2>3. Linked(reader'[q]) BY <2>1, Zenon DEF Linked
  <2>4. QED BY <2>2, <2>3
<1>3. ASSUME NEW u \in Thread PROVE Open(u)'
  <2>1. Open(u) /\ pc'[u] = pc[u] /\ cur'[u] = cur[u] BY DEF RInv, SessionsOpen
  <2>2. pc[u] \in AtWork => cur[u] \in Reader BY DEF PlacesOK
  <2>3. pc[u] \in AtWork => /\ reader'[cur[u]].fd = reader[cur[u]].fd
                            /\ reader'[cur[u]].logged_in = reader[cur[u]].logged_in
    BY <2>2, Zenon
  <2>4. pc[u] \in {"send", "recv"} => reader'[cur'[u]].logged_in
    <3>1. pc[u] \in {"send", "recv"} => pc[u] \in AtWork BY DEF AtWork
    <3>2. pc[u] \in {"send", "recv"} => reader[cur[u]].logged_in BY <2>1 DEF Open
    <3>3. QED BY <2>1, <2>3, <3>1, <3>2, Zenon
  <2>5. pc[u] = "login" => reader'[cur'[u]].fd
    <3>1. pc[u] = "login" => pc[u] \in AtWork BY DEF AtWork
    <3>2. pc[u] = "login" => reader[cur[u]].fd BY <2>1 DEF Open
    <3>3. QED BY <2>1, <2>3, <3>1, <3>2, Zenon
  <2>6. QED BY <2>1, <2>4, <2>5 DEF Open
<1>4. QED BY <1>1, <1>2, <1>3 DEF RInv, SessionsOpen

LEMMA RStep == IInv /\ RInv /\ [ServeNext]_vars => RInv'
<1> SUFFICES ASSUME IInv, RInv, [ServeNext]_vars PROVE RInv' OBVIOUS
<1> USE DEF readersv, emmv, reloadv
<1>1. TypeOK /\ PlacesOK BY DEF IInv
<1>2. \A t \in Thread : pc[t] \in AtWork =>
        /\ cur[t] \in Reader /\ reader[cur[t]] \in Fields
        /\ InError(reader[cur[t]]) /\ Linked(reader[cur[t]]) /\ Open(t)
  <2> SUFFICES ASSUME NEW t \in Thread, pc[t] \in AtWork
               PROVE  /\ cur[t] \in Reader /\ reader[cur[t]] \in Fields
                      /\ InError(reader[cur[t]]) /\ Linked(reader[cur[t]])
                      /\ Open(t)
    OBVIOUS
  <2>1. cur[t] \in Reader BY <1>1 DEF PlacesOK
  <2>2. reader[cur[t]] \in Fields BY <1>1, <2>1 DEF TypeOK
  <2>3. InError(reader[cur[t]]) /\ Linked(reader[cur[t]])
    BY <2>1 DEF RInv, Healthy
  <2>4. QED BY <2>1, <2>2, <2>3 DEF RInv, SessionsOpen
<1>3. ASSUME NEW t \in Thread, Start(t) PROVE RInv'
  <2>1. PICK x \in {"select", "seen"} : pc' = [pc EXCEPT ![t] = x]
    BY <1>3 DEF Start, StartEcm, StartEmm
  <2>2. pc[t] = "idle" /\ UNCHANGED <<reader, lock, cur>>
    BY <1>3 DEF Start, StartEcm, StartEmm
  <2>3. x \notin AtWork /\ pc[t] \notin AtWork BY <2>1, <2>2 DEF AtWork
  <2>4. QED BY <2>1, <2>2, <2>3, OutsideKeeps
<1>4. ASSUME NEW t \in Thread,
             Select(t) \/ EmmSeen(t) \/ EmmRemember(t) \/ EmmNext(t)
      PROVE  RInv'
  <2>1. PICK x \in {"idle", "lock", "remember", "next"} : pc' = [pc EXCEPT ![t] = x]
    <3>1. CASE Select(t) BY <3>1 DEF Select
    <3>2. CASE EmmSeen(t) BY <3>2 DEF EmmSeen
    <3>3. CASE EmmRemember(t) BY <3>3 DEF EmmRemember
    <3>4. CASE EmmNext(t) BY <3>4 DEF EmmNext
    <3>5. QED BY <1>4, <3>1, <3>2, <3>3, <3>4
  <2>2. PICK c : cur' = [cur EXCEPT ![t] = c]
    <3>1. CASE Select(t) BY <3>1 DEF Select
    <3>2. CASE EmmSeen(t)
      <4>1. cur' = [cur EXCEPT ![t] = cur[t]] BY <1>1, <3>2 DEF EmmSeen, TypeOK
      <4>2. QED BY <4>1
    <3>3. CASE EmmRemember(t) BY <3>3 DEF EmmRemember
    <3>4. CASE EmmNext(t) BY <3>4 DEF EmmNext
    <3>5. QED BY <1>4, <3>1, <3>2, <3>3, <3>4
  <2>3. UNCHANGED <<reader, lock>> /\ pc[t] \in {"select", "seen", "remember", "next"}
    BY <1>4 DEF Select, EmmSeen, EmmRemember, EmmNext
  <2>4. x \notin AtWork /\ pc[t] \notin AtWork BY <2>1, <2>3 DEF AtWork
  <2>5. \A u \in Thread : u # t => cur'[u] = cur[u] BY <1>1, <2>2 DEF TypeOK
  <2>6. QED BY <2>1, <2>3, <2>4, <2>5, OutsideKeeps
<1>5. ASSUME NEW t \in Thread, Lock(t) PROVE RInv'
  <2> DEFINE r == cur[t]
  <2>1. r \in Reader BY <1>1, <1>5 DEF Lock, PlacesOK
  <2>2. PICK x \in {"card", "login", "connect"} :
          pc' = [pc EXCEPT ![t] = x] /\ (x = "login" => reader[r].fd)
    BY <1>5 DEF Lock
  <2>3. /\ lock'[r] = t /\ \A q \in Reader : q # r => lock'[q] = lock[q]
        /\ pc'[t] = x /\ \A u \in Thread : u # t => pc'[u] = pc[u]
    BY <1>1, <1>5, <2>1, <2>2 DEF Lock, TypeOK
  <2>4. UNCHANGED <<reader, cur>> /\ pc[t] = "lock" BY <1>5 DEF Lock
  <2>5. ASSUME NEW q \in Reader, lock'[q] # NoThread
        PROVE  lock'[q] \in Thread /\ pc'[lock'[q]] \in AtWork /\ cur'[lock'[q]] = q
    <3>1. CASE q = r BY <2>2, <2>3, <2>4, <3>1 DEF AtWork
    <3>2. CASE q # r
      <4>1. lock'[q] = lock[q] BY <2>3, <3>2
      <4>2. lock[q] \in Thread /\ pc[lock[q]] \in AtWork /\ cur[lock[q]] = q
        BY <2>5, <4>1 DEF RInv, LocksHeld
      <4>3. lock[q] # t BY <2>4, <4>2 DEF AtWork
      <4>4. QED BY <2>3, <2>4, <4>1, <4>2, <4>3
    <3>3. QED BY <3>1, <3>2
  <2>6. Healthy' BY <2>4 DEF RInv, Healthy
  <2>7. ASSUME NEW u \in Thread PROVE Open(u)'
    <3>1. CASE u = t BY <2>2, <2>3, <2>4, <3>1 DEF Open
    <3>2. CASE u # t
      <4>1. pc'[u] = pc[u] /\ Open(u) BY <2>3, <3>2 DEF RInv, SessionsOpen
      <4>2. QED BY <2>4, <4>1 DEF Open
    <3>3. QED BY <3>1, <3>2
  <2>8. QED BY <2>5, <2>6, <2>7 DEF RInv, LocksHeld, SessionsOpen
<1>6. ASSUME NEW t \in Thread, Fail(t), pc[t] \in AtWork PROVE RInv'
  <2> DEFINE c == Close(reader[cur[t]])
             f == MarkFailure(c)
  <2>1. c \in Fields /\ InError(c) /\ Linked(c)
    BY <1>2, <1>6, CloseEmpties, CloseKeepsHealth
  <2> HIDE DEF c
  <2>2. InError(f) BY <2>1, MarksKeepHealth
  <2>3. /\ f.fd = c.fd /\ f.logged_in = c.logged_in /\ f.garbled = c.garbled
    BY <2>1, MarksKeepHealth
  <2> HIDE DEF f
  <2>4. Linked(f) BY <2>1, <2>3, Zenon DEF Linked
  <2>5. Leave(t, f) BY <1>6 DEF Fail, f, c
  <2>6. QED BY <1>6, <2>2, <2>4, <2>5, LeaveKeeps
<1>7. ASSUME NEW t \in Thread, CardAnswers(t) PROVE RInv'
  <2> DEFINE h == reader[cur[t]]
             f == MarkSuccess(h)
  <2>1. pc[t] \in AtWork BY <1>7 DEF CardAnswers, AtWork
  <2>2. h \in Fields /\ InError(h) /\ Linked(h) BY <1>2, <2>1
  <2> HIDE DEF h
  <2>3. InError(f) BY <2>2, MarksKeepHealth
  <2>4. /\ f.fd = h.fd /\ f.logged_in = h.logged_in /\ f.garbled = h.garbled
    BY <2>2, MarksKeepHealth
  <2> HIDE DEF f
  <2>5. Linked(f) BY <2>2, <2>4, Zenon DEF Linked
  <2>6. Leave(t, f) BY <1>7 DEF CardAnswers, f, h
  <2>7. QED BY <2>1, <2>3, <2>5, <2>6, LeaveKeeps
<1>8. ASSUME NEW t \in Thread, CardFails(t) \/ ConnectFails(t) PROVE RInv'
  <2> DEFINE h == reader[cur[t]]
             f == MarkFailure(h)
  <2>1. pc[t] \in AtWork BY <1>8 DEF CardFails, ConnectFails, AtWork
  <2>2. h \in Fields /\ InError(h) /\ Linked(h) BY <1>2, <2>1
  <2> HIDE DEF h
  <2>3. InError(f) BY <2>2, MarksKeepHealth
  <2>4. /\ f.fd = h.fd /\ f.logged_in = h.logged_in /\ f.garbled = h.garbled
    BY <2>2, MarksKeepHealth
  <2> HIDE DEF f
  <2>5. Linked(f) BY <2>2, <2>4, Zenon DEF Linked
  <2>6. Leave(t, f) BY <1>8 DEF CardFails, ConnectFails, f, h
  <2>7. QED BY <2>1, <2>3, <2>5, <2>6, LeaveKeeps
<1>9. ASSUME NEW t \in Thread,
             LoginFails(t) \/ SendEcmFails(t) \/ ReceiveFails(t)
      PROVE  RInv'
  BY <1>6, <1>9 DEF LoginFails, SendEcmFails, ReceiveFails, AtWork
<1>10. ASSUME NEW t \in Thread, Receive(t) PROVE RInv'
  <2> DEFINE h == reader[cur[t]]
             g == [h EXCEPT !.down = Tail(h.down)]
             f == MarkSuccess(g)
  <2>1. pc[t] \in AtWork /\ pc[t] = "recv" BY <1>10 DEF Receive, AtWork
  <2>2. h \in Fields /\ InError(h) /\ Linked(h) BY <1>2, <2>1
  <2>3. h.down = <<job[t].ecm>>
    BY <1>10, <2>1 DEF IInv, StreamsOK, InFlight, Receive
  <2>4. Tail(h.down) \in Seq(Ecm) BY <2>3
  <2>5. Leave(t, f) BY <1>10 DEF Receive
  <2> HIDE DEF h
  <2>6. g \in Fields BY <2>2, <2>4 DEF Fields
  <2>7. /\ g.state = h.state /\ g.fails = h.fails /\ g.wait = h.wait
    BY <2>2 DEF Fields
  <2>8. g.fd = h.fd /\ g.logged_in = h.logged_in /\ g.garbled = h.garbled
    BY <2>2 DEF Fields
  <2> HIDE DEF g
  <2>9. InError(g) BY <2>2, <2>7 DEF InError
  <2>10. InError(f) BY <2>6, <2>9, MarksKeepHealth
  <2>11. /\ f.fd = g.fd /\ f.logged_in = g.logged_in /\ f.garbled = g.garbled
    BY <2>6, <2>9, MarksKeepHealth
  <2> HIDE DEF f
  <2>12. Linked(f) BY <2>2, <2>8, <2>11, Zenon DEF Linked
  <2>13. QED BY <2>1, <2>5, <2>10, <2>12, LeaveKeeps
<1>11. ASSUME NEW t \in Thread, SendEmm(t) PROVE RInv'
  <2> DEFINE h == reader[cur[t]]
  <2>1. pc[t] = "send" /\ pc[t] \in AtWork BY <1>11 DEF SendEmm, AtWork
  <2>2. h \in Fields /\ InError(h) /\ Linked(h) /\ h.logged_in
    BY <1>2, <2>1 DEF Open
  <2>3. PICK partial \in BOOLEAN :
          Leave(t, [h EXCEPT !.garbled = h.garbled \/ partial])
    BY <1>11 DEF SendEmm
  <2> DEFINE b == h.garbled \/ partial
             g == [h EXCEPT !.garbled = b]
  <2>4. Leave(t, g) BY <2>3
  <2> HIDE DEF h, b
  <2>5. /\ g.state = h.state /\ g.fails = h.fails /\ g.wait = h.wait
    BY <2>2 DEF Fields
  <2>6. g.fd = h.fd /\ g.logged_in = h.logged_in BY <2>2 DEF Fields
  <2> HIDE DEF g
  <2>7. InError(g) BY <2>2, <2>5 DEF InError
  <2>8. Linked(g) BY <2>2, <2>6, Zenon DEF Linked
  <2>9. QED BY <2>1, <2>4, <2>7, <2>8, LeaveKeeps
<1>12. ASSUME NEW t \in Thread, Connect(t) PROVE RInv'
  <2> DEFINE c == Close(reader[cur[t]])
             f == [c EXCEPT !.fd = TRUE]
  <2>1. pc[t] \in AtWork BY <1>12 DEF Connect, AtWork
  <2>2. c \in Fields /\ InError(c) BY <1>2, <2>1, CloseEmpties, CloseKeepsHealth
  <2>3. reader' = [reader EXCEPT ![cur[t]] = f] BY <1>12 DEF Connect
  <2> HIDE DEF c
  <2>4. f.state = c.state /\ f.fails = c.fails /\ f.wait = c.wait
    BY <2>2 DEF Fields
  <2>5. f.fd = TRUE BY <2>2 DEF Fields
  <2> HIDE DEF f
  <2>6. InError(f) BY <2>2, <2>4 DEF InError
  <2>7. Linked(f) /\ f.fd BY <2>5, Zenon DEF Linked
  <2>8. pc' = [pc EXCEPT ![t] = "login"] /\ UNCHANGED <<lock, cur>>
    BY <1>12 DEF Connect
  <2>9. "login" \in AtWork /\ "login" \notin {"send", "recv"} BY DEF AtWork
  <2>10. QED BY <2>1, <2>3, <2>6, <2>7, <2>8, <2>9, InsideKeeps
<1>13. ASSUME NEW t \in Thread, Login(t) PROVE RInv'
  <2> DEFINE h == reader[cur[t]]
             f == [h EXCEPT !.logged_in = TRUE]
  <2>1. pc[t] = "login" /\ pc[t] \in AtWork BY <1>13 DEF Login, AtWork
  <2>2. h \in Fields /\ InError(h) /\ h.fd BY <1>2, <2>1 DEF Open
  <2>3. reader' = [reader EXCEPT ![cur[t]] = f] BY <1>13 DEF Login
  <2> HIDE DEF h
  <2>4. f.state = h.state /\ f.fails = h.fails /\ f.wait = h.wait
    BY <2>2 DEF Fields
  <2>5. f.logged_in = TRUE /\ f.fd = h.fd BY <2>2 DEF Fields
  <2> HIDE DEF f
  <2>6. InError(f) BY <2>2, <2>4 DEF InError
  <2>7. Linked(f) /\ f.logged_in BY <2>2, <2>5, Zenon DEF Linked
  <2>8. pc' = [pc EXCEPT ![t] = "send"] /\ UNCHANGED <<lock, cur>>
    BY <1>13 DEF Login
  <2>9. "send" \in AtWork BY DEF AtWork
  <2>10. QED BY <2>1, <2>3, <2>6, <2>7, <2>8, <2>9, InsideKeeps
<1>14. ASSUME NEW t \in Thread, SendEcm(t) PROVE RInv'
  <2> DEFINE h == reader[cur[t]]
             f == [h EXCEPT !.up = Append(h.up, job[t].ecm)]
  <2>1. pc[t] = "send" /\ pc[t] \in AtWork BY <1>14 DEF SendEcm, AtWork
  <2>2. h \in Fields /\ InError(h) /\ Linked(h) /\ h.logged_in
    BY <1>2, <2>1 DEF Open
  <2>3. reader' = [reader EXCEPT ![cur[t]] = f] BY <1>14 DEF SendEcm
  <2> HIDE DEF h
  <2>4. f.state = h.state /\ f.fails = h.fails /\ f.wait = h.wait
    BY <2>2 DEF Fields
  <2>5. f.fd = h.fd /\ f.logged_in = h.logged_in /\ f.garbled = h.garbled
    BY <2>2 DEF Fields
  <2> HIDE DEF f
  <2>6. InError(f) BY <2>2, <2>4 DEF InError
  <2>7. Linked(f) /\ f.logged_in BY <2>2, <2>5, Zenon DEF Linked
  <2>8. pc' = [pc EXCEPT ![t] = "recv"] /\ UNCHANGED <<lock, cur>>
    BY <1>14 DEF SendEcm
  <2>9. "recv" \in AtWork BY DEF AtWork
  <2>10. QED BY <2>1, <2>3, <2>6, <2>7, <2>8, <2>9, InsideKeeps
<1>15. ASSUME NEW r \in Reader, Answer(r) PROVE RInv'
  <2> DEFINE h == reader[r]
             f == [h EXCEPT !.down = Append(h.down, Head(h.up)), !.up = Tail(h.up)]
  <2>1. h \in Fields BY <1>1 DEF TypeOK
  <2>2. reader' = [reader EXCEPT ![r] = f]
    BY <1>1, <1>15 DEF Answer, TypeOK
  <2> HIDE DEF h
  <2>3. f.state = h.state /\ f.fails = h.fails /\ f.wait = h.wait
    BY <2>1 DEF Fields
  <2>4. f.fd = h.fd /\ f.logged_in = h.logged_in /\ f.garbled = h.garbled
    BY <2>1 DEF Fields
  <2> HIDE DEF f
  <2>5. ASSUME NEW q \in Reader
        PROVE  /\ reader'[q].fd = reader[q].fd
               /\ reader'[q].logged_in = reader[q].logged_in
               /\ reader'[q].garbled = reader[q].garbled
               /\ reader'[q].state = reader[q].state
               /\ reader'[q].fails = reader[q].fails
               /\ reader'[q].wait > 0 => reader[q].wait > 0
    <3>1. CASE q = r
      <4>1. reader'[q] = f BY <1>1, <2>2, <3>1 DEF TypeOK
      <4>2. QED BY <2>3, <2>4, <3>1, <4>1, Zenon DEF h
    <3>2. CASE q # r
      <4>1. reader'[q] = reader[q] BY <1>1, <2>2, <3>2 DEF TypeOK
      <4>2. QED BY <4>1, Zenon
    <3>3. QED BY <3>1, <3>2
  <2>6. UNCHANGED <<lock, pc, cur>> BY <1>15 DEF Answer
  <2>7. QED BY <1>1, <2>5, <2>6, OnlyWaits
<1>16. CASE Tick
  <2>1. ASSUME NEW q \in Reader
        PROVE  /\ reader'[q].fd = reader[q].fd
               /\ reader'[q].logged_in = reader[q].logged_in
               /\ reader'[q].garbled = reader[q].garbled
               /\ reader'[q].state = reader[q].state
               /\ reader'[q].fails = reader[q].fails
               /\ reader'[q].wait > 0 => reader[q].wait > 0
    <3> DEFINE h == reader[q]
               n == IF h.wait > 0 THEN h.wait - 1 ELSE 0
               f == [h EXCEPT !.wait = n]
    <3>1. h \in Fields BY <1>1 DEF TypeOK
    <3>2. reader'[q] = f BY <1>16 DEF Tick
    <3>3. h.wait \in Nat BY <3>1, ReaderAssumption DEF Fields
    <3> HIDE DEF h
    <3>4. n > 0 => h.wait > 0 BY <3>3
    <3> HIDE DEF n
    <3>5. f.state = h.state /\ f.fails = h.fails /\ f.wait = n
      BY <3>1 DEF Fields
    <3>6. f.fd = h.fd /\ f.logged_in = h.logged_in /\ f.garbled = h.garbled
      BY <3>1 DEF Fields
    <3> HIDE DEF f
    <3>7. QED BY <3>2, <3>4, <3>5, <3>6, Zenon DEF h
  <2>2. UNCHANGED <<lock, pc, cur>> BY <1>16 DEF Tick
  <2>3. QED BY <1>1, <2>1, <2>2, OnlyWaits
<1>17. CASE UNCHANGED vars
  BY <1>17 DEF vars, RInv, LocksHeld, Healthy, SessionsOpen, Open
<1>18. ASSUME NEW t \in Thread, Start(t) \/ Lock(t) \/ Work(t) PROVE RInv'
  BY <1>3, <1>4, <1>5, <1>7, <1>8, <1>9, <1>10, <1>11, <1>12, <1>13, <1>14, <1>18
  DEF Work
<1>19. QED BY <1>15, <1>16, <1>17, <1>18 DEF ServeNext

LEMMA RInit == Init => RInv
<1> SUFFICES ASSUME Init PROVE RInv OBVIOUS
<1>1. \A r \in Reader : reader[r] = Fresh BY DEF Init
<1>2. InError(Fresh)
  <2>1. Fresh.state = "ok" /\ Fresh.fails = 0 /\ Fresh.wait = 0 BY DEF Fresh
  <2>2. QED BY <2>1, ReaderAssumption DEF InError
<1>3. Linked(Fresh)
  <2>1. Fresh.logged_in = FALSE /\ Fresh.garbled = FALSE BY DEF Fresh
  <2>2. QED BY <2>1, Zenon DEF Linked
<1>4. Healthy BY <1>1, <1>2, <1>3 DEF Healthy
<1>5. LocksHeld /\ SessionsOpen BY DEF Init, LocksHeld, SessionsOpen, Open
<1>6. QED BY <1>4, <1>5 DEF RInv

LEMMA RInductive == ServeSpec => []RInv
BY InitInv, Step, RInit, RStep, PTL DEF ServeSpec

\* card_manager.c:602-653, 687-727: every path out of a reader gives its mutex
\* back.  A mutex is held by the one thread that works with its reader, and
\* who waits for a mutex holds none, so no circle of waiting threads closes.
THEOREM MutexesAreGivenBack == ServeSpec => [](LocksHeld /\ PlacesOK)
<1>1. IInv => PlacesOK BY DEF IInv
<1>2. RInv => LocksHeld BY DEF RInv
<1>3. QED BY <1>1, <1>2, Inductive, RInductive, PTL

\* card_manager.c:123-139: a reader is in error if and only if MaxFailures
\* uses of it have failed since one last succeeded, and it is in backoff only
\* then; a reader that is logged in has a connection.
THEOREM OnlyFailuresBackOff == ServeSpec => []Healthy
<1>1. RInv => Healthy BY DEF RInv
<1>2. QED BY <1>1, RInductive, PTL

\* card_manager.c:363-409, 615-633, 692-722: an ECM or an EMM is sent on a
\* connection that is open and logged in, however the other threads have
\* used, failed and closed it in the meantime.
THEOREM SentOnOpenSession == ServeSpec => []SessionsOpen
<1>1. RInv => SessionsOpen BY DEF RInv
<1>2. QED BY <1>1, RInductive, PTL

=============================================================================
