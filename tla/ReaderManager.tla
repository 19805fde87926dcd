--------------------------- MODULE ReaderManager ---------------------------
(***************************************************************************)
(* The card manager, CCshare/cccam3_card_manager.c: the list of readers,   *)
(* the choice of one for an ECM, its failures and backoff, the session     *)
(* with a remote server, the forwarding of EMMs and the reload.  Threads   *)
(* ask for control words and forward EMMs in parallel; a reader is used    *)
(* under its own mutex, but it is chosen, and the list is walked and       *)
(* reloaded, under none.                                                   *)
(*                                                                         *)
(* Reader i is the i-th block of the configuration file.  Readers are      *)
(* pushed at the head of the list, so a walk meets N first and 1 last.     *)
(* An ECM and the control word that answers it are the same value.  The    *)
(* server at the other end (external) answers what it reads in the order   *)
(* it reads it, or says nothing.  Time is kept as what is left of a        *)
(* backoff and as the age of a remembered EMM.                             *)
(***************************************************************************)
EXTENDS Integers, Sequences

CONSTANTS NReaders,
          Thread, NoThread,
          Chan,         \* (caid, provid) pairs
          Ecm, Emm, None,
          Type,         \* reader -> "local", "remote" or "emu"
          Priority, Hop,
          Enabled,      \* readers with enabled = 1
          ServesCaid,   \* reader -> channels its caid admits
          ServesProvid, \* reader -> channels its provid admits
          MaxFailures,  \* READER_MAX_CONSECUTIVE_FAILURES
          Backoff,      \* READER_RETRY_BACKOFF_SECONDS
          DedupSlots, DedupWindow,  \* EMM_DEDUP_SLOTS, EMM_DEDUP_WINDOW
          MaxReloads    \* bound on reloads

Reader == 1..NReaders

ASSUME ReaderAssumption ==
    /\ NReaders \in Nat \ {0}
    /\ NoThread \notin Thread
    /\ None \notin Ecm
    /\ None \notin Emm
    /\ Type \in [Reader -> {"local", "remote", "emu"}]
    /\ Priority \in [Reader -> 0..255]
    /\ Hop \in [Reader -> 0..255]
    /\ Enabled \subseteq Reader
    /\ ServesCaid \in [Reader -> SUBSET Chan]
    /\ ServesProvid \in [Reader -> SUBSET Chan]
    /\ MaxFailures \in Nat \ {0}
    /\ Backoff \in Nat \ {0}
    /\ DedupSlots \in Nat \ {0}
    /\ DedupWindow \in Nat \ {0}
    /\ MaxReloads \in Nat

VARIABLES g_readers,   \* readers on the list
          freed,       \* listed readers whose block was freed
          reader,      \* reader -> its fields
          lock,        \* reader -> thread that holds its mutex
          pc,          \* thread -> position
          job,         \* thread -> the ECM or EMM it works on
          cur,         \* thread -> reader it points to, 0 for none
          cw,          \* thread -> answer to its latest ECM
          ring, g_emm_slot,   \* remembered EMMs
          rpc, rpos, reloads  \* the reload: position, reader, count

readersv == <<g_readers, freed, reader, lock>>
emmv     == <<ring, g_emm_slot>>
reloadv  == <<rpc, rpos, reloads>>
vars == <<g_readers, freed, reader, lock, pc, job, cur, cw, ring,
          g_emm_slot, rpc, rpos, reloads>>

Fields == [state : {"ok", "error"},
           fails : 0..MaxFailures,   \* counts no further: >= is all it is for
           wait  : 0..Backoff,       \* seconds until retry_after
           fd : BOOLEAN,             \* remote_fd >= 0
           logged_in : BOOLEAN,
           garbled : BOOLEAN,        \* half an EMM is on the wire
           up : Seq(Ecm),            \* ECMs the server has not answered
           down : Seq(Ecm)]          \* answers nobody has read
Job == [chan : Chan, ecm : Ecm, emm : {None}]
         \cup [chan : Chan, ecm : {None}, emm : Emm]
PC == {"idle", "select", "lock", "card", "connect", "login", "send", "recv",
       "seen", "remember", "next"}

TypeOK ==
    /\ g_readers \subseteq Reader
    /\ freed \subseteq Reader
    /\ reader \in [Reader -> Fields]
    /\ lock \in [Reader -> Thread \cup {NoThread}]
    /\ pc \in [Thread -> PC]
    /\ job \in [Thread -> Job \cup {None}]
    /\ cur \in [Thread -> 0..(NReaders + 1)]
    /\ cw \in [Thread -> Ecm \cup {None}]
    /\ ring \in [1..DedupSlots -> [emm : Emm \cup {None}, age : 0..DedupWindow]]
    /\ g_emm_slot \in 1..DedupSlots
    /\ rpc \in {"idle", "free", "load"}
    /\ rpos \in 0..(NReaders + 1)
    /\ reloads \in 0..MaxReloads

Fresh == [state |-> "ok", fails |-> 0, wait |-> 0, fd |-> FALSE,
          logged_in |-> FALSE, garbled |-> FALSE, up |-> <<>>, down |-> <<>>]

Init ==
    /\ g_readers = Reader
    /\ freed = {}
    /\ reader = [r \in Reader |-> Fresh]
    /\ lock = [r \in Reader |-> NoThread]
    /\ pc = [t \in Thread |-> "idle"]
    /\ job = [t \in Thread |-> None]
    /\ cur = [t \in Thread |-> 0]
    /\ cw = [t \in Thread |-> None]
    /\ ring = [s \in 1..DedupSlots |-> [emm |-> None, age |-> DedupWindow]]
    /\ g_emm_slot = 1
    /\ rpc = "idle"
    /\ rpos = 0
    /\ reloads = 0

-----------------------------------------------------------------------------
(* The fields of a reader. *)

\* reader_mark_failure
MarkFailure(f) ==
    LET n == IF f.fails < MaxFailures THEN f.fails + 1 ELSE MaxFailures
    IN  IF n = MaxFailures
        THEN [f EXCEPT !.fails = n, !.state = "error", !.wait = Backoff]
        ELSE [f EXCEPT !.fails = n]

\* reader_mark_success
MarkSuccess(f) == [f EXCEPT !.fails = 0, !.wait = 0, !.state = "ok"]

\* Mutant: a failed exchange leaves the connection open.
CloseNothing(f) == f

\* close() of the connection: what was under way on it is gone.
Close(f) == [f EXCEPT !.fd = FALSE, !.logged_in = FALSE, !.garbled = FALSE,
                      !.up = <<>>, !.down = <<>>]

\* Mutant: a reader in error is never asked again.
SupportsCaidForever(r, ch) ==
    r \in Enabled /\ reader[r].state = "ok" /\ ch \in ServesCaid[r]

\* reader_supports_caid: enabled, not in backoff, right caid.
SupportsCaid(r, ch) ==
    /\ r \in Enabled
    /\ ~(reader[r].state = "error" /\ reader[r].wait > 0)
    /\ ch \in ServesCaid[r]

\* reader_score
Score(r) == Priority[r] * 10 + Hop[r] * 5
              + (CASE Type[r] = "local" -> -20
                   [] Type[r] = "emu" -> -10
                   [] Type[r] = "remote" -> 10)
              + (IF reader[r].state = "error" THEN 100 ELSE 0)

\* cccam_card_manager_select_reader: the lowest score, the first of equals.
Candidates(ch) ==
    {r \in g_readers : SupportsCaid(r, ch) /\ ch \in ServesProvid[r]}
Best(ch) ==
    LET C == Candidates(ch)
    IN  IF C = {} THEN 0
        ELSE CHOOSE r \in C : \A q \in C : \/ Score(r) < Score(q)
                                           \/ Score(r) = Score(q) /\ r >= q

-----------------------------------------------------------------------------
(* cccam_card_manager_get_cw. *)

StartEcm(t, ch, e) ==
    /\ pc[t] = "idle"
    /\ job' = [job EXCEPT ![t] = [chan |-> ch, ecm |-> e, emm |-> None]]
    /\ cw' = [cw EXCEPT ![t] = None]
    /\ pc' = [pc EXCEPT ![t] = "select"]
    /\ UNCHANGED <<readersv, cur, emmv, reloadv>>

\* No lock is held here, nor from here to the next step.
Select(t) ==
    /\ pc[t] = "select"
    /\ cur' = [cur EXCEPT ![t] = Best(job[t].chan)]
    /\ pc' = [pc EXCEPT ![t] = IF Best(job[t].chan) = 0 THEN "idle" ELSE "lock"]
    /\ UNCHANGED <<readersv, job, cw, emmv, reloadv>>

Lock(t) ==
    LET r == cur[t]
    IN  /\ pc[t] = "lock"
        /\ lock[r] = NoThread
        /\ lock' = [lock EXCEPT ![r] = t]
        /\ pc' = [pc EXCEPT ![t] = IF Type[r] # "remote" THEN "card"
                                   ELSE IF reader[r].fd THEN "login"
                                   ELSE "connect"]
        /\ UNCHANGED <<g_readers, freed, reader, job, cur, cw, emmv, reloadv>>

\* The thread leaves the reader with fields f and unlocks it.  A forwarder
\* goes on to the next reader of the list.
Leave(t, f) ==
    /\ reader' = [reader EXCEPT ![cur[t]] = f]
    /\ lock' = [lock EXCEPT ![cur[t]] = NoThread]
    /\ pc' = [pc EXCEPT ![t] = IF job[t].emm = None THEN "idle" ELSE "next"]
    /\ cur' = [cur EXCEPT ![t] = IF job[t].emm = None THEN 0 ELSE @]
    /\ UNCHANGED <<g_readers, freed, job, emmv, reloadv>>

\* The exchange with a remote reader fails: closed, counted, unlocked.
Fail(t) == /\ Leave(t, MarkFailure(Close(reader[cur[t]])))
           /\ UNCHANGED cw

\* local_get_cw and emu_get_cw: the card or the key file knows or does not.
CardAnswers(t) ==
    /\ pc[t] = "card"
    /\ cw' = [cw EXCEPT ![t] = job[t].ecm]
    /\ Leave(t, MarkSuccess(reader[cur[t]]))

CardFails(t) ==
    /\ pc[t] = "card"
    /\ Leave(t, MarkFailure(reader[cur[t]]))
    /\ UNCHANGED cw

\* remote_connect
Connect(t) ==
    /\ pc[t] = "connect"
    /\ reader' = [reader EXCEPT ![cur[t]] = [Close(@) EXCEPT !.fd = TRUE]]
    /\ pc' = [pc EXCEPT ![t] = "login"]
    /\ UNCHANGED <<g_readers, freed, lock, job, cur, cw, emmv, reloadv>>

\* Mutant: the early return of a failed connect forgets to unlock.
ConnectFailsLocked(t) ==
    /\ pc[t] = "connect"
    /\ reader' = [reader EXCEPT ![cur[t]] = MarkFailure(@)]
    /\ pc' = [pc EXCEPT ![t] = IF job[t].emm = None THEN "idle" ELSE "next"]
    /\ cur' = [cur EXCEPT ![t] = IF job[t].emm = None THEN 0 ELSE @]
    /\ UNCHANGED <<g_readers, freed, lock, job, cw, emmv, reloadv>>

ConnectFails(t) ==
    /\ pc[t] = "connect"
    /\ Leave(t, MarkFailure(reader[cur[t]]))
    /\ UNCHANGED cw

\* remote_ensure_login: at once, or after an exchange that needs a sound
\* stream.
Login(t) ==
    LET f == reader[cur[t]]
    IN  /\ pc[t] = "login"
        /\ f.logged_in \/ ~f.garbled
        /\ reader' = [reader EXCEPT ![cur[t]].logged_in = TRUE]
        /\ pc' = [pc EXCEPT ![t] = "send"]
        /\ UNCHANGED <<g_readers, freed, lock, job, cur, cw, emmv, reloadv>>

LoginFails(t) ==
    /\ pc[t] = "login"
    /\ ~reader[cur[t]].logged_in
    /\ Fail(t)

\* remote_get_cw: the ECM is sent ...
SendEcm(t) ==
    /\ pc[t] = "send" /\ job[t].emm = None
    /\ reader' = [reader EXCEPT ![cur[t]].up = Append(@, job[t].ecm)]
    /\ pc' = [pc EXCEPT ![t] = "recv"]
    /\ UNCHANGED <<g_readers, freed, lock, job, cur, cw, emmv, reloadv>>

SendEcmFails(t) ==
    /\ pc[t] = "send" /\ job[t].emm = None
    /\ Fail(t)

\* ... and the next message of the server is taken for the answer ...
Receive(t) ==
    LET f == reader[cur[t]]
    IN  /\ pc[t] = "recv"
        /\ f.down # <<>>
        /\ cw' = [cw EXCEPT ![t] = Head(f.down)]
        /\ Leave(t, MarkSuccess([f EXCEPT !.down = Tail(@)]))

\* ... unless it is not a control word, the connection is lost or ten
\* seconds go by, whatever may still be on its way.
ReceiveFails(t) ==
    /\ pc[t] = "recv"
    /\ Fail(t)

-----------------------------------------------------------------------------
(* The server at the other end of reader r's connection. *)

Answer(r) ==
    /\ reader[r].up # <<>> /\ ~reader[r].garbled
    /\ reader' = [reader EXCEPT ![r].down = Append(@, Head(reader[r].up)),
                                ![r].up = Tail(@)]
    /\ UNCHANGED <<g_readers, freed, lock, pc, job, cur, cw, emmv, reloadv>>

-----------------------------------------------------------------------------
(* cccam_card_manager_send_emm. *)

StartEmm(t, ch, m) ==
    /\ pc[t] = "idle"
    /\ job' = [job EXCEPT ![t] = [chan |-> ch, ecm |-> None, emm |-> m]]
    /\ cw' = [cw EXCEPT ![t] = None]
    /\ pc' = [pc EXCEPT ![t] = "seen"]
    /\ UNCHANGED <<readersv, cur, emmv, reloadv>>

\* emm_seen_recently
SeenRecently(m) ==
    \E s \in 1..DedupSlots : ring[s].emm = m /\ ring[s].age < DedupWindow

EmmSeen(t) ==
    /\ pc[t] = "seen"
    /\ pc' = [pc EXCEPT ![t] = IF SeenRecently(job[t].emm) THEN "idle"
                                                           ELSE "remember"]
    /\ UNCHANGED <<readersv, job, cur, cw, emmv, reloadv>>

\* Mutant: the ring of remembered EMMs does not wrap around.
EmmRememberNoWrap(t) ==
    /\ pc[t] = "remember"
    /\ ring' = [ring EXCEPT ![g_emm_slot] = [emm |-> job[t].emm, age |-> 0]]
    /\ g_emm_slot' = g_emm_slot + 1
    /\ cur' = [cur EXCEPT ![t] = NReaders + 1]
    /\ pc' = [pc EXCEPT ![t] = "next"]
    /\ UNCHANGED <<readersv, job, cw, reloadv>>

\* emm_remember, before anything has been sent.
EmmRemember(t) ==
    /\ pc[t] = "remember"
    /\ ring' = [ring EXCEPT ![g_emm_slot] = [emm |-> job[t].emm, age |-> 0]]
    /\ g_emm_slot' = (g_emm_slot % DedupSlots) + 1
    /\ cur' = [cur EXCEPT ![t] = NReaders + 1]
    /\ pc' = [pc EXCEPT ![t] = "next"]
    /\ UNCHANGED <<readersv, job, cw, reloadv>>

\* The next remote reader for the EMM's caid, in backoff or not.
Ahead(t) == {r \in g_readers : /\ r < cur[t]
                               /\ Type[r] = "remote" /\ r \in Enabled
                               /\ job[t].chan \in ServesCaid[r]}

EmmNext(t) ==
    /\ pc[t] = "next"
    /\ IF Ahead(t) = {}
       THEN /\ cur' = [cur EXCEPT ![t] = 0]
            /\ pc' = [pc EXCEPT ![t] = "idle"]
       ELSE /\ \E r \in Ahead(t) : /\ \A q \in Ahead(t) : r >= q
                                   /\ cur' = [cur EXCEPT ![t] = r]
            /\ pc' = [pc EXCEPT ![t] = "lock"]
    /\ UNCHANGED <<readersv, job, cw, emmv, reloadv>>

\* The result of the send is only counted: a partial one leaves the
\* connection open with half a message on it.
SendEmm(t) ==
    LET f == reader[cur[t]]
    IN  /\ pc[t] = "send" /\ job[t].emm # None
        /\ \E partial \in BOOLEAN :
               Leave(t, [f EXCEPT !.garbled = @ \/ partial])
        /\ UNCHANGED cw

-----------------------------------------------------------------------------
(* cccam_card_manager_reload, which takes no lock. *)

ReloadStart ==
    /\ rpc = "idle"
    /\ reloads < MaxReloads
    /\ reloads' = reloads + 1
    /\ rpc' = "free" /\ rpos' = NReaders
    /\ UNCHANGED <<readersv, pc, job, cur, cw, emmv>>

\* Reader after reader is closed and freed, still on the list ...
ReloadFree ==
    /\ rpc = "free" /\ rpos > 0
    /\ freed' = freed \cup ({rpos} \cap g_readers)
    /\ rpos' = rpos - 1
    /\ UNCHANGED <<g_readers, reader, lock, pc, job, cur, cw, emmv, rpc, reloads>>

\* ... until the list is emptied ...
ReloadClear ==
    /\ rpc = "free" /\ rpos = 0
    /\ g_readers' = {}
    /\ freed' = {}
    /\ rpc' = "load" /\ rpos' = 1
    /\ UNCHANGED <<reader, lock, pc, job, cur, cw, emmv, reloads>>

\* ... and the configuration file read again.
ReloadAdd ==
    /\ rpc = "load" /\ rpos \in Reader
    /\ g_readers' = g_readers \cup {rpos}
    /\ reader' = [reader EXCEPT ![rpos] = Fresh]
    /\ lock' = [lock EXCEPT ![rpos] = NoThread]
    /\ rpos' = rpos + 1
    /\ UNCHANGED <<freed, pc, job, cur, cw, emmv, rpc, reloads>>

ReloadEnd ==
    /\ rpc = "load" /\ rpos \notin Reader
    /\ rpc' = "idle" /\ rpos' = 0
    /\ UNCHANGED <<readersv, pc, job, cur, cw, emmv, reloads>>

-----------------------------------------------------------------------------

Tick ==
    /\ reader' = [r \in Reader |->
                    [reader[r] EXCEPT !.wait = IF @ > 0 THEN @ - 1 ELSE 0]]
    /\ ring' = [s \in 1..DedupSlots |->
                  [ring[s] EXCEPT !.age = IF @ < DedupWindow THEN @ + 1 ELSE @]]
    /\ UNCHANGED <<g_readers, freed, lock, pc, job, cur, cw, g_emm_slot,
                   reloadv>>

\* What a thread does once it has started.
Work(t) ==
    \/ Select(t) \/ CardAnswers(t) \/ CardFails(t)
    \/ Connect(t) \/ ConnectFails(t) \/ Login(t) \/ LoginFails(t)
    \/ SendEcm(t) \/ SendEcmFails(t) \/ Receive(t) \/ ReceiveFails(t)
    \/ EmmSeen(t) \/ EmmRemember(t) \/ EmmNext(t) \/ SendEmm(t)

Start(t) == \E ch \in Chan : \/ \E e \in Ecm : StartEcm(t, ch, e)
                             \/ \E m \in Emm : StartEmm(t, ch, m)

ServeNext == \/ \E t \in Thread : Start(t) \/ Lock(t) \/ Work(t)
             \/ \E r \in Reader : Answer(r)
             \/ Tick

Reload == ReloadStart \/ ReloadFree \/ ReloadClear \/ ReloadAdd \/ ReloadEnd

\* ServeSpec has no reload.
ServeSpec == Init /\ [][ServeNext]_vars
Spec == Init /\ [][ServeNext \/ Reload]_vars

\* The thread is in cccam_emu_get_cw, with the mutex of its reader.
InEmulator(t) == pc[t] = "card" /\ Type[cur[t]] = "emu"

\* connect, send and recv have timeouts, so a thread that works goes on; a
\* mutex that is freed again and again is got in the end.  The emulator need
\* not return: with a key that does not fit, an ECM of PowerVU is decrypted
\* over and over (cccam3_emu_powervu.c:2024-2055).
Fairness ==
    /\ \A t \in Thread : WF_vars(~InEmulator(t) /\ Work(t)) /\ SF_vars(Lock(t))
    /\ WF_vars(Tick)
FairSpec == ServeSpec /\ Fairness

\* In addition clients keep asking for every channel.
BusySpec == FairSpec /\ \A t \in Thread, ch \in Chan :
                           SF_vars(\E e \in Ecm : StartEcm(t, ch, e))

-----------------------------------------------------------------------------
(* Properties. *)

\* card_manager.c:363-409, 625-633: a thread is given the answer to its own
\* ECM.  The answer that comes after its timeout, or the one to another
\* thread's ECM on the same connection, is not taken for it.
AnswerMatches ==
    \A t \in Thread : cw[t] # None => cw[t] = job[t].ecm

\* card_manager.c:893-911, README.md:37: a reader that a thread has chosen or
\* walks over is on the list and its block has not been freed.
ReadersLive == \A t \in Thread : cur[t] \in Reader => cur[t] \in g_readers \ freed

\* A thread is in the emulator, or waits for the mutex of one that is.
Blocked(t) ==
    \/ InEmulator(t)
    \/ /\ pc[t] = "lock"
       /\ lock[cur[t]] # NoThread /\ InEmulator(lock[cur[t]])

\* It does so for ever.
Stalled(t) == <>[]Blocked(t)

\* card_manager.c:602-653, 687-727: every request comes to an end, unless the
\* emulator never returns from it or from the one that has the reader: each
\* path out of a reader gives its mutex back, and no two threads wait for
\* each other's readers.
RequestsEnd ==
    \A t \in Thread : Stalled(t) \/ (pc[t] # "idle" ~> pc[t] = "idle")

\* Reader r is the only one of channel ch.
OnlyOneFor(r, ch) ==
    \A q \in Enabled : ch \in ServesCaid[q] \cap ServesProvid[q] <=> q = r

\* card_manager.c:81-87, 123-133: the only reader of a channel, once in error,
\* is asked again when its backoff is over, if ECMs for it keep coming and
\* not every thread is stalled.
ErrorIsRetried ==
    \/ \A t \in Thread : Stalled(t)
    \/ \A r \in Reader : (\E ch \in Chan : OnlyOneFor(r, ch)) =>
          (reader[r].state = "error" ~> \/ reader[r].state = "ok"
                                        \/ lock[r] # NoThread)
=============================================================================
