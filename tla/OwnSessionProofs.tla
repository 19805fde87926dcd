--------------------------- MODULE OwnSessionProofs ---------------------------
(***************************************************************************)
(* Proofs about OwnSession, for any connections, addresses and clients.    *)
(*                                                                         *)
(* First, the sessions do to the table of failed logins what LoginGuard    *)
(* says, so that what holds of the guard holds of them.  Then the keys: a  *)
(* thread that is between the handshake and the reading of its result      *)
(* holds the mutex, so that the globals are its own; the acknowledgement   *)
(* tells the client the same handshake; and there is one acknowledgement   *)
(* in the life of a connection.                                            *)
(***************************************************************************)
EXTENDS OwnSession, SequenceTheorems, FunctionTheorems, FiniteSetTheorems,
        WellFoundedInduction, TLAPS

-----------------------------------------------------------------------------
(* The guard. *)

\* A non-empty set of slots has a first one, and FirstOf is it.
LEMMA FirstOfIsSlot ==
    ASSUME NEW S, S \subseteq Guard!Slot, S # {}
    PROVE  Guard!FirstOf(S) \in S
<1>1. S \subseteq Nat
  BY SessionAssumption DEF Guard!Slot
<1> DEFINE R == {ss \in Nat \X Nat : ss[1] < ss[2]}
<1>2. IsWellFoundedOn(R, Nat)
  BY NatLessThanWellFounded DEF OpToRel
<1> HIDE DEF R
<1>3. PICK x \in S : \A y \in S : ~ (<<y, x>> \in R)
  BY <1>1, <1>2, WFMin
<1>5. \A y \in S : x <= y
  <2>1. TAKE y \in S
  <2>2. x \in Nat /\ y \in Nat
    BY <1>1
  <2>3. ~ (y < x)
    BY <1>3, <2>2 DEF R
  <2>4. QED BY <2>2, <2>3
<1>4. QED BY <1>5 DEF Guard!FirstOf

\* The slot a failure is counted in is one.
LEMMA SlotOfIsSlot ==
    ASSUME NEW a \in Ip \cup {0}
    PROVE  Guard!SlotOf(a) \in Guard!Slot
<1> DEFINE own  == {s \in Guard!Slot : g_fail_ip[s] = a}
           free == {s \in Guard!Slot : g_fail_ip[s] = 0}
<1>1. own # {} => Guard!FirstOf(own) \in Guard!Slot
  BY FirstOfIsSlot
<1>2. free # {} => Guard!FirstOf(free) \in Guard!Slot
  BY FirstOfIsSlot
<1>3. a % Slots \in Guard!Slot
  BY SessionAssumption DEF Guard!Slot
<1>4. QED BY <1>1, <1>2, <1>3 DEF Guard!SlotOf

\* A step that only moves one thread keeps them when its record is one.
LEMMA TableKept ==
    ASSUME Guard!TypeOK, UNCHANGED Guard!table, NEW t \in Conn, NEW u \in Guard!Login,
           th' = [th EXCEPT ![t] = u]
    PROVE  Guard!TypeOK'
<1>1. th' \in [Conn -> Guard!Login]
  BY DEF Guard!TypeOK
<1>2. QED BY <1>1 DEF Guard!TypeOK, Guard!table

\* A step of the guard keeps its types.
LEMMA GuardTyped ==
    ASSUME Guard!TypeOK, [Guard!Next]_(Guard!vars)
    PROVE  Guard!TypeOK'
<1> USE DEF Guard!TypeOK
<1>1. th \in [Conn -> Guard!Login] /\ 0 \in Guard!Slot
  BY SessionAssumption DEF Guard!Slot
<1>2. CASE UNCHANGED Guard!vars
  BY <1>2 DEF Guard!vars
<1>3. CASE Guard!Tick
  <2>1. ASSUME NEW s \in Guard!Slot
        PROVE  /\ (IF age[s] <= Window THEN age[s] + 1 ELSE age[s]) \in 0..(Window + 1)
               /\ (IF blocked[s] > 0 THEN blocked[s] - 1 ELSE 0) \in 0..Window
    <3>1. age[s] \in 0..(Window + 1) /\ blocked[s] \in 0..Window
      OBVIOUS
    <3>2. QED BY <3>1, SessionAssumption
  <2>2. ASSUME NEW t \in Conn
        PROVE  (IF th[t].pc = "store" /\ th[t].late < Window
                THEN [th[t] EXCEPT !.late = @ + 1] ELSE th[t]) \in Guard!Login
    <3>1. th[t] \in Guard!Login
      OBVIOUS
    <3>2. ASSUME th[t].late < Window
          PROVE  th[t].late + 1 \in 0..Window
      BY <3>1, <3>2, SessionAssumption DEF Guard!Login
    <3>3. ASSUME th[t].late < Window
          PROVE  [th[t] EXCEPT !.late = @ + 1] \in Guard!Login
      <4> DEFINE n == th[t].late + 1
      <4>1. n \in 0..Window
        BY <3>2, <3>3
      <4> HIDE DEF n
      <4>2. [th[t] EXCEPT !.late = n] \in Guard!Login
        BY <3>1, <4>1 DEF Guard!Login
      <4>3. QED BY <4>2 DEF n
    <3>4. QED BY <3>1, <3>3
  <2>3. age' \in [Guard!Slot -> 0..(Window + 1)] /\ blocked' \in [Guard!Slot -> 0..Window]
    BY <1>3, <2>1 DEF Guard!Tick
  <2>4. th' \in [Conn -> Guard!Login]
    BY <1>3, <2>2 DEF Guard!Tick
  <2>5. QED BY <1>3, <2>3, <2>4 DEF Guard!Tick
<1>4. ASSUME NEW t \in Conn, NEW a \in Ip, Guard!Start(t, a)
      PROVE  Guard!TypeOK'
  <2>1. [th[t] EXCEPT !.pc = "check", !.ip = a] \in Guard!Login
    BY <1>1 DEF Guard!Login
  <2>2. /\ th' = [th EXCEPT ![t] = [th[t] EXCEPT !.pc = "check", !.ip = a]]
        /\ UNCHANGED Guard!table
    BY <1>4 DEF Guard!Start
  <2>3. QED BY <2>1, <2>2, TableKept
<1>5. ASSUME NEW t \in Conn, Guard!Work(t)
      PROVE  Guard!TypeOK'
  <2>1. CASE Guard!Check(t)
    <3>1. PICK x \in {"refused", "auth"} : th' = [th EXCEPT ![t].pc = x]
      BY <2>1 DEF Guard!Check
    <3>2. [th[t] EXCEPT !.pc = x] \in Guard!Login
      BY <1>1 DEF Guard!Login
    <3>3. UNCHANGED Guard!table
      BY <2>1 DEF Guard!Check
    <3>4. QED BY <3>1, <3>2, <3>3, TableKept
  <2>2. CASE Guard!Malformed(t)
    <3>1. [th[t] EXCEPT !.pc = "idle"] \in Guard!Login
      BY <1>1 DEF Guard!Login
    <3>2. th' = [th EXCEPT ![t].pc = "idle"] /\ UNCHANGED Guard!table
      BY <2>2 DEF Guard!Malformed
    <3>3. QED BY <3>1, <3>2, TableKept
  <2>3. CASE Guard!Success(t)
    <3>1. th' \in [Conn -> Guard!Login]
      BY <2>3 DEF Guard!Success, Guard!Login
    <3>2. g_fail_count' \in [Guard!Slot -> 0..Limit]
      <4>1. 0 \in 0..Limit
        BY SessionAssumption
      <4>2. QED BY <2>3, <4>1 DEF Guard!Success
    <3>3. QED BY <2>3, <3>1, <3>2 DEF Guard!Success
  <2>4. CASE Guard!WrongPassword(t)
    <3>1. [th[t] EXCEPT !.pc = "fail"] \in Guard!Login
      BY <1>1 DEF Guard!Login
    <3>2. th' = [th EXCEPT ![t].pc = "fail"] /\ UNCHANGED Guard!table
      BY <2>4 DEF Guard!WrongPassword
    <3>3. QED BY <3>1, <3>2, TableKept
  <2>5. CASE Guard!FailFind(t)
    <3> DEFINE a == th[t].ip
               s == Guard!SlotOf(a)
               fresh == g_fail_ip[s] # a \/ Guard!Expired(s)
               n == IF fresh THEN 1
                    ELSE IF g_fail_count[s] < Limit THEN g_fail_count[s] + 1 ELSE Limit
    <3>1. a \in Ip \cup {0} /\ s \in Guard!Slot
      BY SlotOfIsSlot DEF Guard!Login
    <3>2. n \in 0..Limit
      <4>1. g_fail_count[s] \in 0..Limit
        BY <3>1
      <4> HIDE DEF s, fresh
      <4>2. QED BY <4>1, SessionAssumption
    <3>3. th' = [th EXCEPT ![t].pc = "store", ![t].slot = s, ![t].count = n]
      BY <2>5 DEF Guard!FailFind
    <3>4. /\ g_fail_ip' = [g_fail_ip EXCEPT ![s] = a] \/ g_fail_ip' = g_fail_ip
          /\ age' = [age EXCEPT ![s] = 0] \/ age' = age
          /\ UNCHANGED <<g_fail_count, blocked>>
      BY <2>5 DEF Guard!FailFind
    <3> HIDE DEF a, s, n
    <3>5. th' \in [Conn -> Guard!Login]
      <4>1. th[t] \in Guard!Login
        OBVIOUS
      <4>2. [th[t] EXCEPT !.pc = "store", !.slot = s, !.count = n] \in Guard!Login
        BY <3>1, <3>2, <4>1 DEF Guard!Login
      <4>3. th' = [th EXCEPT ![t] = [th[t] EXCEPT !.pc = "store", !.slot = s, !.count = n]]
        BY <3>3
      <4>4. QED BY <4>2, <4>3
    <3>6. g_fail_ip' \in [Guard!Slot -> Ip \cup {0}]
      BY <3>1, <3>4
    <3>7. age' \in [Guard!Slot -> 0..(Window + 1)]
      <4>1. 0 \in 0..(Window + 1)
        BY SessionAssumption
      <4>2. QED BY <3>1, <3>4, <4>1
    <3>8. QED BY <3>4, <3>5, <3>6, <3>7
  <2>6. CASE Guard!FailStore(t)
    <3> DEFINE s == th[t].slot
               n == th[t].count
    <3>1. s \in Guard!Slot /\ n \in 0..Limit /\ th[t].late \in 0..Window
      BY DEF Guard!Login
    <3>2. Window - th[t].late \in 0..Window
      BY <3>1, SessionAssumption
    <3>3. g_fail_count' = [g_fail_count EXCEPT ![s] = n]
      BY <2>6 DEF Guard!FailStore
    <3>4. \/ blocked' = [blocked EXCEPT ![s] = Window - th[t].late]
          \/ blocked' = [blocked EXCEPT ![s] = @]
      BY <2>6 DEF Guard!FailStore, Guard!BlockFor
    <3>5. th' \in [Conn -> Guard!Login]
      <4>1. 0 \in 0..Limit /\ 0 \in 0..Window
        BY SessionAssumption
      <4>2. th' = [th EXCEPT ![t].pc = "idle", ![t].slot = 0, ![t].count = 0,
                             ![t].late = 0]
        BY <2>6 DEF Guard!FailStore
      <4>3. [th[t] EXCEPT !.pc = "idle", !.slot = 0, !.count = 0, !.late = 0]
              \in Guard!Login
        BY <1>1, <4>1 DEF Guard!Login
      <4>4. QED BY <1>1, <4>2, <4>3
    <3>6. UNCHANGED <<g_fail_ip, age>>
      BY <2>6 DEF Guard!FailStore
    <3> HIDE DEF s, n
    <3>7. g_fail_count' \in [Guard!Slot -> 0..Limit]
      BY <3>1, <3>3
    <3>8. blocked' \in [Guard!Slot -> 0..Window]
      BY <3>1, <3>2, <3>4
    <3>9. QED BY <3>5, <3>6, <3>7, <3>8
  <2>7. CASE Guard!Refuse(t)
    <3>1. [th[t] EXCEPT !.pc = "idle"] \in Guard!Login
      BY <1>1 DEF Guard!Login
    <3>2. th' = [th EXCEPT ![t].pc = "idle"] /\ UNCHANGED Guard!table
      BY <2>7 DEF Guard!Refuse
    <3>3. QED BY <3>1, <3>2, TableKept
  <2>8. QED BY <1>5, <2>1, <2>2, <2>3, <2>4, <2>5, <2>6, <2>7 DEF Guard!Work
<1>6. QED BY <1>2, <1>3, <1>4, <1>5 DEF Guard!Next

\* What the sessions do to the guard is a step of it, or nothing.
LEMMA GuardStep ==
    ASSUME [Next]_vars
    PROVE  [Guard!Next]_(Guard!vars)
<1>1. CASE UNCHANGED vars
  BY <1>1 DEF vars, guard, Guard!vars
<1>2. ASSUME UNCHANGED guard
      PROVE  UNCHANGED Guard!vars
  BY <1>2 DEF guard, Guard!vars
<1>3. CASE Tick
  BY <1>3 DEF Tick, Guard!Next
<1>4. CASE ReaderLogin
  BY <1>4, <1>2 DEF ReaderLogin
<1>5. ASSUME NEW c \in Conn, Client(c)
      PROVE  UNCHANGED guard
  BY <1>5 DEF Client, Connect, ClientLogin, ClientSend, ClientKeepalive,
              ClientReceive, ClientLeaves
<1>6. ASSUME NEW c \in Conn, HandshakeLock(c)
      PROVE  UNCHANGED guard
  BY <1>6 DEF HandshakeLock
<1>7. ASSUME NEW c \in Conn, Session(c)
      PROVE  UNCHANGED guard \/ Guard!Next
  <2>1. CASE ReadLogin(c)
    <3>1. Addr[c] \in Ip
      BY SessionAssumption
    <3>2. QED BY <2>1, <3>1 DEF ReadLogin, Guard!Next
  <2>2. CASE ~ReadLogin(c)
    BY <1>7, <2>2 DEF Session, ReadEcm, ReadOther, BadMessage, EndSession,
                      Unsolved, AnswerEcm
  <2>3. QED BY <2>1, <2>2
<1>8. ASSUME NEW c \in Conn, Login(c)
      PROVE  UNCHANGED guard \/ Guard!Work(c)
  <2>1. CASE HandleLogin(c) \/ FinishLogin(c) \/ FinishFails(c)
    BY <2>1 DEF HandleLogin, FinishLogin, Finished, FinishFails
  <2>2. CASE \/ CheckBlocked(c) \/ LoginRefused(c) \/ LoginMalformed(c)
             \/ LoginWrong(c) \/ CountFailure(c) \/ FailureCounted(c)
             \/ LoginRight(c)
    BY <2>2 DEF CheckBlocked, LoginRefused, LoginMalformed, LoginWrong,
                CountFailure, FailureCounted, LoginRight, Guard!Work
  <2>3. QED BY <1>8, <2>1, <2>2 DEF Login
<1>9. QED
  <2>1. CASE Next
    BY <2>1, <1>2, <1>3, <1>4, <1>5, <1>6, <1>7, <1>8 DEF Next, Guard!Next
  <2>2. QED BY <1>1, <2>1

\* handle_client_login uses the table of failures as LoginGuard says: the
\* sessions implement the guard.
THEOREM SessionsUseGuard == Spec => Guard!Spec
<1>1. Init => Guard!Init
  BY DEF Init
<1>2. [Next]_vars => [Guard!Next]_(Guard!vars)
  BY GuardStep
<1>3. QED BY <1>1, <1>2, PTL DEF Spec, Guard!Spec

LEMMA GuardInit == Guard!Init => Guard!TypeOK
<1>1. 0 \in Guard!Slot /\ 0 \in 0..Limit /\ 0 \in 0..Window
  BY SessionAssumption DEF Guard!Slot
<1>2. Window + 1 \in 0..(Window + 1)
  BY SessionAssumption
<1>3. QED BY <1>1, <1>2 DEF Guard!Init, Guard!TypeOK, Guard!Login

\* The table and the logins are well typed: the slot a failure is counted in
\* exists, and a count or a block is within its bounds.
THEOREM GuardTypeCorrect == Spec => []Guard!TypeOK
<1>1. Guard!TypeOK /\ [Guard!Next]_(Guard!vars) => Guard!TypeOK'
  BY GuardTyped
<1>2. Guard!Spec => []Guard!TypeOK
  BY <1>1, GuardInit, PTL DEF Guard!Spec
<1>3. QED BY <1>2, SessionsUseGuard


-----------------------------------------------------------------------------
(* The keys. *)

ServerPC == {"off", "read", "login", "lock", "handle", "fetch", "solve"}
ClientPC == {"off", "new", "wait", "in", "gone"}

\* The types without the bound on the counters.
AnyContext == [mode : {"NONE", "AES_GCM"}, key : Key, tx : Nat, rx : Nat]
Body == Credentials \cup {"none", "ack16", "ack60", "section", "cw"}
AnyMessage == [id : {"LOGIN", "LOGIN_ACK", "ECM", "EMM", "CW", "KEEPALIVE"},
               body : Body, key : Key, n : Nat]
Server == [pc : ServerPC, auth : BOOLEAN, crypto : AnyContext, cred : Body]
ClientEnd == [pc : ClientPC, crypto : AnyContext]

Typed ==
    /\ hs_lock \in Conn \cup {NoConn}
    /\ g_handshake_mode \in Handshake
    /\ g_session_key \in Key
    /\ srv \in [Conn -> Server]
    /\ cli \in [Conn -> ClientEnd]
    /\ up \in [Conn -> Seq(AnyMessage)]
    /\ down \in [Conn -> Seq(AnyMessage)]

\* A thread is in the guard exactly when its connection logs in.
LoginInGuard == \A c \in Conn : th[c].pc # "idle" <=> srv[c].pc = "login"

\* The mutex is held from the handshake to the reading of its result.
LockHeld == \A c \in Conn : srv[c].pc \in {"handle", "fetch"} <=> hs_lock = c

\* The globals are of the connection that is about to read them.
GlobalsAreMine ==
    \A c \in Conn : srv[c].pc = "fetch" =>
        g_session_key = SessionKey(c, g_handshake_mode)

\* An acknowledgement under way tells of the key of the server's end.
AckTells(c, msg) ==
    msg.id = "LOGIN_ACK" => /\ srv[c].auth
                            /\ srv[c].crypto.mode = "AES_GCM"
                            /\ srv[c].crypto.key = ClientKey(c, msg.body)

\* A connection by itself: nobody who is logged in logs in, acknowledgements
\* tell of the key, and a client that is in has been let in with its key.
Sound(c) ==
    /\ srv[c].pc \in {"login", "lock", "handle", "fetch"} => ~srv[c].auth
    /\ \A i \in 1..Len(down[c]) : AckTells(c, down[c][i])
    /\ cli[c].pc = "in" => /\ srv[c].auth
                           /\ srv[c].crypto.key = cli[c].crypto.key
                           /\ srv[c].crypto.mode = cli[c].crypto.mode

IInv == /\ Guard!TypeOK /\ Typed
        /\ LoginInGuard /\ LockHeld /\ GlobalsAreMine
        /\ \A c \in Conn : Sound(c)

\* What is sent or received leaves the mode and the key of a context.
LEMMA ContextKept ==
    ASSUME NEW ctx \in AnyContext, NEW msg
    PROVE  /\ Sent(ctx) \in AnyContext /\ Parsed(ctx, msg) \in AnyContext
           /\ Sent(ctx).key = ctx.key /\ Sent(ctx).mode = ctx.mode
           /\ Parsed(ctx, msg).key = ctx.key /\ Parsed(ctx, msg).mode = ctx.mode
BY DEF AnyContext, Sent, Parsed, Received

LEMMA ContextSet ==
    /\ ResetCrypto \in AnyContext
    /\ \A k \in Key : /\ SetCrypto("AES_GCM", k) \in AnyContext
                      /\ SetCrypto("AES_GCM", k).key = k
                      /\ SetCrypto("AES_GCM", k).mode = "AES_GCM"
BY DEF AnyContext, ResetCrypto, SetCrypto, Key

LEMMA KeyTyped ==
    \A c \in Conn \cup {NoConn}, hs \in Handshake : SessionKey(c, hs) \in Key
BY DEF SessionKey, Key

LEMMA MessageTyped ==
    ASSUME NEW ctx \in AnyContext, NEW id \in {"LOGIN", "LOGIN_ACK", "ECM", "EMM", "CW", "KEEPALIVE"},
           NEW body \in Body
    PROVE  /\ Plain(id, body) \in AnyMessage /\ Plain(id, body).id = id
           /\ Plain(id, body).body = body
           /\ Message(ctx, id, body) \in AnyMessage /\ Message(ctx, id, body).id = id
BY DEF AnyMessage, AnyContext, Body, Plain, Message, Key

LEMMA AppendOne ==
    ASSUME NEW T, NEW s \in Seq(T), NEW m \in T
    PROVE  /\ Append(s, m) \in Seq(T)
           /\ Len(Append(s, m)) = Len(s) + 1
           /\ \A i \in 1..Len(s) : Append(s, m)[i] = s[i]
           /\ Append(s, m)[Len(s) + 1] = m
BY AppendProperties

LEMMA DropOne ==
    ASSUME NEW T, NEW s \in Seq(T), s # <<>>
    PROVE  /\ Head(s) \in T /\ Head(s) = s[1] /\ 1 \in 1..Len(s)
           /\ Tail(s) \in Seq(T)
           /\ Len(Tail(s)) = Len(s) - 1
           /\ \A i \in 1..Len(Tail(s)) : Tail(s)[i] = s[i + 1] /\ i + 1 \in 1..Len(s)
BY HeadTailProperties, LenProperties, ElementOfSeq, EmptySeq

\* A step of one connection concerns no other.
LEMMA OneSound ==
    ASSUME NEW c \in Conn, \A d \in Conn : Sound(d), Sound(c)',
           \A d \in Conn \ {c} : /\ srv'[d] = srv[d] /\ cli'[d] = cli[d]
                                 /\ down'[d] = down[d]
    PROVE  \A d \in Conn : Sound(d)'
<1>1. ASSUME NEW d \in Conn \ {c}
      PROVE  Sound(d)'
  BY <1>1 DEF Sound, AckTells
<1>2. QED BY <1>1

\* The end of a connection.
LEMMA ClosedSound ==
    ASSUME Typed, \A d \in Conn : Sound(d), NEW c \in Conn, Close(c)
    PROVE  /\ srv' \in [Conn -> Server] /\ cli' \in [Conn -> ClientEnd]
           /\ up' \in [Conn -> Seq(AnyMessage)] /\ down' \in [Conn -> Seq(AnyMessage)]
           /\ \A d \in Conn : Sound(d)'
<1>1. NoServer \in Server /\ NoClient \in ClientEnd
  BY ContextSet DEF NoServer, NoClient, Server, ServerPC, Body, ClientEnd, ClientPC
<1>2. <<>> \in Seq(AnyMessage) /\ Len(<<>>) = 0
  BY EmptySeq
<1>3. /\ srv' \in [Conn -> Server] /\ cli' \in [Conn -> ClientEnd]
      /\ up' \in [Conn -> Seq(AnyMessage)] /\ down' \in [Conn -> Seq(AnyMessage)]
  BY <1>1, <1>2 DEF Close, Typed
<1>4. srv'[c] = NoServer /\ cli'[c] = NoClient /\ down'[c] = <<>>
  BY DEF Close, Typed
<1>5. Sound(c)'
  BY <1>2, <1>4 DEF Sound, NoServer, NoClient
<1>6. \A d \in Conn \ {c} : /\ srv'[d] = srv[d] /\ cli'[d] = cli[d]
                            /\ down'[d] = down[d]
  BY DEF Close, Typed
<1>7. QED BY <1>3, <1>5, <1>6, OneSound

-----------------------------------------------------------------------------
LEMMA InitHolds == Init => IInv
<1> SUFFICES ASSUME Init PROVE IInv
  OBVIOUS
<1>1. Guard!TypeOK
  BY GuardInit DEF Init
<1>2. NoServer \in Server /\ NoClient \in ClientEnd /\ NoKey \in Key
  BY ContextSet DEF NoServer, NoClient, Server, ServerPC, Body, ClientEnd, ClientPC, Key
<1>3. <<>> \in Seq(AnyMessage) /\ Len(<<>>) = 0
  BY EmptySeq
<1>4. Typed
  BY <1>2, <1>3 DEF Init, Typed, Handshake
<1>5. LoginInGuard
  BY DEF Init, LoginInGuard, Guard!Init, NoServer
<1>6. LockHeld /\ GlobalsAreMine
  BY SessionAssumption DEF Init, LockHeld, GlobalsAreMine, NoServer
<1>7. \A c \in Conn : Sound(c)
  BY <1>3 DEF Init, Sound, NoServer, NoClient
<1>8. QED BY <1>1, <1>4, <1>5, <1>6, <1>7 DEF IInv

\* Outside the login nothing happens to the guard and the mutex.
LEMMA LoginKept ==
    ASSUME IInv, UNCHANGED <<th, globals>>,
           \A d \in Conn : \/ srv'[d].pc = srv[d].pc
                           \/ {srv[d].pc, srv'[d].pc} \subseteq {"off", "read", "solve"}
    PROVE  LoginInGuard' /\ LockHeld' /\ GlobalsAreMine'
<1>1. LoginInGuard'
  BY DEF IInv, LoginInGuard
<1>2. LockHeld'
  BY DEF IInv, LockHeld, globals
<1>3. GlobalsAreMine'
  BY DEF IInv, GlobalsAreMine, globals
<1>4. QED BY <1>1, <1>2, <1>3

\* What the client's end does alone leaves its connection sound, when what
\* its context agreed on stays.
LEMMA ClientMoves ==
    ASSUME NEW c \in Conn, Sound(c), UNCHANGED <<srv, down>>,
           cli'[c].pc = cli[c].pc,
           cli'[c].crypto.key = cli[c].crypto.key,
           cli'[c].crypto.mode = cli[c].crypto.mode
    PROVE  Sound(c)'
<1>1. srv'[c] = srv[c] /\ down'[c] = down[c]
  OBVIOUS
<1>2. \A i \in 1..Len(down'[c]) : AckTells(c, down[c][i])'
  BY <1>1 DEF Sound, AckTells
<1>3. srv'[c].pc \in {"login", "lock", "handle", "fetch"} => ~srv'[c].auth
  BY <1>1, Zenon DEF Sound
<1>4. cli'[c].pc = "in" => /\ srv'[c].auth
                           /\ srv'[c].crypto.key = cli'[c].crypto.key
                           /\ srv'[c].crypto.mode = cli'[c].crypto.mode
  <2>1. cli[c].pc = "in" => /\ srv[c].auth
                            /\ srv[c].crypto.key = cli[c].crypto.key
                            /\ srv[c].crypto.mode = cli[c].crypto.mode
    BY Zenon DEF Sound
  <2>2. QED BY <1>1, <2>1
<1>5. QED BY <1>2, <1>3, <1>4 DEF Sound

LEMMA ClientKeeps ==
    ASSUME IInv, NEW c \in Conn, Client(c)
    PROVE  /\ Typed' /\ LoginInGuard' /\ LockHeld' /\ GlobalsAreMine'
           /\ \A d \in Conn : Sound(d)'
<1>1. UNCHANGED <<th, globals>>
  BY DEF Client, Connect, ClientLogin, ClientSend, ClientKeepalive, ClientReceive,
         ClientLeaves, guard
<1>2. /\ srv \in [Conn -> Server] /\ cli \in [Conn -> ClientEnd]
      /\ up \in [Conn -> Seq(AnyMessage)] /\ down \in [Conn -> Seq(AnyMessage)]
      /\ Sound(c) /\ cli[c] \in ClientEnd /\ cli[c].crypto \in AnyContext
  BY DEF IInv, Typed, ClientEnd
<1> DEFINE Good == /\ srv' \in [Conn -> Server] /\ cli' \in [Conn -> ClientEnd]
                   /\ up' \in [Conn -> Seq(AnyMessage)] /\ down' \in [Conn -> Seq(AnyMessage)]
                   /\ \A d \in Conn \ {c} : /\ srv'[d] = srv[d] /\ cli'[d] = cli[d]
                                            /\ down'[d] = down[d]
                   /\ Sound(c)'
                   /\ \/ srv'[c].pc = srv[c].pc
                      \/ {srv[c].pc, srv'[c].pc} \subseteq {"off", "read", "solve"}
<1>3. ASSUME Connect(c)
      PROVE  Good
  <2>1. [srv[c] EXCEPT !.pc = "read"] \in Server /\ [cli[c] EXCEPT !.pc = "new"] \in ClientEnd
    <3>1. srv[c] \in Server /\ "read" \in ServerPC
      BY <1>2 DEF ServerPC
    <3>2. [srv[c] EXCEPT !.pc = "read"] \in Server
      BY <3>1 DEF Server
    <3>3. cli[c] \in ClientEnd /\ "new" \in ClientPC
      BY <1>2 DEF ClientPC
    <3>4. [cli[c] EXCEPT !.pc = "new"] \in ClientEnd
      BY <3>3 DEF ClientEnd
    <3>5. QED BY <3>2, <3>4
  <2>2. /\ srv' = [srv EXCEPT ![c] = [srv[c] EXCEPT !.pc = "read"]]
        /\ cli' = [cli EXCEPT ![c] = [cli[c] EXCEPT !.pc = "new"]]
        /\ srv[c].pc = "off" /\ UNCHANGED <<up, down>>
    <3>1. srv' = [srv EXCEPT ![c] = [srv[c] EXCEPT !.pc = "read"]]
      BY <1>3, <1>2 DEF Connect
    <3>2. cli' = [cli EXCEPT ![c] = [cli[c] EXCEPT !.pc = "new"]]
      BY <1>3, <1>2 DEF Connect
    <3>3. srv[c].pc = "off" /\ UNCHANGED <<up, down>>
      BY <1>3 DEF Connect
    <3>4. QED BY <3>1, <3>2, <3>3
  <2>3. /\ srv'[c].pc = "read" /\ srv'[c].auth = srv[c].auth
        /\ srv'[c].crypto = srv[c].crypto /\ cli'[c].pc = "new"
    BY <2>2, <1>2 DEF Server, ClientEnd
  <2>4. Sound(c)'
    BY <1>2, <2>2, <2>3 DEF Sound, AckTells
  <2>5. /\ srv' \in [Conn -> Server] /\ cli' \in [Conn -> ClientEnd]
    BY <1>2, <2>1, <2>2
  <2>6. QED BY <1>2, <2>2, <2>3, <2>4, <2>5
<1>4. ASSUME NEW cred \in Credentials, ClientLogin(c, cred)
      PROVE  Good
  <2>1. /\ [cli[c] EXCEPT !.pc = "wait"] \in ClientEnd
        /\ Append(up[c], Plain("LOGIN", cred)) \in Seq(AnyMessage)
    <3>1. Plain("LOGIN", cred) \in AnyMessage
      BY <1>2, MessageTyped DEF Body
    <3>2. QED BY <1>2, <3>1, AppendOne DEF ClientEnd, ClientPC
  <2>2. /\ cli' = [cli EXCEPT ![c] = [cli[c] EXCEPT !.pc = "wait"]]
        /\ up' = [up EXCEPT ![c] = Append(up[c], Plain("LOGIN", cred))]
        /\ UNCHANGED <<srv, down>>
    BY <1>4, <1>2 DEF ClientLogin
  <2>3. cli'[c].pc = "wait"
    BY <2>2, <1>2 DEF ClientEnd
  <2>4. Sound(c)'
    BY <1>2, <2>2, <2>3 DEF Sound, AckTells
  <2>5. cli' \in [Conn -> ClientEnd] /\ up' \in [Conn -> Seq(AnyMessage)]
    BY <1>2, <2>1, <2>2
  <2>6. QED BY <1>2, <2>2, <2>4, <2>5
<1>5. ASSUME NEW id \in {"ECM", "EMM"}, ClientSend(c, id)
      PROVE  Good
  <2> DEFINE ctx == cli[c].crypto
             msg == Message(ctx, id, "section")
  <2>1. /\ Sent(ctx) \in AnyContext /\ Sent(ctx).key = ctx.key /\ Sent(ctx).mode = ctx.mode
        /\ msg \in AnyMessage
    <3>1. /\ ctx \in AnyContext /\ "section" \in Body
          /\ id \in {"LOGIN", "LOGIN_ACK", "ECM", "EMM", "CW", "KEEPALIVE"}
      BY <1>2 DEF Body
    <3>2. msg \in AnyMessage
      BY <3>1, MessageTyped
    <3>3. QED BY <3>1, <3>2, ContextKept
  <2>2. /\ cli' = [cli EXCEPT ![c] = [cli[c] EXCEPT !.crypto = Sent(ctx)]]
        /\ up' = [up EXCEPT ![c] = Append(up[c], msg)]
        /\ UNCHANGED <<srv, down>>
    BY <1>5, <1>2 DEF ClientSend
  <2> HIDE DEF msg
  <2>3. cli'[c].pc = cli[c].pc /\ cli'[c].crypto = Sent(ctx)
    BY <2>2, <1>2 DEF ClientEnd
  <2>4. Sound(c)'
    <3>1. /\ cli'[c].crypto.key = cli[c].crypto.key
          /\ cli'[c].crypto.mode = cli[c].crypto.mode
      BY <2>1, <2>3
    <3>2. QED BY <1>2, <2>2, <2>3, <3>1, ClientMoves
  <2>5. [cli[c] EXCEPT !.crypto = Sent(ctx)] \in ClientEnd
    BY <1>2, <2>1 DEF ClientEnd
  <2>6. Append(up[c], msg) \in Seq(AnyMessage)
    BY <1>2, <2>1, AppendOne
  <2>7. cli' \in [Conn -> ClientEnd] /\ up' \in [Conn -> Seq(AnyMessage)]
    BY <1>2, <2>2, <2>5, <2>6
  <2>8. QED BY <1>2, <2>2, <2>4, <2>7
<1>6. ASSUME ClientKeepalive(c)
      PROVE  Good
  <2>1. /\ up' = [up EXCEPT ![c] = Append(up[c], Plain("KEEPALIVE", "none"))]
        /\ UNCHANGED <<srv, cli, down>>
    BY <1>6, <1>2 DEF ClientKeepalive, Bare
  <2>2. Append(up[c], Plain("KEEPALIVE", "none")) \in Seq(AnyMessage)
    <3>1. Plain("KEEPALIVE", "none") \in AnyMessage
      BY <1>2, MessageTyped DEF Body
    <3>2. QED BY <1>2, <3>1, AppendOne
  <2>3. Sound(c)'
    BY <1>2, <2>1 DEF Sound, AckTells
  <2>4. QED BY <1>2, <2>1, <2>2, <2>3
<1>7. ASSUME ClientReceive(c)
      PROVE  Good
  <2> DEFINE msg == Head(down[c])
             ctx == cli[c].crypto
             end == IF msg.id = "LOGIN_ACK"
                    THEN [cli[c] EXCEPT !.pc = "in",
                              !.crypto = SetCrypto("AES_GCM", ClientKey(c, msg.body))]
                    ELSE IF CanParse(ctx, msg)
                    THEN [cli[c] EXCEPT !.crypto = Parsed(ctx, msg)]
                    ELSE [cli[c] EXCEPT !.pc = "gone"]
  <2>1. /\ cli' = [cli EXCEPT ![c] = end] /\ down' = [down EXCEPT ![c] = Tail(down[c])]
        /\ UNCHANGED <<srv, up>> /\ down[c] # <<>>
    <3>1. down' = [down EXCEPT ![c] = Tail(down[c])] /\ UNCHANGED <<srv, up>> /\ down[c] # <<>>
      BY <1>7, <1>2 DEF ClientReceive
    <3>2. cli' = [cli EXCEPT ![c] = end]
      BY <1>7, <1>2, Zenon DEF ClientReceive
    <3>3. QED BY <3>1, <3>2
  <2>2. /\ AckTells(c, msg) /\ Tail(down[c]) \in Seq(AnyMessage)
        /\ \A i \in 1..Len(Tail(down[c])) : AckTells(c, Tail(down[c])[i])
    <3>1. \A i \in 1..Len(down[c]) : AckTells(c, down[c][i])
      BY <1>2 DEF Sound
    <3>2. /\ msg = down[c][1] /\ 1 \in 1..Len(down[c])
          /\ Tail(down[c]) \in Seq(AnyMessage)
          /\ \A i \in 1..Len(Tail(down[c])) : /\ Tail(down[c])[i] = down[c][i + 1]
                                              /\ i + 1 \in 1..Len(down[c])
      <4>1. down[c] \in Seq(AnyMessage)
        BY <1>2
      <4>2. QED BY <2>1, <4>1, DropOne
    <3> HIDE DEF msg
    <3>3. AckTells(c, msg)
      BY <3>1, <3>2
    <3>4. QED BY <3>1, <3>2, <3>3
  <2>3. ClientKey(c, msg.body) \in Key
    BY KeyTyped DEF ClientKey, HandshakeOf, Handshake
  <2>4. /\ Parsed(ctx, msg) \in AnyContext
        /\ Parsed(ctx, msg).key = ctx.key /\ Parsed(ctx, msg).mode = ctx.mode
    BY <1>2, ContextKept
  <2>5. /\ SetCrypto("AES_GCM", ClientKey(c, msg.body)) \in AnyContext
        /\ SetCrypto("AES_GCM", ClientKey(c, msg.body)).key = ClientKey(c, msg.body)
        /\ SetCrypto("AES_GCM", ClientKey(c, msg.body)).mode = "AES_GCM"
    BY <2>3, ContextSet
  <2>6. /\ end \in ClientEnd
        /\ end.pc = "in" => /\ srv[c].auth
                            /\ srv[c].crypto.key = end.crypto.key
                            /\ srv[c].crypto.mode = end.crypto.mode
    <3> DEFINE new == SetCrypto("AES_GCM", ClientKey(c, msg.body))
               parsed == Parsed(ctx, msg)
               in == [cli[c] EXCEPT !.pc = "in", !.crypto = new]
               read == [cli[c] EXCEPT !.crypto = parsed]
               gone == [cli[c] EXCEPT !.pc = "gone"]
    <3>1. end = IF msg.id = "LOGIN_ACK" THEN in
                ELSE IF CanParse(ctx, msg) THEN read ELSE gone
      OBVIOUS
    <3> HIDE DEF new, parsed, msg, end
    <3>2. /\ in \in ClientEnd /\ in.crypto = new
          /\ read \in ClientEnd /\ read.crypto = parsed /\ read.pc = cli[c].pc
          /\ gone \in ClientEnd /\ gone.pc = "gone"
      <4>1. new \in AnyContext /\ parsed \in AnyContext
        BY <2>4, <2>5 DEF new, parsed
      <4>2. QED BY <1>2, <4>1 DEF ClientEnd, ClientPC
    <3>3. msg.id = "LOGIN_ACK" => /\ srv[c].auth
                                  /\ srv[c].crypto.key = new.key
                                  /\ srv[c].crypto.mode = new.mode
      BY <2>2, <2>5 DEF AckTells, new
    <3>4. cli[c].pc = "in" => /\ srv[c].auth
                              /\ srv[c].crypto.key = parsed.key
                              /\ srv[c].crypto.mode = parsed.mode
      BY <1>2, <2>4 DEF Sound, parsed
    <3> HIDE DEF in, read, gone
    <3>5. CASE end = in /\ msg.id = "LOGIN_ACK"
      BY <3>2, <3>3, <3>5
    <3>6. CASE end = read
      BY <3>2, <3>4, <3>6
    <3>7. CASE end = gone
      BY <3>2, <3>7
    <3>8. QED BY <3>1, <3>5, <3>6, <3>7
  <2> HIDE DEF end
  <2>7. cli' \in [Conn -> ClientEnd] /\ down' \in [Conn -> Seq(AnyMessage)]
    BY <1>2, <2>1, <2>2, <2>6
  <2>8. cli'[c] = end /\ down'[c] = Tail(down[c])
    BY <1>2, <2>1
  <2>9. Sound(c)'
    BY <1>2, <2>1, <2>2, <2>6, <2>8 DEF Sound, AckTells
  <2>10. QED BY <1>2, <2>1, <2>7, <2>9
<1>8. ASSUME ClientLeaves(c)
      PROVE  Good
  <2> DEFINE end == [NoClient EXCEPT !.pc = "gone"]
  <2>1. end \in ClientEnd /\ end.pc = "gone"
    BY ContextSet DEF NoClient, ClientEnd, ClientPC
  <2>2. <<>> \in Seq(AnyMessage) /\ Len(<<>>) = 0
    BY EmptySeq
  <2>3. /\ cli' = [cli EXCEPT ![c] = end] /\ down' = [down EXCEPT ![c] = <<>>]
        /\ UNCHANGED <<srv, up>>
    BY <1>8 DEF ClientLeaves
  <2> HIDE DEF end
  <2>4. cli' \in [Conn -> ClientEnd] /\ down' \in [Conn -> Seq(AnyMessage)]
    BY <1>2, <2>1, <2>2, <2>3
  <2>5. cli'[c] = end /\ down'[c] = <<>>
    BY <1>2, <2>3
  <2>6. Sound(c)'
    BY <1>2, <2>1, <2>2, <2>3, <2>5 DEF Sound
  <2>7. QED BY <1>2, <2>3, <2>4, <2>6
<1>9. Good
  <2> HIDE DEF Good
  <2>1. QED BY <1>3, <1>4, <1>5, <1>6, <1>7, <1>8 DEF Client
<1>10. Typed'
  BY <1>1, <1>9 DEF IInv, Typed, globals
<1>11. LoginInGuard' /\ LockHeld' /\ GlobalsAreMine'
  BY <1>1, <1>9, LoginKept
<1>12. \A d \in Conn : Sound(d)'
  BY <1>9, OneSound DEF IInv
<1>13. QED BY <1>10, <1>11, <1>12

\* The server's end reads or answers: key and mode stay.
LEMMA ServerSound ==
    ASSUME IInv, NEW c \in Conn, NEW end \in Server, NEW way \in Seq(AnyMessage),
           srv' = [srv EXCEPT ![c] = end], down' = [down EXCEPT ![c] = way],
           UNCHANGED cli, up' \in [Conn -> Seq(AnyMessage)],
           UNCHANGED <<th, globals>>,
           {srv[c].pc, end.pc} \subseteq {"off", "read", "solve"},
           end.auth = srv[c].auth,
           end.crypto.key = srv[c].crypto.key, end.crypto.mode = srv[c].crypto.mode,
           \A i \in 1..Len(way) : AckTells(c, way[i])
    PROVE  /\ Typed' /\ LoginInGuard' /\ LockHeld' /\ GlobalsAreMine'
           /\ \A d \in Conn : Sound(d)'
<1>1. /\ srv \in [Conn -> Server] /\ down \in [Conn -> Seq(AnyMessage)] /\ Sound(c)
  BY DEF IInv, Typed
<1>2. srv'[c] = end /\ down'[c] = way
  BY <1>1
<1>3. Typed'
  BY DEF IInv, Typed, globals
<1>4. \A d \in Conn \ {c} : srv'[d] = srv[d] /\ down'[d] = down[d]
  BY <1>1
<1>5. LoginInGuard' /\ LockHeld' /\ GlobalsAreMine'
  <2>1. \A d \in Conn : \/ srv'[d].pc = srv[d].pc
                        \/ {srv[d].pc, srv'[d].pc} \subseteq {"off", "read", "solve"}
    BY <1>2, <1>4
  <2>2. QED BY <2>1, LoginKept
<1>6. Sound(c)'
  BY <1>1, <1>2 DEF Sound, AckTells
<1>7. \A d \in Conn : Sound(d)'
  BY <1>4, <1>6, OneSound DEF IInv
<1>8. QED BY <1>3, <1>5, <1>7

\* A session closes whose thread is not in the login.
LEMMA CloseKeeps ==
    ASSUME IInv, NEW c \in Conn, Close(c), UNCHANGED <<th, globals>>,
           srv[c].pc = "read"
    PROVE  /\ Typed' /\ LoginInGuard' /\ LockHeld' /\ GlobalsAreMine'
           /\ \A d \in Conn : Sound(d)'
<1>1. /\ srv' \in [Conn -> Server] /\ cli' \in [Conn -> ClientEnd]
      /\ up' \in [Conn -> Seq(AnyMessage)] /\ down' \in [Conn -> Seq(AnyMessage)]
      /\ \A d \in Conn : Sound(d)'
  BY ClosedSound DEF IInv
<1>2. Typed'
  BY <1>1 DEF IInv, Typed, globals
<1>3. \A d \in Conn : \/ srv'[d].pc = srv[d].pc
                      \/ {srv[d].pc, srv'[d].pc} \subseteq {"off", "read", "solve"}
  BY DEF Close, IInv, Typed, NoServer
<1>4. QED BY <1>1, <1>2, <1>3, LoginKept

LEMMA SessionKeeps ==
    ASSUME IInv, NEW c \in Conn, Session(c), ~ReadLogin(c)
    PROVE  /\ Typed' /\ LoginInGuard' /\ LockHeld' /\ GlobalsAreMine'
           /\ \A d \in Conn : Sound(d)'
<1> DEFINE Kept == /\ Typed' /\ LoginInGuard' /\ LockHeld' /\ GlobalsAreMine'
                   /\ \A d \in Conn : Sound(d)'
           ctx == srv[c].crypto
<1>1. /\ srv \in [Conn -> Server] /\ srv[c] \in Server /\ ctx \in AnyContext
      /\ up \in [Conn -> Seq(AnyMessage)] /\ down \in [Conn -> Seq(AnyMessage)]
      /\ down[c] \in Seq(AnyMessage)
      /\ \A i \in 1..Len(down[c]) : AckTells(c, down[c][i])
  BY DEF IInv, Typed, Server, Sound
<1>2. down = [down EXCEPT ![c] = down[c]]
  BY <1>1
<1>3. ASSUME NEW pc \in {"read", "solve"}, srv[c].pc = "read", up[c] # <<>>,
             srv' = [srv EXCEPT ![c] = [srv[c] EXCEPT !.pc = pc, !.crypto = AfterParse(c)]],
             up' = [up EXCEPT ![c] = Tail(@)],
             UNCHANGED <<guard, globals, cli, down>>
      PROVE  Kept
  <2> DEFINE end == [srv[c] EXCEPT !.pc = pc, !.crypto = AfterParse(c)]
  <2>1. /\ AfterParse(c) \in AnyContext /\ AfterParse(c).key = ctx.key
        /\ AfterParse(c).mode = ctx.mode
    BY <1>1, ContextKept DEF AfterParse
  <2>2. /\ end \in Server /\ end.pc = pc /\ end.auth = srv[c].auth
        /\ end.crypto = AfterParse(c)
    BY <1>1, <2>1 DEF Server, ServerPC
  <2>3. up' \in [Conn -> Seq(AnyMessage)]
    <3>1. Tail(up[c]) \in Seq(AnyMessage)
      BY <1>1, <1>3, DropOne
    <3>2. QED BY <1>1, <1>3, <3>1
  <2> HIDE DEF end
  <2>4. {srv[c].pc, end.pc} \subseteq {"off", "read", "solve"}
    BY <1>3, <2>2
  <2>5. srv' = [srv EXCEPT ![c] = end] /\ down' = [down EXCEPT ![c] = down[c]]
    BY <1>2, <1>3 DEF end
  <2>6. UNCHANGED <<th, globals>> /\ UNCHANGED cli
    BY <1>3 DEF guard
  <2>7. QED BY <1>1, <2>1, <2>2, <2>3, <2>4, <2>5, <2>6, ServerSound
<1>4. CASE ReadEcm(c)
  <2>1. srv' = [srv EXCEPT ![c] = [srv[c] EXCEPT !.pc = "solve", !.crypto = AfterParse(c)]]
    BY <1>4, <1>1 DEF ReadEcm
  <2>2. QED BY <1>3, <1>4, <2>1 DEF ReadEcm, Reading
<1>5. CASE ReadOther(c)
  <2>1. srv[c].pc = "read" /\ up[c] # <<>>
    BY <1>5 DEF ReadOther, Reading
  <2>2. [srv[c] EXCEPT !.crypto = AfterParse(c)]
          = [srv[c] EXCEPT !.pc = "read", !.crypto = AfterParse(c)]
    BY <1>1, <2>1 DEF Server
  <2>3. srv' = [srv EXCEPT ![c] = [srv[c] EXCEPT !.crypto = AfterParse(c)]]
    BY <1>5, <1>1 DEF ReadOther
  <2>4. QED BY <1>3, <1>5, <2>1, <2>2, <2>3 DEF ReadOther
<1>6. CASE BadMessage(c) \/ EndSession(c)
  BY <1>6, CloseKeeps DEF BadMessage, EndSession, guard
<1>7. CASE Unsolved(c)
  <2> DEFINE end == [srv[c] EXCEPT !.pc = "read"]
  <2>1. /\ end \in Server /\ end.pc = "read" /\ end.auth = srv[c].auth
        /\ end.crypto = ctx
    BY <1>1 DEF Server, ServerPC
  <2>2. srv' = [srv EXCEPT ![c] = end] /\ down' = [down EXCEPT ![c] = down[c]]
    BY <1>1, <1>2, <1>7 DEF Unsolved, Goto
  <2> HIDE DEF end
  <2>3. /\ {srv[c].pc, end.pc} \subseteq {"off", "read", "solve"}
        /\ up' \in [Conn -> Seq(AnyMessage)]
    BY <1>1, <1>7, <2>1 DEF Unsolved
  <2>4. UNCHANGED <<th, globals>> /\ UNCHANGED cli
    BY <1>7 DEF Unsolved, guard
  <2>5. QED BY <1>1, <2>1, <2>2, <2>3, <2>4, ServerSound
<1>8. CASE AnswerEcm(c)
  <2> DEFINE msg == Message(ctx, "CW", "cw")
             sent == Append(down[c], msg)
             end == [srv[c] EXCEPT !.pc = "read", !.crypto = Sent(ctx)]
             same == [srv[c] EXCEPT !.pc = "read"]
  <2>1. /\ Sent(ctx) \in AnyContext /\ Sent(ctx).key = ctx.key /\ Sent(ctx).mode = ctx.mode
        /\ msg \in AnyMessage /\ msg.id = "CW"
    <3> HIDE DEF ctx
    <3>1. /\ Sent(ctx) \in AnyContext /\ Sent(ctx).key = ctx.key
          /\ Sent(ctx).mode = ctx.mode
      BY <1>1, ContextKept
    <3>2. msg \in AnyMessage /\ msg.id = "CW"
      BY <1>1, MessageTyped DEF Body
    <3>3. QED BY <3>1, <3>2
  <2>2. /\ end \in Server /\ end.pc = "read" /\ end.auth = srv[c].auth
        /\ end.crypto = Sent(ctx)
        /\ same \in Server /\ same.pc = "read" /\ same.auth = srv[c].auth
        /\ same.crypto = ctx
    BY <1>1, <2>1 DEF Server, ServerPC
  <2>3. /\ sent \in Seq(AnyMessage)
        /\ \A i \in 1..Len(sent) : AckTells(c, sent[i])
    <3>1. /\ sent \in Seq(AnyMessage) /\ Len(sent) = Len(down[c]) + 1
          /\ \A i \in 1..Len(down[c]) : sent[i] = down[c][i]
          /\ sent[Len(down[c]) + 1] = msg
      BY <1>1, <2>1, AppendOne
    <3>2. AckTells(c, msg)
      BY <2>1 DEF AckTells
    <3>3. Len(down[c]) \in Nat
      BY <1>1, LenProperties
    <3> HIDE DEF sent, msg
    <3>4. \A i \in 1..Len(sent) : i \in 1..Len(down[c]) \/ i = Len(down[c]) + 1
      BY <3>1, <3>3
    <3>5. QED BY <1>1, <3>1, <3>2, <3>4
  <2>4. /\ srv' = [srv EXCEPT ![c] = end] \/ srv' = [srv EXCEPT ![c] = same]
        /\ down' = [down EXCEPT ![c] = sent] \/ down' = [down EXCEPT ![c] = down[c]]
    BY <1>1, <1>2, <1>8 DEF AnswerEcm, Goto
  <2> HIDE DEF end, same, sent
  <2>5. /\ srv[c].pc = "solve" /\ up' \in [Conn -> Seq(AnyMessage)]
        /\ UNCHANGED <<th, globals>> /\ UNCHANGED cli
    BY <1>1, <1>8 DEF AnswerEcm, guard
  <2>6. ASSUME NEW e \in {end, same}, NEW w \in {sent, down[c]},
               srv' = [srv EXCEPT ![c] = e], down' = [down EXCEPT ![c] = w]
        PROVE  Kept
    <3>1. /\ e \in Server /\ {srv[c].pc, e.pc} \subseteq {"off", "read", "solve"}
          /\ e.auth = srv[c].auth /\ e.crypto.key = ctx.key /\ e.crypto.mode = ctx.mode
      BY <2>1, <2>2, <2>5
    <3>2. w \in Seq(AnyMessage) /\ \A i \in 1..Len(w) : AckTells(c, w[i])
      BY <1>1, <2>3
    <3>3. QED BY <2>5, <2>6, <3>1, <3>2, ServerSound
  <2>7. QED BY <2>4, <2>6
<1>9. QED BY <1>4, <1>5, <1>6, <1>7, <1>8 DEF Session

\* A login goes on in the guard, the connection stays in it.
LEMMA GuardOnly ==
    ASSUME IInv, NEW c \in Conn, UNCHANGED <<globals, ends>>,
           th[c].pc # "idle", th'[c].pc # "idle",
           \A d \in Conn \ {c} : th'[d] = th[d]
    PROVE  /\ Typed' /\ LoginInGuard' /\ LockHeld' /\ GlobalsAreMine'
           /\ \A d \in Conn : Sound(d)'
<1>1. Typed' /\ LockHeld' /\ GlobalsAreMine'
  BY DEF IInv, Typed, LockHeld, GlobalsAreMine, globals, ends
<1>2. LoginInGuard'
  BY DEF IInv, LoginInGuard, ends
<1>3. \A d \in Conn : Sound(d)'
  BY DEF IInv, Sound, AckTells, ends
<1>4. QED BY <1>1, <1>2, <1>3

\* A login fails: its connection is closed.
LEMMA LoginCloses ==
    ASSUME IInv, NEW c \in Conn, Close(c), UNCHANGED globals,
           th[c].pc # "idle", th'[c].pc = "idle",
           \A d \in Conn \ {c} : th'[d] = th[d]
    PROVE  /\ Typed' /\ LoginInGuard' /\ LockHeld' /\ GlobalsAreMine'
           /\ \A d \in Conn : Sound(d)'
<1>1. /\ srv' \in [Conn -> Server] /\ cli' \in [Conn -> ClientEnd]
      /\ up' \in [Conn -> Seq(AnyMessage)] /\ down' \in [Conn -> Seq(AnyMessage)]
      /\ \A d \in Conn : Sound(d)'
  BY ClosedSound DEF IInv
<1>2. Typed'
  BY <1>1 DEF IInv, Typed, globals
<1>3. /\ srv[c].pc = "login" /\ srv'[c].pc = "off"
      /\ \A d \in Conn \ {c} : srv'[d] = srv[d]
  BY DEF IInv, LoginInGuard, Close, Typed, NoServer
<1>4. LoginInGuard'
  BY <1>3 DEF IInv, LoginInGuard
<1>5. LockHeld' /\ GlobalsAreMine'
  BY <1>3 DEF IInv, LockHeld, GlobalsAreMine, globals
<1>6. QED BY <1>1, <1>2, <1>4, <1>5

\* A step of the server's end of a connection that is not logged in and does
\* not let it in.
LEMMA NotInSound ==
    ASSUME IInv, NEW c \in Conn, NEW pc \in ServerPC, NEW cred \in Body,
           ~srv[c].auth,
           srv' = [srv EXCEPT ![c] = [srv[c] EXCEPT !.pc = pc, !.cred = cred]],
           UNCHANGED <<cli, down>>
    PROVE  /\ srv' \in [Conn -> Server] /\ srv'[c].pc = pc
           /\ \A d \in Conn \ {c} : srv'[d] = srv[d]
           /\ \A d \in Conn : Sound(d)'
<1>1. srv \in [Conn -> Server] /\ srv[c] \in Server /\ Sound(c)
  BY DEF IInv, Typed
<1> DEFINE end == [srv[c] EXCEPT !.pc = pc, !.cred = cred]
<1>2. /\ end \in Server /\ end.pc = pc /\ end.auth = srv[c].auth
      /\ end.crypto = srv[c].crypto
  BY <1>1 DEF Server
<1>3. srv' = [srv EXCEPT ![c] = end]
  OBVIOUS
<1> HIDE DEF end
<1>4. srv'[c] = end /\ srv' \in [Conn -> Server] /\ \A d \in Conn \ {c} : srv'[d] = srv[d]
  BY <1>1, <1>2, <1>3
<1>5. Sound(c)'
  BY <1>1, <1>2, <1>4 DEF Sound, AckTells
<1>6. \A d \in Conn : Sound(d)'
  BY <1>4, <1>5, OneSound DEF IInv
<1>7. QED BY <1>2, <1>4, <1>6

LEMMA ReadLoginKeeps ==
    ASSUME IInv, NEW c \in Conn, ReadLogin(c)
    PROVE  /\ Typed' /\ LoginInGuard' /\ LockHeld' /\ GlobalsAreMine'
           /\ \A d \in Conn : Sound(d)'
<1>1. /\ srv \in [Conn -> Server] /\ th \in [Conn -> Guard!Login]
      /\ up \in [Conn -> Seq(AnyMessage)]
  BY DEF IInv, Typed, Guard!TypeOK
<1>2. /\ srv[c].pc = "read" /\ up[c] # <<>> /\ Head(up[c]).id = "LOGIN" /\ ~srv[c].auth
      /\ th' = [th EXCEPT ![c].pc = "check", ![c].ip = Addr[c]]
      /\ srv' = [srv EXCEPT ![c].pc = "login", ![c].cred = Head(up[c]).body]
      /\ up' = [up EXCEPT ![c] = Tail(@)]
      /\ UNCHANGED <<globals, cli, down>>
  BY DEF ReadLogin, Reading, Guard!Start
<1>3. Head(up[c]) \in AnyMessage /\ Tail(up[c]) \in Seq(AnyMessage)
  BY <1>1, <1>2, DropOne
<1>4. Head(up[c]).body \in Body
  BY <1>3 DEF AnyMessage
<1>5. srv' = [srv EXCEPT ![c] = [srv[c] EXCEPT !.pc = "login", !.cred = Head(up[c]).body]]
  BY <1>1, <1>2
<1>6. /\ srv' \in [Conn -> Server] /\ srv'[c].pc = "login"
      /\ \A d \in Conn \ {c} : srv'[d] = srv[d]
      /\ \A d \in Conn : Sound(d)'
  <2>1. "login" \in ServerPC
    BY DEF ServerPC
  <2>2. ~srv[c].auth /\ UNCHANGED <<cli, down>>
    BY <1>2
  <2>3. QED BY <1>4, <1>5, <2>1, <2>2, NotInSound
<1>7. up' \in [Conn -> Seq(AnyMessage)]
  BY <1>1, <1>2, <1>3
<1>8. Typed'
  BY <1>2, <1>6, <1>7 DEF IInv, Typed, globals
<1>9. th'[c].pc = "check" /\ \A d \in Conn \ {c} : th'[d] = th[d]
  BY <1>1, <1>2 DEF Guard!Login
<1>10. LoginInGuard'
  BY <1>6, <1>9 DEF IInv, LoginInGuard
<1>11. LockHeld' /\ GlobalsAreMine'
  BY <1>2, <1>6 DEF IInv, LockHeld, GlobalsAreMine, globals
<1>12. QED BY <1>6, <1>8, <1>10, <1>11

LEMMA LockKeeps ==
    ASSUME IInv, NEW c \in Conn, HandshakeLock(c)
    PROVE  /\ Typed' /\ LoginInGuard' /\ LockHeld' /\ GlobalsAreMine'
           /\ \A d \in Conn : Sound(d)'
<1>1. srv \in [Conn -> Server] /\ srv[c] \in Server /\ Sound(c) /\ ~srv[c].auth
  BY DEF IInv, Typed, Sound, HandshakeLock
<1>2. /\ srv[c].pc = "lock" /\ hs_lock = NoConn /\ hs_lock' = c
      /\ UNCHANGED <<th, g_handshake_mode, g_session_key, cli, up, down>>
  BY DEF HandshakeLock, guard
<1>3. srv' = [srv EXCEPT ![c] = [srv[c] EXCEPT !.pc = "handle", !.cred = srv[c].cred]]
  <2>1. [srv[c] EXCEPT !.pc = "handle"]
          = [srv[c] EXCEPT !.pc = "handle", !.cred = srv[c].cred]
    BY <1>1 DEF Server
  <2>2. srv' = [srv EXCEPT ![c] = [srv[c] EXCEPT !.pc = "handle"]]
    BY <1>1 DEF HandshakeLock, Goto
  <2>3. QED BY <2>1, <2>2
<1>4. /\ srv' \in [Conn -> Server] /\ srv'[c].pc = "handle"
      /\ \A d \in Conn \ {c} : srv'[d] = srv[d]
      /\ \A d \in Conn : Sound(d)'
  <2>1. srv[c].cred \in Body /\ "handle" \in ServerPC
    BY <1>1 DEF Server, ServerPC
  <2>2. ~srv[c].auth /\ UNCHANGED <<cli, down>>
    BY <1>1, <1>2
  <2>3. QED BY <1>3, <2>1, <2>2, NotInSound
<1>5. Typed'
  BY <1>2, <1>4 DEF IInv, Typed
<1>6. LoginInGuard'
  BY <1>2, <1>4 DEF IInv, LoginInGuard
<1>7. \A d \in Conn : ~(srv[d].pc \in {"handle", "fetch"})
  BY <1>2, SessionAssumption DEF IInv, LockHeld
<1>8. LockHeld' /\ GlobalsAreMine'
  BY <1>2, <1>4, <1>7 DEF LockHeld, GlobalsAreMine
<1>9. QED BY <1>4, <1>5, <1>6, <1>8

LEMMA HandleKeeps ==
    ASSUME IInv, NEW c \in Conn, HandleLogin(c)
    PROVE  /\ Typed' /\ LoginInGuard' /\ LockHeld' /\ GlobalsAreMine'
           /\ \A d \in Conn : Sound(d)'
<1> DEFINE hs == Negotiated(Version[c])
<1>1. srv \in [Conn -> Server] /\ srv[c] \in Server /\ ~srv[c].auth /\ hs_lock = c
  BY DEF IInv, Typed, Sound, LockHeld, HandleLogin, HandshakeDone
<1>2. /\ srv[c].pc = "handle" /\ g_handshake_mode' = hs
      /\ g_session_key' = SessionKey(c, hs)
      /\ UNCHANGED <<th, hs_lock, cli, up, down>>
  BY DEF HandleLogin, HandshakeDone, guard
<1>3. srv' = [srv EXCEPT ![c] = [srv[c] EXCEPT !.pc = "fetch", !.cred = srv[c].cred]]
  <2>1. [srv[c] EXCEPT !.pc = "fetch"]
          = [srv[c] EXCEPT !.pc = "fetch", !.cred = srv[c].cred]
    BY <1>1 DEF Server
  <2>2. srv' = [srv EXCEPT ![c] = [srv[c] EXCEPT !.pc = "fetch"]]
    BY <1>1 DEF HandleLogin, HandshakeDone, Goto
  <2>3. QED BY <2>1, <2>2
<1>4. /\ srv' \in [Conn -> Server] /\ srv'[c].pc = "fetch"
      /\ \A d \in Conn \ {c} : srv'[d] = srv[d]
      /\ \A d \in Conn : Sound(d)'
  <2>1. srv[c].cred \in Body /\ "fetch" \in ServerPC
    BY <1>1 DEF Server, ServerPC
  <2>2. ~srv[c].auth /\ UNCHANGED <<cli, down>>
    BY <1>1, <1>2
  <2>3. QED BY <1>3, <2>1, <2>2, NotInSound
<1>5. hs \in Handshake /\ SessionKey(c, hs) \in Key
  BY KeyTyped DEF Negotiated, Handshake
<1>6. Typed'
  BY <1>2, <1>4, <1>5 DEF IInv, Typed
<1>7. LoginInGuard' /\ LockHeld'
  BY <1>2, <1>4 DEF IInv, LoginInGuard, LockHeld
<1>8. \A d \in Conn \ {c} : srv[d].pc # "fetch"
  BY <1>1 DEF IInv, LockHeld
<1>9. GlobalsAreMine'
  BY <1>2, <1>4, <1>8 DEF GlobalsAreMine
<1>10. QED BY <1>4, <1>6, <1>7, <1>9

LEMMA FinishKeeps ==
    ASSUME IInv, NEW c \in Conn, FinishLogin(c)
    PROVE  /\ Typed' /\ LoginInGuard' /\ LockHeld' /\ GlobalsAreMine'
           /\ \A d \in Conn : Sound(d)'
<1> DEFINE hs == g_handshake_mode
           ctx == SetCrypto("AES_GCM", g_session_key)
           msg == Plain("LOGIN_ACK", AckBody(ResponseLen(hs)))
           end == [NoServer EXCEPT !.pc = "read", !.auth = TRUE, !.crypto = ctx]
           way == Append(down[c], msg)
<1>1. /\ srv \in [Conn -> Server] /\ down \in [Conn -> Seq(AnyMessage)]
      /\ down[c] \in Seq(AnyMessage) /\ Sound(c) /\ hs_lock = c
      /\ hs \in Handshake /\ g_session_key \in Key /\ g_session_key = SessionKey(c, hs)
  BY DEF IInv, Typed, LockHeld, GlobalsAreMine, FinishLogin, Finished
<1>2. WireMode(hs) = "AES_GCM"
  BY <1>1 DEF WireMode
<1>3. /\ srv[c].pc = "fetch"
      /\ srv' = [srv EXCEPT ![c] = end] /\ down' = [down EXCEPT ![c] = way]
      /\ hs_lock' = NoConn
      /\ UNCHANGED <<th, g_handshake_mode, g_session_key, cli, up>>
  BY <1>1, <1>2 DEF FinishLogin, Finished, guard
<1>4. ctx \in AnyContext /\ ctx.key = g_session_key /\ ctx.mode = "AES_GCM"
  BY <1>1, ContextSet
<1>5. AckBody(ResponseLen(hs)) \in Body /\ ClientKey(c, AckBody(ResponseLen(hs))) = SessionKey(c, hs)
  <2>1. CASE hs = "LEGACY"
    BY <2>1 DEF ResponseLen, AckBody, HandshakeOf, ClientKey, Body
  <2>2. CASE hs = "RSA_AES"
    BY <2>2 DEF ResponseLen, AckBody, HandshakeOf, ClientKey, Body
  <2>3. QED BY <1>1, <2>1, <2>2 DEF Handshake
<1>6. msg \in AnyMessage /\ msg.id = "LOGIN_ACK" /\ msg.body = AckBody(ResponseLen(hs))
  <2>1. ctx \in AnyContext
    BY <1>4
  <2> HIDE DEF ctx
  <2>2. QED BY <1>5, <2>1, MessageTyped
<1> HIDE DEF ctx, msg
<1>7. /\ end \in Server /\ end.pc = "read" /\ end.auth /\ end.crypto = ctx
  BY <1>4 DEF NoServer, Server, ServerPC, Body
<1> HIDE DEF end
<1>8. /\ way \in Seq(AnyMessage) /\ Len(way) = Len(down[c]) + 1
      /\ \A i \in 1..Len(down[c]) : way[i] = down[c][i]
      /\ way[Len(down[c]) + 1] = msg
  BY <1>1, <1>6, AppendOne
<1> HIDE DEF way
<1>9. /\ srv' \in [Conn -> Server] /\ down' \in [Conn -> Seq(AnyMessage)]
      /\ srv'[c] = end /\ down'[c] = way
      /\ \A d \in Conn \ {c} : srv'[d] = srv[d] /\ down'[d] = down[d]
  BY <1>1, <1>3, <1>7, <1>8
<1>10. ~srv[c].auth /\ cli[c].pc # "in"
  BY <1>1, <1>3 DEF Sound
<1>11. \A i \in 1..Len(down[c]) : down[c][i].id # "LOGIN_ACK"
  BY <1>1, <1>10 DEF Sound, AckTells
<1>12. \A i \in 1..Len(way) : way[i].id = "LOGIN_ACK" =>
          /\ srv'[c].auth /\ srv'[c].crypto.mode = "AES_GCM"
          /\ srv'[c].crypto.key = ClientKey(c, way[i].body)
  <2>1. \A i \in 1..Len(way) : i \in 1..Len(down[c]) \/ i = Len(down[c]) + 1
    <3>1. Len(down[c]) \in Nat
      BY <1>1, LenProperties
    <3>2. QED BY <1>8, <3>1
  <2>2. \A i \in 1..Len(way) :
            way[i].id = "LOGIN_ACK" => way[i] = msg
    BY <1>8, <1>11, <2>1
  <2>3. QED BY <1>1, <1>4, <1>5, <1>6, <1>7, <1>9, <2>2
<1>13. Sound(c)'
  BY <1>3, <1>7, <1>9, <1>10, <1>12 DEF Sound, AckTells
<1>14. \A d \in Conn : Sound(d)'
  BY <1>3, <1>9, <1>13, OneSound DEF IInv
<1>15. Typed'
  BY <1>3, <1>9 DEF IInv, Typed
<1>16. LoginInGuard'
  BY <1>3, <1>7, <1>9 DEF IInv, LoginInGuard
<1>17. \A d \in Conn : ~(srv'[d].pc \in {"handle", "fetch"})
  BY <1>1, <1>7, <1>9 DEF IInv, LockHeld
<1>18. LockHeld' /\ GlobalsAreMine'
  BY <1>3, <1>17, SessionAssumption DEF LockHeld, GlobalsAreMine
<1>19. QED BY <1>14, <1>15, <1>16, <1>18

LEMMA FailKeeps ==
    ASSUME IInv, NEW c \in Conn, FinishFails(c)
    PROVE  /\ Typed' /\ LoginInGuard' /\ LockHeld' /\ GlobalsAreMine'
           /\ \A d \in Conn : Sound(d)'
<1>1. /\ srv[c].pc = "fetch" /\ hs_lock' = NoConn /\ hs_lock = c /\ Close(c)
      /\ UNCHANGED <<th, g_handshake_mode, g_session_key>>
  BY DEF FinishFails, guard, IInv, LockHeld
<1>2. /\ srv' \in [Conn -> Server] /\ cli' \in [Conn -> ClientEnd]
      /\ up' \in [Conn -> Seq(AnyMessage)] /\ down' \in [Conn -> Seq(AnyMessage)]
      /\ \A d \in Conn : Sound(d)'
  BY <1>1, ClosedSound DEF IInv
<1>3. srv'[c].pc = "off" /\ \A d \in Conn \ {c} : srv'[d] = srv[d]
  BY <1>1 DEF IInv, Typed, Close, NoServer
<1>4. Typed'
  BY <1>1, <1>2 DEF IInv, Typed
<1>5. LoginInGuard'
  BY <1>1, <1>3 DEF IInv, LoginInGuard
<1>6. \A d \in Conn : ~(srv'[d].pc \in {"handle", "fetch"})
  BY <1>1, <1>3 DEF IInv, LockHeld
<1>7. LockHeld' /\ GlobalsAreMine'
  BY <1>1, <1>6, SessionAssumption DEF LockHeld, GlobalsAreMine
<1>8. QED BY <1>2, <1>4, <1>5, <1>7

LEMMA LoginKeeps ==
    ASSUME IInv, NEW c \in Conn, Login(c)
    PROVE  /\ Typed' /\ LoginInGuard' /\ LockHeld' /\ GlobalsAreMine'
           /\ \A d \in Conn : Sound(d)'
<1>1. th \in [Conn -> Guard!Login] /\ th[c] \in Guard!Login
  BY DEF IInv, Guard!TypeOK
<1>2. CASE CheckBlocked(c) \/ LoginWrong(c) \/ CountFailure(c)
  <2>1. UNCHANGED <<globals, ends>>
    BY <1>2 DEF CheckBlocked, LoginWrong, CountFailure
  <2>2. th[c].pc # "idle" /\ th'[c].pc # "idle" /\ \A d \in Conn \ {c} : th'[d] = th[d]
    <3>1. CASE CheckBlocked(c)
      BY <1>1, <3>1 DEF CheckBlocked, Guard!Check, Guard!Login
    <3>2. CASE LoginWrong(c)
      BY <1>1, <3>2 DEF LoginWrong, Guard!WrongPassword, Guard!Login
    <3>3. CASE CountFailure(c)
      BY <1>1, <3>3 DEF CountFailure, Guard!FailFind, Guard!Login
    <3>4. QED BY <1>2, <3>1, <3>2, <3>3
  <2>3. QED BY <2>1, <2>2, GuardOnly
<1>3. CASE LoginRefused(c) \/ LoginMalformed(c) \/ FailureCounted(c)
  <2>1. Close(c) /\ UNCHANGED globals
    BY <1>3 DEF LoginRefused, LoginMalformed, FailureCounted
  <2>2. th[c].pc # "idle" /\ th'[c].pc = "idle" /\ \A d \in Conn \ {c} : th'[d] = th[d]
    <3>1. CASE LoginRefused(c)
      BY <1>1, <3>1 DEF LoginRefused, Guard!Refuse, Guard!Login
    <3>2. CASE LoginMalformed(c)
      BY <1>1, <3>2 DEF LoginMalformed, Guard!Malformed, Guard!Login
    <3>3. CASE FailureCounted(c)
      BY <1>1, <3>3 DEF FailureCounted, Guard!FailStore, Guard!Login
    <3>4. QED BY <1>3, <3>1, <3>2, <3>3
  <2>3. QED BY <2>1, <2>2, LoginCloses
<1>4. CASE LoginRight(c)
  <2>1. /\ th[c].pc = "auth" /\ th' = [th EXCEPT ![c].pc = "idle"]
        /\ srv' = [srv EXCEPT ![c].pc = "lock", ![c].cred = "none"]
        /\ UNCHANGED <<globals, cli, up, down>>
    BY <1>4 DEF LoginRight, Guard!Success
  <2>2. th'[c].pc = "idle" /\ \A d \in Conn \ {c} : th'[d] = th[d]
    BY <1>1, <2>1 DEF Guard!Login
  <2>3. srv[c].pc = "login" /\ ~srv[c].auth /\ srv \in [Conn -> Server]
    BY <2>1 DEF IInv, LoginInGuard, Sound, Typed
  <2>4. srv' = [srv EXCEPT ![c] = [srv[c] EXCEPT !.pc = "lock", !.cred = "none"]]
    BY <2>1, <2>3
  <2>5. /\ srv' \in [Conn -> Server] /\ srv'[c].pc = "lock"
        /\ \A d \in Conn \ {c} : srv'[d] = srv[d]
        /\ \A d \in Conn : Sound(d)'
    <3>1. "lock" \in ServerPC /\ "none" \in Body
      BY DEF ServerPC, Body
    <3>2. UNCHANGED <<cli, down>>
      BY <2>1
    <3>3. ~srv[c].auth
      BY <2>3
    <3>4. QED BY <2>4, <3>1, <3>2, <3>3, NotInSound
  <2>6. Typed'
    BY <2>1, <2>5 DEF IInv, Typed, globals
  <2>7. LoginInGuard'
    BY <2>2, <2>5 DEF IInv, LoginInGuard
  <2>8. LockHeld' /\ GlobalsAreMine'
    BY <2>1, <2>3, <2>5 DEF IInv, LockHeld, GlobalsAreMine, globals
  <2>9. QED BY <2>5, <2>6, <2>7, <2>8
<1>5. QED BY <1>2, <1>3, <1>4, HandleKeeps, FinishKeeps, FailKeeps DEF Login

LEMMA StepKeeps == IInv /\ [Next]_vars => IInv'
<1> SUFFICES ASSUME IInv, [Next]_vars PROVE IInv'
  OBVIOUS
<1> DEFINE Kept == /\ Typed' /\ LoginInGuard' /\ LockHeld' /\ GlobalsAreMine'
                   /\ \A d \in Conn : Sound(d)'
<1>1. Guard!TypeOK'
  BY GuardStep, GuardTyped DEF IInv
<1>2. CASE UNCHANGED vars
  <2>1. UNCHANGED <<th, globals, ends>>
    BY <1>2 DEF vars, guard
  <2>2. Typed' /\ LoginInGuard' /\ LockHeld' /\ GlobalsAreMine'
    BY <2>1 DEF IInv, Typed, LoginInGuard, LockHeld, GlobalsAreMine, globals, ends
  <2>3. \A d \in Conn : Sound(d)'
    BY <2>1 DEF IInv, Sound, AckTells, ends
  <2>4. QED BY <1>1, <2>2, <2>3 DEF IInv
<1>3. ASSUME NEW c \in Conn, Session(c)
      PROVE  Kept
  BY <1>3, SessionKeeps, ReadLoginKeeps
<1>4. ASSUME ReaderLogin
      PROVE  Kept
  <2>1. /\ hs_lock = NoConn /\ UNCHANGED <<th, hs_lock, ends>>
        /\ g_handshake_mode' = Negotiated(301)
        /\ g_session_key' = SessionKey(NoConn, Negotiated(301))
    BY <1>4 DEF ReaderLogin, guard
  <2>2. Negotiated(301) \in Handshake
    BY DEF Negotiated, Handshake
  <2>3. Typed'
    BY <2>1, <2>2, KeyTyped DEF IInv, Typed, ends
  <2>4. LoginInGuard' /\ LockHeld'
    BY <2>1 DEF IInv, LoginInGuard, LockHeld, ends
  <2>5. GlobalsAreMine'
    <3>1. \A d \in Conn : srv[d].pc # "fetch"
      BY <2>1, SessionAssumption DEF IInv, LockHeld
    <3>2. QED BY <2>1, <3>1 DEF GlobalsAreMine, ends
  <2>6. \A d \in Conn : Sound(d)'
    BY <2>1 DEF IInv, Sound, AckTells, ends
  <2>7. QED BY <2>3, <2>4, <2>5, <2>6
<1>5. ASSUME Tick
      PROVE  Kept
  <2>1. UNCHANGED <<globals, ends>> /\ Guard!Tick
    BY <1>5 DEF Tick
  <2>2. \A d \in Conn : th'[d].pc = th[d].pc
    <3>1. th \in [Conn -> Guard!Login]
      BY DEF IInv, Guard!TypeOK
    <3>2. QED BY <2>1, <3>1 DEF Guard!Tick, Guard!Login
  <2>3. Typed' /\ LockHeld' /\ GlobalsAreMine'
    BY <2>1 DEF IInv, Typed, LockHeld, GlobalsAreMine, globals, ends
  <2>4. LoginInGuard'
    BY <2>1, <2>2 DEF IInv, LoginInGuard, ends
  <2>5. \A d \in Conn : Sound(d)'
    BY <2>1 DEF IInv, Sound, AckTells, ends
  <2>6. QED BY <2>3, <2>4, <2>5
<1>6. CASE Next
  <2>1. Kept
    <3> HIDE DEF Kept
    <3>1. ASSUME NEW c \in Conn, Client(c) \/ Login(c) \/ HandshakeLock(c)
          PROVE  Kept
      BY <3>1, ClientKeeps, LoginKeeps, LockKeeps DEF Kept
    <3>2. QED BY <1>3, <1>4, <1>5, <1>6, <3>1 DEF Next
  <2>2. QED BY <1>1, <2>1 DEF IInv
<1>7. QED BY <1>2, <1>6

\* server.c:668-696, handshake_advanced.c:22-30: whatever logins go on at the
\* same time, both ends of a session have the key of their own handshake,
\* for any number of connections.
THEOREM KeysAlwaysAgree == Spec => []KeysAgree
<1>1. IInv => KeysAgree
  BY DEF IInv, Sound, KeysAgree, InSession
<1>2. QED BY <1>1, InitHolds, StepKeeps, PTL DEF Spec

\* server.c:670-696: one login at a time is between its handshake and the
\* reading of its result, every way out of there gives the mutex back, and the
\* mode and key in the globals are then those of that login's own handshake.
THEOREM HandshakesAreAlone == Spec => [](LockHeld /\ GlobalsAreMine)
<1>1. IInv => LockHeld /\ GlobalsAreMine
  BY DEF IInv
<1>2. QED BY <1>1, InitHolds, StepKeeps, PTL DEF Spec

-----------------------------------------------------------------------------
(* The counters. *)

\* How many of the messages under way are encrypted.
Positions(way) == {i \in 1..Len(way) : Encrypted(way[i])}

LEMMA PositionsFinite ==
    ASSUME NEW T, NEW s \in Seq(T)
    PROVE  /\ IsFiniteSet(Positions(s)) /\ Under(s) \in Nat
           /\ Under(s) = Cardinality(Positions(s))
<1>1. Len(s) \in Nat
  BY LenProperties
<1>2. IsFiniteSet(1..Len(s))
  BY <1>1, FS_Interval
<1>3. IsFiniteSet(Positions(s))
  BY <1>2, FS_Subset DEF Positions
<1>4. Under(s) = Cardinality(Positions(s))
  BY DEF Under, Positions
<1>5. QED BY <1>3, <1>4, FS_CardinalityType

LEMMA UnderNone == Under(<<>>) = 0
<1>1. Len(<<>>) = 0
  BY EmptySeq
<1>2. {i \in 1..Len(<<>>) : Encrypted(<<>>[i])} = {}
  BY <1>1
<1>3. QED BY <1>2, FS_EmptySet DEF Under

LEMMA UnderAppend ==
    ASSUME NEW T, NEW s \in Seq(T), NEW m \in T
    PROVE  Under(Append(s, m)) = IF Encrypted(m) THEN Under(s) + 1 ELSE Under(s)
<1> DEFINE r == Append(s, m)
           n == Len(s) + 1
<1>1. Len(s) \in Nat /\ n \in Nat /\ n \notin 1..Len(s)
  BY LenProperties
<1>2. /\ r \in Seq(T) /\ Len(r) = n /\ r[n] = m
      /\ \A i \in 1..Len(s) : r[i] = s[i]
  BY AppendOne
<1> HIDE DEF r
<1>3. Positions(r) = Positions(s) \cup (IF Encrypted(m) THEN {n} ELSE {})
  <2>1. 1..Len(r) = (1..Len(s)) \cup {n}
    BY <1>1, <1>2
  <2>2. QED BY <1>2, <2>1 DEF Positions
<1>4. n \notin Positions(s)
  BY <1>1 DEF Positions
<1>5. /\ IsFiniteSet(Positions(s)) /\ Under(s) = Cardinality(Positions(s))
      /\ Under(r) = Cardinality(Positions(r))
  BY <1>2, PositionsFinite
<1>6. Cardinality(Positions(s) \cup {n}) = Cardinality(Positions(s)) + 1
  BY <1>4, <1>5, FS_AddElement
<1>7. CASE Encrypted(m)
  BY <1>3, <1>5, <1>6, <1>7 DEF r
<1>8. CASE ~Encrypted(m)
  BY <1>3, <1>5, <1>8 DEF r
<1>9. QED BY <1>7, <1>8

LEMMA UnderTail ==
    ASSUME NEW T, NEW s \in Seq(T), s # <<>>
    PROVE  Under(s) = IF Encrypted(Head(s)) THEN Under(Tail(s)) + 1 ELSE Under(Tail(s))
<1> DEFINE r == Tail(s)
           f == [i \in Positions(r) |-> i + 1]
           B == Positions(s) \ {1}
<1>1. /\ Len(s) \in Nat /\ Len(r) \in Nat /\ Len(r) = Len(s) - 1
      /\ r \in Seq(T) /\ Head(s) = s[1] /\ 1 \in 1..Len(s)
      /\ \A i \in 1..Len(r) : r[i] = s[i + 1] /\ i + 1 \in 1..Len(s)
  BY LenProperties, DropOne
<1> HIDE DEF r
<1>2. /\ IsFiniteSet(Positions(r)) /\ Under(r) = Cardinality(Positions(r))
      /\ IsFiniteSet(Positions(s)) /\ Under(s) = Cardinality(Positions(s))
  BY <1>1, PositionsFinite
<1>3. Positions(r) \subseteq Nat /\ \A i \in Positions(r) : f[i] = i + 1
  BY DEF Positions
<1>4. f \in [Positions(r) -> B]
  BY <1>1 DEF Positions
<1>5. \A x, y \in Positions(r) : f[x] = f[y] => x = y
  BY <1>3
<1>6. \A b \in B : \E i \in Positions(r) : f[i] = b
  <2>1. TAKE b \in B
  <2>2. b - 1 \in 1..Len(r) /\ Encrypted(s[b]) /\ b = (b - 1) + 1
    BY <1>1 DEF Positions
  <2>3. b - 1 \in Positions(r)
    BY <1>1, <2>2 DEF Positions
  <2>4. QED BY <1>3, <2>2, <2>3
<1> HIDE DEF f
<1>7. ExistsBijection(Positions(r), B)
  <2>1. f \in Bijection(Positions(r), B)
    BY <1>4, <1>5, <1>6, Fun_IsBij
  <2>2. QED BY <2>1 DEF ExistsBijection
<1>8. Cardinality(B) = Cardinality(Positions(r)) /\ IsFiniteSet(B)
  BY <1>2, <1>7, FS_Bijection
<1>9. CASE Encrypted(Head(s))
  <2>1. 1 \in Positions(s)
    BY <1>1, <1>9 DEF Positions
  <2>2. Cardinality(B) = Cardinality(Positions(s)) - 1
    BY <1>2, <2>1, FS_RemoveElement
  <2>3. Cardinality(Positions(s)) \in Nat /\ Cardinality(B) \in Nat
    BY <1>2, <1>8, FS_CardinalityType
  <2>4. QED BY <1>2, <1>8, <1>9, <2>2, <2>3 DEF r
<1>10. CASE ~Encrypted(Head(s))
  <2>1. B = Positions(s)
    BY <1>1, <1>10 DEF Positions
  <2>2. QED BY <1>2, <1>8, <1>10, <2>1 DEF r
<1>11. QED BY <1>9, <1>10

\* What clients send: the guard of a login's body, and that only a payload
\* is encrypted.
FromClient(m) ==
    /\ m.id = "LOGIN" => m.body \in Credentials
    /\ Encrypted(m) => HasPayload(m)
    /\ m.n <= MaxNumber

\* A connection with ends s and k, and messages u and w under way.  A session
\* is under GCM, before it nothing is; the server has sent nothing that is
\* encrypted, since it cannot build a control word under GCM; a client that
\* is not let in yet has sent nothing that is, and what is under way to it is
\* its acknowledgement at most; one that is in is ahead of the server by what
\* is under way.
Steps(s, k, u, w) ==
    /\ s.auth => s.crypto.mode = "AES_GCM" /\ s.crypto.key # NoKey
    /\ ~s.auth => s.crypto = ResetCrypto /\ w = <<>>
    /\ s.pc = "solve" => s.auth
    /\ s.pc = "off" => k = NoClient /\ u = <<>>
    /\ s.cred \in Credentials \cup {"none"}
    /\ s.crypto.tx = 0 /\ k.crypto.rx = 0
    /\ k.pc \in {"off", "new", "wait"} =>
          k.crypto = ResetCrypto /\ s.crypto.rx = 0 /\ Under(u) = 0
    /\ k.pc = "in" => w = <<>> /\ k.crypto.tx = s.crypto.rx + Under(u)
    /\ s.crypto.rx + Under(u) <= MaxNumber /\ k.crypto.tx <= MaxNumber
    /\ \A i \in 1..Len(u) : FromClient(u[i])
    /\ Len(w) <= 1 /\ \A i \in 1..Len(w) : w[i].key = NoKey /\ w[i].n = 0

StepsInv == \A c \in Conn : Steps(srv[c], cli[c], up[c], down[c])

\* The fields of a context that is reset or set, and of a closed connection.
LEMMA ContextFields ==
    /\ ResetCrypto.mode = "NONE" /\ ResetCrypto.key = NoKey
    /\ ResetCrypto.tx = 0 /\ ResetCrypto.rx = 0
    /\ \A k : /\ SetCrypto("AES_GCM", k).mode = "AES_GCM"
              /\ SetCrypto("AES_GCM", k).key = k
              /\ SetCrypto("AES_GCM", k).tx = 0 /\ SetCrypto("AES_GCM", k).rx = 0
BY DEF ResetCrypto, SetCrypto

LEMMA ClosedSteps == Steps(NoServer, NoClient, <<>>, <<>>)
<1>1. Len(<<>>) = 0 /\ Under(<<>>) = 0
  BY UnderNone, EmptySeq
<1>2. /\ NoServer.auth = FALSE /\ NoServer.crypto = ResetCrypto /\ NoServer.pc = "off"
      /\ NoServer.cred = "none" /\ NoClient.pc = "off" /\ NoClient.crypto = ResetCrypto
  BY DEF NoServer, NoClient
<1>3. MaxNumber \in Nat
  BY SessionAssumption
<1>4. QED BY <1>1, <1>2, <1>3, ContextFields DEF Steps

\* A message that the server takes is counted when it was encrypted.
LEMMA TakenCounted ==
    ASSUME NEW s \in Server, NEW u \in Seq(AnyMessage), u # <<>>,
           s.auth => s.crypto.mode = "AES_GCM" /\ s.crypto.key # NoKey,
           ~s.auth => s.crypto = ResetCrypto,
           \A i \in 1..Len(u) : FromClient(u[i]),
           CanParse(s.crypto, Head(u))
    PROVE  /\ Parsed(s.crypto, Head(u)) \in AnyContext
           /\ Parsed(s.crypto, Head(u)).mode = s.crypto.mode
           /\ Parsed(s.crypto, Head(u)).key = s.crypto.key
           /\ Parsed(s.crypto, Head(u)).tx = s.crypto.tx
           /\ s.auth => Parsed(s.crypto, Head(u)).rx + Under(Tail(u))
                          = s.crypto.rx + Under(u)
           /\ ~s.auth => /\ Parsed(s.crypto, Head(u)) = s.crypto
                         /\ Under(Tail(u)) <= Under(u)
           /\ Tail(u) \in Seq(AnyMessage)
           /\ \A i \in 1..Len(Tail(u)) : FromClient(Tail(u)[i])
           /\ FromClient(Head(u))
<1> DEFINE m == Head(u)
           ctx == s.crypto
           r == Tail(u)
<1>1. /\ m \in AnyMessage /\ r \in Seq(AnyMessage) /\ FromClient(m)
      /\ \A i \in 1..Len(r) : FromClient(r[i])
  BY DropOne
<1>2. /\ Under(u) = IF Encrypted(m) THEN Under(r) + 1 ELSE Under(r)
      /\ Under(u) \in Nat /\ Under(r) \in Nat
  BY <1>1, UnderTail, PositionsFinite
<1>3. ctx \in AnyContext
  BY DEF Server
<1>4. /\ Parsed(ctx, m) \in AnyContext /\ Parsed(ctx, m).mode = ctx.mode
      /\ Parsed(ctx, m).key = ctx.key /\ Parsed(ctx, m).tx = ctx.tx
  BY <1>3 DEF Parsed, Received, AnyContext
<1>5. ASSUME s.auth
      PROVE  Parsed(ctx, m).rx + Under(r) = ctx.rx + Under(u)
  <2>1. HasPayload(m) <=> Encrypted(m)
    BY <1>1, <1>5 DEF CanParse, CanDecrypt, Opens, Encrypted, FromClient
  <2>2. /\ HasPayload(m) => Parsed(ctx, m).rx = ctx.rx + 1
        /\ ~HasPayload(m) => Parsed(ctx, m).rx = ctx.rx
    BY <1>3, <1>5 DEF Parsed, Received, AnyContext
  <2>3. ctx.rx \in Nat
    BY <1>3 DEF AnyContext
  <2> HIDE DEF m, r, ctx
  <2>4. QED BY <1>2, <2>1, <2>2, <2>3
<1>6. ASSUME ~s.auth
      PROVE  Parsed(ctx, m) = ctx /\ Under(r) <= Under(u)
  <2>1. Parsed(ctx, m) = ctx
    BY <1>6, ContextFields DEF Parsed, Received
  <2>2. QED BY <1>2, <2>1
<1>7. QED BY <1>1, <1>4, <1>5, <1>6

\* What the server does between opening and closing a connection: it goes
\* on, having taken a message or not.
LEMMA ServerSteps ==
    ASSUME NEW s \in Server, NEW k \in ClientEnd,
           NEW u \in Seq(AnyMessage), NEW w \in Seq(AnyMessage),
           NEW t \in Server, NEW v \in Seq(AnyMessage),
           Steps(s, k, u, w), k.pc = "in" => s.auth,
           t.auth = s.auth, t.crypto.mode = s.crypto.mode,
           t.crypto.key = s.crypto.key, t.crypto.tx = s.crypto.tx,
           s.auth => t.crypto.rx + Under(v) = s.crypto.rx + Under(u),
           ~s.auth => t.crypto = s.crypto /\ Under(v) <= Under(u),
           t.pc # "off", t.pc = "solve" => s.auth,
           t.cred \in Credentials \cup {"none"},
           \A i \in 1..Len(v) : FromClient(v[i])
    PROVE  Steps(t, k, v, w)
<1>1. /\ Under(u) \in Nat /\ Under(v) \in Nat
      /\ s.crypto.rx \in Nat /\ t.crypto.rx \in Nat
  BY PositionsFinite DEF Server, AnyContext
<1>2. k.pc \in {"off", "new", "wait"} =>
         k.crypto = ResetCrypto /\ t.crypto.rx = 0 /\ Under(v) = 0
  BY <1>1 DEF Steps
<1>3. k.pc = "in" => w = <<>> /\ k.crypto.tx = t.crypto.rx + Under(v)
  BY <1>1 DEF Steps
<1>4. t.crypto.rx + Under(v) <= MaxNumber
  BY <1>1, SessionAssumption DEF Steps
<1>5. QED BY <1>1, <1>2, <1>3, <1>4 DEF Steps

\* A step of connection c leaves the others as they are, and keeps its own
\* counters.
OthersSame(c) ==
    \A d \in Conn \ {c} : /\ srv'[d] = srv[d] /\ cli'[d] = cli[d]
                          /\ up'[d] = up[d] /\ down'[d] = down[d]
StepKept(c) == OthersSame(c) /\ Steps(srv'[c], cli'[c], up'[c], down'[c])

LEMMA EndsTyped ==
    ASSUME IInv, NEW c \in Conn
    PROVE  /\ srv \in [Conn -> Server] /\ cli \in [Conn -> ClientEnd]
           /\ up \in [Conn -> Seq(AnyMessage)] /\ down \in [Conn -> Seq(AnyMessage)]
           /\ srv[c] \in Server /\ cli[c] \in ClientEnd
           /\ up[c] \in Seq(AnyMessage) /\ down[c] \in Seq(AnyMessage)
           /\ srv[c].crypto \in AnyContext /\ cli[c].crypto \in AnyContext
           /\ Under(up[c]) \in Nat
           /\ cli[c].pc = "in" => /\ srv[c].auth
                                  /\ srv[c].crypto.key = cli[c].crypto.key
                                  /\ srv[c].crypto.mode = cli[c].crypto.mode
           /\ srv[c].pc \in {"login", "lock", "handle", "fetch"} => ~srv[c].auth
<1>1. /\ srv \in [Conn -> Server] /\ cli \in [Conn -> ClientEnd]
      /\ up \in [Conn -> Seq(AnyMessage)] /\ down \in [Conn -> Seq(AnyMessage)]
  BY DEF IInv, Typed
<1>2. /\ srv[c] \in Server /\ cli[c] \in ClientEnd
      /\ up[c] \in Seq(AnyMessage) /\ down[c] \in Seq(AnyMessage)
  BY <1>1
<1>3. srv[c].crypto \in AnyContext /\ cli[c].crypto \in AnyContext
  BY <1>2 DEF Server, ClientEnd
<1>4. Under(up[c]) \in Nat
  BY <1>2, PositionsFinite
<1>5. Sound(c)
  BY DEF IInv
<1>6. QED BY <1>1, <1>2, <1>3, <1>4, <1>5 DEF Sound

LEMMA CloseSteps ==
    ASSUME IInv, NEW c \in Conn, Close(c)
    PROVE  StepKept(c)
<1>1. /\ srv \in [Conn -> Server] /\ cli \in [Conn -> ClientEnd]
      /\ up \in [Conn -> Seq(AnyMessage)] /\ down \in [Conn -> Seq(AnyMessage)]
  BY EndsTyped
<1>2. /\ srv'[c] = NoServer /\ cli'[c] = NoClient /\ up'[c] = <<>> /\ down'[c] = <<>>
      /\ OthersSame(c)
  BY <1>1 DEF Close, OthersSame
<1>3. QED BY <1>2, ClosedSteps DEF StepKept

\* The client sends m, encrypted under the key of its session or, before it
\* is let in, in clear.
LEMMA SendSteps ==
    ASSUME NEW s \in Server, NEW k \in ClientEnd,
           NEW u \in Seq(AnyMessage), NEW w,
           Steps(s, k, u, w), k.pc \in {"new", "in"},
           k.pc = "in" => /\ s.auth /\ s.crypto.key = k.crypto.key
                          /\ s.crypto.mode = k.crypto.mode,
           k.crypto.tx < MaxNumber,
           NEW id \in {"ECM", "EMM"},
           NEW j \in ClientEnd, j.pc = k.pc, j.crypto = Sent(k.crypto)
    PROVE  Steps(s, j, Append(u, Message(k.crypto, id, "section")), w)
<1> DEFINE ctx == k.crypto
           m == Message(ctx, id, "section")
           v == Append(u, m)
<1>1. /\ ctx \in AnyContext /\ s.crypto \in AnyContext /\ s.crypto.rx \in Nat
      /\ ctx.tx \in Nat /\ MaxNumber \in Nat /\ Under(u) \in Nat
  BY SessionAssumption, PositionsFinite DEF ClientEnd, Server, AnyContext
<1>2. m \in AnyMessage
  <2> HIDE DEF ctx
  <2>1. QED BY <1>1, MessageTyped DEF Body
<1>3. m.id = id /\ HasPayload(m) /\ m.n <= MaxNumber
  BY <1>1 DEF Message, Plain, HasPayload
<1>4. /\ Encrypted(m) <=> k.pc = "in"
      /\ k.pc = "new" => j.crypto = ctx
      /\ k.pc = "in" => j.crypto.tx = ctx.tx + 1
      /\ j.crypto.rx = ctx.rx
  <2>1. CASE k.pc = "in"
    <3>1. ctx.mode = "AES_GCM" /\ ctx.key # NoKey
      BY <2>1 DEF Steps
    <3>2. QED BY <1>1, <2>1, <3>1 DEF Message, Encrypted, Sent, AnyContext
  <2>2. CASE k.pc = "new"
    <3>1. ctx.mode = "NONE"
      BY <2>2, ContextFields DEF Steps
    <3>2. QED BY <2>2, <3>1 DEF Message, Plain, Encrypted, Sent
  <2>3. QED BY <2>1, <2>2
<1> HIDE DEF m
<1>5. /\ v \in Seq(AnyMessage) /\ Len(v) = Len(u) + 1 /\ Len(u) \in Nat
      /\ \A i \in 1..Len(u) : v[i] = u[i]
      /\ v[Len(u) + 1] = m
  BY <1>2, AppendOne, LenProperties
<1>6. Under(v) = IF Encrypted(m) THEN Under(u) + 1 ELSE Under(u)
  BY <1>2, UnderAppend
<1> HIDE DEF v
<1>7. \A i \in 1..Len(v) : FromClient(v[i])
  <2>1. FromClient(m)
    BY <1>3 DEF FromClient
  <2>2. \A i \in 1..Len(v) : i \in 1..Len(u) \/ i = Len(u) + 1
    BY <1>5
  <2>3. QED BY <1>5, <2>1, <2>2 DEF Steps
<1>8. Steps(s, j, v, w)
  <2>1. CASE k.pc = "in"
    <3>1. ctx.tx = s.crypto.rx + Under(u) /\ w = <<>> /\ s.pc # "off"
      BY <2>1 DEF Steps, NoClient
    <3>2. /\ j.crypto.tx = s.crypto.rx + Under(v)
          /\ s.crypto.rx + Under(v) <= MaxNumber /\ j.crypto.tx <= MaxNumber
      <4> DEFINE t == ctx.tx
                 x == s.crypto.rx
                 n == Under(u)
                 t1 == j.crypto.tx
                 n1 == Under(v)
      <4>1. n1 = n + 1 /\ t1 = t + 1
        BY <1>4, <1>6, <2>1
      <4>2. t = x + n /\ t < MaxNumber
        BY <3>1
      <4>3. t \in Nat /\ x \in Nat /\ n \in Nat /\ MaxNumber \in Nat
        BY <1>1
      <4> HIDE DEF t, x, n, t1, n1
      <4>4. t1 = x + n1 /\ x + n1 <= MaxNumber /\ t1 <= MaxNumber
        BY <4>1, <4>2, <4>3
      <4>5. QED BY <4>4 DEF t1, x, n1
    <3>3. j.crypto.rx = 0
      BY <1>4 DEF Steps
    <3>4. QED BY <1>7, <2>1, <3>1, <3>2, <3>3 DEF Steps
  <2>2. CASE k.pc = "new"
    BY <1>1, <1>4, <1>6, <1>7, <2>2 DEF Steps, NoClient
  <2>3. QED BY <2>1, <2>2
<1>9. QED BY <1>8 DEF v, m

\* The client sends a message in clear.
LEMMA ClearSteps ==
    ASSUME NEW s, NEW k \in ClientEnd, NEW j \in ClientEnd,
           NEW u \in Seq(AnyMessage), NEW w, NEW m \in AnyMessage,
           Steps(s, k, u, w), k.pc \in {"new", "in"}, j.crypto = k.crypto,
           j.pc = k.pc \/ (k.pc = "new" /\ j.pc = "wait"),
           ~Encrypted(m), m.id = "LOGIN" => m.body \in Credentials, m.n = 0
    PROVE  Steps(s, j, Append(u, m), w)
<1> DEFINE v == Append(u, m)
<1>1. /\ v \in Seq(AnyMessage) /\ Len(v) = Len(u) + 1 /\ Len(u) \in Nat
      /\ \A i \in 1..Len(u) : v[i] = u[i]
      /\ v[Len(u) + 1] = m
  BY AppendOne, LenProperties
<1>2. Under(v) = Under(u)
  BY UnderAppend
<1> HIDE DEF v
<1>3. \A i \in 1..Len(v) : FromClient(v[i])
  <2>1. FromClient(m)
    BY SessionAssumption DEF FromClient
  <2>2. \A i \in 1..Len(v) : i \in 1..Len(u) \/ i = Len(u) + 1
    BY <1>1
  <2>3. QED BY <1>1, <2>1, <2>2 DEF Steps
<1>4. s.pc # "off"
  BY DEF Steps, NoClient
<1>5. Steps(s, j, v, w)
  BY <1>2, <1>3, <1>4 DEF Steps
<1>6. QED BY <1>5 DEF v

\* The client takes its acknowledgement, the only message that it gets.
LEMMA ReceiveSteps ==
    ASSUME NEW s \in Server, NEW k \in ClientEnd, NEW c, NEW j,
           NEW u \in Seq(AnyMessage), NEW w \in Seq(AnyMessage),
           Steps(s, k, u, w), k.pc \in {"wait", "in"}, w # <<>>,
           j = IF Head(w).id = "LOGIN_ACK"
               THEN [k EXCEPT !.pc = "in",
                              !.crypto = SetCrypto("AES_GCM", ClientKey(c, Head(w).body))]
               ELSE IF CanParse(k.crypto, Head(w))
               THEN [k EXCEPT !.crypto = Parsed(k.crypto, Head(w))]
               ELSE [k EXCEPT !.pc = "gone"]
    PROVE  Steps(s, j, u, Tail(w))
<1>1. k.pc = "wait" /\ k.crypto = ResetCrypto /\ s.crypto.rx = 0 /\ Under(u) = 0
  BY DEF Steps
<1>2. Tail(w) = <<>> /\ Len(<<>>) = 0
  <2>1. Tail(w) \in Seq(AnyMessage) /\ Len(Tail(w)) = Len(w) - 1 /\ Len(w) \in Nat \ {0}
    BY DropOne, EmptySeq
  <2>2. Len(w) <= 1
    BY DEF Steps
  <2>3. Len(Tail(w)) = 0
    BY <2>1, <2>2
  <2>4. QED BY <2>1, <2>3, EmptySeq
<1>3. MaxNumber \in Nat
  BY SessionAssumption
<1>4. s.pc # "off"
  BY <1>1 DEF Steps, NoClient
<1>5. CASE Head(w).id = "LOGIN_ACK"
  <2> DEFINE x == SetCrypto("AES_GCM", ClientKey(c, Head(w).body))
  <2>1. x.tx = 0 /\ x.rx = 0
    BY ContextFields
  <2> HIDE DEF x
  <2>2. j = [k EXCEPT !.pc = "in", !.crypto = x]
    BY <1>5 DEF x
  <2>3. j.pc = "in" /\ j.crypto = x
    BY <2>2 DEF ClientEnd
  <2>4. QED BY <1>1, <1>2, <1>3, <1>4, <2>1, <2>3 DEF Steps
<1>6. CASE Head(w).id # "LOGIN_ACK"
  <2>1. CanParse(k.crypto, Head(w)) /\ Parsed(k.crypto, Head(w)) = k.crypto
    BY <1>1, ContextFields DEF CanParse, CanDecrypt, Parsed, Received
  <2>2. j = [k EXCEPT !.crypto = k.crypto]
    BY <1>6, <2>1
  <2>3. j.pc = "wait" /\ j.crypto = k.crypto
    BY <1>1, <2>2 DEF ClientEnd
  <2>4. QED BY <1>1, <1>2, <1>3, <1>4, <2>3 DEF Steps
<1>7. QED BY <1>5, <1>6

LEMMA ClientStepsKept ==
    ASSUME IInv, StepsInv, NEW c \in Conn, Client(c)
    PROVE  StepKept(c)
<1> DEFINE k == cli[c]
<1>1. /\ srv \in [Conn -> Server] /\ cli \in [Conn -> ClientEnd]
      /\ up \in [Conn -> Seq(AnyMessage)] /\ down \in [Conn -> Seq(AnyMessage)]
      /\ srv[c] \in Server /\ k \in ClientEnd /\ k.crypto \in AnyContext
      /\ up[c] \in Seq(AnyMessage) /\ down[c] \in Seq(AnyMessage)
      /\ k.pc = "in" => /\ srv[c].auth /\ srv[c].crypto.key = k.crypto.key
                        /\ srv[c].crypto.mode = k.crypto.mode
      /\ Steps(srv[c], k, up[c], down[c])
  BY EndsTyped DEF StepsInv
<1>2. ASSUME Connect(c)
      PROVE  StepKept(c)
  <2> DEFINE s == [srv[c] EXCEPT !.pc = "read"]
             j == [k EXCEPT !.pc = "new"]
  <2>1. srv' = [srv EXCEPT ![c] = s] /\ cli' = [cli EXCEPT ![c] = j]
        /\ srv[c].pc = "off" /\ UNCHANGED <<up, down>>
    BY <1>1, <1>2 DEF Connect
  <2>2. /\ s.pc = "read" /\ s.auth = srv[c].auth /\ s.crypto = srv[c].crypto
        /\ s.cred = srv[c].cred
        /\ j.pc = "new" /\ j.crypto = k.crypto
    BY <1>1 DEF Server, ClientEnd
  <2> HIDE DEF s, j
  <2>3. srv'[c] = s /\ cli'[c] = j /\ up'[c] = up[c] /\ down'[c] = down[c] /\ OthersSame(c)
    BY <1>1, <2>1 DEF OthersSame
  <2>4. k.pc = "off"
    BY <1>1, <2>1 DEF Steps, NoClient
  <2>5. Steps(s, j, up[c], down[c])
    BY <1>1, <2>1, <2>2, <2>4 DEF Steps
  <2>6. QED BY <2>3, <2>5 DEF StepKept
<1>3. ASSUME NEW cred \in Credentials, ClientLogin(c, cred)
      PROVE  StepKept(c)
  <2> DEFINE j == [k EXCEPT !.pc = "wait"]
             m == Plain("LOGIN", cred)
  <2>1. /\ cli' = [cli EXCEPT ![c] = j] /\ up' = [up EXCEPT ![c] = Append(up[c], m)]
        /\ k.pc = "new" /\ UNCHANGED <<srv, down>>
    BY <1>1, <1>3 DEF ClientLogin
  <2>2. j \in ClientEnd /\ j.pc = "wait" /\ j.crypto = k.crypto
    BY <1>1 DEF ClientEnd, ClientPC
  <2>3. m \in AnyMessage /\ ~Encrypted(m) /\ m.body = cred /\ m.n = 0
    <3>1. m \in AnyMessage
      BY <1>1, MessageTyped DEF Body
    <3>2. QED BY <3>1 DEF Plain, Encrypted
  <2> HIDE DEF j, m
  <2>4. Steps(srv[c], j, Append(up[c], m), down[c])
    BY <1>1, <2>1, <2>2, <2>3, ClearSteps
  <2>5. /\ srv'[c] = srv[c] /\ cli'[c] = j /\ up'[c] = Append(up[c], m)
        /\ down'[c] = down[c] /\ OthersSame(c)
    BY <1>1, <2>1 DEF OthersSame
  <2>6. QED BY <2>4, <2>5 DEF StepKept
<1>4. ASSUME NEW id \in {"ECM", "EMM"}, ClientSend(c, id)
      PROVE  StepKept(c)
  <2> DEFINE j == [k EXCEPT !.crypto = Sent(k.crypto)]
             v == Append(up[c], Message(k.crypto, id, "section"))
  <2>1. /\ cli' = [cli EXCEPT ![c] = j] /\ up' = [up EXCEPT ![c] = v]
        /\ k.pc \in {"new", "in"} /\ k.crypto.tx < MaxNumber /\ UNCHANGED <<srv, down>>
    BY <1>1, <1>4 DEF ClientSend
  <2>2. j \in ClientEnd /\ j.pc = k.pc /\ j.crypto = Sent(k.crypto)
    <3>1. Sent(k.crypto) \in AnyContext
      BY <1>1, ContextKept
    <3>2. QED BY <1>1, <3>1 DEF ClientEnd
  <2> HIDE DEF j
  <2>3. Steps(srv[c], j, v, down[c])
    <3> HIDE DEF k
    <3>1. QED BY <1>1, <2>1, <2>2, SendSteps
  <2> HIDE DEF v
  <2>4. /\ srv'[c] = srv[c] /\ cli'[c] = j /\ up'[c] = v
        /\ down'[c] = down[c] /\ OthersSame(c)
    BY <1>1, <2>1 DEF OthersSame
  <2>5. QED BY <2>3, <2>4 DEF StepKept
<1>5. ASSUME ClientKeepalive(c)
      PROVE  StepKept(c)
  <2> DEFINE m == Plain("KEEPALIVE", "none")
  <2>1. /\ up' = [up EXCEPT ![c] = Append(up[c], m)]
        /\ k.pc = "in" /\ UNCHANGED <<srv, cli, down>>
    BY <1>1, <1>5 DEF ClientKeepalive, Bare
  <2>2. m \in AnyMessage /\ ~Encrypted(m) /\ m.id = "KEEPALIVE" /\ m.n = 0
    <3>1. m \in AnyMessage
      BY <1>1, MessageTyped DEF Body
    <3>2. QED BY <3>1 DEF Plain, Encrypted
  <2> HIDE DEF m
  <2>3. Steps(srv[c], k, Append(up[c], m), down[c])
    BY <1>1, <2>1, <2>2, ClearSteps
  <2>4. /\ srv'[c] = srv[c] /\ cli'[c] = k /\ up'[c] = Append(up[c], m)
        /\ down'[c] = down[c] /\ OthersSame(c)
    BY <1>1, <2>1 DEF OthersSame
  <2>5. QED BY <2>3, <2>4 DEF StepKept
<1>6. ASSUME ClientReceive(c)
      PROVE  StepKept(c)
  <2> DEFINE msg == Head(down[c])
             j == IF msg.id = "LOGIN_ACK"
                  THEN [k EXCEPT !.pc = "in",
                            !.crypto = SetCrypto("AES_GCM", ClientKey(c, msg.body))]
                  ELSE IF CanParse(k.crypto, msg)
                  THEN [k EXCEPT !.crypto = Parsed(k.crypto, msg)]
                  ELSE [k EXCEPT !.pc = "gone"]
  <2>1. /\ down' = [down EXCEPT ![c] = Tail(down[c])] /\ UNCHANGED <<srv, up>>
        /\ down[c] # <<>> /\ k.pc \in {"wait", "in"}
    BY <1>1, <1>6 DEF ClientReceive
  <2>2. cli' = [cli EXCEPT ![c] = j]
    BY <1>6, <1>1, Zenon DEF ClientReceive
  <2>3. Steps(srv[c], j, up[c], Tail(down[c]))
    BY <1>1, <2>1, ReceiveSteps
  <2> HIDE DEF j
  <2>4. /\ srv'[c] = srv[c] /\ cli'[c] = j /\ up'[c] = up[c]
        /\ down'[c] = Tail(down[c]) /\ OthersSame(c)
    BY <1>1, <2>1, <2>2 DEF OthersSame
  <2>5. QED BY <2>3, <2>4 DEF StepKept
<1>7. ASSUME ClientLeaves(c)
      PROVE  StepKept(c)
  <2> DEFINE j == [NoClient EXCEPT !.pc = "gone"]
  <2>1. /\ cli' = [cli EXCEPT ![c] = j] /\ down' = [down EXCEPT ![c] = <<>>]
        /\ UNCHANGED <<srv, up>> /\ k.pc # "off"
    BY <1>7 DEF ClientLeaves
  <2>2. j.pc = "gone" /\ j.crypto.tx = 0 /\ j.crypto.rx = 0 /\ Len(<<>>) = 0
    BY ContextFields, EmptySeq DEF NoClient
  <2>3. srv[c].pc # "off" /\ MaxNumber \in Nat
    BY <1>1, <2>1, SessionAssumption DEF Steps, NoClient
  <2> HIDE DEF j
  <2>4. Steps(srv[c], j, up[c], <<>>)
    BY <1>1, <2>2, <2>3 DEF Steps
  <2>5. /\ srv'[c] = srv[c] /\ cli'[c] = j /\ up'[c] = up[c]
        /\ down'[c] = <<>> /\ OthersSame(c)
    BY <1>1, <2>1 DEF OthersSame
  <2>6. QED BY <2>4, <2>5 DEF StepKept
<1>8. QED BY <1>2, <1>3, <1>4, <1>5, <1>6, <1>7 DEF Client

\* The server's end moves without taking a message.
LEMMA MovedSteps ==
    ASSUME IInv, StepsInv, NEW c \in Conn, NEW pc \in ServerPC \ {"off", "solve"},
           NEW cred \in Credentials \cup {"none"},
           srv' = [srv EXCEPT ![c] = [srv[c] EXCEPT !.pc = pc, !.cred = cred]],
           UNCHANGED <<cli, up, down>>
    PROVE  StepKept(c)
<1> DEFINE s == [srv[c] EXCEPT !.pc = pc, !.cred = cred]
<1>1. /\ srv \in [Conn -> Server] /\ cli \in [Conn -> ClientEnd]
      /\ srv[c] \in Server /\ cli[c] \in ClientEnd
      /\ up[c] \in Seq(AnyMessage) /\ down[c] \in Seq(AnyMessage)
      /\ cli[c].pc = "in" => srv[c].auth
      /\ Steps(srv[c], cli[c], up[c], down[c])
  BY EndsTyped DEF StepsInv
<1>2. /\ s \in Server /\ s.pc = pc /\ s.cred = cred /\ s.auth = srv[c].auth
      /\ s.crypto = srv[c].crypto
  BY <1>1 DEF Server, Body
<1> HIDE DEF s
<1>3. Under(up[c]) <= Under(up[c]) /\ \A i \in 1..Len(up[c]) : FromClient(up[c][i])
  BY <1>1, PositionsFinite DEF Steps
<1>4. Steps(s, cli[c], up[c], down[c])
  BY <1>1, <1>2, <1>3, ServerSteps
<1>5. /\ srv'[c] = s /\ cli'[c] = cli[c] /\ up'[c] = up[c] /\ down'[c] = down[c]
      /\ OthersSame(c)
  BY <1>1 DEF OthersSame, s
<1>6. QED BY <1>4, <1>5 DEF StepKept

\* The server's end takes a message.
LEMMA TakenSteps ==
    ASSUME IInv, StepsInv, NEW c \in Conn, NEW t \in Server, NEW id, Reading(c, id),
           srv' = [srv EXCEPT ![c] = t], up' = [up EXCEPT ![c] = Tail(up[c])],
           UNCHANGED <<cli, down>>,
           t.auth = srv[c].auth, t.crypto = AfterParse(c) \/ (~srv[c].auth /\ t.crypto = srv[c].crypto),
           t.pc # "off", t.pc = "solve" => srv[c].auth,
           t.cred = srv[c].cred \/ (id = "LOGIN" /\ t.cred = Head(up[c]).body)
    PROVE  StepKept(c)
<1> DEFINE u == up[c]
           s == srv[c]
<1>1. /\ srv \in [Conn -> Server] /\ cli \in [Conn -> ClientEnd]
      /\ up \in [Conn -> Seq(AnyMessage)]
      /\ s \in Server /\ cli[c] \in ClientEnd
      /\ u \in Seq(AnyMessage) /\ down[c] \in Seq(AnyMessage)
      /\ cli[c].pc = "in" => s.auth
      /\ Steps(s, cli[c], u, down[c])
  BY EndsTyped DEF StepsInv
<1>2. u # <<>> /\ CanParse(s.crypto, Head(u)) /\ Head(u).id = id
  BY DEF Reading
<1>3. /\ s.auth => s.crypto.mode = "AES_GCM" /\ s.crypto.key # NoKey
      /\ ~s.auth => s.crypto = ResetCrypto
      /\ \A i \in 1..Len(u) : FromClient(u[i])
      /\ s.cred \in Credentials \cup {"none"}
  BY <1>1 DEF Steps
<1>4. /\ AfterParse(c).mode = s.crypto.mode /\ AfterParse(c).key = s.crypto.key
      /\ AfterParse(c).tx = s.crypto.tx
      /\ s.auth => AfterParse(c).rx + Under(Tail(u)) = s.crypto.rx + Under(u)
      /\ ~s.auth => AfterParse(c) = s.crypto /\ Under(Tail(u)) <= Under(u)
      /\ Tail(u) \in Seq(AnyMessage)
      /\ \A i \in 1..Len(Tail(u)) : FromClient(Tail(u)[i])
      /\ FromClient(Head(u))
  BY <1>1, <1>2, <1>3, TakenCounted DEF AfterParse
<1>5. /\ t.crypto = AfterParse(c)
      /\ t.cred \in Credentials \cup {"none"}
  BY <1>2, <1>3, <1>4 DEF FromClient
<1>6. /\ t.crypto.mode = s.crypto.mode /\ t.crypto.key = s.crypto.key
      /\ t.crypto.tx = s.crypto.tx
      /\ s.auth => t.crypto.rx + Under(Tail(u)) = s.crypto.rx + Under(u)
      /\ ~s.auth => t.crypto = s.crypto /\ Under(Tail(u)) <= Under(u)
  BY <1>4, <1>5
<1>7. Steps(t, cli[c], Tail(u), down[c])
  <2> HIDE DEF u, s
  <2>1. t.auth = s.auth /\ (t.pc = "solve" => s.auth)
    BY DEF s
  <2>2. QED BY <1>1, <1>4, <1>5, <1>6, <2>1, ServerSteps
<1>8. /\ srv'[c] = t /\ cli'[c] = cli[c] /\ up'[c] = Tail(u) /\ down'[c] = down[c]
      /\ OthersSame(c)
  BY <1>1 DEF OthersSame
<1>9. QED BY <1>7, <1>8 DEF StepKept

\* cccam_ecm_send_cw cannot build its message in a session under GCM
\* (protocol.c:483): an ECM is solved and nothing is sent.
LEMMA NothingSent ==
    ASSUME NEW ctx, ctx.mode = "AES_GCM"
    PROVE  ~CanBuild(ctx, CwLen)
BY DEF CanBuild, CanEncrypt, WithTag, TagLen, CwLen

LEMMA SessionStepsKept ==
    ASSUME IInv, StepsInv, NEW c \in Conn, Session(c)
    PROVE  StepKept(c)
<1> DEFINE s == srv[c]
<1>1. /\ srv \in [Conn -> Server] /\ s \in Server /\ s.crypto \in AnyContext
      /\ Steps(s, cli[c], up[c], down[c])
      /\ up \in [Conn -> Seq(AnyMessage)] /\ up[c] \in Seq(AnyMessage)
  BY EndsTyped DEF StepsInv
<1>2. s.cred \in Credentials \cup {"none"}
  BY <1>1 DEF Steps
<1>3. \A id : Reading(c, id) =>
         /\ AfterParse(c) \in AnyContext /\ up[c] # <<>> /\ Head(up[c]) \in AnyMessage
         /\ s.pc = "read"
  BY <1>1, ContextKept, DropOne DEF AfterParse, Reading
<1>4. CASE ReadLogin(c)
  <2> DEFINE t == [s EXCEPT !.pc = "login", !.cred = Head(up[c]).body]
  <2>1. /\ srv' = [srv EXCEPT ![c] = t] /\ up' = [up EXCEPT ![c] = Tail(up[c])]
        /\ Reading(c, "LOGIN") /\ ~s.auth /\ UNCHANGED <<cli, down>>
    BY <1>1, <1>4 DEF ReadLogin
  <2>2. Head(up[c]).body \in Body
    BY <1>3, <2>1 DEF AnyMessage
  <2>3. /\ t \in Server /\ t.auth = s.auth /\ t.crypto = s.crypto
        /\ t.pc = "login" /\ t.cred = Head(up[c]).body
    BY <1>1, <2>2 DEF Server, ServerPC
  <2> HIDE DEF t
  <2>4. QED BY <2>1, <2>3, TakenSteps
<1>5. CASE ReadEcm(c)
  <2> DEFINE t == [s EXCEPT !.pc = "solve", !.crypto = AfterParse(c)]
  <2>1. /\ srv' = [srv EXCEPT ![c] = t] /\ up' = [up EXCEPT ![c] = Tail(up[c])]
        /\ Reading(c, "ECM") /\ s.auth /\ UNCHANGED <<cli, down>>
    BY <1>1, <1>5 DEF ReadEcm
  <2>2. /\ t \in Server /\ t.auth = s.auth /\ t.crypto = AfterParse(c)
        /\ t.pc = "solve" /\ t.cred = s.cred
    BY <1>1, <1>3, <2>1 DEF Server, ServerPC
  <2> HIDE DEF t
  <2>3. QED BY <2>1, <2>2, TakenSteps
<1>6. CASE ReadOther(c)
  <2> DEFINE t == [s EXCEPT !.crypto = AfterParse(c)]
  <2>1. /\ srv' = [srv EXCEPT ![c] = t] /\ up' = [up EXCEPT ![c] = Tail(up[c])]
        /\ UNCHANGED <<cli, down>>
    BY <1>1, <1>6 DEF ReadOther
  <2>2. PICK id : Reading(c, id)
    BY <1>6 DEF ReadOther
  <2>3. /\ t \in Server /\ t.auth = s.auth /\ t.crypto = AfterParse(c)
        /\ t.pc = "read" /\ t.cred = s.cred
    BY <1>1, <1>3, <2>2 DEF Server, ServerPC
  <2> HIDE DEF t
  <2>4. QED BY <2>1, <2>2, <2>3, TakenSteps
<1>7. CASE BadMessage(c) \/ EndSession(c)
  BY <1>7, CloseSteps DEF BadMessage, EndSession
<1>8. CASE Unsolved(c) \/ AnswerEcm(c)
  <2>1. s.pc = "solve" /\ s.auth /\ s.crypto.mode = "AES_GCM"
    BY <1>1, <1>8 DEF Steps, Unsolved, AnswerEcm
  <2>2. Goto(c, "read") /\ UNCHANGED <<cli, up, down>>
    BY <1>8, <2>1, NothingSent DEF Unsolved, AnswerEcm
  <2>3. srv' = [srv EXCEPT ![c] = [s EXCEPT !.pc = "read", !.cred = s.cred]]
    <3>1. [s EXCEPT !.pc = "read"] = [s EXCEPT !.pc = "read", !.cred = s.cred]
      BY <1>1 DEF Server
    <3>2. srv' = [srv EXCEPT ![c] = [s EXCEPT !.pc = "read"]]
      BY <1>1, <2>2 DEF Goto
    <3>3. QED BY <3>1, <3>2
  <2>4. "read" \in ServerPC \ {"off", "solve"}
    BY DEF ServerPC
  <2>5. QED BY <1>2, <2>2, <2>3, <2>4, MovedSteps
<1>9. QED BY <1>4, <1>5, <1>6, <1>7, <1>8 DEF Session

\* The login succeeds: the session has the key of its handshake, both
\* counters at zero, and the acknowledgement is under way.
LEMMA FinishSteps ==
    ASSUME IInv, StepsInv, NEW c \in Conn, FinishLogin(c)
    PROVE  StepKept(c)
<1> DEFINE hs == g_handshake_mode
           ctx == SetCrypto("AES_GCM", g_session_key)
           msg == Plain("LOGIN_ACK", AckBody(ResponseLen(hs)))
           s == [NoServer EXCEPT !.pc = "read", !.auth = TRUE, !.crypto = ctx]
<1>1. /\ srv \in [Conn -> Server] /\ down \in [Conn -> Seq(AnyMessage)]
      /\ cli \in [Conn -> ClientEnd] /\ cli[c] \in ClientEnd
      /\ Steps(srv[c], cli[c], up[c], down[c]) /\ srv[c].pc = "fetch"
      /\ ~srv[c].auth /\ cli[c].pc # "in" /\ Under(up[c]) \in Nat
  BY EndsTyped DEF StepsInv, FinishLogin, Finished
<1>2. hs \in Handshake /\ WireMode(hs) = "AES_GCM" /\ g_session_key = SessionKey(c, hs)
  <2>1. hs \in Handshake /\ g_session_key = SessionKey(c, hs)
    BY <1>1 DEF IInv, Typed, GlobalsAreMine
  <2>2. QED BY <2>1 DEF WireMode
<1>3. g_session_key # NoKey
  BY <1>2, KeyAssumption DEF SessionKey
<1>4. down[c] = <<>> /\ srv[c].crypto.rx = 0 /\ Under(up[c]) <= MaxNumber
  BY <1>1, ContextFields DEF Steps
<1>5. /\ srv' = [srv EXCEPT ![c] = s] /\ down' = [down EXCEPT ![c] = Append(<<>>, msg)]
      /\ UNCHANGED <<cli, up>>
  BY <1>1, <1>2, <1>4 DEF FinishLogin, Finished
<1>6. ctx.mode = "AES_GCM" /\ ctx.key = g_session_key /\ ctx.tx = 0 /\ ctx.rx = 0
  BY ContextFields
<1> HIDE DEF ctx
<1>7. s.pc = "read" /\ s.auth /\ s.crypto = ctx /\ s.cred = "none"
  BY DEF NoServer
<1>8. msg.key = NoKey /\ msg.n = 0
  BY DEF Plain
<1> HIDE DEF s, msg
<1>9. /\ Len(Append(<<>>, msg)) = 1
      /\ \A i \in 1..Len(Append(<<>>, msg)) : Append(<<>>, msg)[i] = msg
  <2>1. /\ Len(Append(<<>>, msg)) = Len(<<>>) + 1
        /\ Append(<<>>, msg)[Len(<<>>) + 1] = msg
    <3>1. <<>> \in Seq({msg}) /\ msg \in {msg}
      BY EmptySeq
    <3>2. QED BY <3>1, AppendOne
  <2>2. QED BY <2>1, EmptySeq
<1>10. Steps(s, cli[c], up[c], Append(<<>>, msg))
  BY <1>1, <1>3, <1>4, <1>6, <1>7, <1>8, <1>9 DEF Steps
<1>11. /\ srv'[c] = s /\ cli'[c] = cli[c] /\ up'[c] = up[c]
       /\ down'[c] = Append(<<>>, msg) /\ OthersSame(c)
  BY <1>1, <1>5 DEF OthersSame
<1>12. QED BY <1>10, <1>11 DEF StepKept

LEMMA LoginStepsKept ==
    ASSUME IInv, StepsInv, NEW c \in Conn, Login(c) \/ HandshakeLock(c)
    PROVE  StepKept(c) \/ UNCHANGED ends
<1>1. srv \in [Conn -> Server] /\ srv[c] \in Server
      /\ srv[c].cred \in Credentials \cup {"none"}
  BY EndsTyped DEF StepsInv, Steps
<1>2. CASE CheckBlocked(c) \/ LoginWrong(c) \/ CountFailure(c)
  BY <1>2 DEF CheckBlocked, LoginWrong, CountFailure
<1>3. CASE LoginRefused(c) \/ LoginMalformed(c) \/ FailureCounted(c) \/ FinishFails(c)
  BY <1>3, CloseSteps DEF LoginRefused, LoginMalformed, FailureCounted, FinishFails
<1>4. CASE LoginRight(c)
  <2>1. /\ srv' = [srv EXCEPT ![c] = [srv[c] EXCEPT !.pc = "lock", !.cred = "none"]]
        /\ UNCHANGED <<cli, up, down>>
    BY <1>1, <1>4 DEF LoginRight
  <2>2. "lock" \in ServerPC \ {"off", "solve"}
    BY DEF ServerPC
  <2>3. QED BY <2>1, <2>2, MovedSteps
<1>5. CASE HandshakeLock(c) \/ HandleLogin(c)
  <2>1. PICK pc \in {"handle", "fetch"} : Goto(c, pc) /\ UNCHANGED <<cli, up, down>>
    BY <1>5 DEF HandshakeLock, HandleLogin, HandshakeDone
  <2>2. srv' = [srv EXCEPT ![c] = [srv[c] EXCEPT !.pc = pc, !.cred = srv[c].cred]]
    <3>1. [srv[c] EXCEPT !.pc = pc] = [srv[c] EXCEPT !.pc = pc, !.cred = srv[c].cred]
      BY <1>1 DEF Server
    <3>2. srv' = [srv EXCEPT ![c] = [srv[c] EXCEPT !.pc = pc]]
      BY <1>1, <2>1 DEF Goto
    <3>3. QED BY <3>1, <3>2
  <2>3. pc \in ServerPC \ {"off", "solve"}
    BY DEF ServerPC
  <2>4. QED BY <1>1, <2>1, <2>2, <2>3, MovedSteps
<1>6. CASE FinishLogin(c)
  BY <1>6, FinishSteps
<1>7. QED BY <1>2, <1>3, <1>4, <1>5, <1>6 DEF Login

LEMMA InitSteps == Init => StepsInv
BY ClosedSteps DEF Init, StepsInv

LEMMA NextSteps == IInv /\ StepsInv /\ [Next]_vars => StepsInv'
<1> SUFFICES ASSUME IInv, StepsInv, [Next]_vars PROVE StepsInv'
  OBVIOUS
<1>1. ASSUME NEW c \in Conn, StepKept(c)
      PROVE  StepsInv'
  BY <1>1 DEF StepKept, OthersSame, StepsInv
<1>2. ASSUME UNCHANGED ends
      PROVE  StepsInv'
  BY <1>2 DEF ends, StepsInv
<1>3. ASSUME NEW c \in Conn, Client(c) \/ Login(c) \/ HandshakeLock(c) \/ Session(c)
      PROVE  StepsInv'
  BY <1>1, <1>2, <1>3, ClientStepsKept, LoginStepsKept, SessionStepsKept
<1>4. CASE ReaderLogin \/ Tick \/ UNCHANGED vars
  BY <1>2, <1>4 DEF ReaderLogin, Tick, vars
<1>5. QED BY <1>3, <1>4 DEF Next

LEMMA CountersInvariant == Spec => [](IInv /\ StepsInv)
BY InitHolds, StepKeeps, InitSteps, NextSteps, PTL DEF Spec

\* protocol.c:152-270: the counters of the two ends differ by the messages
\* under way, for any number of connections, messages and logins at the same
\* time; whatever a server takes from a client that has logged in can be
\* opened.
THEOREM CountersInStep == Spec => []InStep
<1>1. IInv /\ StepsInv => InStep
  <2> SUFFICES ASSUME IInv, StepsInv, NEW c \in Conn, InSession(c)
               PROVE  /\ cli[c].crypto.tx = srv[c].crypto.rx + Under(up[c])
                      /\ srv[c].crypto.tx = cli[c].crypto.rx + Under(down[c])
    BY DEF InStep
  <2>1. Steps(srv[c], cli[c], up[c], down[c]) /\ cli[c].pc = "in"
    BY DEF StepsInv, InSession
  <2>2. QED BY <2>1, UnderNone DEF Steps
<1>2. QED BY <1>1, CountersInvariant, PTL

\* The sessions are well typed: a counter does not pass the bound on the
\* messages of a session, also when the client is gone and the server reads
\* what it had sent, and what a login says is one of the three.
THEOREM SessionsTypeCorrect == Spec => []TypeOK
<1>1. IInv /\ StepsInv => TypeOK
  <2> SUFFICES ASSUME IInv, StepsInv
               PROVE  TypeOK
    OBVIOUS
  <2>1. ASSUME NEW c \in Conn
        PROVE  /\ srv[c].crypto \in Context /\ cli[c].crypto \in Context
               /\ srv[c].cred \in Credentials \cup {"none"}
               /\ up[c] \in Seq(Messages) /\ down[c] \in Seq(Messages)
    <3>1. /\ srv[c].crypto \in AnyContext /\ cli[c].crypto \in AnyContext
          /\ up[c] \in Seq(AnyMessage) /\ down[c] \in Seq(AnyMessage)
          /\ Under(up[c]) \in Nat /\ MaxNumber \in Nat
          /\ Steps(srv[c], cli[c], up[c], down[c])
      BY EndsTyped, SessionAssumption DEF StepsInv
    <3>2. /\ srv[c].crypto.rx <= MaxNumber /\ srv[c].crypto.tx <= MaxNumber
          /\ cli[c].crypto.rx <= MaxNumber /\ cli[c].crypto.tx <= MaxNumber
      BY <3>1 DEF Steps, AnyContext
    <3>3. ASSUME NEW w \in Seq(AnyMessage), \A i \in 1..Len(w) : w[i].n <= MaxNumber
          PROVE  w \in Seq(Messages)
      <4>1. \A i \in 1..Len(w) : w[i] \in Messages
        <5>1. \A i \in 1..Len(w) : w[i] \in AnyMessage
          BY ElementOfSeq
        <5>2. QED BY <3>1, <3>3, <5>1 DEF AnyMessage, Messages, Body
      <4>2. Len(w) \in Nat /\ w \in [1..Len(w) -> AnyMessage]
        BY LenProperties
      <4>3. w \in [1..Len(w) -> Messages]
        BY <4>1, <4>2
      <4>4. QED BY <4>2, <4>3, SeqDef
    <3>4. \A i \in 1..Len(up[c]) : up[c][i].n <= MaxNumber
      BY <3>1 DEF Steps, FromClient
    <3>5. \A i \in 1..Len(down[c]) : down[c][i].n <= MaxNumber
      BY <3>1 DEF Steps
    <3>6. up[c] \in Seq(Messages) /\ down[c] \in Seq(Messages)
      BY <3>1, <3>3, <3>4, <3>5
    <3>7. srv[c].crypto \in Context /\ cli[c].crypto \in Context
      BY <3>1, <3>2 DEF AnyContext, Context
    <3>8. QED BY <3>1, <3>6, <3>7 DEF Steps
  <2>2. Typed /\ Guard!TypeOK
    BY DEF IInv
  <2>3. /\ up \in [Conn -> Seq(Messages)] /\ down \in [Conn -> Seq(Messages)]
    BY <2>1, <2>2 DEF Typed
  <2>4. srv \in [Conn -> [pc : {"off", "read", "login", "lock", "handle", "fetch",
                                "solve"},
                          auth : BOOLEAN, crypto : Context,
                          cred : Credentials \cup {"none"}]]
    BY <2>1, <2>2 DEF Typed, Server, ServerPC
  <2>5. cli \in [Conn -> [pc : {"off", "new", "wait", "in", "gone"},
                          crypto : Context]]
    BY <2>1, <2>2 DEF Typed, ClientEnd, ClientPC
  <2>6. QED BY <2>2, <2>3, <2>4, <2>5 DEF Typed, TypeOK
<1>2. QED BY <1>1, CountersInvariant, PTL

=============================================================================
