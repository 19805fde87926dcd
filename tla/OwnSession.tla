----------------------------- MODULE OwnSession -----------------------------
(***************************************************************************)
(* Sessions of the server's own protocol: the login with its guard and its *)
(* handshake, then ECMs, EMMs and control words under the session key.     *)
(* core/cccam3_server.c (583-775, 814-939) is the server's end, one thread *)
(* per connection; network/cccam3_handshake*.c keep the result of a        *)
(* handshake in globals that all threads share under one mutex.            *)
(*                                                                         *)
(* The other end is a client: another CCcam3 server that reads from this   *)
(* one, whose code is the same (CCshare/cccam3_card_manager.c 256-411), or *)
(* a client of another make (external) that builds its messages with room  *)
(* for the tag.  It may go away at any time; its connection's slot is used *)
(* again.  The guard is the module LoginGuard, a connection being the      *)
(* thread that serves it.                                                  *)
(***************************************************************************)
EXTENDS CryptoContext, Sequences, FiniteSets

CONSTANTS Conn, NoConn,
          Ip, Addr,          \* connection -> its client's address
          Slots, Limit, Window,
          SameCode,          \* clients that are CCcam3 servers themselves
          Version,           \* connection -> protocol version of its client
          EcmSize,           \* length of an ECM
          MaxNumber,         \* bound on the encrypted messages of a session
          MaxWay             \* bound on a client's messages under way

ASSUME SessionAssumption ==
    /\ NoConn \notin Conn
    /\ Ip \subseteq Nat \ {0}
    /\ Addr \in [Conn -> Ip]
    /\ Slots \in Nat \ {0}
    /\ Limit \in Nat \ {0}
    /\ Window \in Nat \ {0}
    /\ SameCode \subseteq Conn
    /\ Version \in [Conn -> Nat]
    /\ EcmSize \in 1..512
    /\ Allowed \subseteq Mode
    /\ MaxNumber \in Nat
    /\ MaxWay \in Nat \ {0}

VARIABLES g_fail_ip, g_fail_count, age, blocked, th,    \* the guard's
          hs_lock,             \* who holds g_handshake_mutex
          g_handshake_mode, g_session_key,
          srv,                 \* connection -> the server's end
          cli,                 \* connection -> the client's end
          up, down             \* connection -> messages under way

guard == <<g_fail_ip, g_fail_count, age, blocked, th>>
globals == <<hs_lock, g_handshake_mode, g_session_key>>
ends == <<srv, cli, up, down>>
vars == <<guard, globals, ends>>

Guard == INSTANCE LoginGuard WITH Thread <- Conn

\* A session key comes from both seeds, the password and the handshake.
Handshake == {"LEGACY", "RSA_AES"}
SessionKey(c, mode) == <<c, mode>>
Key == ((Conn \cup {NoConn}) \X Handshake) \cup {NoKey}

ASSUME KeyAssumption == NoKey \notin (Conn \cup {NoConn}) \X Handshake

\* The server's end; cred is what the login says.
NoServer == [pc |-> "off", auth |-> FALSE, crypto |-> ResetCrypto,
             cred |-> "none"]
NoClient == [pc |-> "off", crypto |-> ResetCrypto]

Init ==
    /\ Guard!Init
    /\ hs_lock = NoConn
    /\ g_handshake_mode = "LEGACY"
    /\ g_session_key = NoKey
    /\ srv = [c \in Conn |-> NoServer]
    /\ cli = [c \in Conn |-> NoClient]
    /\ up = [c \in Conn |-> <<>>]
    /\ down = [c \in Conn |-> <<>>]

Goto(c, pc) == srv' = [srv EXCEPT ![c].pc = pc]

\* The server destroys the client: nothing under way arrives any more.
Close(c) ==
    /\ srv' = [srv EXCEPT ![c] = NoServer]
    /\ cli' = [cli EXCEPT ![c] = NoClient]
    /\ up' = [up EXCEPT ![c] = <<>>]
    /\ down' = [down EXCEPT ![c] = <<>>]

-----------------------------------------------------------------------------
(* The client. *)

Connect(c) ==
    /\ srv[c].pc = "off"
    /\ srv' = [srv EXCEPT ![c].pc = "read"]
    /\ cli' = [cli EXCEPT ![c].pc = "new"]
    /\ UNCHANGED <<guard, globals, up, down>>

\* cccam_protocol_build_login, with the right password or not.
Credentials == {"right", "wrong", "malformed"}
ClientLogin(c, cred) ==
    /\ cli[c].pc = "new"
    /\ cli' = [cli EXCEPT ![c].pc = "wait"]
    /\ up' = [up EXCEPT ![c] = Append(@, Plain("LOGIN", cred))]
    /\ UNCHANGED <<guard, globals, srv, down>>

ClientCanBuild(c, len) == IF c \in SameCode
                          THEN CanBuild(cli[c].crypto, len)
                          ELSE CanBuildElsewhere(cli[c].crypto, len)

\* A client of another make may also ask before it has logged in.
ClientSend(c, id) ==
    /\ cli[c].pc \in (IF c \in SameCode THEN {"in"} ELSE {"new", "in"})
    /\ Len(up[c]) < MaxWay
    /\ cli[c].crypto.tx < MaxNumber
    /\ ClientCanBuild(c, IF id = "ECM" THEN EcmLen(EcmSize) ELSE EmmLen(EcmSize))
    /\ up' = [up EXCEPT ![c] = Append(@, Message(cli[c].crypto, id, "section"))]
    /\ cli' = [cli EXCEPT ![c].crypto = Sent(@)]
    /\ UNCHANGED <<guard, globals, srv, down>>

ClientKeepalive(c) ==
    /\ cli[c].pc = "in"
    /\ c \notin SameCode
    /\ Len(up[c]) < MaxWay
    /\ up' = [up EXCEPT ![c] = Append(@, Bare("KEEPALIVE"))]
    /\ UNCHANGED <<guard, globals, srv, cli, down>>

\* cccam_protocol_build_login_ack
AckBody(resp_len) == IF resp_len >= 60 THEN "ack60" ELSE "ack16"

\* cccam_protocol_handle_login_response: the length of the answer tells the
\* handshake, from which the client derives the key as the server did.
HandshakeOf(body) == IF body = "ack60" THEN "RSA_AES" ELSE "LEGACY"
ClientKey(c, body) == SessionKey(c, HandshakeOf(body))

\* The acknowledgement, and later the control words.
ClientReceive(c) ==
    LET msg == Head(down[c])  me == cli[c]
    IN  /\ me.pc \in {"wait", "in"}
        /\ down[c] # <<>>
        /\ cli' = [cli EXCEPT ![c] =
               IF msg.id = "LOGIN_ACK"
               THEN [me EXCEPT !.pc = "in",
                               !.crypto = SetCrypto("AES_GCM", ClientKey(c, msg.body))]
               ELSE IF CanParse(me.crypto, msg)
               THEN [me EXCEPT !.crypto = Parsed(me.crypto, msg)]
               ELSE [me EXCEPT !.pc = "gone"]]
        /\ down' = [down EXCEPT ![c] = Tail(@)]
        /\ UNCHANGED <<guard, globals, srv, up>>

\* It gives up waiting, cannot build its message, or loses its connection.
ClientLeaves(c) ==
    /\ cli[c].pc \in {"new", "wait", "in"}
    /\ cli' = [cli EXCEPT ![c] = [NoClient EXCEPT !.pc = "gone"]]
    /\ down' = [down EXCEPT ![c] = <<>>]
    /\ UNCHANGED <<guard, globals, srv, up>>

-----------------------------------------------------------------------------
(* The login: handle_client_login. *)

Reading(c, id) ==
    /\ srv[c].pc = "read"
    /\ up[c] # <<>>
    /\ Head(up[c]).id = id
    /\ CanParse(srv[c].crypto, Head(up[c]))

\* An authenticated client's login would be ignored; no client sends one.
ReadLogin(c) ==
    /\ Reading(c, "LOGIN")
    /\ ~srv[c].auth
    /\ Guard!Start(c, Addr[c])
    /\ srv' = [srv EXCEPT ![c].pc = "login", ![c].cred = Head(up[c]).body]
    /\ up' = [up EXCEPT ![c] = Tail(@)]
    /\ UNCHANGED <<globals, cli, down>>

CheckBlocked(c) ==
    /\ Guard!Check(c)
    /\ UNCHANGED <<globals, ends>>

LoginRefused(c) == Guard!Refuse(c) /\ Close(c) /\ UNCHANGED globals

LoginMalformed(c) ==
    /\ srv[c].cred = "malformed"
    /\ Guard!Malformed(c)
    /\ Close(c)
    /\ UNCHANGED globals

LoginWrong(c) ==
    /\ srv[c].cred = "wrong"
    /\ Guard!WrongPassword(c)
    /\ UNCHANGED <<globals, ends>>

CountFailure(c) == Guard!FailFind(c) /\ UNCHANGED <<globals, ends>>

FailureCounted(c) == Guard!FailStore(c) /\ Close(c) /\ UNCHANGED globals

LoginRight(c) ==
    /\ srv[c].cred = "right"
    /\ Guard!Success(c)
    /\ srv' = [srv EXCEPT ![c].pc = "lock", ![c].cred = "none"]
    /\ UNCHANGED <<globals, cli, up, down>>

\* cccam_handshake_lock
HandshakeLock(c) ==
    /\ srv[c].pc = "lock"
    /\ hs_lock = NoConn
    /\ hs_lock' = c
    /\ Goto(c, "handle")
    /\ UNCHANGED <<guard, g_handshake_mode, g_session_key, cli, up, down>>

\* cccam_protocol_handle_login: modern clients get the handshake with PBKDF2.
Negotiated(version) == IF version >= 300 THEN "RSA_AES" ELSE "LEGACY"

HandshakeDone(c) ==
    LET hs == Negotiated(Version[c])
    IN  /\ srv[c].pc = "handle"
        /\ g_handshake_mode' = hs
        /\ g_session_key' = SessionKey(c, hs)
        /\ Goto(c, "fetch")

\* Mutant: the mutex covers the handshake, not the reading of its result.
HandleLoginUnlocking(c) ==
    /\ HandshakeDone(c)
    /\ hs_lock' = NoConn
    /\ UNCHANGED <<guard, cli, up, down>>

HandleLogin(c) ==
    /\ HandshakeDone(c)
    /\ UNCHANGED <<guard, hs_lock, cli, up, down>>

\* cccam_handshake_get_response_len
ResponseLen(hs) == IF hs = "RSA_AES" THEN 16 + 12 + 16 + 16 ELSE 16

\* handshake_mode_to_crypt_mode: the legacy key of 20 bytes is hashed to 32.
WireMode(hs) == IF hs \in Handshake THEN "AES_GCM" ELSE "NONE"
WireKeyLen(hs) == 32

\* The mode, the key and the length of the answer are read; the session has
\* its key, and the client gets the answer, in clear.
Finished(c) ==
    LET mode == WireMode(g_handshake_mode)
    IN  /\ srv[c].pc = "fetch"
        /\ CanSet(mode, WireKeyLen(g_handshake_mode))
        /\ srv' = [srv EXCEPT ![c] = [NoServer EXCEPT
                      !.pc = "read", !.auth = TRUE,
                      !.crypto = SetCrypto(mode, g_session_key)]]
        /\ down' = [down EXCEPT ![c] = Append(@,
               Plain("LOGIN_ACK", AckBody(ResponseLen(g_handshake_mode))))]
        /\ UNCHANGED <<guard, g_handshake_mode, g_session_key, cli, up>>

\* Mutant: the mutex is not given back after the legacy handshake.
FinishLoginLocked(c) ==
    /\ Finished(c)
    /\ hs_lock' = IF g_handshake_mode = "LEGACY" THEN hs_lock ELSE NoConn

\* The mutex is given back before the answer is sent.
FinishLogin(c) == Finished(c) /\ hs_lock' = NoConn

\* The mode is not allowed, or the client is gone and the answer not sent.
FinishFails(c) ==
    /\ srv[c].pc = "fetch"
    /\ \/ ~CanSet(WireMode(g_handshake_mode), WireKeyLen(g_handshake_mode))
       \/ cli[c].pc = "gone"
    /\ hs_lock' = NoConn
    /\ Close(c)
    /\ UNCHANGED <<guard, g_handshake_mode, g_session_key>>

\* A reader of this server logs in at a remote one, as version 301:
\* remote_ensure_login sets and reads the same globals, all of it under the
\* mutex.
ReaderLogin ==
    /\ hs_lock = NoConn
    /\ g_handshake_mode' = Negotiated(301)
    /\ g_session_key' = SessionKey(NoConn, Negotiated(301))
    /\ UNCHANGED <<guard, hs_lock, ends>>

-----------------------------------------------------------------------------
(* The session: client_thread_func. *)

\* The context after the message at the head of up has been parsed.
AfterParse(c) == Parsed(srv[c].crypto, Head(up[c]))

\* handle_client_ecm
ReadEcm(c) ==
    /\ Reading(c, "ECM")
    /\ srv[c].auth
    /\ srv' = [srv EXCEPT ![c].pc = "solve", ![c].crypto = AfterParse(c)]
    /\ up' = [up EXCEPT ![c] = Tail(@)]
    /\ UNCHANGED <<guard, globals, cli, down>>

\* An ECM above the rate limit, an EMM or a keepalive has no answer.
ReadOther(c) ==
    /\ \/ Reading(c, "ECM") /\ srv[c].auth
       \/ \E id \in {"EMM", "KEEPALIVE"} : Reading(c, id)
    /\ srv' = [srv EXCEPT ![c].crypto = AfterParse(c)]
    /\ up' = [up EXCEPT ![c] = Tail(@)]
    /\ UNCHANGED <<guard, globals, cli, down>>

\* The message is not authentic, or an ECM comes before the login.
BadMessage(c) ==
    /\ srv[c].pc = "read"
    /\ up[c] # <<>>
    /\ \/ ~CanParse(srv[c].crypto, Head(up[c]))
       \/ Head(up[c]).id = "ECM" /\ ~srv[c].auth
    /\ Close(c)
    /\ UNCHANGED <<guard, globals>>

\* The client is gone or silent for too long, is kicked, or the server ends.
EndSession(c) ==
    /\ srv[c].pc = "read"
    /\ Close(c)
    /\ UNCHANGED <<guard, globals>>

\* No control word: the protocol has no message for it.
Unsolved(c) ==
    /\ srv[c].pc = "solve"
    /\ Goto(c, "read")
    /\ UNCHANGED <<guard, globals, cli, up, down>>

\* cccam_ecm_send_cw: its result is not looked at, so that the session goes
\* on after a message that was not built, or was built and not sent.
AnswerEcm(c) ==
    /\ srv[c].pc = "solve"
    /\ IF CanBuild(srv[c].crypto, CwLen)
       THEN \E written \in BOOLEAN :
               /\ srv' = [srv EXCEPT ![c].pc = "read", ![c].crypto = Sent(@)]
               /\ down' = IF written
                          THEN [down EXCEPT ![c] =
                                   Append(@, Message(srv[c].crypto, "CW", "cw"))]
                          ELSE down
       ELSE Goto(c, "read") /\ UNCHANGED down
    /\ UNCHANGED <<guard, globals, cli, up>>

Tick == Guard!Tick /\ UNCHANGED <<globals, ends>>

-----------------------------------------------------------------------------
Client(c) == \/ Connect(c) \/ ClientKeepalive(c) \/ ClientReceive(c) \/ ClientLeaves(c)
             \/ \E cred \in Credentials : ClientLogin(c, cred)
             \/ \E id \in {"ECM", "EMM"} : ClientSend(c, id)

Login(c) == \/ CheckBlocked(c) \/ LoginRefused(c) \/ LoginMalformed(c)
            \/ LoginWrong(c) \/ CountFailure(c) \/ FailureCounted(c)
            \/ LoginRight(c) \/ HandleLogin(c) \/ FinishLogin(c)
            \/ FinishFails(c)

Session(c) == \/ ReadLogin(c) \/ ReadEcm(c) \/ ReadOther(c) \/ BadMessage(c)
              \/ EndSession(c) \/ Unsolved(c) \/ AnswerEcm(c)

Next == \/ \E c \in Conn : Client(c) \/ Login(c) \/ HandshakeLock(c) \/ Session(c)
        \/ ReaderLogin
        \/ Tick

Spec == Init /\ [][Next]_vars

\* The thread of a login goes on, and gets a mutex that is given back again
\* and again; the clock goes on.  Clients owe nothing.
FairSpec == /\ Spec
            /\ WF_vars(Tick)
            /\ \A c \in Conn : WF_vars(Login(c)) /\ SF_vars(HandshakeLock(c))

-----------------------------------------------------------------------------
Messages == [id : {"LOGIN", "LOGIN_ACK", "ECM", "EMM", "CW", "KEEPALIVE"},
             body : Credentials \cup {"none", "ack16", "ack60", "section", "cw"},
             key : Key, n : 0..MaxNumber]
Context == [mode : {"NONE", "AES_GCM"}, key : Key,
            tx : 0..MaxNumber, rx : 0..MaxNumber]

TypeOK ==
    /\ Guard!TypeOK
    /\ hs_lock \in Conn \cup {NoConn}
    /\ g_handshake_mode \in Handshake
    /\ g_session_key \in Key
    /\ srv \in [Conn -> [pc : {"off", "read", "login", "lock", "handle", "fetch",
                               "solve"},
                         auth : BOOLEAN, crypto : Context,
                         cred : Credentials \cup {"none"}]]
    /\ cli \in [Conn -> [pc : {"off", "new", "wait", "in", "gone"},
                         crypto : Context]]
    /\ up \in [Conn -> Seq(Messages)]
    /\ down \in [Conn -> Seq(Messages)]

\* Both ends are in the session.
InSession(c) == srv[c].auth /\ cli[c].pc = "in"

\* server.c:668-696, handshake_advanced.c:22-30: whatever logins go on at the
\* same time, both ends of a session have the key of their own handshake.
KeysAgree ==
    \A c \in Conn : InSession(c) =>
        /\ srv[c].crypto.key = cli[c].crypto.key
        /\ srv[c].crypto.mode = cli[c].crypto.mode

Encrypted(msg) == msg.key # NoKey
Under(way) == Cardinality({i \in 1..Len(way) : Encrypted(way[i])})

\* protocol.c:152-270: the counters of the two ends differ by the messages
\* under way, with or without payload, so that each message can be opened.
InStep ==
    \A c \in Conn : InSession(c) =>
        /\ cli[c].crypto.tx = srv[c].crypto.rx + Under(up[c])
        /\ srv[c].crypto.tx = cli[c].crypto.rx + Under(down[c])

\* server.c:601-724: a login comes to an end: the mutex of the handshake is
\* given back on every path.
LoginEnds == \A c \in Conn : srv[c].pc = "login" ~> srv[c].pc \in {"read", "off"}

\* server.c:187-192, 205-214: the block of an address comes to an end,
\* whatever its clients keep trying meanwhile.
BlockEnds == Guard!BlockEnds

\* protocol.c:483-537, README.md:125: the control word found for a client's
\* ECM can be put into a message.
CwIsBuilt ==
    \A c \in Conn : srv[c].pc = "solve" => CanBuild(srv[c].crypto, CwLen)
=============================================================================
