---------------------------- MODULE EcmPipeline ----------------------------
(***************************************************************************)
(* From an ECM to a control word: handle_client_ecm and its rate limit     *)
(* (core/cccam3_server.c), cccam_ecm_process (CCshare/cccam3_ecm.c), the   *)
(* hop arithmetic of CCshare/cccam3_hop_control.c and the cache, used here *)
(* through what it promises (CwStore, which CwCache implements).  Threads  *)
(* process ECMs in parallel; every call into the cache or a reader is a    *)
(* step of its own.                                                        *)
(*                                                                         *)
(* A control word is what a reader answered: src is the hop the reader     *)
(* reported, hop the hop that travels with it into the cache (source_hop). *)
(* src never changes; it is there for the properties to compare with.      *)
(*                                                                         *)
(* The reader (card manager) is abstract: it answers with any hop of       *)
(* SourceHop or fails.  Hops are uint8_t.  g_max_hops is set once, before  *)
(* any thread starts; the hop entries list is always empty, since nothing  *)
(* calls cccam_hop_control_register.                                       *)
(***************************************************************************)
EXTENDS Integers

CONSTANTS Client,     \* threads of authenticated CCcam3 clients
          Local,      \* DVBAPI and DVB threads, which have no hop limit
          Chan, Absent,
          SourceHop,  \* hops a reader may report
          UserHops,   \* values of a user's max_hops, 0 = no limit
          MaxHops,    \* g_max_hops
          EcmLimit,   \* max_ecm_per_sec, 0 = off
          Timeout,    \* g_cache_timeout
          MaxTime,    \* bound on the clock
          MaxWindow   \* bound on ecm_window_count

ASSUME EcmAssumption ==
    /\ Client \cap Local = {}
    /\ SourceHop \subseteq 0..255
    /\ UserHops \subseteq 0..255
    /\ MaxHops \in 1..20
    /\ EcmLimit \in Nat
    /\ MaxWindow \in Nat
    /\ MaxWindow > EcmLimit
    /\ Timeout \in Nat \ {0}
    /\ MaxTime \in Nat \ {0}

VARIABLES store, answer, clock,   \* the cache
          g_cache_enabled,
          hop_count,              \* client -> hop limit copied at login
          ecm_window_start,       \* client -> second its window opened
          ecm_window_count,       \* client -> ECMs seen in the window
          pc,                     \* thread -> position
          req,                    \* thread -> request being processed
          resp,                   \* thread -> response
          accepted                \* client -> ECMs let in this second

cachev  == <<store, answer, clock, g_cache_enabled>>
windowv == <<ecm_window_start, ecm_window_count, accepted>>
vars == <<store, answer, clock, g_cache_enabled, hop_count,
          ecm_window_start, ecm_window_count, pc, req, resp, accepted>>

Thread == Client \cup Local
ControlWord == [src : SourceHop, hop : 0..255]
Request == [chan : Chan, limit : UserHops \cup {0}]
Response == [cw : ControlWord, hop : 0..255]

Cache == INSTANCE CwStore WITH Cw <- ControlWord

TypeOK ==
    /\ store \in [Chan -> [cw : ControlWord, exp : Nat] \cup {Absent}]
    /\ answer \in [chan : Chan, cw : ControlWord \cup {Absent}] \cup {Absent}
    /\ clock \in 1..MaxTime
    /\ g_cache_enabled \in BOOLEAN
    /\ hop_count \in [Client -> UserHops]
    /\ ecm_window_start \in [Client -> 0..MaxTime]
    /\ ecm_window_count \in [Client -> 0..MaxWindow]
    /\ pc \in [Thread -> {"idle", "find", "reader", "add", "reply"}]
    /\ req \in [Thread -> Request \cup {Absent}]
    /\ resp \in [Thread -> Response \cup {Absent}]
    /\ accepted \in [Client -> Nat]

Init ==
    /\ Cache!SInit
    /\ g_cache_enabled \in BOOLEAN
    /\ hop_count \in [Client -> UserHops]
    /\ ecm_window_start = [c \in Client |-> 0]
    /\ ecm_window_count = [c \in Client |-> 0]
    /\ pc = [t \in Thread |-> "idle"]
    /\ req = [t \in Thread |-> Absent]
    /\ resp = [t \in Thread |-> Absent]
    /\ accepted = [c \in Client |-> 0]

-----------------------------------------------------------------------------
(* Hop control. *)

\* cccam_hop_control_increment_hop
IncrementHop(h) == LET n == (h + 1) % 256
                   IN  IF n > MaxHops THEN MaxHops ELSE n

\* Mutant: the limit of the user is not looked at.
HopAllowedGlobal(h, limit) == h <= MaxHops

\* cccam_hop_control_check, and the user's limit beside it.
HopAllowed(h, limit) == h <= MaxHops /\ (limit = 0 \/ h <= limit)

-----------------------------------------------------------------------------
(* Receiving. *)

NewWindow(c) == \/ ecm_window_start[c] = 0
                \/ clock - ecm_window_start[c] >= 1

\* Mutant: one ECM too many in a window.
WithinRateLoose(c) == NewWindow(c) \/ ecm_window_count[c] <= EcmLimit

\* client_ecm_allowed, its verdict ...
WithinRate(c) == NewWindow(c) \/ ecm_window_count[c] + 1 <= EcmLimit

\* ... and its effect on the window.
CountEcm(c) ==
    IF NewWindow(c)
    THEN /\ ecm_window_start' = [ecm_window_start EXCEPT ![c] = clock]
         /\ ecm_window_count' = [ecm_window_count EXCEPT ![c] = 1]
    ELSE /\ ecm_window_count[c] < MaxWindow
         /\ ecm_window_count' = [ecm_window_count EXCEPT ![c] = @ + 1]
         /\ UNCHANGED ecm_window_start

\* An ECM of a client passes the rate limit, if there is one.
Admit(c) ==
    /\ pc[c] = "idle"
    /\ IF EcmLimit = 0
       THEN UNCHANGED windowv
       ELSE /\ WithinRate(c)
            /\ CountEcm(c)
            /\ accepted' = [accepted EXCEPT ![c] = @ + 1]

StartRequest(t, ch, lim) ==
    /\ req' = [req EXCEPT ![t] = [chan |-> ch, limit |-> lim]]
    /\ pc' = [pc EXCEPT ![t] = "find"]
    /\ UNCHANGED <<cachev, hop_count, resp>>

\* handle_client_ecm on a well-formed ECM.
ReceiveEcm(c, ch) == Admit(c) /\ StartRequest(c, ch, hop_count[c])

\* An ECM that parse_ecm_payload or ecm_is_valid turns away has used up its
\* place in the window.
RejectEcm(c) == Admit(c) /\ UNCHANGED <<cachev, hop_count, pc, req, resp>>

\* Over the limit: counted and ignored.
IgnoreEcm(c) ==
    /\ EcmLimit > 0
    /\ pc[c] = "idle"
    /\ ~WithinRate(c)
    /\ CountEcm(c)
    /\ UNCHANGED <<cachev, hop_count, pc, req, resp, accepted>>

\* DVBAPI and DVB call cccam_ecm_process with hop 0.
LocalEcm(l, ch) ==
    /\ pc[l] = "idle"
    /\ StartRequest(l, ch, 0)
    /\ UNCHANGED windowv

-----------------------------------------------------------------------------
(* cccam_ecm_process. *)

\* The decision made on a control word from the cache or from a reader;
\* next is where the thread goes when the control word may be served.
Decide(t, w, next) ==
    LET served == IncrementHop(w.hop)
    IN  IF HopAllowed(served, req[t].limit)
        THEN /\ resp' = [resp EXCEPT ![t] = [cw |-> w, hop |-> served]]
             /\ pc' = [pc EXCEPT ![t] = next]
        ELSE /\ pc' = [pc EXCEPT ![t] = "reply"]
             /\ UNCHANGED resp

\* Step 1: the cache.
CacheFind(t) ==
    /\ pc[t] = "find"
    /\ Cache!SFind(req[t].chan)
    /\ IF answer'.cw = Absent
       THEN pc' = [pc EXCEPT ![t] = "reader"] /\ UNCHANGED resp
       ELSE Decide(t, answer'.cw, "reply")
    /\ UNCHANGED <<g_cache_enabled, hop_count, req, windowv>>

\* Step 2: the reader answers ...
ReaderAnswers(t, h) ==
    /\ pc[t] = "reader"
    /\ Decide(t, [src |-> h, hop |-> h], "add")
    /\ UNCHANGED <<cachev, windowv, hop_count, req>>

\* ... or fails.
ReaderFails(t) ==
    /\ pc[t] = "reader"
    /\ pc' = [pc EXCEPT ![t] = "reply"]
    /\ UNCHANGED <<cachev, windowv, hop_count, req, resp>>

\* Mutant: the served hop is cached instead of the hop of the origin.
CachedServed(r) == [r.cw EXCEPT !.hop = r.hop]

\* What goes into the cache with the control word: the hop of its origin.
Cached(r) == r.cw

\* The addition that follows a reader's answer, which an enabled cache
\* carries out unless memory runs out.
CacheAdd(t) ==
    /\ pc[t] = "add"
    /\ pc' = [pc EXCEPT ![t] = "reply"]
    /\ IF g_cache_enabled
       THEN \/ Cache!SAdd(req[t].chan, Cached(resp[t]))
            \/ Cache!SAddFails(req[t].chan)
       ELSE UNCHANGED <<store, answer, clock>>
    /\ UNCHANGED <<g_cache_enabled, hop_count, req, resp, windowv>>

\* handle_client_ecm sends the control word if there is one, and nothing
\* otherwise; either way the request is over.
Reply(t) ==
    /\ pc[t] = "reply"
    /\ pc' = [pc EXCEPT ![t] = "idle"]
    /\ req' = [req EXCEPT ![t] = Absent]
    /\ resp' = [resp EXCEPT ![t] = Absent]
    /\ UNCHANGED <<cachev, windowv, hop_count>>

Clean ==
    /\ Cache!SClean
    /\ UNCHANGED <<g_cache_enabled, hop_count, pc, req, resp, windowv>>

Tick ==
    /\ Cache!STick
    /\ accepted' = [c \in Client |-> 0]
    /\ UNCHANGED <<g_cache_enabled, hop_count, ecm_window_start,
                   ecm_window_count, pc, req, resp>>

Next ==
    \/ \E c \in Client, ch \in Chan : ReceiveEcm(c, ch)
    \/ \E c \in Client : RejectEcm(c) \/ IgnoreEcm(c)
    \/ \E l \in Local, ch \in Chan : LocalEcm(l, ch)
    \/ \E t \in Thread :
           \/ CacheFind(t)
           \/ \E h \in SourceHop : ReaderAnswers(t, h)
           \/ ReaderFails(t)
           \/ CacheAdd(t)
           \/ Reply(t)
    \/ Clean
    \/ Tick

Spec == Init /\ [][Next]_vars

-----------------------------------------------------------------------------
(* Properties. *)

\* A control word is served with the increment of the hop its reader
\* reported, however many times it went through the cache and whichever
\* thread put it there: serving from the cache does not add hops of its own.
HopFromOrigin ==
    \A t \in Thread :
        resp[t] # Absent => resp[t].hop = IncrementHop(resp[t].cw.src)

\* What is served respects g_max_hops and the limit of the user who asked,
\* even when the control word was cached by a user with another limit.
ServedWithinLimits ==
    \A t \in Thread :
        resp[t] # Absent => /\ resp[t].hop <= MaxHops
                            /\ \/ req[t].limit = 0
                               \/ resp[t].hop <= req[t].limit

\* With a rate limit no client gets more ECMs processed in one second of
\* the clock than max_ecm_per_sec, whatever it sent in the seconds before.
RateLimited ==
    EcmLimit > 0 => \A c \in Client : accepted[c] <= EcmLimit

=============================================================================
