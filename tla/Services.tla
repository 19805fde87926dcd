------------------------------ MODULE Services ------------------------------
(***************************************************************************)
(* The process: the main loop with its signals, the services that run in   *)
(* threads of their own beside it (the DVB card, the decoders of DVBAPI,   *)
(* the REST API), and cccam3_cleanup, which the main thread runs when it   *)
(* has left the loop and which ends the services one after the other       *)
(* before it gives up what they use (core/cccam3_server.c).                *)
(*                                                                         *)
(* The services run beside the loop and share nothing with it before the   *)
(* end, so that a configuration has some of them only.  STAPI has no       *)
(* thread.  The clients and their threads are those of ClientPool.         *)
(***************************************************************************)
EXTENDS Naturals, FiniteSets

CONSTANTS Configurations,   \* the sets of services that are explored
          MaxSignals, MaxDecoders, Request, MaxRequests, MaxRounds,
          Tables, Configured, None

VARIABLES enabled,          \* the services of the configuration
          cpc               \* position of the main thread in cccam3_cleanup

VARIABLES mpc, part, g_running, g_reload_requested, g_rotate_requested,
          g_log_mutex, handler, terminating, signals, owed

VARIABLES dvbapi_running, dvbapi_pc, decoder, g_active_clients, dvbapi_waiting

VARIABLES g_rest_api_running, g_rest_api_fd, rest_pc, request,
          g_rest_active_clients, rounds

VARIABLES dvb_running, dvb_pc, g_channels, g_service_id, g_emm_pid,
          g_pending_zap, ecm

Loop     == INSTANCE ServerLoop
Decoders == INSTANCE Dvbapi
Rest     == INSTANCE RestServer
Dvb      == INSTANCE DvbReader

loop == <<mpc, part, g_running, g_reload_requested, g_rotate_requested,
          g_log_mutex, handler, terminating, signals, owed>>
decoders == <<dvbapi_running, dvbapi_pc, decoder, g_active_clients,
              dvbapi_waiting>>
rest == <<g_rest_api_running, g_rest_api_fd, rest_pc, request,
          g_rest_active_clients, rounds>>
card == <<dvb_running, dvb_pc, g_channels, g_service_id, g_emm_pid,
          g_pending_zap, ecm>>
services == <<decoders, rest, card>>
vars == <<enabled, cpc, loop, services>>

Names == {"dvb", "dvbapi", "rest"}

ASSUME ServicesAssumption ==
    /\ Configurations \subseteq SUBSET Names
    /\ MaxSignals \in Nat
    /\ MaxDecoders \in Nat \ {0}
    /\ IsFiniteSet(Request)
    /\ MaxRequests \in Nat \ {0}
    /\ MaxRounds \in Nat
    /\ None \notin UNION {DOMAIN t : t \in Tables}
    /\ \A t \in Tables : t \in [DOMAIN t -> {"clear", "scrambled"}]

CleanupPC == {"run", "dvb_stop", "dvb_join", "dvbapi_stop", "dvbapi_wake",
              "dvbapi_join", "dvbapi_wait", "clients", "users", "rest_stop",
              "rest_close", "rest_join", "rest_wait", "caches", "exit"}

TypeOK ==
    /\ enabled \in Configurations
    /\ cpc \in CleanupPC
    /\ Loop!TypeOK /\ Decoders!TypeOK /\ Rest!TypeOK /\ Dvb!TypeOK

Init ==
    /\ enabled \in Configurations
    /\ cpc = "run"
    /\ Loop!Init
    /\ Decoders!Init("dvbapi" \in enabled)
    /\ Rest!Init("rest" \in enabled)
    /\ Dvb!Init("dvb" \in enabled)

-----------------------------------------------------------------------------
(* The loop.  Signals other than the terminating one, and log lines of     *)
(* other threads, are explored where no service is enabled; a bound.       *)

MainLoop == cpc = "run" /\ Loop!Main /\ UNCHANGED <<enabled, cpc, services>>

Signals ==
    /\ \/ \E h \in {"main", "other"} :
             \/ enabled = {} /\ (Loop!Hup(h) \/ Loop!Usr1(h))
             \/ Loop!Term(h)
       \/ enabled = {} /\ Loop!OtherLog
    /\ UNCHANGED <<enabled, cpc, services>>

Unlog == Loop!OtherUnlog /\ UNCHANGED <<enabled, cpc, services>>
HandlerEnds == Loop!HandlerEnds /\ UNCHANGED <<enabled, cpc, services>>

-----------------------------------------------------------------------------
(* The threads of the services. *)

others == <<enabled, cpc, loop>>

DecoderAcceptor == /\ Decoders!Acceptor
                   /\ UNCHANGED <<others, rest, card>>
DecoderSends(s) == /\ Decoders!DecoderSends(s)
                   /\ UNCHANGED <<others, rest, card>>
DecoderRuns(s) == /\ Decoders!DecoderRuns(s)
                  /\ UNCHANGED <<others, rest, card>>

RestAcceptor == /\ Rest!Acceptor
                /\ UNCHANGED <<others, decoders, card>>

\* A request asks for a service of the DVB card, or for something else.
Handle(r) ==
    /\ Rest!Handle(r)
    /\ (\E sid \in Dvb!Services : Dvb!Zap(sid)) \/ UNCHANGED card
    /\ UNCHANGED <<others, decoders>>

RequestRuns(r) ==
    \/ Handle(r)
    \/ /\ Rest!Read(r) \/ Rest!Leave(r)
       /\ UNCHANGED <<others, decoders, card>>

DvbThread == /\ Dvb!Thread
             /\ UNCHANGED <<others, decoders, rest>>

-----------------------------------------------------------------------------
(* cccam3_cleanup *)

At(from, to) == /\ handler # "main"
                /\ cpc = from /\ cpc' = to
                /\ UNCHANGED <<enabled, loop>>

\* Mutant: the decoders are left to end by themselves.
CloseDecodersNoWait ==
    /\ \/ At("dvbapi_stop", "dvbapi_wake") /\ Decoders!Stop
       \/ At("dvbapi_wake", "dvbapi_join") /\ Decoders!Wake
       \/ At("dvbapi_join", "clients") /\ Decoders!Join
    /\ UNCHANGED <<rest, card>>

CloseDvb ==
    /\ \/ mpc = "left" /\ At("run", "dvb_stop") /\ UNCHANGED card
       \/ At("dvb_stop", "dvb_join") /\ Dvb!Stop
       \/ At("dvb_join", "dvbapi_stop") /\ Dvb!Join
    /\ UNCHANGED <<decoders, rest>>

CloseDecoders ==
    /\ \/ At("dvbapi_stop", "dvbapi_wake") /\ Decoders!Stop
       \/ At("dvbapi_wake", "dvbapi_join") /\ Decoders!Wake
       \/ At("dvbapi_join", "dvbapi_wait") /\ Decoders!Join
       \/ At("dvbapi_wait", "dvbapi_wait") /\ Decoders!Wait
       \/ At("dvbapi_wait", "clients") /\ Decoders!AllLeft
    /\ UNCHANGED <<rest, card>>

\* The clients, the optimizer and the handshake; the users.
CloseUsers ==
    /\ At("clients", "users") \/ At("users", "rest_stop")
    /\ UNCHANGED services

CloseRest ==
    /\ \/ At("rest_stop", "rest_close") /\ Rest!Stop
       \/ At("rest_close", "rest_join") /\ Rest!MainCloses
       \/ At("rest_join", "rest_wait") /\ Rest!Join
       \/ At("rest_wait", "rest_wait") /\ Rest!WaitRound
       \/ At("rest_wait", "caches") /\ Rest!WaitOver
    /\ UNCHANGED <<decoders, card>>

\* Hop control, readers, caches, the protocol and the channels.
CloseCaches == At("caches", "exit") /\ UNCHANGED services

Cleanup == CloseDvb \/ CloseDecoders \/ CloseUsers \/ CloseRest \/ CloseCaches

-----------------------------------------------------------------------------
Next ==
    \/ /\ cpc # "exit"
       /\ \/ MainLoop \/ Signals \/ Unlog \/ HandlerEnds
          \/ DecoderAcceptor \/ RestAcceptor \/ DvbThread \/ Cleanup
          \/ \E s \in 1..MaxDecoders : DecoderSends(s) \/ DecoderRuns(s)
          \/ \E r \in Request : RequestRuns(r)

Spec == Init /\ [][Next]_vars

\* Threads run, and their waits on the network and the hardware are timed;
\* a decoder need not send anything, and the readers and the emulator need
\* not return (cccam3_emu_powervu.c:2024-2055, 2309-2374).  The mutex of the
\* log is fair enough for a thread that keeps asking to get it.
FairSpec ==
    /\ Spec
    /\ SF_vars(MainLoop) /\ SF_vars(HandlerEnds) /\ WF_vars(Unlog)
    /\ WF_vars(DecoderAcceptor) /\ WF_vars(RestAcceptor)
    /\ WF_vars(~Dvb!Asking /\ DvbThread) /\ WF_vars(Cleanup)
    /\ \A s \in 1..MaxDecoders :
          WF_vars(~Decoders!Asking(s) /\ DecoderRuns(s))
    /\ \A r \in Request : WF_vars(RequestRuns(r))

-----------------------------------------------------------------------------
(* Properties. *)

\* A reload asked for by SIGHUP starts, unless the loop is left (select was
\* interrupted) or the server was told to terminate, even if nothing wakes
\* select up and other threads keep the mutex of the log busy.
ReloadStarts == Loop!ReloadStarts

\* server.c:1118, "sources of ECMs first": when the clients and then the
\* users, readers and caches are given up, no thread of the DVB card or of
\* a decoder is left that could be using them.
SourcesGone ==
    cpc \in {"clients", "users", "rest_stop", "rest_close", "rest_join",
             "rest_wait", "caches", "exit"}
        => dvb_pc = "ended" /\ ~Decoders!Busy

\* The handler waits for the mutex of the log that the thread it interrupted
\* holds: neither will ever go on.
HandlerStuck == handler = g_log_mutex

\* The emulator, or a reader it keeps, never returns to the card's thread, or
\* to that of decoder s.
CardStalled == <>[]Dvb!Asking
DecoderStalled(s) == <>[]Decoders!Asking(s)

\* A server told to terminate ends, whatever its decoders, requests and card
\* are doing, unless the handler is stuck, a decoder was given an entry but
\* no thread (dvbapi.c:560), or the readers never return to the thread of
\* the card or of a decoder: cleanup waits for those for ever.
ServerEnds ==
    \/ CardStalled
    \/ \E s \in 1..MaxDecoders : DecoderStalled(s)
    \/ terminating ~> \/ cpc = "exit"
                      \/ HandlerStuck
                      \/ \E s \in 1..MaxDecoders : Decoders!Orphan(s)

\* The count of decoders that cleanup waits for is that of the entries in
\* use, each with its thread and its socket, however they come and go; and
\* all variables have their types.
DecodersCounted == /\ TypeOK
                   /\ g_active_clients = Cardinality(Decoders!Alive)
                   /\ Decoders!EntriesWhole

\* dvb.c:487-491: a control word that goes into the descrambler is of the
\* service the card descrambles, whenever another one is asked for.
InjectedIsTuned == dvb_pc = "inject" => ecm = g_service_id

\* A service asked for through the REST API is taken up, although ECMs keep
\* coming, unless the card has no lock or is being closed, or the readers
\* never return from one of the ECMs or EMMs.
ZapTaken ==
    \/ CardStalled
    \/ g_pending_zap # None ~> \/ g_pending_zap = None
                               \/ dvb_pc \in {"top", "tune", "scan", "ended"}
=============================================================================
