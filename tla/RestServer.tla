----------------------------- MODULE RestServer -----------------------------
(***************************************************************************)
(* The threads of the REST API, api/cccam3_rest_api.c: one that accepts,   *)
(* one per request within a limit, and their end.  What the requests ask   *)
(* of the rest of the program is modelled where they do it (ClientPool,    *)
(* UserManager, Emulator, DvbReader).                                      *)
(***************************************************************************)
EXTENDS Integers

CONSTANTS Request,      \* threads for requests
          MaxRequests,  \* REST_MAX_CONCURRENT
          MaxRounds     \* rounds of 100 ms that cleanup waits

VARIABLES g_rest_api_running,
          g_rest_api_fd,           \* whether the listening socket is open
          rest_pc,                 \* the thread that accepts
          request,                 \* thread -> where its request is
          g_rest_active_clients,
          rounds                   \* rounds waited by cleanup

vars == <<g_rest_api_running, g_rest_api_fd, rest_pc, request,
          g_rest_active_clients, rounds>>

TypeOK ==
    /\ g_rest_api_running \in BOOLEAN
    /\ g_rest_api_fd \in {"open", "closed"}
    /\ rest_pc \in {"test", "select", "count", "over", "spawn",
                    "close", "ended"}
    /\ request \in [Request -> {"none", "read", "handle", "leave"}]
    /\ g_rest_active_clients \in 0..(MaxRequests + 1)
    /\ rounds \in 0..MaxRounds

\* cccam_rest_api_init waits for the thread to have bound the socket, three
\* seconds at most, which are taken to be enough.  A thread that could not
\* have it says that it is running, and ends.
Init(on) ==
    /\ g_rest_api_running = on
    /\ \/ on /\ g_rest_api_fd = "open" /\ rest_pc = "test"
       \/ g_rest_api_fd = "closed" /\ rest_pc = "ended"
    /\ request = [r \in Request |-> "none"]
    /\ g_rest_active_clients = 0
    /\ rounds = 0

Goes(from, to) == rest_pc = from /\ rest_pc' = to
socket == <<g_rest_api_running, g_rest_api_fd>>

-----------------------------------------------------------------------------
(* rest_api_thread_func *)

Test == /\ Goes("test", IF g_rest_api_running THEN "select" ELSE "close")
        /\ UNCHANGED <<socket, request, g_rest_active_clients, rounds>>

\* A connection, or a second without one.  Once cleanup has closed the
\* socket the loop ends with an error or at its next test; FD_SET of the
\* descriptor -1 is undefined and is taken to do no more than that.
Select ==
    /\ \/ g_rest_api_fd = "open" /\ Goes("select", "count")
       \/ Goes("select", "test")
       \/ g_rest_api_fd = "closed" /\ Goes("select", "close")
    /\ UNCHANGED <<socket, request, g_rest_active_clients, rounds>>

Count ==
    /\ Goes("count", IF g_rest_active_clients + 1 > MaxRequests
                     THEN "over" ELSE "spawn")
    /\ g_rest_active_clients' = g_rest_active_clients + 1
    /\ UNCHANGED <<socket, request, rounds>>

\* Too many: the connection is closed.
Over == /\ Goes("over", "test")
        /\ g_rest_active_clients' = g_rest_active_clients - 1
        /\ UNCHANGED <<socket, request, rounds>>

Spawn ==
    /\ Goes("spawn", "test")
    /\ \E r \in Request : /\ request[r] = "none"
                          /\ request' = [request EXCEPT ![r] = "read"]
    /\ UNCHANGED <<socket, g_rest_active_clients, rounds>>

SpawnFails ==
    /\ Goes("spawn", "test")
    /\ g_rest_active_clients' = g_rest_active_clients - 1
    /\ UNCHANGED <<socket, request, rounds>>

\* The thread closes the socket as well, unless cleanup has.
CloseSocket ==
    /\ Goes("close", "ended")
    /\ g_rest_api_fd' = "closed"
    /\ UNCHANGED <<g_rest_api_running, request, g_rest_active_clients, rounds>>

Acceptor == \/ Test \/ Select \/ Count \/ Over \/ Spawn \/ SpawnFails
            \/ CloseSocket

-----------------------------------------------------------------------------
(* rest_client_thread *)

Moves(r, from, to) == request[r] = from /\ request' = [request EXCEPT ![r] = to]

\* The request is read, or the client is gone or silent for ten seconds.
Read(r) == /\ Moves(r, "read", "handle") \/ Moves(r, "read", "leave")
           /\ UNCHANGED <<socket, rest_pc, g_rest_active_clients, rounds>>

\* handle_request
Handle(r) == /\ Moves(r, "handle", "leave")
             /\ UNCHANGED <<socket, rest_pc, g_rest_active_clients, rounds>>

Leave(r) == /\ Moves(r, "leave", "none")
            /\ g_rest_active_clients' = g_rest_active_clients - 1
            /\ UNCHANGED <<socket, rest_pc, rounds>>

-----------------------------------------------------------------------------
(* cccam_rest_api_cleanup, the steps of the main thread. *)

Stop == /\ g_rest_api_running' = FALSE
        /\ UNCHANGED <<g_rest_api_fd, rest_pc, request, g_rest_active_clients,
                       rounds>>

MainCloses ==
    /\ g_rest_api_fd' = "closed"
    /\ UNCHANGED <<g_rest_api_running, rest_pc, request, g_rest_active_clients,
                   rounds>>

Join == rest_pc = "ended" /\ UNCHANGED vars

WaitRound ==
    /\ g_rest_active_clients > 0
    /\ rounds < MaxRounds
    /\ rounds' = rounds + 1
    /\ UNCHANGED <<socket, rest_pc, request, g_rest_active_clients>>

\* All are gone, or have been waited for long enough.
WaitOver ==
    /\ g_rest_active_clients <= 0 \/ rounds = MaxRounds
    /\ UNCHANGED vars
=============================================================================
