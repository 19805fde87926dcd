----------------------------- MODULE ClientPool -----------------------------
(***************************************************************************)
(* The client pool (core/cccam3_client.c) together with everything that    *)
(* holds a cccam_client_t pointer: the accept loop and the per-client      *)
(* threads of core/cccam3_server.c, the request threads of the REST API,   *)
(* the ECM handler's nested reference, the connection counter of           *)
(* core/cccam3_optimizer.c and the shutdown path cccam_client_close_all.   *)
(*                                                                         *)
(* A member of Client is a heap block.  free() returns it to the allocator *)
(* and a later calloc may hand out the same block, so addresses are reused *)
(* the way they are in the program.  Every section executed under          *)
(* g_pool_mutex is one action; what the code does outside the mutex (the   *)
(* zombie test at the end of a thread, the final free, the counter of the  *)
(* load balancer, the slot scans of close_all) is a step of its own.       *)
(* A local variable of the code (mclient, rclient, mreg, treg) is reset    *)
(* when it goes out of scope.                                              *)
(***************************************************************************)
EXTENDS Integers, FiniteSets

CONSTANTS Client,          \* heap blocks a cccam_client_t may occupy
          Rest,            \* REST request threads
          NoClient,        \* the NULL pointer
          MaxSlots,        \* CCCAM3_CLIENT_SLOTS
          MaxConnections   \* g_max_connections

ASSUME PoolAssumption ==
    /\ NoClient \notin Client
    /\ MaxSlots \in Nat \ {0}
    /\ MaxConnections \in Nat \ {0}

\* The names of the three anonymous holders of a reference must not be
\* confused with REST threads when holders are counted.
ASSUME RestAssumption ==
    /\ IsFiniteSet(Rest)
    /\ Rest \cap {"pool", "thread", "ecm"} = {}

VARIABLES mem,                \* heap block -> "live" | "free"
          refs, zombie,       \* the fields of the same names
          to_kick,
          proto,              \* which protocol serves the client
          g_clients,          \* the slots
          g_client_count,
          g_connection_count,
          mreg, treg,         \* register copies of g_connection_count
          g_running,
          mpc, mclient, midx, \* main thread: position, pointer, loop index
          tpc, tret,          \* client threads: position, return point
          rpc, rclient        \* REST threads: position, pointer

pool     == <<mem, refs, zombie, g_clients, g_client_count>>
balancer == <<g_connection_count, mreg, treg>>
mainv    == <<mpc, mclient, midx>>
threadv  == <<tpc, tret>>
restv    == <<rpc, rclient>>
vars == <<mem, refs, zombie, to_kick, proto, g_clients, g_client_count,
          g_connection_count, mreg, treg, g_running, mpc, mclient, midx,
          tpc, tret, rpc, rclient>>

Slots == 1..MaxSlots
MainPC == {"select", "allow", "allow_w", "create", "session", "ref", "spawn",
           "touch", "mdestroy", "mfree", "mrel", "mrel_w",
           "ca_mark", "ca_join", "ca_deref", "ca_drop", "ca_dec", "ca_free",
           "closed"}
ThreadPC == {"none", "unborn", "start", "loop", "select", "reader", "ecm",
             "exit", "destroy", "dfree", "rel", "rel_w", "unref", "ufree"}
Protocols == {"cccam3", "newcamd", "legacy"}

TypeOK ==
    /\ mem \in [Client -> {"free", "live"}]
    /\ refs \in [Client -> Int]
    /\ zombie \in [Client -> BOOLEAN]
    /\ to_kick \in [Client -> BOOLEAN]
    /\ proto \in [Client -> Protocols]
    /\ g_clients \in [Slots -> Client \cup {NoClient}]
    /\ g_client_count \in Int
    /\ g_connection_count \in Nat
    /\ mreg \in Nat
    /\ treg \in [Client -> Nat]
    /\ g_running \in BOOLEAN
    /\ mpc \in MainPC
    /\ mclient \in Client \cup {NoClient}
    /\ midx \in Nat
    /\ tpc \in [Client -> ThreadPC]
    /\ tret \in [Client -> {"loop", "unref"}]
    /\ rpc \in [Rest -> {"idle", "hold", "free"}]
    /\ rclient \in [Rest -> Client \cup {NoClient}]

Init ==
    /\ mem = [c \in Client |-> "free"]
    /\ refs = [c \in Client |-> 0]
    /\ zombie = [c \in Client |-> FALSE]
    /\ to_kick = [c \in Client |-> FALSE]
    /\ proto = [c \in Client |-> "cccam3"]
    /\ g_clients = [s \in Slots |-> NoClient]
    /\ g_client_count = 0
    /\ g_connection_count = 0
    /\ mreg = 0
    /\ treg = [c \in Client |-> 0]
    /\ g_running = TRUE
    /\ mpc = "select"
    /\ mclient = NoClient
    /\ midx = 1
    /\ tpc = [c \in Client |-> "none"]
    /\ tret = [c \in Client |-> "unref"]
    /\ rpc = [r \in Rest |-> "idle"]
    /\ rclient = [r \in Rest |-> NoClient]

Pooled(c) == \E s \in Slots : g_clients[s] = c
FirstFree(s) == /\ g_clients[s] = NoClient
                /\ \A t \in Slots : t < s => g_clients[t] # NoClient

-----------------------------------------------------------------------------
(* The operations of cccam3_client.c, each the body of one locked section. *)

\* Mutant: pool_acquire_locked without its zombie test.
AcquirableZombie(c) == Pooled(c)

\* pool_acquire_locked on a pointer found in a slot.
Acquirable(c) == Pooled(c) /\ ~zombie[c]

AcquireLocked(c) == refs' = [refs EXCEPT ![c] = @ + 1]

\* Mutant: unref frees a zombie without waiting for the last reference.
FreeAfterUnrefEager(c) == zombie[c]

\* cccam_client_unref: the reference goes; FreeAfterUnref says whether the
\* caller leaves the section with free_now set.
UnrefLocked(c) ==
    refs' = [refs EXCEPT ![c] = IF @ > 0 THEN @ - 1 ELSE @]

FreeAfterUnref(c) == zombie[c] /\ refs[c] \in {0, 1}

\* Mutant: destroy empties the slot but leaves g_client_count.
DestroyLockedNoCount(c) ==
    /\ zombie' = [zombie EXCEPT ![c] = TRUE]
    /\ g_clients' = [s \in Slots |-> IF g_clients[s] = c THEN NoClient
                                                        ELSE g_clients[s]]
    /\ refs' = [refs EXCEPT ![c] = @ - 1]
    /\ UNCHANGED g_client_count

\* Mutant: destroy leaves the free to unref even for the last reference.
FreeAfterDestroyNever(c) == FALSE

\* cccam_client_destroy: zombie first, out of the slot if still there, and
\* the pool's reference is dropped whether or not the slot was found.
DestroyLocked(c) ==
    /\ zombie' = [zombie EXCEPT ![c] = TRUE]
    /\ g_clients' = [s \in Slots |-> IF g_clients[s] = c THEN NoClient
                                                        ELSE g_clients[s]]
    /\ g_client_count' = IF Pooled(c) THEN g_client_count - 1
                                      ELSE g_client_count
    /\ refs' = [refs EXCEPT ![c] = @ - 1]

FreeAfterDestroy(c) == refs[c] = 1

FreeBlock(c) == mem' = [mem EXCEPT ![c] = "free"]

-----------------------------------------------------------------------------
(* The main thread: cccam3_run.  The two listeners share every step up to  *)
(* the creation of the client; connections turned away by the IP filter    *)
(* change nothing and are not shown.                                       *)

\* Mutant: the accept loop forgets to test g_running.
AcceptForever ==
    /\ mpc = "select"
    /\ mpc' = "allow"
    /\ UNCHANGED <<pool, to_kick, proto, balancer, g_running, mclient, midx,
                   threadv, restv>>

Accept ==
    /\ mpc = "select" /\ g_running
    /\ mpc' = "allow"
    /\ UNCHANGED <<pool, to_kick, proto, balancer, g_running, mclient, midx,
                   threadv, restv>>

\* cccam_load_balancer_allow_connection: the counter is a plain int, the
\* test-and-increment is a load followed by a store.
AllowRead ==
    /\ mpc = "allow"
    /\ IF g_connection_count >= MaxConnections
         THEN mpc' = "select" /\ UNCHANGED mreg
         ELSE mpc' = "allow_w" /\ mreg' = g_connection_count
    /\ UNCHANGED <<pool, to_kick, proto, g_connection_count, treg, g_running,
                   mclient, midx, threadv, restv>>

AllowWrite ==
    /\ mpc = "allow_w"
    /\ g_connection_count' = mreg + 1
    /\ mreg' = 0
    /\ mpc' = "create"
    /\ UNCHANGED <<pool, to_kick, proto, treg, g_running, mclient, midx,
                   threadv, restv>>

\* cccam_client_create fails: the pool is full, or calloc returns NULL.
CreateFails ==
    /\ mpc = "create"
    /\ mpc' = "mrel"
    /\ UNCHANGED <<pool, to_kick, proto, balancer, g_running, mclient, midx,
                   threadv, restv>>

\* cccam_client_create succeeds.  Nobody can see the block before it is in
\* its slot, so allocation and insertion are one step.
Create(c, p) ==
    /\ mpc = "create"
    /\ g_client_count < MaxSlots
    /\ mem[c] = "free"
    /\ \E s \in Slots : /\ FirstFree(s)
                        /\ g_clients' = [g_clients EXCEPT ![s] = c]
    /\ mem' = [mem EXCEPT ![c] = "live"]
    /\ refs' = [refs EXCEPT ![c] = 1]
    /\ zombie' = [zombie EXCEPT ![c] = FALSE]
    /\ to_kick' = [to_kick EXCEPT ![c] = FALSE]
    /\ proto' = [proto EXCEPT ![c] = p]
    /\ g_client_count' = g_client_count + 1
    /\ mclient' = c
    /\ mpc' = IF p = "newcamd" THEN "session" ELSE "ref"
    /\ UNCHANGED <<balancer, g_running, midx, threadv, restv>>

\* newcamd only: calloc of the session and cccam_newcamd_session_start.
SessionStart ==
    /\ mpc = "session"
    /\ mpc' \in {"ref", "mdestroy"}
    /\ UNCHANGED <<pool, to_kick, proto, balancer, g_running, mclient, midx,
                   threadv, restv>>

\* cccam_client_ref on behalf of the thread about to be created.
RefForThread ==
    /\ mpc = "ref"
    /\ AcquireLocked(mclient)
    /\ tpc' = [tpc EXCEPT ![mclient] = "unborn"]
    /\ mpc' = "spawn"
    /\ UNCHANGED <<mem, zombie, g_clients, g_client_count, to_kick, proto,
                   balancer, g_running, mclient, midx, tret, restv>>

Spawn ==
    /\ mpc = "spawn"
    /\ tpc' = [tpc EXCEPT ![mclient] = "start"]
    /\ mpc' = "touch"
    /\ UNCHANGED <<pool, to_kick, proto, balancer, g_running, mclient, midx,
                   tret, restv>>

\* pthread_create fails: unref, then server_destroy_client.
SpawnFails ==
    /\ mpc = "spawn"
    /\ UnrefLocked(mclient)
    /\ tpc' = [tpc EXCEPT ![mclient] = "none"]
    /\ mpc' = "mdestroy"
    /\ UNCHANGED <<mem, zombie, g_clients, g_client_count, to_kick, proto,
                   balancer, g_running, mclient, midx, tret, restv>>

\* After pthread_create the loop writes client->thread_handle, detaches the
\* thread and logs client->client_id, with no reference of its own.
TouchAfterSpawn ==
    /\ mpc = "touch"
    /\ mpc' = "select" /\ mclient' = NoClient
    /\ UNCHANGED <<pool, to_kick, proto, balancer, g_running, midx, threadv,
                   restv>>

\* server_destroy_client in the main thread: destroy, free, release.
MainDestroy ==
    /\ mpc = "mdestroy"
    /\ DestroyLocked(mclient)
    /\ mpc' = IF FreeAfterDestroy(mclient) THEN "mfree" ELSE "mrel"
    /\ UNCHANGED <<mem, to_kick, proto, balancer, g_running, mclient, midx,
                   threadv, restv>>

MainFree ==
    /\ mpc = "mfree"
    /\ FreeBlock(mclient)
    /\ mpc' = "mrel"
    /\ UNCHANGED <<refs, zombie, g_clients, g_client_count, to_kick, proto,
                   balancer, g_running, mclient, midx, threadv, restv>>

\* cccam_load_balancer_release_connection, load and store.
MainReleaseRead ==
    /\ mpc = "mrel"
    /\ mreg' = g_connection_count
    /\ mpc' = "mrel_w"
    /\ UNCHANGED <<pool, to_kick, proto, g_connection_count, treg, g_running,
                   mclient, midx, threadv, restv>>

MainReleaseWrite ==
    /\ mpc = "mrel_w"
    /\ g_connection_count' = IF mreg > 0 THEN mreg - 1 ELSE g_connection_count
    /\ mreg' = 0
    /\ mpc' = "select" /\ mclient' = NoClient
    /\ UNCHANGED <<pool, to_kick, proto, treg, g_running, midx, threadv, restv>>

MainServe ==
    \/ Accept \/ AllowRead \/ AllowWrite \/ CreateFails
    \/ \E c \in Client, p \in {"cccam3", "newcamd"} : Create(c, p)
    \/ SessionStart \/ RefForThread \/ Spawn \/ SpawnFails \/ TouchAfterSpawn
    \/ MainDestroy \/ MainFree \/ MainReleaseRead \/ MainReleaseWrite

-----------------------------------------------------------------------------
(* A client thread: client_thread_func, and cclegacy_serve when the peer   *)
(* turns out to speak the original CCcam protocol.                         *)

\* select() for the protocol detection fails.
DetectError(c) ==
    /\ tpc[c] = "start" /\ proto[c] # "newcamd"
    /\ tpc' = [tpc EXCEPT ![c] = "destroy"]
    /\ tret' = [tret EXCEPT ![c] = "unref"]
    /\ UNCHANGED <<pool, to_kick, proto, balancer, g_running, mainv, restv>>

\* Nothing arrives within two seconds: the login of cclegacy_serve follows,
\* which ends the session ("exit") or enters its loop.
DetectLegacy(c) ==
    /\ tpc[c] = "start" /\ proto[c] # "newcamd"
    /\ proto' = [proto EXCEPT ![c] = "legacy"]
    /\ \E pc \in {"loop", "exit"} : tpc' = [tpc EXCEPT ![c] = pc]
    /\ UNCHANGED <<pool, to_kick, balancer, g_running, mainv, tret, restv>>

DetectOwn(c) ==
    /\ tpc[c] = "start"
    /\ tpc' = [tpc EXCEPT ![c] = "loop"]
    /\ UNCHANGED <<pool, to_kick, proto, balancer, g_running, mainv, tret, restv>>

\* Mutant: the loops do not look at to_kick.
KeepServingKicked(c) == ~zombie[c] /\ (g_running \/ proto[c] = "legacy")

\* Mutant: the loops do not look at zombie.
KeepServingZombie(c) == ~to_kick[c] /\ (g_running \/ proto[c] = "legacy")

\* The condition of the two service loops.  The legacy loop does not look
\* at g_running.
KeepServing(c) == /\ ~zombie[c]
                  /\ ~to_kick[c]
                  /\ g_running \/ proto[c] = "legacy"

LoopTop(c) ==
    /\ tpc[c] = "loop"
    /\ tpc' = [tpc EXCEPT ![c] = IF KeepServing(c) THEN "select" ELSE "exit"]
    /\ UNCHANGED <<pool, to_kick, proto, balancer, g_running, mainv, tret, restv>>

\* An ECM or an EMM is given to the readers and the emulator, which keep the
\* thread until they return.  It holds nothing but its own reference then.
AskReader(c) ==
    /\ tpc[c] = "select"
    /\ tpc' = [tpc EXCEPT ![c] = "reader"]
    /\ UNCHANGED <<pool, to_kick, proto, balancer, g_running, mainv, tret, restv>>

\* The message is handled, with or without the readers.
Serving(c) == tpc[c] \in {"select", "reader"}

\* select() times out without the client having expired, or a message is
\* handled that does not touch the pool.
ServeOther(c) ==
    /\ Serving(c)
    /\ tpc' = [tpc EXCEPT ![c] = "loop"]
    /\ UNCHANGED <<pool, to_kick, proto, balancer, g_running, mainv, tret, restv>>

\* select error, 120 s of silence, lost connection, a message that does not
\* parse or a handler that fails: the loop is left.
ServeBreak(c) ==
    /\ Serving(c)
    /\ tpc' = [tpc EXCEPT ![c] = "exit"]
    /\ UNCHANGED <<pool, to_kick, proto, balancer, g_running, mainv, tret, restv>>

\* handle_newcamd_message destroys the client itself and returns to the loop.
NewcamdFails(c) ==
    /\ Serving(c) /\ proto[c] = "newcamd"
    /\ tpc' = [tpc EXCEPT ![c] = "destroy"]
    /\ tret' = [tret EXCEPT ![c] = "loop"]
    /\ UNCHANGED <<pool, to_kick, proto, balancer, g_running, mainv, restv>>

\* cccam_ecm_process finds the client by id and keeps a second reference
\* while it updates the statistics, and does so again for a request that
\* succeeded; the two lookups are one step here.  newcamd requests carry the
\* id 0 (the session start clears it) and skip this.
EcmFind(c) ==
    /\ Serving(c) /\ proto[c] # "newcamd"
    /\ Acquirable(c)
    /\ AcquireLocked(c)
    /\ tpc' = [tpc EXCEPT ![c] = "ecm"]
    /\ UNCHANGED <<mem, zombie, g_clients, g_client_count, to_kick, proto,
                   balancer, g_running, mainv, tret, restv>>

\* The thread's own reference keeps this one from being the last.
EcmUnref(c) ==
    /\ tpc[c] = "ecm"
    /\ UnrefLocked(c)
    /\ tpc' = [tpc EXCEPT ![c] = "loop"]
    /\ UNCHANGED <<mem, zombie, g_clients, g_client_count, to_kick, proto,
                   balancer, g_running, mainv, tret, restv>>

\* The unlocked test of client->zombie after the loop.
ExitTest(c) ==
    /\ tpc[c] = "exit"
    /\ tpc' = [tpc EXCEPT ![c] = IF zombie[c] THEN "unref" ELSE "destroy"]
    /\ tret' = [tret EXCEPT ![c] = "unref"]
    /\ UNCHANGED <<pool, to_kick, proto, balancer, g_running, mainv, restv>>

\* server_destroy_client in the client's thread: destroy, free, release.
ThreadDestroy(c) ==
    /\ tpc[c] = "destroy"
    /\ DestroyLocked(c)
    /\ tpc' = [tpc EXCEPT ![c] = IF FreeAfterDestroy(c) THEN "dfree" ELSE "rel"]
    /\ UNCHANGED <<mem, to_kick, proto, balancer, g_running, mainv, tret, restv>>

ThreadDestroyFree(c) ==
    /\ tpc[c] = "dfree"
    /\ FreeBlock(c)
    /\ tpc' = [tpc EXCEPT ![c] = "rel"]
    /\ UNCHANGED <<refs, zombie, g_clients, g_client_count, to_kick, proto,
                   balancer, g_running, mainv, tret, restv>>

ThreadReleaseRead(c) ==
    /\ tpc[c] = "rel"
    /\ treg' = [treg EXCEPT ![c] = g_connection_count]
    /\ tpc' = [tpc EXCEPT ![c] = "rel_w"]
    /\ UNCHANGED <<pool, to_kick, proto, g_connection_count, mreg, g_running,
                   mainv, tret, restv>>

\* Mutant: release without the test for zero.
ThreadReleaseWriteUnguarded(c) ==
    /\ tpc[c] = "rel_w"
    /\ g_connection_count' = treg[c] - 1
    /\ treg' = [treg EXCEPT ![c] = 0]
    /\ tpc' = [tpc EXCEPT ![c] = tret[c]]
    /\ tret' = [tret EXCEPT ![c] = "unref"]
    /\ UNCHANGED <<pool, to_kick, proto, mreg, g_running, mainv, restv>>

ThreadReleaseWrite(c) ==
    /\ tpc[c] = "rel_w"
    /\ g_connection_count' = IF treg[c] > 0 THEN treg[c] - 1
                                            ELSE g_connection_count
    /\ treg' = [treg EXCEPT ![c] = 0]
    /\ tpc' = [tpc EXCEPT ![c] = tret[c]]
    /\ tret' = [tret EXCEPT ![c] = "unref"]
    /\ UNCHANGED <<pool, to_kick, proto, mreg, g_running, mainv, restv>>

ThreadUnref(c) ==
    /\ tpc[c] = "unref"
    /\ UnrefLocked(c)
    /\ tpc' = [tpc EXCEPT ![c] = IF FreeAfterUnref(c) THEN "ufree" ELSE "none"]
    /\ UNCHANGED <<mem, zombie, g_clients, g_client_count, to_kick, proto,
                   balancer, g_running, mainv, tret, restv>>

ThreadFree(c) ==
    /\ tpc[c] = "ufree"
    /\ FreeBlock(c)
    /\ tpc' = [tpc EXCEPT ![c] = "none"]
    /\ UNCHANGED <<refs, zombie, g_clients, g_client_count, to_kick, proto,
                   balancer, g_running, mainv, tret, restv>>

Thread(c) ==
    \/ DetectError(c) \/ DetectLegacy(c) \/ DetectOwn(c)
    \/ LoopTop(c) \/ AskReader(c) \/ ServeOther(c) \/ ServeBreak(c)
    \/ NewcamdFails(c) \/ EcmFind(c) \/ EcmUnref(c) \/ ExitTest(c)
    \/ ThreadDestroy(c) \/ ThreadDestroyFree(c)
    \/ ThreadReleaseRead(c) \/ ThreadReleaseWrite(c)
    \/ ThreadUnref(c) \/ ThreadFree(c)

-----------------------------------------------------------------------------
(* REST request threads: json_clients walks the slots with                 *)
(* cccam_client_get_by_index_ref, /clients/kick uses cccam_client_find_by_id *)

RestAcquire(r, c) ==
    /\ rpc[r] = "idle"
    /\ Acquirable(c)
    /\ AcquireLocked(c)
    /\ rpc' = [rpc EXCEPT ![r] = "hold"]
    /\ rclient' = [rclient EXCEPT ![r] = c]
    /\ UNCHANGED <<mem, zombie, g_clients, g_client_count, to_kick, proto,
                   balancer, g_running, mainv, threadv>>

RestKick(r) ==
    /\ rpc[r] = "hold"
    /\ ~to_kick[rclient[r]]
    /\ to_kick' = [to_kick EXCEPT ![rclient[r]] = TRUE]
    /\ UNCHANGED <<pool, proto, balancer, g_running, mainv, threadv, restv>>

\* Mutant: the early exit of json_clients forgets its unref.
RestUnrefLost(r) ==
    /\ rpc[r] = "hold"
    /\ rpc' = [rpc EXCEPT ![r] = "idle"]
    /\ rclient' = [rclient EXCEPT ![r] = NoClient]
    /\ UNCHANGED <<pool, to_kick, proto, balancer, g_running, mainv, threadv>>

RestUnref(r) ==
    /\ rpc[r] = "hold"
    /\ UnrefLocked(rclient[r])
    /\ rpc' = [rpc EXCEPT ![r] = IF FreeAfterUnref(rclient[r]) THEN "free"
                                                               ELSE "idle"]
    /\ rclient' = [rclient EXCEPT ![r] = IF FreeAfterUnref(@) THEN @
                                                              ELSE NoClient]
    /\ UNCHANGED <<mem, zombie, g_clients, g_client_count, to_kick, proto,
                   balancer, g_running, mainv, threadv>>

RestFree(r) ==
    /\ rpc[r] = "free"
    /\ FreeBlock(rclient[r])
    /\ rpc' = [rpc EXCEPT ![r] = "idle"]
    /\ rclient' = [rclient EXCEPT ![r] = NoClient]
    /\ UNCHANGED <<refs, zombie, g_clients, g_client_count, to_kick, proto,
                   balancer, g_running, mainv, threadv>>

RestThread(r) ==
    \/ \E c \in Client : RestAcquire(r, c)
    \/ RestKick(r) \/ RestUnref(r) \/ RestFree(r)

-----------------------------------------------------------------------------
(* Shutdown: the signal handler, and cccam_client_close_all as             *)
(* cccam3_cleanup calls it.                                                *)

Signal ==
    /\ g_running
    /\ g_running' = FALSE
    /\ UNCHANGED <<pool, to_kick, proto, balancer, mainv, threadv, restv>>

LeaveLoop ==
    /\ mpc = "select" /\ ~g_running
    /\ mpc' = "ca_mark"
    /\ UNCHANGED <<pool, to_kick, proto, balancer, g_running, mclient, midx,
                   threadv, restv>>

\* Mutant: close_all shuts the sockets down without marking the clients.
CloseMarkNone ==
    /\ mpc = "ca_mark"
    /\ mpc' = "ca_join" /\ midx' = 1
    /\ UNCHANGED <<pool, to_kick, proto, balancer, g_running, mclient, threadv,
                   restv>>

\* 1) every pooled client becomes a zombie, under the mutex.
CloseMark ==
    /\ mpc = "ca_mark"
    /\ zombie' = [c \in Client |-> zombie[c] \/ Pooled(c)]
    /\ mpc' = "ca_join" /\ midx' = 1
    /\ UNCHANGED <<mem, refs, g_clients, g_client_count, to_kick, proto,
                   balancer, g_running, mclient, threadv, restv>>

\* 2) for each slot: read the pointer, then pthread_join.  Every client
\* thread was detached by the accept loop, so pthread_join fails with EINVAL
\* and does not wait.
CloseJoinRead ==
    /\ mpc = "ca_join"
    /\ IF midx \in Slots
          THEN /\ mclient' = g_clients[midx]
               /\ mpc' = IF g_clients[midx] = NoClient THEN "ca_join"
                                                       ELSE "ca_deref"
               /\ midx' = IF g_clients[midx] = NoClient THEN midx + 1 ELSE midx
          ELSE /\ mpc' = "ca_drop" /\ midx' = 1
               /\ UNCHANGED mclient
    /\ UNCHANGED <<pool, to_kick, proto, balancer, g_running, threadv, restv>>

CloseJoin ==
    /\ mpc = "ca_deref"
    /\ mpc' = "ca_join" /\ midx' = midx + 1
    /\ UNCHANGED <<pool, to_kick, proto, balancer, g_running, mclient, threadv,
                   restv>>

\* 3) for each slot: read the pointer and clear the slot without the mutex,
\* drop one reference with it, free without it.
CloseDropRead ==
    /\ mpc = "ca_drop"
    /\ IF midx \in Slots
          THEN /\ mclient' = g_clients[midx]
               /\ g_clients' = [g_clients EXCEPT ![midx] = NoClient]
               /\ mpc' = IF g_clients[midx] = NoClient THEN "ca_drop" ELSE "ca_dec"
               /\ midx' = IF g_clients[midx] = NoClient THEN midx + 1 ELSE midx
               /\ UNCHANGED g_client_count
          ELSE /\ mpc' = "closed"
               /\ g_client_count' = 0
               /\ UNCHANGED <<mclient, g_clients, midx>>
    /\ UNCHANGED <<mem, refs, zombie, to_kick, proto, balancer, g_running,
                   threadv, restv>>

CloseDec ==
    /\ mpc = "ca_dec"
    /\ UnrefLocked(mclient)
    /\ mpc' = IF refs[mclient] \in {0, 1} THEN "ca_free" ELSE "ca_drop"
    /\ midx' = IF refs[mclient] \in {0, 1} THEN midx ELSE midx + 1
    /\ UNCHANGED <<mem, zombie, g_clients, g_client_count, to_kick, proto,
                   balancer, g_running, mclient, threadv, restv>>

CloseFree ==
    /\ mpc = "ca_free"
    /\ FreeBlock(mclient)
    /\ mpc' = "ca_drop" /\ midx' = midx + 1
    /\ UNCHANGED <<refs, zombie, g_clients, g_client_count, to_kick, proto,
                   balancer, g_running, mclient, threadv, restv>>

MainClose == \/ LeaveLoop \/ CloseMark \/ CloseJoinRead \/ CloseJoin
             \/ CloseDropRead \/ CloseDec \/ CloseFree

-----------------------------------------------------------------------------
(* ServeSpec is the server until a termination signal; Spec adds shutdown. *)

ServeNext == \/ MainServe
             \/ \E c \in Client : Thread(c)
             \/ \E r \in Rest : RestThread(r)

Next == ServeNext \/ Signal \/ MainClose

\* A thread that can run does run: no step waits for another one, and every
\* call that blocks on a socket has a timeout (select 1 s or 2 s, SO_RCVTIMEO
\* and SO_SNDTIMEO 10 s).  The readers need not return: the emulator decrypts
\* an ECM or EMM of PowerVU with a key that does not fit over and over
\* (cccam3_emu_powervu.c:2024-2055, 2309-2374), and who needs the mutex of the
\* reader that an ECM has taken waits with it.  Nothing forces new
\* connections, kicks or ECM requests.
ThreadFairness == \A c \in Client : WF_vars(tpc[c] # "reader" /\ Thread(c))
RestFairness == \A r \in Rest : WF_vars(RestUnref(r) \/ RestFree(r))
MainBusy == mpc # "select" /\ MainServe
MainFairness == WF_vars(MainBusy \/ MainClose)

ServeSpec == Init /\ [][ServeNext]_vars
Spec == Init /\ [][Next]_vars
FairSpec == Spec /\ MainFairness /\ ThreadFairness /\ RestFairness

-----------------------------------------------------------------------------
(* Who holds a reference, and who has decided to free.                     *)

RestHolders(c) == {r \in Rest : rpc[r] = "hold" /\ rclient[r] = c}

Holders(c) ==
    RestHolders(c)
      \cup (IF Pooled(c) THEN {"pool"} ELSE {})
      \cup (IF tpc[c] \notin {"none", "ufree"} THEN {"thread"} ELSE {})
      \cup (IF tpc[c] = "ecm" THEN {"ecm"} ELSE {})

MainFreeing(c) == mpc = "mfree" /\ mclient = c
ThreadFreeing(c) == tpc[c] = "ufree"
RestFreeing(r, c) == rpc[r] = "free" /\ rclient[r] = c
Freeing(c) == \/ MainFreeing(c) \/ ThreadFreeing(c)
              \/ \E r \in Rest : RestFreeing(r, c)

\* client.c:17-20: the reference count of a block is exactly the number of
\* parties that may still use it: the slot, the client's thread, its nested
\* ECM lookup and each REST request.  No path loses or duplicates one.
RefsAreHolders ==
    \A c \in Client : mem[c] = "live" => refs[c] = Cardinality(Holders(c))

\* client.c:99-109, 131-142: a block is freed only when nobody holds it, and
\* by one party only: every pointer of a slot, a thread or a REST request,
\* and of the one party about to call free, points to a live block.
HoldersAreLive ==
    \A c \in Client :
      /\ Holders(c) # {} \/ Freeing(c) => mem[c] = "live"
      /\ Freeing(c) => Holders(c) = {}
      /\ MainFreeing(c) => ~ThreadFreeing(c)
      /\ \A r, q \in Rest : RestFreeing(r, c) =>
            /\ ~MainFreeing(c) /\ ~ThreadFreeing(c)
            /\ RestFreeing(q, c) => q = r

\* A block that nobody holds any more is about to be freed: no order of
\* destroy, unref and failed thread creation leaks a client and its socket.
NoLeak ==
    \A c \in Client :
      mem[c] = "live" => Holders(c) # {} \/ Freeing(c)

\* client.c:61, 93: g_client_count, which create tests without the mutex,
\* is the number of occupied slots at every moment the mutex is free.
CountMatchesPool ==
    g_client_count = Cardinality({s \in Slots : g_clients[s] # NoClient})

\* client.c:22-29: once destroyed, a client never gains a reference again.
\* A block that has been freed and allocated anew is another client.
ZombieNotRevived ==
    [][\A c \in Client :
         mem[c] = "live" /\ zombie[c] /\ mem'[c] = "live" =>
           zombie'[c] /\ refs'[c] <= refs[c]]_vars

\* The readers or the emulator keep the thread of c for ever.
Stalled(c) == <>[](tpc[c] = "reader")

\* server.c:851-852, cc_legacy.c:407: a client kicked through the REST API
\* loses its slot, and its memory and socket are released, whatever its
\* protocol and however many requests were looking at it, unless the readers
\* never let go of its thread.
KickedIsFreed ==
    \A c \in Client :
      Stalled(c) \/ (to_kick[c] /\ mem[c] = "live" ~> mem[c] = "free")

\* server.c:950, 1109: a termination signal takes the main thread out of
\* the accept loop and through close_all, from whatever point it reached it.
ShutdownCompletes == ~g_running ~> mpc = "closed"

\* client.c:220-232: after a termination signal every client thread ends,
\* including the ones in the legacy loop, which never test g_running, unless
\* the readers never let go of it.
ThreadsDrain ==
    \A c \in Client : Stalled(c) \/ (~g_running ~> tpc[c] = "none")

\* client.c:222-232: once close_all has marked the pool no slot holds a
\* client that a REST request could still take a reference to.
ClosingPoolIsZombie ==
    mpc \in {"ca_join", "ca_deref", "ca_drop", "ca_dec", "ca_free", "closed"}
      => \A c \in Client : Pooled(c) => zombie[c] /\ mem[c] = "live"

=============================================================================
