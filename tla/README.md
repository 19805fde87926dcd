# TLA+ specifications of the CCcam3 server

CCcam3 is a card-sharing server in C. Clients log in over TCP (its own CCcam3
protocol, legacy CCcam, Newcamd), or locally over DVBAPI, and send ECMs; the
server answers with control words from a cache, from remote servers, from a card
or from an emulator. This directory holds TLA+ models of the parts of it where
threads, signals, reloads, timeouts and limits meet, TLC configurations that
check them, and proofs checked by TLAPS. Paths below are relative to `src/src/`
unless they begin with `docs/`, `configs/` or the name of a top-level file.

## 1. Inventory

| Component | State | Operations | Correct when |
|---|---|---|---|
| Client pool, `core/cccam3_client.c` | slots, per client: references, zombie and kick flags | create, ref, unref, destroy, find, close_all | count = holders, freed once, by the last holder |
| Accept path, client threads, `core/cccam3_server.c` 540-1106 | connection count, thread per client | accept, admit, spawn, serve, exit | limit kept, every thread leaves |
| Main loop and signals, `core/cccam3_server.c` 239-250, 942-1106 | three flags | select, reload, rotate | requests not lost, ends only on request |
| Logger, `core/cccam3_logger.c` | mutex, file | log, rotate | no thread waits for ever |
| CW cache, `CCshare/cccam3_cache.c` | linked LRU list under a rwlock | add, find, remove, clean | bounded, never returns an expired or foreign word |
| ECM processing and hop control, `CCshare/cccam3_ecm.c`, `cccam3_hop_control.c` | none of its own | process, check, increment | hop = origin + 1, within limits, current word |
| Rate limit, `core/cccam3_server.c` 216-236 | window per client | client_ecm_allowed | at most the limit per window |
| Card manager, `CCshare/cccam3_card_manager.c` | list of readers, their connections, backoff; EMM ring | get_cw, send_emm, reload | own answer, ends, retries, one EMM once |
| User manager, `CCshare/cccam3_user_manager.c` | list of users, count, file | authenticate, auto_register, reload, set_* | accounts as configured at any time |
| Login guard, `core/cccam3_server.c` 153-214 | 64 slots | failure, success, blocked | blocks who failed, and only for a while |
| Protocol, handshake, ciphers, `network/cccam3_protocol.c`, `cccam3_handshake*.c` | context per end with two counters; one handshake result for the process, under a mutex | build, parse, handshake | both ends have the key of their own handshake and stay in step |
| Newcamd, legacy CCcam, `network/` | session per client | login, ECM | same |
| DVBAPI server, `hardware/cccam3_dvbapi.c` | table of decoders, their count, a condition | accept, serve, leave, cleanup | count = entries in use, all threads gone before cleanup returns |
| DVB card, `hardware/cccam3_dvb.c` | tuned service, channels found, service asked for | tune, scan, zap, ECM, CW, EMM, cleanup | a CW goes only to its own service, a zap is taken up |
| STAPI, smartcard, `hardware/` | handles of vendor libraries | read, write | |
| Emulator, `CCshare/cccam3_emu*.c` | key list, `SoftCam.Key` | get_cw, process_emm, reload | one entry per key, a reload gives the file, the list outgrows its limit by little, jobs end |
| REST API, `api/cccam3_rest_api.c` | listening socket, count of requests | accept, limit, handle, cleanup | bounded threads, cleanup ends |
| Channel names, configuration, web page | tables | load, look up | no stale pointers |

How they interact: the main loop accepts connections and starts a thread for each
client. A client's thread logs in through the user manager and the login guard, and
passes ECMs to `cccam_ecm_process`, which looks up the client by id in the pool, asks
the cache, then the card manager, and stores the answer in the cache. REST threads
walk the pool, kick clients, change users and reload files. SIGHUP makes the main loop
reload keys, users, readers and channels beside all of that. At shutdown the main
thread tears the subsystems down one after the other.

What is hard here: detached threads that share a pool with hand-made reference
counts; state chosen under one lock and used under another (or none); reloads of
lists that are in use; a signal handler that takes a lock; timeouts on connections
that are used again; limits enforced by counters that several threads change. The
list of hazards, each at its line with the properties that cover it, is in
`PROJECT.json`.

The threads of the process are the main thread, one per client, one for the DVB card,
one that accepts decoders and one per decoder, one that accepts REST requests and one
per request. `Services` puts the main thread, its signals and the threads of the
services together; the client threads are `ClientPool`'s.

## 2. Modules

| Module | Models | Extends / uses |
|---|---|---|
| `ClientPool` | pool, accept path, client threads, REST use of the pool, shutdown | |
| `CwStore` | abstract: what the cache promises | |
| `CwCache` | the linked list, its locks and the periodic cleaning | refines `CwStore` |
| `EcmPipeline` | an ECM from message to reply: rate limit, cache, hops, reader | composes with `CwStore` as the cache |
| `ServerLoop` | select loop, signal handler, log mutex, reload sequence | |
| `ReaderManager` | selection, backoff, remote sessions, EMM forwarding, reload | |
| `UserManager` | accounts, login, registration, reload, REST changes | |
| `LoginGuard` | abstract: what the table of failed logins does for whoever logs in | |
| `CryptoContext` | the encryption context of one end, building and taking apart messages | |
| `OwnSession` | sessions of the server's own protocol, both ends, several at once | `CryptoContext`; refines `LoginGuard` |
| `EmuKeys` | lines of `SoftCam.Key`, insertion, the three lookups, as values | |
| `EmuEcm` | each emulated system as the keys it asks for and what it ends with | `EmuKeys` |
| `Emulator` | threads that look up, add and reload keys | `EmuEcm` |
| `Dvbapi`, `RestServer`, `DvbReader` | the threads of one service each | |
| `Services` | main loop, signals, the three services and `cccam3_cleanup` | composes `ServerLoop`, `Dvbapi`, `RestServer`, `DvbReader` |
| `MC*` | constants and symmetry for TLC | the module of that name |
| `ClientPoolProofs`, `CwCacheProofs`, `EcmPipelineProofs`, `ReaderManagerProofs`, `UserManagerProofs`, `OwnSessionProofs`, `ServicesProofs`, `EmulatorProofs` | theorems | the module of that name |

`EcmPipeline` uses the abstract `CwStore`, not the list: the run `CwCacheStore`
shows, and `CwCacheProofs` proves, that the list implements it, so what is shown of the pipeline holds for the
code's cache as well.

Conventions: variables and actions bear the names of the C variables and functions
where TLA+ allows it. A section under a mutex is one action; accesses without the
mutex are actions of their own. An operator whose comment begins with *Mutant* is a
deliberately wrong version of the operator after it and is used by no specification;
`PROJECT.json` says which property it must break.

### Correspondence with the code

- **ClientPool.** `reader` is the position of a thread whose ECM or EMM the readers or the
  emulator have. A client is a heap block; `malloc` hands out freed blocks again.
  `mem`, `refs`, `zombie`, `to_kick`, the slots and the connection count are the C
  fields; `tpc`, `mpc`, `rpc` are the positions of the client threads, of the main
  thread and of the REST threads. The load and the store of `g_connection_count` are
  two steps, since nothing makes them one. `pthread_join` of a detached thread returns
  an error at once. The two lookups an ECM makes are one step; Newcamd requests carry
  client id 0 and look up nothing. Ids do not collide. In the shutdown specification a
  freed block keeps its contents until it is reused.
- **CwCache.** Nodes are heap blocks, `head`, `tail`, `next`, `prev` are the pointers. A
  search is one step, since nobody changes the list under it: what it visits is the least
  set that has the head and the successors (`Visited`), and it returns at the first match
  among them. The cleaning frees entries of the list it walks, so each turn of its loop
  is a step, under the write lock (`wrlocked`, `current`).
  `valid = 0` under the read lock is a write that races only with writes of the same
  value. `Remove` has no caller in the server but is part of its interface. Statistics
  are left out.
- **EcmPipeline.** Hops are `uint8_t` (mod 256). A control word carries the ghost
  fields of its origin (hop, ECM period); `accepted` is a ghost count for the rate
  property. The reader is abstract here.
- **ServerLoop.** Handlers are installed with `signal()`; `select` is never restarted
  after one. No thread blocks signals, so any thread may run the handler.
- **ReaderManager.** Time is relative: what is left of a backoff, the age of a
  remembered EMM. The failure count saturates at its threshold. The remote server
  answers in order or not at all. A short `send` of an EMM leaves half a message on the
  wire (`garbled`). Session encryption is left out: it presupposes that the ECM could be
  built, which section 5 says is not so in AES-GCM.
- **UserManager.** Names and passwords are atoms, hashing is equality, `max_hops` is
  cast mod 256. Loading reads the file block by block with the mutex held; appends
  to the file take no lock. Boot is a load before clients are accepted.
- **LoginGuard.** Read and store of a failure count are two steps of unsynchronised
  threads; the clock is read once, before the first, and may go on between them
  (`late`).
- **CryptoContext, OwnSession.** A payload is its length and its meaning; encrypted, it
  carries key, mode and message number, and GCM refuses it unless they are the
  receiver's. `g_handshake_mode` and `g_session_key` are the globals that all threads
  share; `hs_lock` is `g_handshake_mutex`. `srv` and `cli` are the two ends of a
  connection, `up` and `down` what is under way. A client is either a CCcam3 server that
  runs the same code, or one of another make, which is external. The guard's variables
  are `LoginGuard`'s, a connection being the thread that serves it.
- **EmuKeys, EmuEcm, Emulator.** A key line is a sequence of tokens with what the parser
  asks of each; `keys` is `g_emu_keys`, latest first, and its count is its length.
  Each hold of `g_emu_mutex` is one step; the limit is looked at before it, as in
  `emu.c:84`. A system is a plan of lookups; its cipher is the statement that a check
  passes when the keys in hand are those the ECM was encrypted under. `quiet` is a ghost
  that tells which reloads nobody has disturbed.
- **Dvbapi.** An entry of `g_clients` and its thread are one record; under `g_lock`
  everything is one step. An *orphan* is an entry whose thread could not be started.
- **RestServer.** `request` are the threads of requests; the count is taken before the
  thread is started and given back by it. A round is one of the 100 ms waits of cleanup.
- **DvbReader.** One thread; `g_pending_zap` is written by request threads. `ecm` is the
  service of the ECM in hand, a ghost.
- **Services.** `enabled` is the configuration. `cpc` follows `cccam3_cleanup` in its
  order: decoders, DVB, clients, users, REST, caches.

## 3. Runs

| Run | Shows | Bounds |
|---|---|---|
| ClientPoolServe | references = holders, no use after free, no leak, count = pool | 2 blocks, 2 REST threads, 2 slots |
| ClientPoolShutdown | close_all marks all, ends, threads leave; a kicked client is freed; both unless the readers keep the thread | 1 block, 2 REST threads, 2 slots |
| CwCacheStore | the list is well formed and within capacity, `CwStore` is implemented, expired entries leave | 2 channels, 2 words, capacity 3, 3 blocks, 1 thread |
| EcmPipelineServe | hops, limits, rate | 1 client, 1 local source, 2 channels, origin hops 0, 2, 3, 255 |
| Services | a reload starts, the sources of ECMs are gone before what they use, the server ends, decoders are counted, a CW goes to its service, a zap is taken up; end and zap unless the readers never return | configurations {}, {DVBAPI}, {DVB, REST}; 2 signals, 2 decoders, 1 request thread with limit 1, 1 round of waiting, 2 services in two possible tables |
| ServerLoopReload (violated) | SIGHUP during `select` ends the server | 1 signal |
| ReaderSession | a thread gets its own answer, requests end and a lone reader in error is asked again, unless the emulator never returns | 2 threads, remote reader and emulator, channel 1 served by the remote one alone, 2 ECMs, 1 EMM, threshold 1 |
| ReaderReload (violated) | readers in use are freed by a reload | 1 thread, 1 reader, 1 reload |
| UsersCount | count = length of the list; every account has one source | 3 names, limit 2, 3 blocks in the file, 2 reloaders, 2 reloads, 1 REST change |
| OwnSessions | keys agree, ends stay in step, logins end, blocks end | 2 connections from 2 addresses on 1 slot, limit 2, one client of the same code, 2 encrypted messages a session, 1 message under way |
| SessionCw (violated) | a CW that was found cannot be put into a message | the same |
| EmulatorKeys | one entry per key, the list outgrows its limit by so many keys at most, an undisturbed reload gives the file, jobs end unless their keys never fit | 1 worker, 1 reloader, 3 keys, 3 lines, 2 loads, 15 jobs, 6 files |

Why the bounds are enough: two parties and one contended object give every pairwise
race; a second object gives reuse (of a block, a slot, a connection); limits are set
so that they are reached and passed; clocks run past every timeout. Three addresses
for two slots make one address take over the slot of another. Three cache entries are
the least with one in the middle of the list; two channels still fill them, since an
entry that was invalidated stays in the list until it is cleaned. The services share
nothing before cleanup, so DVB and REST, which do talk to each other, are explored
together and DVBAPI by itself; the signals that only concern the loop, and the log lines of
threads that belong to no service, come only in the configuration without services. Two
decoders let one connect while the other is shut down. One slot for two addresses makes
the guard's entry change hands at every login. The jobs of the emulator are one for each
way through it, PowerVU's with keys that fit and that do not; three lines reach the
limit of keys, and the second load overlaps with lookups and additions.

A violated run checks one sentence of a document or comment against what the code
does; the finding in `PROJECT.json` quotes the sentence. `CHECK_DEADLOCK FALSE` is
used only where the server may end.

## 4. Fairness

- Client threads, REST threads that hold a reference, and the main loop when it is not
  waiting are weakly fair: `select` has timeouts of 1 and 2 s, sockets 10 s. Connecting,
  kicking, asking and signalling are never assumed to happen.
- Nobody assumes that the emulator returns. An ECM of PowerVU whose key is found and does
  not fit is decrypted over and over (`powervu.c:2024-2055`), on the thread that brought
  it and with the mutex of its reader held (`card_manager.c:602-653`). So a thread that is
  in the readers or the emulator is not fair (`AskReader` and the position `reader` in
  `ClientPool`, `InEmulator` in `ReaderManager`, `Asking` in `Dvbapi` and `DvbReader`), and
  the liveness properties except just this: `Stalled`, `CardStalled` and `DecoderStalled`
  say that a thread stays there from some time on, or in `ReaderManager` waits for the
  mutex of one that does.
- `ServerLoop`: strong fairness of the main loop and of the handler for the log mutex,
  which is freed and taken again and again; weak fairness of who holds it.
- `CwCache`: a turn of the main loop that refuses a connection, or fails to serve one, is
  cut short before the cleaning (`server.c:997`, `1004`, `1011`, `1022`, `1033`, `1085`);
  it is assumed that turns without that come again and again. A flood of refused
  connections would break this, and the expired entries would stay.
- `ReaderManager`: a thread at work with a remote server goes on, since connect, send and
  receive have timeouts; a contended mutex is got in the end. `BusySpec` adds that clients keep
  asking, without which nobody would retry anything.
- `LoginGuard`, `OwnSession`: a login goes on, since its socket times out, and so does
  the clock; the mutex of the handshake, which every holder gives back, is got in the
  end (strong fairness). Clients owe nothing: they may stop sending or go away.
- `Emulator`: a thread that has begun a job or a load goes on; neither need ever begin,
  and nobody need edit the key file. A job of PowerVU that goes on may ask for ever:
  `JobsEnd` excepts one, ECM or EMM, whose keys are found and do not fit time after time
  (`DoesNotFit`). The run has such an ECM, and violates the property without the
  exception.
- `Services`: the threads of the services, when no ECM or EMM keeps them, and cleanup go on, since `select`, the request
  sockets and the demultiplexer have timeouts; a decoder need not send anything, for it
  is its socket's shutdown that ends its thread. The main loop and its handler compete
  for the mutex of the log as in `ServerLoop`.

## 5. What the properties do not promise

The models contain the following behaviours of the code too. They are left out of the
properties on purpose; whoever strengthens one will meet them.

- `ClientPool`: after `pthread_create` the main loop writes `thread_handle` without a
  reference; the thread may have freed the client by then (`server.c:1035`). So
  `HoldersAreLive` speaks of those who hold a reference, which the main loop no longer
  does.
- `ClientPool`: the connection count has no lock. A lost update makes it drift from
  the pool and `max_clients` be passed (`optimizer.c:61-74`).
- `ClientPool`: `close_all` goes on with pointers it collected while client threads
  free them, and joins nobody, since the threads are detached (`client.c:234`,
  `server.c:1036`, `1123`). The safety properties of `ClientPoolServe` are therefore
  those of the serving phase; after a termination signal only the properties of
  `ClientPoolShutdown` hold.
- `CwCache`: an addition reads its entry for the log after the unlock
  (`cache.c:177`), and a hit does not promote its entry: what is
  evicted is the entry least recently written.
- `EcmPipeline`: `increment_hop` stops at the global limit, so the hop that
  `HopFromOrigin` compares with is the clamped one.
- `EcmPipeline`: the cache is keyed by channel, not by ECM (`ecm.c:130`). An entry lives
  its time from its arrival, so the word of one period is served to an ECM of the next,
  and of two answers the one that came last is kept, although its ECM may be the older. What
  there is, a bound on the time since its arrival, is proved (`CachedWordsAreFresh`).
- `ServerLoop`: a handler of SIGTERM logs; if the thread it interrupted holds the
  mutex of the log, the server hangs (`logger.c:86`). `ReloadStarts` allows for this:
  see its definition.
- `ReaderManager`: a reader in error scores 100 worse and is not asked again while
  another one serves the channel; `ErrorIsRetried` speaks of the only reader of a channel. A
  thread that waited for the mutex uses a reader that has gone into backoff meanwhile.
  Two threads may forward the same EMM, and one that could not be sent is still
  remembered as seen.
- `UserManager`: between the two halves of a reload a configured user is refused (or,
  with `auto_register`, registered anew), a client that is past authentication gets a
  hop limit of 0, and a second reload may add the default account. `AccountsHaveSource`
  therefore says where an account comes from, not that each configured one is there.
  The level of an account, 0 included, plays no part in authentication. The path
  `/users/set` finds its second parameter only when it is written `&?enabled=`
  (`rest_api.c:792`).
- `LoginGuard`: a slot that changes hands keeps its block, and the window of a slot
  begins anew one minute after its first failure. `BlockEnds` says that whoever is
  blocked, rightly or not, is let in again.
- `OwnSession`: no ECM, EMM or control word can be built in AES-GCM, the only mode a
  handshake yields (`SessionCw`); the sender ignores the result and answers nothing, so
  that a session of two CCcam3 servers carries keepalives only. What `InStep` says of
  longer sessions it says for clients of another make.
- `Dvbapi`: if the thread of a decoder cannot be started its entry is never given back
  and cleanup waits for it for ever (`dvbapi.c:560`); `ServerEnds` names this case. A
  CA_PMT of more than 127 bytes puts the decoder's stream out of step, and filter data of
  the channel before may be taken for an ECM of the new one.
- `RestServer`: cleanup waits three seconds while request sockets time out after ten, so
  a request may outlive it, against the comment at `rest_api.c:1082`; both it and the
  accepting thread may close the listening socket. `/files/save` looks for the end of the
  header in a buffer whose first line has been cut off with a zero, and always answers
  `no_body` (`rest_api.c:677`, `760`; docs/API.md:236-247 describes it as working).
- `DvbReader`: a zap does not look for the EMM pid again, so EMMs of the old system are
  forwarded under the new caid; a lost signal brings back the configured service; a
  request to zap is accepted when the card is not tuned. `ZapTaken` allows for the last
  two.
- `Emulator`: the list is emptied before the file is read, so ECMs fail during a reload,
  against the comment at `emu.c:302`; the limit is tested without the mutex, so the list
  may outgrow it by a key of every other thread, and again after each failed reload
  (`KeysBounded` says by how many; the run reaches the bound); at the limit a later line of
  a key that is there is not taken either (`emu.c:84`), and where entries of a provider go
  both by names and by the index 0 a line without a name replaces one of them,
  whichever comes first: `ReloadIsFile` leaves both cases out (`Unmixed`). A Viaccess 2.6 ECM passes
  no check; a Viaccess ECM whose key is missing in the last stage ends with success
  (`viaccess.c:194`, `889`), against `emu.h:36-38`; tables of 300 bytes are cut to 44, since
  their length is a byte; `N` keys, which README.md:34 promises, cannot be loaded.
- `Emulator`, PowerVU: a wrong key makes the ECM loop for ever (section 4). The loop around
  an EMM has the same form (`powervu.c:2309-2374`), but is never gone through twice: an EMM
  asks for a key by the eight digits of its address, and no key has such a name, since the
  parser takes eight digits for a date (`emu.c:238`, against the comment at `emu.c:243` and
  docs/HISTORICO.md:567). So every such EMM ends for want of a key, those of the run too,
  whether theirs would fit, would not, or has no group to open.
- `Emulator`, Irdeto: all management keys have the index 0 (`strtoul` reads no digit of
  `M1`), so a new one replaces whichever there is; in the file it has a name that the parser
  refuses (`emu.c:218`), so that the next reload loses it, against
  docs/HISTORICO.md:563-564.
- `Emulator`: a reload parses with `strtok`, whose position is one for the process
  (`emu.c:204-206`). Overlapping reloads may mix up their lines, which the model, where a
  line is parsed in one step, does not show.

## 6. Proofs

TLAPS checks these for all values of the constants that satisfy the named assumptions.

- **ClientPoolProofs.** `TypeCorrect` for the whole specification. For the serving
  phase `RefsAreExact`, `NoUseAfterFree` and `NoClientLeak`. References = holders is
  not inductive alone: a thread that drops its reference must know that the pool's has
  gone before it frees. The invariant adds where each party stands (before its exit a
  thread finds its client in the slot, after it a zombie) and that a live client outside
  the slots is a zombie. Shutdown is excluded because there these claims
  are false (section 5).
- **CwCacheProofs.** `ListAlwaysWellFormed`, `OneValidHolds`, `CacheImplementsStore`. That
  `next` and `prev` invert each other does not make a list: the pointers might as well form
  a ring beside it. So the shape says also that what the walk visits, the least set with the
  head and all successors, is the set of allocated entries; this survives an unlink, because
  a set that lacks an entry and is closed under the new walk, with the unlinked entry added,
  is closed under the old one. No induction over the list is needed. The invariant adds that the
  count is the number of entries, that the entry a cleaning has come to is allocated, and
  that there is one valid entry for each channel; then the entry a search returns is the
  one the abstract store shows, and a step on the list is a step of `CwStore`: an addition
  an addition, which may forget one channel, or a failed one; a turn of the cleaning a
  cleaning; a find a find.
- **EcmPipelineProofs.** `ServedHopOfOrigin`, `LimitsRespected`, `RateRespected`. The
  invariant says at each stage of a request where its word came from, that the cache
  stores the hop of the origin and not the served one, and how the accepted ECMs of a
  window relate to its counter; `TypeCorrect` is a part of it. `PipelineUsesStore`: what
  the threads do to the cache is a behaviour of `CwStore`, which `CwCache` is proved to
  implement, so that the pipeline may be read over the linked list. `CachedWordsAreFresh`:
  an entry carries the end of its time, and the instant it was stored at is
  never to come; so a word found in the cache was stored `g_cache_timeout` seconds before
  at most. Neither has a run of its own.
- **ClientPoolProofs, count.** `CountIsExact`. The pool's count is changed together with
  a slot, but a destroy that found its client in two slots would count one and clear one
  only. The invariant adds that a client is in one slot at most, which rests on the
  above: a block that is allocated anew was free, hence in no slot.
- **ClientPoolProofs, shutdown.** `ClosingIsMarked` and `DestroyedStaysDestroyed`, of
  `Spec`. Up to the mark of `close_all` the serving invariant holds, since a signal and
  the end of the accept loop touch no client. After it holders are no longer counted
  right, since `close_all` drops references that are not its own; what is left is about
  the clients still in a slot: live zombies, rightly counted, that nobody frees. It is
  inductive because no client enters a slot any more and each is in one slot only, so
  the client `close_all` works on is out of the pool.
- **UserManagerProofs.** `TypeCorrect`, `CountIsExact` and `EveryAccountHasSource`. For
  the count the invariant adds that the list is finite: each change of the list changes
  the count by the same amount because the name added is not on it. For the source it
  says that whoever reads the file has held the mutex since the first block, so that
  each block before the present one that has a password is on the list or met a full
  table; so a name that is added now comes from the first block of its name.
- **ReaderManagerProofs.** `TypeCorrect` and `AnswersAreOwn`, while no reload runs
  (`ServeSpec`; with reloads the claim is false, see `ReaderReload`). A thread at work
  holds its reader's mutex, so one thread works with a reader at a time. Nothing is under
  way on a connection unless a thread waits on it, and then it is that thread's own ECM
  or its answer: every exchange that ends otherwise closes the connection. On top of
  this, and in no run of their own: `MutexesAreGivenBack` (a mutex is held exactly by a
  thread at work with its reader, and who waits for one holds none, so that no circle of
  waiting threads closes: the safe part of `RequestsEnd`), `OnlyFailuresBackOff` (error
  means `MaxFailures` failures since the last success, and backoff means error) and
  `SentOnOpenSession` (nothing is sent but on a connection that is logged in). The last
  needs the mutexes: between the login and the send nobody else may close the connection.
- **OwnSessionProofs.** `SessionsUseGuard`: every step of the sessions is a step of
  `LoginGuard` or a stutter; `GuardTypeCorrect` follows from it. `KeysAlwaysAgree`: from
  the handshake until it has fetched the result a thread holds the mutex, so the globals
  are its own; the acknowledgement under way tells the client the same handshake; and a
  connection sees one acknowledgement in its life, so a client in the session took the
  one its server end took. `CountersInStep`: the invariant follows one
  connection from its handshake on. Before the client has taken the acknowledgement nothing
  is encrypted and the acknowledgement is all that may be under way to it; after it the
  client is ahead of the server by the encrypted messages under way; and the server, which under GCM
  cannot build a control word, sends nothing encrypted at all (`NothingSent`). `SessionsTypeCorrect`
  needs the same invariant, for the counter a server reaches when it reads what a client
  that has gone had sent. `KeyAssumption` says that no handshake yields the value that
  stands for no key. `HandshakesAreAlone` states the part about the mutex and the globals
  by itself.
- **ServicesProofs.** Each service has an invariant of its own that the steps of the
  others leave alone. `DecodersAreCounted`: an entry is taken and given back together
  with the count. `SourcesAreGone`: cleanup passes the decoders when the count is zero,
  hence when no entry is in use, and a thread that has ended does not start again.
  `InjectedIsOfTuned`: a zap is taken up only between two ECMs, by the thread itself.
  Four more are about the whole server and in no run of their own.
  `RequestsAreCounted`: the count cleanup waits for is that of the REST requests that have
  a thread or are being given one, and is bounded. `RequestsToEndAreKept`: a request to
  terminate is never lost, and the main thread holds the mutex of the log only where it
  gives it back. Two are about what goes wrong (section 5): `StuckStaysStuck`, a signal
  handler that waits for its own thread's mutex waits for ever and, on the main thread,
  with it loop and cleanup; and `OrphansAreNeverFreed`, after one failed `pthread_create`
  for a decoder cleanup never gets past the decoders.
- **EmulatorProofs.** `KeysAreOne`. The list is tidy under insertion only because a key
  with a name has the index 0: an update may give a name to an entry that had none, and if
  another entry had that name the two would have been the same key before, by their
  index. The invariant says so of the list, of a list that a reload has taken away and may
  put back, and of the keys a reload is about to add.
  What a file says is a recursive function over its lines; a fact about all of its places
  is proved by its least counterexample (`LeastExists`, from `WFMin` of the library).
  `ReloadsGiveFile`: the list reflects the additions made so far by a reload
  that nobody interferes with (`QInv`): it holds the last one of each key while there is
  room, and is full after that. `Unmixed` makes the entry an addition replaces the one it
  is called by. `KeysAreBounded`: the list and those who have passed the test
  and not inserted yet are counted together (`BInv`); a list taken away was within the bound of its
  time, so that each load adds one key of every other thread to the bound; and the first
  load runs before there is another thread at work.

Only model-checked: all liveness properties (beyond this prover), and `ServerLoop` by
itself. Every safety property of a passing run is also proved; some theorems, the types of
`EcmPipeline` among them, are in no run, as said above. What is proved of
`ServeSpec` in `ClientPool` is not proved, because not true, of a server that shuts down.

## 7. Not modelled

- The ciphers themselves (AES, RSA, DES, IDEA, the hashes and masks of PowerVU):
  arithmetic on blocks of 64 bits and more, of which a small instance shows nothing. They
  appear as "opens under the same key only".
- Newcamd and legacy CCcam sessions, but for the client pool. In both, the code as it
  stands does not get far: `newcamd_decrypt` is called with a length it refuses
  (`server.c:779-804`), so that no message of a standard Newcamd client is accepted,
  against README.md:27; and the legacy login cuts off the suffix `[EXT]` by which a client
  learns of the extended mode it then uses (`cc_legacy.c:343-358`), while the stream cipher
  lets its `int` counter run past its table (`cc_legacy.c:73-83`). Models of these
  sessions would begin at the first fix.
- Channel names: a table replaced on SIGHUP while reports read names from it after the
  unlock (`rest_api.c:408`); nothing but the text of a report depends on it.
- Parsing of the configuration, wire formats field by field, statistics and log texts,
  the web page, STAPI and smartcards (vendor libraries).

`PROJECT.json` lists every component with its status.

## 8. What is left

1. Sessions of Newcamd and legacy CCcam as above, with the position of the stream cipher
   as the state to be kept in step.
2. Two reloads at once in `ReaderManager` (REST and SIGHUP); the present one reloader
   already breaks `ReadersLive`.
3. `LoginGuard` with a history of the failures, to state which of them block.
