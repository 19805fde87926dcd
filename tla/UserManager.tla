----------------------------- MODULE UserManager -----------------------------
(***************************************************************************)
(* The accounts, CCshare/cccam3_user_manager.c, and how a login of the     *)
(* server's own protocol uses them (handle_client_login of                 *)
(* core/cccam3_server.c).  Every operation locks g_users_mutex, but a      *)
(* login is several operations and so is a reload, which any of several    *)
(* threads may run: the main loop on SIGHUP and the REST threads.          *)
(*                                                                         *)
(* The list never holds a name twice, so it is a function on the names it  *)
(* holds.  The users file is the sequence of its blocks, with the defaults *)
(* for absent keys filled in; a block without a password has NoPass.       *)
(***************************************************************************)
EXTENDS Integers, Sequences, FiniteSets

CONSTANTS Name, Admin,        \* user names, and "admin"
          Pass, NoPass, DefaultPass,  \* passwords, none, and "admin123"
          Level,              \* levels of the users file
          Hops,               \* max_hops values of the users file
          File,               \* users file at start
          MayBeMissing,       \* whether the file may be found missing
          AutoRegister,       \* g_config.auto_register
          Client, Reloader, Main, Nobody,
          MaxUsers,           \* CCCAM_MAX_USERS
          MaxFile,            \* bound on blocks of the file
          MaxReloads, MaxSets \* bounds on reloads and on REST changes

Block == [name : Name, pass : Pass \cup {NoPass}, level : Level, max_hops : Hops]

\* USER_LEVEL_USER and USER_LEVEL_ROOT; the 2 hops of a registered user.
LevelUser == 1
LevelRoot == 3
RegisteredHops == 2

ASSUME UserAssumption ==
    /\ Admin \in Name
    /\ DefaultPass \in Pass /\ NoPass \notin Pass
    /\ Level \subseteq 0..3 /\ {LevelUser, LevelRoot} \subseteq Level
    /\ Hops \subseteq Nat /\ RegisteredHops \in Hops
    /\ File \in Seq(Block)
    /\ MayBeMissing \in BOOLEAN
    /\ AutoRegister \in BOOLEAN
    /\ Main \in Reloader
    /\ Nobody \notin Reloader
    /\ MaxUsers \in Nat \ {0}
    /\ MaxFile \in Nat
    /\ MaxReloads \in Nat
    /\ MaxSets \in Nat

VARIABLES g_users,       \* name -> account, on the names in the list
          g_user_count,
          file,          \* the users file
          mutex,         \* reloader that holds g_users_mutex across steps
          rl, pos,       \* reloader -> step, position in the file
          up,            \* the server accepts clients
          cl,            \* client -> its login
          reloads, sets  \* reloads and REST changes so far

vars == <<g_users, g_user_count, file, mutex, rl, pos, up, cl, reloads, sets>>
usersv  == <<g_users, g_user_count>>
reloadv == <<mutex, rl, pos, up, reloads>>

Account == [pass : Pass, level : Level, max_hops : 0..255, enabled : BOOLEAN]
Login == [pc : {"idle", "auth", "register", "persist", "hops", "handshake",
                "in", "refused"},
          name : Name, pass : Pass, hop_count : 0..255]

TypeOK ==
    /\ DOMAIN g_users \subseteq Name
    /\ g_users \in [DOMAIN g_users -> Account]
    /\ g_user_count \in 0..MaxUsers
    /\ file \in Seq(Block)
    /\ mutex \in Reloader \cup {Nobody}
    /\ rl \in [Reloader -> {"idle", "open", "read", "default"}]
    /\ pos \in [Reloader -> Nat \ {0}]
    /\ up \in BOOLEAN
    /\ cl \in [Client -> Login]
    /\ reloads \in 0..MaxReloads
    /\ sets \in 0..MaxSets

Listed == DOMAIN g_users
Unlocked == mutex = Nobody

\* cccam_user_manager_init, about to load the file.
Init ==
    /\ g_users = [n \in {} |-> 0]
    /\ g_user_count = 0
    /\ file = File
    /\ mutex = Nobody
    /\ rl = [r \in Reloader |-> IF r = Main THEN "open" ELSE "idle"]
    /\ pos = [r \in Reloader |-> 1]
    /\ up = FALSE
    /\ cl = [c \in Client |-> [pc |-> "idle", name |-> Admin,
                             pass |-> DefaultPass, hop_count |-> 0]]
    /\ reloads = 0
    /\ sets = 0

-----------------------------------------------------------------------------
(* add_user_locked. *)

\* Mutant: a name that is listed already is added again.
CanAddTwice(n, p) == p # NoPass /\ g_user_count < MaxUsers

\* Mutant: the limit is not checked.
CanAddBeyond(n, p) == p # NoPass /\ n \notin Listed

CanAdd(n, p) == /\ p # NoPass
                /\ n \notin Listed
                /\ g_user_count < MaxUsers

\* The level and the hops are cast to their types.
Added(n, p, level, hops) ==
    /\ g_users' = [m \in Listed \cup {n} |->
                     IF m = n THEN [pass |-> p, level |-> level,
                                    max_hops |-> hops % 256, enabled |-> TRUE]
                              ELSE g_users[m]]
    /\ g_user_count' = g_user_count + 1

-----------------------------------------------------------------------------
(* handle_client_login. *)

Step(c, pc) == cl' = [cl EXCEPT ![c].pc = pc]

Attempt(c, n, p) ==
    /\ up
    /\ cl[c].pc = "idle"
    /\ cl' = [cl EXCEPT ![c] = [pc |-> "auth", name |-> n, pass |-> p,
                                hop_count |-> 0]]
    /\ UNCHANGED <<usersv, file, reloadv, sets>>

\* cccam_user_manager_authenticate: the name is listed, enabled and its
\* password right; the level is not looked at.
Matches(n, p) == n \in Listed /\ g_users[n].enabled /\ g_users[n].pass = p

Authenticate(c) ==
    /\ cl[c].pc = "auth"
    /\ Unlocked
    /\ Step(c, IF Matches(cl[c].name, cl[c].pass) THEN "hops"
               ELSE IF AutoRegister THEN "register" ELSE "refused")
    /\ UNCHANGED <<usersv, file, reloadv, sets>>

\* cccam_user_manager_auto_register: in the list under the lock ...
Register(c) ==
    LET n == cl[c].name  p == cl[c].pass
    IN  /\ cl[c].pc = "register"
        /\ Unlocked
        /\ IF CanAdd(n, p)
           THEN Added(n, p, LevelUser, RegisteredHops) /\ Step(c, "persist")
           ELSE UNCHANGED usersv /\ Step(c, "refused")
        /\ UNCHANGED <<file, reloadv, sets>>

\* ... and in the file without it, if the file can be opened.
Persist(c) ==
    /\ cl[c].pc = "persist"
    /\ \/ /\ Len(file) < MaxFile
          /\ file' = Append(file, [name |-> cl[c].name, pass |-> cl[c].pass,
                                   level |-> LevelUser,
                                   max_hops |-> RegisteredHops])
       \/ UNCHANGED file
    /\ Step(c, "hops")
    /\ UNCHANGED <<usersv, reloadv, sets>>

\* cccam_user_manager_get_max_hops, whose result is not checked: user_max_hops
\* starts at 0.
GetMaxHops(c) ==
    LET n == cl[c].name
    IN  /\ cl[c].pc = "hops"
        /\ Unlocked
        /\ cl' = [cl EXCEPT ![c].pc = "handshake",
                            ![c].hop_count = IF n \in Listed
                                             THEN g_users[n].max_hops ELSE 0]
        /\ UNCHANGED <<usersv, file, reloadv, sets>>

\* The handshake succeeds, or it fails and the connection ends.
Finish(c) ==
    /\ cl[c].pc = "handshake"
    /\ Step(c, "in") \/ Step(c, "idle")
    /\ UNCHANGED <<usersv, file, reloadv, sets>>

Disconnect(c) ==
    /\ cl[c].pc \in {"in", "refused"}
    /\ Step(c, "idle")
    /\ UNCHANGED <<usersv, file, reloadv, sets>>

LoginNext(c) == \/ \E n \in Name, p \in Pass : Attempt(c, n, p)
                \/ Authenticate(c) \/ Register(c) \/ Persist(c)
                \/ GetMaxHops(c) \/ Finish(c) \/ Disconnect(c)

-----------------------------------------------------------------------------
(* cccam_user_manager_reload. *)

\* Mutant: the count survives the swap.
SwapKeepsCount(r) ==
    /\ rl[r] = "idle" /\ up /\ reloads < MaxReloads
    /\ Unlocked
    /\ g_users' = [n \in {} |-> 0]
    /\ rl' = [rl EXCEPT ![r] = "open"]
    /\ reloads' = reloads + 1
    /\ UNCHANGED <<g_user_count, file, mutex, pos, up, cl, sets>>

\* The list is taken away before the new one is there ...
Swap(r) ==
    /\ rl[r] = "idle" /\ up /\ reloads < MaxReloads
    /\ Unlocked
    /\ g_users' = [n \in {} |-> 0]
    /\ g_user_count' = 0
    /\ rl' = [rl EXCEPT ![r] = "open"]
    /\ reloads' = reloads + 1
    /\ UNCHANGED <<file, mutex, pos, up, cl, sets>>

\* ... cccam_user_manager_load_from_config opens the file ...
OpenFile(r) ==
    /\ rl[r] = "open"
    /\ Unlocked
    /\ mutex' = r
    /\ rl' = [rl EXCEPT ![r] = "read"]
    /\ pos' = [pos EXCEPT ![r] = 1]
    /\ UNCHANGED <<usersv, file, up, cl, reloads, sets>>

FileMissing(r) ==
    /\ rl[r] = "open"
    /\ MayBeMissing
    /\ rl' = [rl EXCEPT ![r] = "default"]
    /\ UNCHANGED <<usersv, file, mutex, pos, up, cl, reloads, sets>>

\* ... adds block after block under the lock ...
ReadBlock(r) ==
    /\ rl[r] = "read"
    /\ pos[r] <= Len(file)
    /\ LET b == file[pos[r]]
       IN  IF CanAdd(b.name, b.pass)
           THEN Added(b.name, b.pass, b.level, b.max_hops)
           ELSE UNCHANGED usersv
    /\ pos' = [pos EXCEPT ![r] = @ + 1]
    /\ UNCHANGED <<file, mutex, rl, up, cl, reloads, sets>>

EndOfFile(r) ==
    /\ rl[r] = "read"
    /\ pos[r] > Len(file)
    /\ mutex' = Nobody
    /\ rl' = [rl EXCEPT ![r] = "default"]
    /\ UNCHANGED <<usersv, file, pos, up, cl, reloads, sets>>

NeedsDefault == g_user_count = 0

\* ... and, if there is no account then, makes the default one.
AddDefault(r) ==
    /\ rl[r] = "default"
    /\ Unlocked
    /\ IF NeedsDefault THEN Added(Admin, DefaultPass, LevelRoot, 0)
                       ELSE UNCHANGED usersv
    /\ rl' = [rl EXCEPT ![r] = "idle"]
    /\ up' = TRUE
    /\ UNCHANGED <<file, mutex, pos, cl, reloads, sets>>

ReloadNext(r) == \/ Swap(r) \/ OpenFile(r) \/ FileMissing(r)
                 \/ ReadBlock(r) \/ EndOfFile(r) \/ AddDefault(r)

-----------------------------------------------------------------------------
(* GET /users/set of the REST API: changes the list, never the file. *)

Set(n, a) ==
    /\ up /\ sets < MaxSets
    /\ Unlocked
    /\ n \in Listed
    /\ g_users' = [g_users EXCEPT ![n] = a]
    /\ sets' = sets + 1
    /\ UNCHANGED <<g_user_count, file, reloadv, cl>>

SetEnabled(n, b) == n \in Listed /\ Set(n, [g_users[n] EXCEPT !.enabled = b])
SetMaxHops(n, h) == n \in Listed /\ Set(n, [g_users[n] EXCEPT !.max_hops = h % 256])
SetLevel(n, l) == n \in Listed /\ Set(n, [g_users[n] EXCEPT !.level = l])

SetNext(n) == \/ \E b \in BOOLEAN : SetEnabled(n, b)
              \/ \E h \in Hops : SetMaxHops(n, h)
              \/ \E l \in Level : SetLevel(n, l)

Next == \/ \E c \in Client : LoginNext(c)
        \/ \E r \in Reloader : ReloadNext(r)
        \/ \E n \in Name : SetNext(n)

Spec == Init /\ [][Next]_vars

-----------------------------------------------------------------------------
(* Properties. *)

\* user_manager.c:113, 137, 205, 521: the counter that enforces
\* CCCAM_MAX_USERS, and decides whether the default account is needed, is
\* the length of the list, through reloads and registrations in any order.
CountExact == g_user_count = Cardinality(Listed)

\* The block that the file gives the name n: the first one with a password.
Configured(n) == {i \in 1..Len(file) :
                    /\ file[i].name = n /\ file[i].pass # NoPass
                    /\ \A j \in 1..(i - 1) : file[j].name = n
                                               => file[j].pass = NoPass}

\* user_manager.c:101-142, 303-358, 431-540: however reloads overlap with
\* each other and with registrations, an account comes whole from one source:
\* the first block of its name in the file, the default account, or a
\* registration, which gives no privileges.  Only the REST API changes the
\* level or the hops of an account that exists.
AccountsHaveSource ==
    \A n \in Listed :
        \/ \E i \in Configured(n) :
               /\ g_users[n].pass = file[i].pass
               /\ sets = 0 => /\ g_users[n].level = file[i].level
                              /\ g_users[n].max_hops = file[i].max_hops % 256
        \/ n = Admin /\ g_users[n].pass = DefaultPass
        \/ /\ AutoRegister
           /\ sets = 0 => /\ g_users[n].level = LevelUser
                          /\ g_users[n].max_hops = RegisteredHops
=============================================================================
