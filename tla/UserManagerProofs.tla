-------------------------- MODULE UserManagerProofs --------------------------
(***************************************************************************)
(* Proofs about UserManager, for any users, file, clients and reloaders.   *)
(* g_user_count is the length of the list and stays within CCCAM_MAX_USERS *)
(* because each of the three places that change them changes both, and     *)
(* the name that is added is not on the list yet.                          *)
(***************************************************************************)
EXTENDS UserManager, FiniteSetTheorems, TLAPS

IInv == /\ TypeOK
        /\ CountExact
        /\ IsFiniteSet(Listed)

\* An account that add_user_locked makes is an account.
LEMMA AccountTyped ==
    ASSUME NEW p \in Pass, NEW level \in Level, NEW hops \in Nat
    PROVE  [pass |-> p, level |-> level, max_hops |-> hops % 256,
            enabled |-> TRUE] \in Account
<1>1. hops % 256 \in 0..255
  OBVIOUS
<1>2. QED BY <1>1 DEF Account

\* add_user_locked, for a name that is not listed and below the limit:
\* types, count and finiteness are kept.
LEMMA AddedKeeps ==
    ASSUME IInv, NEW n \in Name, NEW p \in Pass, NEW level \in Level,
           NEW hops \in Nat, n \notin Listed, g_user_count < MaxUsers,
           Added(n, p, level, hops)
    PROVE  /\ DOMAIN g_users' \subseteq Name
           /\ g_users' \in [DOMAIN g_users' -> Account]
           /\ g_user_count' \in 0..MaxUsers
           /\ CountExact'
           /\ IsFiniteSet(Listed)'
<1> DEFINE acc == [pass |-> p, level |-> level, max_hops |-> hops % 256,
                   enabled |-> TRUE]
<1>1. acc \in Account
  BY AccountTyped
<1>2. g_users' = [m \in Listed \cup {n} |-> IF m = n THEN acc ELSE g_users[m]]
  BY DEF Added
<1> HIDE DEF acc
<1>3. DOMAIN g_users' = Listed \cup {n}
  BY <1>2
<1>4. DOMAIN g_users' \subseteq Name
  BY <1>3 DEF IInv, TypeOK, Listed
<1>5. g_users' \in [DOMAIN g_users' -> Account]
  <2>1. ASSUME NEW m \in Listed \cup {n}
        PROVE  (IF m = n THEN acc ELSE g_users[m]) \in Account
    BY <1>1 DEF IInv, TypeOK, Listed
  <2>2. [m \in Listed \cup {n} |-> IF m = n THEN acc ELSE g_users[m]]
          \in [Listed \cup {n} -> Account]
    BY <2>1
  <2>3. QED BY <1>2, <1>3, <2>2
<1>6. g_user_count' = g_user_count + 1
  BY DEF Added
<1>7. g_user_count' \in 0..MaxUsers
  <2>1. g_user_count \in 0..MaxUsers
    BY DEF IInv, TypeOK
  <2>2. QED BY <1>6, <2>1, UserAssumption
<1>8. IsFiniteSet(Listed \cup {n})
        /\ Cardinality(Listed \cup {n}) = Cardinality(Listed) + 1
  BY FS_AddElement DEF IInv
<1>9. CountExact'
  BY <1>3, <1>6, <1>8 DEF IInv, CountExact, Listed
<1>10. IsFiniteSet(Listed)'
  BY <1>3, <1>8 DEF Listed
<1>11. QED BY <1>4, <1>5, <1>7, <1>9, <1>10

LEMMA InitInv == Init => IInv
<1> SUFFICES ASSUME Init PROVE IInv
  OBVIOUS
<1>1. DOMAIN g_users = {}
  BY DEF Init
<1>2. IsFiniteSet(Listed) /\ Cardinality(Listed) = 0
  BY <1>1, FS_EmptySet DEF Listed
<1>3. CountExact
  BY <1>2 DEF CountExact, Init
<1>4. DOMAIN g_users \subseteq Name /\ g_users \in [DOMAIN g_users -> Account]
  BY <1>1 DEF Init
<1>5. g_user_count \in 0..MaxUsers /\ reloads \in 0..MaxReloads
        /\ sets \in 0..MaxSets
  BY UserAssumption DEF Init
<1>6. cl \in [Client -> Login]
  <2>1. [pc |-> "idle", name |-> Admin, pass |-> DefaultPass, hop_count |-> 0]
          \in Login
    BY UserAssumption DEF Login
  <2>2. QED BY <2>1 DEF Init
<1>f. file \in Seq(Block)
  BY UserAssumption DEF Init
<1>r. rl \in [Reloader -> {"idle", "open", "read", "default"}]
  BY DEF Init
<1>b. up \in BOOLEAN
  BY Zenon DEF Init
<1>7. mutex \in Reloader \cup {Nobody} /\ pos \in [Reloader -> Nat \ {0}]
  BY DEF Init
<1>8. QED BY <1>f, <1>r, <1>b, <1>2, <1>3, <1>4, <1>5, <1>6, <1>7 DEF IInv, TypeOK

\* The parts of the invariant, by the variables they are about.
ListInv == /\ DOMAIN g_users \subseteq Name
           /\ g_users \in [DOMAIN g_users -> Account]
           /\ g_user_count \in 0..MaxUsers
           /\ CountExact
           /\ IsFiniteSet(Listed)
RestInv == /\ file \in Seq(Block)
           /\ mutex \in Reloader \cup {Nobody}
           /\ rl \in [Reloader -> {"idle", "open", "read", "default"}]
           /\ pos \in [Reloader -> Nat \ {0}]
           /\ up \in BOOLEAN
           /\ reloads \in 0..MaxReloads
           /\ sets \in 0..MaxSets

LEMMA Parts == IInv <=> ListInv /\ RestInv /\ cl \in [Client -> Login]
  BY DEF IInv, TypeOK, ListInv, RestInv

\* A step that leaves list and count alone keeps ListInv.
LEMMA ListUnchanged == ListInv /\ UNCHANGED usersv => ListInv'
  BY DEF ListInv, usersv, CountExact, Listed

\* One of the steps of handle_client_login.
LEMMA LoginInv ==
    ASSUME IInv, NEW c \in Client, LoginNext(c)
    PROVE  IInv'
<1>0. ListInv /\ RestInv /\ cl \in [Client -> Login]
  BY Parts
<1>t. ASSUME NEW k \in {"idle", "auth", "register", "persist", "hops",
                        "handshake", "in", "refused"}, Step(c, k)
      PROVE  cl' \in [Client -> Login]
  <2>1. [cl[c] EXCEPT !.pc = k] \in Login
    BY <1>0 DEF Login
  <2>2. cl' = [cl EXCEPT ![c] = [cl[c] EXCEPT !.pc = k]]
    BY <1>t DEF Step
  <2>3. QED BY <1>0, <2>1, <2>2
<1>1. ASSUME NEW n \in Name, NEW p \in Pass, Attempt(c, n, p) PROVE IInv'
  <2>1. [pc |-> "auth", name |-> n, pass |-> p, hop_count |-> 0] \in Login
    BY DEF Login
  <2>2. cl' \in [Client -> Login]
    BY <1>0, <1>1, <2>1 DEF Attempt
  <2>3. ListInv'
    BY <1>0, <1>1, ListUnchanged DEF Attempt
  <2>4. RestInv'
    BY <1>0, <1>1 DEF Attempt, RestInv, reloadv
  <2>5. QED BY <2>2, <2>3, <2>4 DEF IInv, TypeOK, ListInv, RestInv
<1>2. CASE Authenticate(c)
  <2>1. cl' \in [Client -> Login]
    BY <1>2, <1>t DEF Authenticate
  <2>2. ListInv'
    BY <1>0, <1>2, ListUnchanged DEF Authenticate
  <2>3. RestInv'
    BY <1>0, <1>2 DEF Authenticate, RestInv, reloadv
  <2>4. QED BY <2>1, <2>2, <2>3 DEF IInv, TypeOK, ListInv, RestInv
<1>3. CASE Register(c)
  <2>1. cl' \in [Client -> Login]
    BY <1>3, <1>t DEF Register
  <2>2. ListInv'
    <3>1. CASE CanAdd(cl[c].name, cl[c].pass)
      <4>1. cl[c].name \in Name /\ cl[c].pass \in Pass
        BY <1>0 DEF Login
      <4>2. Added(cl[c].name, cl[c].pass, LevelUser, RegisteredHops)
        BY <1>3, <3>1 DEF Register
      <4>3. LevelUser \in Level /\ RegisteredHops \in Nat
        BY UserAssumption
      <4>4. cl[c].name \notin Listed /\ g_user_count < MaxUsers
        BY <3>1 DEF CanAdd
      <4>5. QED BY <4>1, <4>2, <4>3, <4>4, AddedKeeps DEF ListInv
    <3>2. CASE ~CanAdd(cl[c].name, cl[c].pass)
      BY <1>0, <1>3, <3>2, ListUnchanged DEF Register
    <3>3. QED BY <3>1, <3>2
  <2>3. RestInv'
    BY <1>0, <1>3 DEF Register, RestInv, reloadv
  <2>4. QED BY <2>1, <2>2, <2>3 DEF IInv, TypeOK, ListInv, RestInv
<1>4. CASE Persist(c)
  <2>1. cl' \in [Client -> Login]
    BY <1>4, <1>t DEF Persist
  <2>2. ListInv'
    BY <1>0, <1>4, ListUnchanged DEF Persist
  <2>3. file' \in Seq(Block)
    <3> DEFINE b == [name |-> cl[c].name, pass |-> cl[c].pass,
                     level |-> LevelUser, max_hops |-> RegisteredHops]
    <3>1. b \in Block
      BY <1>0, UserAssumption DEF Login, Block
    <3>2. file' = Append(file, b) \/ file' = file
      BY <1>4 DEF Persist
    <3> HIDE DEF b
    <3>3. file \in Seq(Block)
      BY <1>0 DEF RestInv
    <3>4. Append(file, b) \in Seq(Block)
      BY <3>1, <3>3
    <3>5. QED BY <3>2, <3>3, <3>4
  <2>4. RestInv'
    BY <1>0, <1>4, <2>3 DEF Persist, RestInv, reloadv
  <2>5. QED BY <2>1, <2>2, <2>4 DEF IInv, TypeOK, ListInv, RestInv
<1>5. CASE GetMaxHops(c)
  <2>1. cl' \in [Client -> Login]
    <3> DEFINE h == IF cl[c].name \in Listed THEN g_users[cl[c].name].max_hops
                    ELSE 0
    <3>1. h \in 0..255
      <4>1. ASSUME cl[c].name \in Listed
            PROVE  g_users[cl[c].name] \in Account
        BY <1>0, <4>1 DEF ListInv, Listed
      <4>2. ASSUME cl[c].name \in Listed
            PROVE  g_users[cl[c].name].max_hops \in 0..255
        BY <4>1, <4>2 DEF Account
      <4>3. 0 \in 0..255
        OBVIOUS
      <4>4. QED BY <4>2, <4>3
    <3>3. cl' = [cl EXCEPT ![c] =
                   [cl[c] EXCEPT !.pc = "handshake", !.hop_count = h]]
      BY <1>5 DEF GetMaxHops
    <3> HIDE DEF h
    <3>2. [cl[c] EXCEPT !.pc = "handshake", !.hop_count = h] \in Login
      <4>1. cl[c] \in Login
        BY <1>0
      <4>2. QED BY <3>1, <4>1 DEF Login
    <3>4. QED BY <1>0, <3>2, <3>3
  <2>2. ListInv'
    BY <1>0, <1>5, ListUnchanged DEF GetMaxHops
  <2>3. RestInv'
    BY <1>0, <1>5 DEF GetMaxHops, RestInv, reloadv
  <2>4. QED BY <2>1, <2>2, <2>3 DEF IInv, TypeOK, ListInv, RestInv
<1>6. CASE Finish(c)
  <2>1. cl' \in [Client -> Login]
    BY <1>6, <1>t DEF Finish
  <2>2. ListInv'
    BY <1>0, <1>6, ListUnchanged DEF Finish
  <2>3. RestInv'
    BY <1>0, <1>6 DEF Finish, RestInv, reloadv
  <2>4. QED BY <2>1, <2>2, <2>3 DEF IInv, TypeOK, ListInv, RestInv
<1>7. CASE Disconnect(c)
  <2>1. cl' \in [Client -> Login]
    BY <1>7, <1>t DEF Disconnect
  <2>2. ListInv'
    BY <1>0, <1>7, ListUnchanged DEF Disconnect
  <2>3. RestInv'
    BY <1>0, <1>7 DEF Disconnect, RestInv, reloadv
  <2>4. QED BY <2>1, <2>2, <2>3 DEF IInv, TypeOK, ListInv, RestInv
<1>8. QED BY <1>1, <1>2, <1>3, <1>4, <1>5, <1>6, <1>7 DEF LoginNext

\* One of the steps of cccam_user_manager_reload.
LEMMA ReloadInv ==
    ASSUME IInv, NEW r \in Reloader, ReloadNext(r)
    PROVE  IInv'
<1>0. ListInv /\ RestInv /\ cl \in [Client -> Login]
  BY Parts
<1>1. CASE Swap(r)
  <2>1. g_users' = [n \in {} |-> 0] /\ g_user_count' = 0
    BY <1>1 DEF Swap
  <2>2. DOMAIN g_users' = {}
    BY <2>1
  <2>3. IsFiniteSet(Listed)' /\ CountExact'
    BY <2>1, <2>2, FS_EmptySet DEF Listed, CountExact
  <2>4. g_users' \in [DOMAIN g_users' -> Account] /\ DOMAIN g_users' \subseteq Name
    BY <2>1, <2>2
  <2>5. g_user_count' \in 0..MaxUsers
    BY <2>1, UserAssumption
  <2>6. ListInv'
    BY <2>3, <2>4, <2>5 DEF ListInv
  <2>7. reloads' \in 0..MaxReloads
    BY <1>0, <1>1, UserAssumption DEF Swap, RestInv
  <2>8. RestInv'
    BY <1>0, <1>1, <2>7 DEF Swap, RestInv
  <2>9. cl' \in [Client -> Login]
    BY <1>0, <1>1 DEF Swap
  <2>10. QED BY <2>6, <2>8, <2>9 DEF IInv, TypeOK, ListInv, RestInv
<1>2. CASE OpenFile(r)
  <2>1. ListInv' /\ cl' \in [Client -> Login]
    BY <1>0, <1>2, ListUnchanged DEF OpenFile
  <2>2. RestInv'
    BY <1>0, <1>2 DEF OpenFile, RestInv
  <2>3. QED BY <2>1, <2>2 DEF IInv, TypeOK, ListInv, RestInv
<1>3. CASE FileMissing(r)
  <2>1. ListInv' /\ cl' \in [Client -> Login]
    BY <1>0, <1>3, ListUnchanged DEF FileMissing
  <2>2. RestInv'
    BY <1>0, <1>3 DEF FileMissing, RestInv
  <2>3. QED BY <2>1, <2>2 DEF IInv, TypeOK, ListInv, RestInv
<1>4. CASE ReadBlock(r)
  <2> DEFINE b == file[pos[r]]
  <2>1. b \in Block
    BY <1>0, <1>4 DEF ReadBlock, RestInv
  <2>2. /\ b.name \in Name /\ b.level \in Level /\ b.max_hops \in Nat
        /\ b.pass # NoPass => b.pass \in Pass
    BY <2>1, UserAssumption DEF Block
  <2>3. IF CanAdd(b.name, b.pass)
        THEN Added(b.name, b.pass, b.level, b.max_hops) ELSE UNCHANGED usersv
    BY <1>4 DEF ReadBlock
  <2> HIDE DEF b
  <2>4. ListInv'
    <3>1. CASE CanAdd(b.name, b.pass)
      <4>1. /\ b.pass \in Pass /\ b.name \notin Listed
            /\ g_user_count < MaxUsers
            /\ Added(b.name, b.pass, b.level, b.max_hops)
        BY <2>2, <2>3, <3>1 DEF CanAdd
      <4>2. QED BY <2>2, <4>1, AddedKeeps DEF ListInv
    <3>2. CASE ~CanAdd(b.name, b.pass)
      BY <1>0, <2>3, <3>2, ListUnchanged
    <3>3. QED BY <3>1, <3>2
  <2>5. RestInv' /\ cl' \in [Client -> Login]
    BY <1>0, <1>4 DEF ReadBlock, RestInv
  <2>6. QED BY <2>4, <2>5 DEF IInv, TypeOK, ListInv, RestInv
<1>5. CASE EndOfFile(r)
  <2>1. ListInv' /\ cl' \in [Client -> Login]
    BY <1>0, <1>5, ListUnchanged DEF EndOfFile
  <2>2. RestInv'
    BY <1>0, <1>5 DEF EndOfFile, RestInv
  <2>3. QED BY <2>1, <2>2 DEF IInv, TypeOK, ListInv, RestInv
<1>6. CASE AddDefault(r)
  <2>1. ListInv'
    <3>1. CASE NeedsDefault
      <4>1. Cardinality(Listed) = 0 /\ IsFiniteSet(Listed)
        BY <1>0, <3>1 DEF ListInv, CountExact, NeedsDefault
      <4>2. Listed = {}
        BY <4>1, FS_EmptySet
      <4>3. g_user_count < MaxUsers
        BY <3>1, UserAssumption DEF NeedsDefault
      <4>4. Admin \in Name /\ DefaultPass \in Pass /\ LevelRoot \in Level
        BY UserAssumption
      <4>5. Added(Admin, DefaultPass, LevelRoot, 0)
        BY <1>6, <3>1 DEF AddDefault
      <4>6. QED BY <4>2, <4>3, <4>4, <4>5, AddedKeeps DEF ListInv
    <3>2. CASE ~NeedsDefault
      BY <1>0, <1>6, <3>2, ListUnchanged DEF AddDefault
    <3>3. QED BY <3>1, <3>2
  <2>2. RestInv' /\ cl' \in [Client -> Login]
    BY <1>0, <1>6 DEF AddDefault, RestInv
  <2>3. QED BY <2>1, <2>2 DEF IInv, TypeOK, ListInv, RestInv
<1>7. QED BY <1>1, <1>2, <1>3, <1>4, <1>5, <1>6 DEF ReloadNext

\* One of the changes of the REST API.
LEMMA SetInv ==
    ASSUME IInv, NEW n \in Name, SetNext(n)
    PROVE  IInv'
<1>0. ListInv /\ RestInv /\ cl \in [Client -> Login]
  BY Parts
<1>a. ASSUME n \in Listed PROVE g_users[n] \in Account
  BY <1>0, <1>a DEF ListInv, Listed
<1>1. PICK a \in Account : Set(n, a)
  <2>1. ASSUME NEW b \in BOOLEAN, SetEnabled(n, b)
        PROVE  \E a \in Account : Set(n, a)
    <3>1. [g_users[n] EXCEPT !.enabled = b] \in Account
      BY <1>a, <2>1 DEF SetEnabled, Account
    <3>2. QED BY <2>1, <3>1 DEF SetEnabled
  <2>2. ASSUME NEW h \in Hops, SetMaxHops(n, h)
        PROVE  \E a \in Account : Set(n, a)
    <3>1. h % 256 \in 0..255
      BY UserAssumption
    <3>2. [g_users[n] EXCEPT !.max_hops = h % 256] \in Account
      BY <1>a, <2>2, <3>1 DEF SetMaxHops, Account
    <3>3. QED BY <2>2, <3>2 DEF SetMaxHops
  <2>3. ASSUME NEW l \in Level, SetLevel(n, l)
        PROVE  \E a \in Account : Set(n, a)
    <3>1. [g_users[n] EXCEPT !.level = l] \in Account
      BY <1>a, <2>3 DEF SetLevel, Account
    <3>2. QED BY <2>3, <3>1 DEF SetLevel
  <2>4. QED BY <2>1, <2>2, <2>3 DEF SetNext
<1>2. g_users' = [g_users EXCEPT ![n] = a] /\ g_user_count' = g_user_count
        /\ n \in Listed
  BY <1>1 DEF Set
<1>3. DOMAIN g_users' = DOMAIN g_users
  BY <1>0, <1>2 DEF ListInv
<1>4. g_users' \in [DOMAIN g_users -> Account]
  BY <1>0, <1>1, <1>2 DEF ListInv, Listed
<1>5. ListInv'
  BY <1>0, <1>2, <1>3, <1>4 DEF ListInv, CountExact, Listed
<1>6. sets' \in 0..MaxSets
  BY <1>0, <1>1, UserAssumption DEF Set, RestInv
<1>7. RestInv' /\ cl' \in [Client -> Login]
  BY <1>0, <1>1, <1>6 DEF Set, RestInv, reloadv
<1>8. QED BY <1>5, <1>7 DEF IInv, TypeOK, ListInv, RestInv

LEMMA StutterInv == IInv /\ UNCHANGED vars => IInv'
  BY DEF IInv, TypeOK, CountExact, Listed, vars

\* user_manager.c:101-142, 322-347, 512-534: IInv is an inductive invariant
\* of the accounts, whatever logins, reloads and REST changes interleave.
THEOREM Inductive == Spec => []IInv
<1>1. Init => IInv
  BY InitInv
<1>2. IInv /\ [Next]_vars => IInv'
  <2> SUFFICES ASSUME IInv, [Next]_vars PROVE IInv'
    OBVIOUS
  <2>1. ASSUME NEW c \in Client, LoginNext(c) PROVE IInv'
    BY <2>1, LoginInv
  <2>2. ASSUME NEW r \in Reloader, ReloadNext(r) PROVE IInv'
    BY <2>2, ReloadInv
  <2>3. ASSUME NEW n \in Name, SetNext(n) PROVE IInv'
    BY <2>3, SetInv
  <2>4. CASE UNCHANGED vars
    BY <2>4, StutterInv
  <2>5. QED BY <2>1, <2>2, <2>3, <2>4 DEF Next
<1>3. QED BY <1>1, <1>2, PTL DEF Spec

\* The types of the accounts and of the logins, the count within
\* CCCAM_MAX_USERS among them.
THEOREM TypeCorrect == Spec => []TypeOK
<1>1. IInv => TypeOK
  BY DEF IInv
<1>2. QED BY <1>1, Inductive, PTL

\* user_manager.c:113, 137, 521: g_user_count is the length of the list.
THEOREM CountIsExact == Spec => []CountExact
<1>1. IInv => CountExact
  BY DEF IInv
<1>2. QED BY <1>1, Inductive, PTL

-----------------------------------------------------------------------------
(* Where an account comes from.  That a block the loader adds is the first *)
(* of its name with a password needs to know what became of the blocks     *)
(* before it: whoever reads the file has held the mutex since its first    *)
(* block, so each of those with a password is listed or met a full table,  *)
(* and a full table stays full.                                            *)

ReadingOK ==
    \A r \in Reloader : rl[r] = "read" =>
      /\ mutex = r
      /\ pos[r] <= Len(file) + 1
      /\ \A j \in 1..(pos[r] - 1) :
           file[j].pass # NoPass => \/ file[j].name \in Listed
                                    \/ g_user_count >= MaxUsers

\* Accounts are registered only where the configuration says so.
RegisteringOK == \A c \in Client : cl[c].pc = "register" => AutoRegister

SourceInv == ReadingOK /\ RegisteringOK /\ AccountsHaveSource

\* While the mutex is free nobody is in the middle of the file.
LEMMA NobodyReads ==
  ASSUME ReadingOK, Unlocked
  PROVE  \A r \in Reloader : rl[r] # "read"
BY UserAssumption DEF ReadingOK, Unlocked

\* An account is added, and it has a source.
LEMMA AddedHasSource ==
  ASSUME IInv, AccountsHaveSource, UNCHANGED <<file, sets>>,
         NEW n \in Name, NEW p \in Pass, NEW level, NEW hops,
         Added(n, p, level, hops), n \notin Listed,
         \/ \E i \in Configured(n) : /\ p = file[i].pass /\ level = file[i].level
                                     /\ hops = file[i].max_hops
         \/ n = Admin /\ p = DefaultPass
         \/ AutoRegister /\ level = LevelUser /\ hops % 256 = RegisteredHops
  PROVE  AccountsHaveSource'
<1>1. DOMAIN g_users' = Listed \cup {n} BY DEF Added
<1>2. g_users'[n] = [pass |-> p, level |-> level, max_hops |-> hops % 256,
                     enabled |-> TRUE]
  BY DEF Added
<1>3. \A m \in Listed : m # n /\ g_users'[m] = g_users[m] BY DEF Added
<1>4. \A m : Configured(m)' = Configured(m) BY DEF Configured
<1>5. SUFFICES ASSUME NEW m \in Listed \cup {n}
      PROVE  \/ \E i \in Configured(m) :
                   /\ g_users'[m].pass = file[i].pass
                   /\ sets = 0 => /\ g_users'[m].level = file[i].level
                                  /\ g_users'[m].max_hops = file[i].max_hops % 256
             \/ m = Admin /\ g_users'[m].pass = DefaultPass
             \/ /\ AutoRegister
                /\ sets = 0 => /\ g_users'[m].level = LevelUser
                               /\ g_users'[m].max_hops = RegisteredHops
  BY <1>1, <1>4 DEF AccountsHaveSource, Listed
<1>6. CASE m \in Listed BY <1>3, <1>6 DEF AccountsHaveSource
<1>7. CASE m = n BY <1>2, <1>7
<1>8. QED BY <1>6, <1>7

\* No account changes and the file keeps its blocks.
LEMMA SourcesStay ==
  ASSUME IInv, AccountsHaveSource, UNCHANGED <<g_users, sets>>,
         file' = file \/ \E b \in Block : file' = Append(file, b)
  PROVE  AccountsHaveSource'
<1>1. file \in Seq(Block) BY DEF IInv, TypeOK
<1>2. /\ Len(file) \in Nat /\ Len(file') >= Len(file) /\ Len(file') \in Nat
      /\ \A i \in 1..Len(file) : file'[i] = file[i]
  BY <1>1
<1>3. ASSUME NEW m, NEW i \in Configured(m)
      PROVE  i \in Configured(m)' /\ file'[i] = file[i]
  <2>1. i \in 1..Len(file) /\ i \in 1..Len(file') BY <1>2 DEF Configured
  <2>2. \A j \in 1..(i - 1) : j \in 1..Len(file) BY <1>2, <2>1
  <2>3. \A j \in 1..i : file'[j] = file[j] BY <1>2, <2>1
  <2>4. \A j \in 1..(i - 1) : file'[j] = file[j] BY <2>1, <2>3
  <2>5. QED BY <1>2, <2>1, <2>4 DEF Configured
<1>4. SUFFICES ASSUME NEW m \in Listed
      PROVE  \/ \E i \in Configured(m)' :
                   /\ g_users[m].pass = file'[i].pass
                   /\ sets = 0 => /\ g_users[m].level = file'[i].level
                                  /\ g_users[m].max_hops = file'[i].max_hops % 256
             \/ m = Admin /\ g_users[m].pass = DefaultPass
             \/ /\ AutoRegister
                /\ sets = 0 => /\ g_users[m].level = LevelUser
                               /\ g_users[m].max_hops = RegisteredHops
  BY DEF AccountsHaveSource, Listed
<1>5. CASE \E i \in Configured(m) :
             /\ g_users[m].pass = file[i].pass
             /\ sets = 0 => /\ g_users[m].level = file[i].level
                            /\ g_users[m].max_hops = file[i].max_hops % 256
  BY <1>3, <1>5
<1>6. QED BY <1>5 DEF AccountsHaveSource

\* The list is not changed, nor the blocks of the file: readers are where
\* they were or start at the first block.
LEMMA ReadersStay ==
  ASSUME IInv, ReadingOK, UNCHANGED usersv,
         file' = file \/ \E b \in Block : file' = Append(file, b),
         \A r \in Reloader : rl'[r] = "read" =>
            \/ rl[r] = "read" /\ mutex' = mutex /\ pos'[r] = pos[r]
            \/ mutex' = r /\ pos'[r] = 1
  PROVE  ReadingOK'
<1>1. file \in Seq(Block) /\ pos \in [Reloader -> Nat \ {0}] BY DEF IInv, TypeOK
<1>2. /\ Len(file) \in Nat /\ Len(file') >= Len(file) /\ Len(file') \in Nat
      /\ \A i \in 1..Len(file) : file'[i] = file[i]
  BY <1>1
<1>3. SUFFICES ASSUME NEW r \in Reloader, rl'[r] = "read"
      PROVE  /\ mutex' = r /\ pos'[r] <= Len(file') + 1
             /\ \A j \in 1..(pos'[r] - 1) :
                  file'[j].pass # NoPass => \/ file'[j].name \in Listed'
                                            \/ g_user_count' >= MaxUsers
  BY DEF ReadingOK
<1>4. CASE mutex' = r /\ pos'[r] = 1 BY <1>2, <1>4
<1>5. CASE rl[r] = "read" /\ mutex' = mutex /\ pos'[r] = pos[r]
  <2>1. pos[r] \in Nat \ {0} /\ pos[r] <= Len(file) + 1 /\ mutex = r
    BY <1>1, <1>5 DEF ReadingOK
  <2>2. \A j \in 1..(pos[r] - 1) : file'[j] = file[j] BY <1>2, <2>1
  <2>3. \A j \in 1..(pos[r] - 1) :
           file[j].pass # NoPass => \/ file[j].name \in Listed
                                    \/ g_user_count >= MaxUsers
    BY <1>5 DEF ReadingOK
  <2>4. pos'[r] <= Len(file') + 1 BY <1>2, <1>5, <2>1
  <2>5. QED BY <1>5, <2>1, <2>2, <2>3, <2>4 DEF Listed, usersv
<1>6. QED BY <1>3, <1>4, <1>5

\* No reader is in the file after a step that needs the mutex free.
LEMMA NoReader ==
  ASSUME IInv, ReadingOK, Unlocked,
         \A r \in Reloader : rl'[r] = "read" => rl[r] = "read"
  PROVE  ReadingOK'
BY NobodyReads DEF ReadingOK

LEMMA RegisteringStep ==
  ASSUME IInv, RegisteringOK, NEW c \in Client, LoginNext(c)
  PROVE  RegisteringOK'
<1>1. cl \in [Client -> Login] BY DEF IInv, TypeOK
<1>2. \A d \in Client : d # c => cl'[d] = cl[d]
  BY <1>1
  DEF LoginNext, Attempt, Authenticate, Register, Persist, GetMaxHops, Finish,
      Disconnect, Step
<1>3. cl'[c].pc = "register" => AutoRegister
  <2>1. CASE Authenticate(c)
    <3>1. CASE AutoRegister BY <3>1
    <3>2. CASE ~AutoRegister
      <4>1. PICK k \in {"hops", "refused"} : Step(c, k)
        BY <2>1, <3>2 DEF Authenticate
      <4>2. cl'[c] = [cl[c] EXCEPT !.pc = k] BY <1>1, <4>1 DEF Step
      <4>3. cl'[c].pc = k BY <1>1, <4>2 DEF Login
      <4>4. QED BY <4>3
    <3>3. QED BY <3>1, <3>2
  <2>2. CASE \E n \in Name, p \in Pass : Attempt(c, n, p)
    BY <1>1, <2>2 DEF Attempt
  <2>3. ASSUME NEW k, Step(c, k) PROVE cl'[c].pc = k
    <3>1. cl'[c] = [cl[c] EXCEPT !.pc = k] BY <1>1, <2>3 DEF Step
    <3>2. QED BY <1>1, <3>1 DEF Login
  <2>4. CASE GetMaxHops(c)
    <3>1. PICK h : cl' = [cl EXCEPT ![c].pc = "handshake", ![c].hop_count = h]
      BY <2>4 DEF GetMaxHops
    <3>2. cl'[c].pc = "handshake" BY <1>1, <3>1 DEF Login
    <3>3. QED BY <3>2
  <2>5. CASE Register(c) \/ Persist(c) \/ Finish(c) \/ Disconnect(c)
    BY <2>3, <2>5 DEF Register, Persist, Finish, Disconnect
  <2>6. QED BY <2>1, <2>2, <2>4, <2>5 DEF LoginNext
<1>4. QED BY <1>2, <1>3 DEF RegisteringOK

LEMMA LoginSource ==
  ASSUME IInv, SourceInv, NEW c \in Client, LoginNext(c)
  PROVE  SourceInv'
<1>0. /\ ReadingOK /\ RegisteringOK /\ AccountsHaveSource /\ cl[c] \in Login
      /\ RegisteringOK'
  BY RegisteringStep DEF SourceInv, IInv, TypeOK
<1>1. ASSUME UNCHANGED <<usersv, file, reloadv, sets>> PROVE SourceInv'
  <2>1. AccountsHaveSource' BY <1>0, <1>1, SourcesStay DEF usersv
  <2>2. ReadingOK' BY <1>0, <1>1, ReadersStay DEF reloadv
  <2>3. QED BY <1>0, <2>1, <2>2 DEF SourceInv
<1>2. CASE Register(c)
  <2>1. CASE CanAdd(cl[c].name, cl[c].pass)
    <3>1. cl[c].name \in Name /\ cl[c].pass \in Pass BY <1>0 DEF Login
    <3>2. /\ Added(cl[c].name, cl[c].pass, LevelUser, RegisteredHops)
          /\ UNCHANGED <<file, reloadv, sets>> /\ Unlocked
      BY <1>2, <2>1 DEF Register
    <3>3. RegisteredHops % 256 = RegisteredHops BY DEF RegisteredHops
    <3>4. AutoRegister BY <1>0, <1>2 DEF Register, RegisteringOK
    <3>5. AccountsHaveSource'
      BY <1>0, <2>1, <3>1, <3>2, <3>3, <3>4, AddedHasSource DEF CanAdd
    <3>6. ReadingOK' BY <1>0, <3>2, NoReader DEF reloadv
    <3>7. QED BY <1>0, <3>5, <3>6 DEF SourceInv
  <2>2. CASE ~CanAdd(cl[c].name, cl[c].pass)
    BY <1>1, <1>2, <2>2 DEF Register
  <2>3. QED BY <2>1, <2>2
<1>3. CASE Persist(c)
  <2> DEFINE b == [name |-> cl[c].name, pass |-> cl[c].pass,
                   level |-> LevelUser, max_hops |-> RegisteredHops]
  <2>1. b \in Block BY <1>0, UserAssumption DEF Login, Block
  <2>2. file' = Append(file, b) \/ file' = file BY <1>3 DEF Persist
  <2> HIDE DEF b
  <2>3. AccountsHaveSource'
    BY <1>0, <1>3, <2>1, <2>2, SourcesStay DEF Persist, usersv
  <2>4. ReadingOK' BY <1>0, <1>3, <2>1, <2>2, ReadersStay DEF Persist, reloadv
  <2>5. QED BY <1>0, <2>3, <2>4 DEF SourceInv
<1>4. QED
  BY <1>1, <1>2, <1>3
  DEF LoginNext, Attempt, Authenticate, GetMaxHops, Finish, Disconnect

\* A block that the loader adds is the one that the file gives its name.
LEMMA ReadBlockSource ==
  ASSUME IInv, ReadingOK, AccountsHaveSource, NEW r \in Reloader, ReadBlock(r)
  PROVE  ReadingOK' /\ AccountsHaveSource'
<1> DEFINE i == pos[r]
           b == file[i]
<1>1. /\ file \in Seq(Block) /\ pos \in [Reloader -> Nat \ {0}]
      /\ g_user_count \in 0..MaxUsers
  BY DEF IInv, TypeOK
<1>2. /\ rl[r] = "read" /\ mutex = r /\ i \in 1..Len(file) /\ Len(file) \in Nat
      /\ \A j \in 1..(i - 1) :
           file[j].pass # NoPass => \/ file[j].name \in Listed
                                    \/ g_user_count >= MaxUsers
  BY <1>1 DEF ReadBlock, ReadingOK
<1>3. b \in Block BY <1>1, <1>2
<1>4. /\ b.name \in Name /\ b.max_hops \in Nat
      /\ b.pass # NoPass => b.pass \in Pass
  BY <1>3, UserAssumption DEF Block
<1>5. /\ IF CanAdd(b.name, b.pass)
           THEN Added(b.name, b.pass, b.level, b.max_hops) ELSE UNCHANGED usersv
      /\ pos' = [pos EXCEPT ![r] = i + 1]
      /\ UNCHANGED <<file, mutex, rl, sets>>
  BY DEF ReadBlock
<1>6. pos'[r] = i + 1 BY <1>1, <1>5
<1>7. \A q \in Reloader : rl'[q] = "read" => q = r
  BY <1>2, <1>5 DEF ReadingOK
<1>8. SUFFICES /\ AccountsHaveSource'
               /\ \A j \in 1..i : file[j].pass # NoPass =>
                     file[j].name \in Listed' \/ g_user_count' >= MaxUsers
  BY <1>1, <1>2, <1>5, <1>6, <1>7 DEF ReadingOK
<1>9. CASE CanAdd(b.name, b.pass)
  <2>1. Added(b.name, b.pass, b.level, b.max_hops) /\ b.pass \in Pass
    BY <1>4, <1>5, <1>9 DEF CanAdd
  <2>2. b.name \notin Listed /\ g_user_count < MaxUsers BY <1>9 DEF CanAdd
  <2>3. ASSUME NEW j \in 1..(i - 1), file[j].name = b.name
        PROVE  file[j].pass = NoPass
    <3>1. ~(g_user_count >= MaxUsers) BY <1>1, <2>2, UserAssumption
    <3>2. QED BY <1>2, <2>2, <2>3, <3>1
  <2>4. i \in Configured(b.name) BY <1>2, <1>9, <2>3 DEF Configured, CanAdd
  <2>5. AccountsHaveSource'
    BY <1>4, <1>5, <2>1, <2>2, <2>4, AddedHasSource
  <2>6. Listed' = Listed \cup {b.name} BY <2>1 DEF Added, Listed
  <2>7. g_user_count' = g_user_count + 1 BY <2>1 DEF Added
  <2>8. \A j \in 1..i : j = i \/ j \in 1..(i - 1) BY <1>2
  <2>9. g_user_count >= MaxUsers => g_user_count' >= MaxUsers
    BY <1>1, <2>7, UserAssumption
  <2>10. QED BY <1>2, <2>5, <2>6, <2>8, <2>9
<1>10. CASE ~CanAdd(b.name, b.pass)
  <2>1. UNCHANGED usersv BY <1>5, <1>10
  <2>2. AccountsHaveSource' BY <1>5, <2>1, SourcesStay DEF usersv
  <2>3. b.pass # NoPass => b.name \in Listed \/ g_user_count >= MaxUsers
    BY <1>1, <1>10, UserAssumption DEF CanAdd
  <2>4. \A j \in 1..i : j = i \/ j \in 1..(i - 1) BY <1>2
  <2>5. QED BY <1>2, <2>1, <2>2, <2>3, <2>4 DEF usersv, Listed
<1>11. QED BY <1>9, <1>10

LEMMA ReloadSource ==
  ASSUME IInv, SourceInv, NEW r \in Reloader, ReloadNext(r)
  PROVE  SourceInv'
<1>0. ReadingOK /\ RegisteringOK /\ AccountsHaveSource BY DEF SourceInv
<1>1. RegisteringOK'
  BY <1>0
  DEF RegisteringOK, ReloadNext, Swap, OpenFile, FileMissing, ReadBlock,
      EndOfFile, AddDefault
<1>2. rl \in [Reloader -> {"idle", "open", "read", "default"}]
        /\ pos \in [Reloader -> Nat \ {0}]
  BY DEF IInv, TypeOK
<1>3. CASE Swap(r)
  <2>1. Listed' = {} BY <1>3 DEF Swap, Listed
  <2>2. AccountsHaveSource' BY <2>1 DEF AccountsHaveSource
  <2>3. ReadingOK' BY <1>0, <1>2, <1>3, NoReader DEF Swap
  <2>4. QED BY <1>1, <2>2, <2>3 DEF SourceInv
<1>4. CASE OpenFile(r)
  <2>1. AccountsHaveSource' BY <1>0, <1>4, SourcesStay DEF OpenFile, usersv
  <2>2. \A q \in Reloader : rl[q] # "read" BY <1>0, <1>4, NobodyReads DEF OpenFile
  <2>3. \A q \in Reloader : rl'[q] = "read" => mutex' = q /\ pos'[q] = 1
    BY <1>2, <1>4, <2>2 DEF OpenFile
  <2>4. ReadingOK' BY <1>0, <1>4, <2>3, ReadersStay DEF OpenFile
  <2>5. QED BY <1>1, <2>1, <2>4 DEF SourceInv
<1>5. CASE FileMissing(r)
  <2>1. AccountsHaveSource' BY <1>0, <1>5, SourcesStay DEF FileMissing, usersv
  <2>2. ReadingOK' BY <1>0, <1>2, <1>5, ReadersStay DEF FileMissing
  <2>3. QED BY <1>1, <2>1, <2>2 DEF SourceInv
<1>6. CASE ReadBlock(r) BY <1>0, <1>1, <1>6, ReadBlockSource DEF SourceInv
<1>7. CASE EndOfFile(r)
  <2>1. AccountsHaveSource' BY <1>0, <1>7, SourcesStay DEF EndOfFile, usersv
  <2>2. \A q \in Reloader : rl[q] = "read" => q = r
    BY <1>0, <1>7 DEF EndOfFile, ReadingOK
  <2>3. \A q \in Reloader : rl'[q] # "read" BY <1>2, <1>7, <2>2 DEF EndOfFile
  <2>4. ReadingOK' BY <2>3 DEF ReadingOK
  <2>5. QED BY <1>1, <2>1, <2>4 DEF SourceInv
<1>8. CASE AddDefault(r)
  <2>1. ReadingOK' BY <1>0, <1>2, <1>8, NoReader DEF AddDefault
  <2>2. CASE NeedsDefault
    <3>1. Listed = {}
      BY <2>2, FS_EmptySet DEF IInv, CountExact, NeedsDefault
    <3>2. Admin \in Name /\ DefaultPass \in Pass BY UserAssumption
    <3>3. Added(Admin, DefaultPass, LevelRoot, 0) BY <1>8, <2>2 DEF AddDefault
    <3>4. AccountsHaveSource'
      BY <1>0, <1>8, <3>1, <3>2, <3>3, AddedHasSource DEF AddDefault
    <3>5. QED BY <1>1, <2>1, <3>4 DEF SourceInv
  <2>3. CASE ~NeedsDefault
    <3>1. AccountsHaveSource'
      BY <1>0, <1>8, <2>3, SourcesStay DEF AddDefault, usersv
    <3>2. QED BY <1>1, <2>1, <3>1 DEF SourceInv
  <2>4. QED BY <2>2, <2>3
<1>9. QED BY <1>3, <1>4, <1>5, <1>6, <1>7, <1>8 DEF ReloadNext

\* The REST API changes no password.
LEMMA SetSource ==
  ASSUME IInv, SourceInv, NEW n \in Name, SetNext(n)
  PROVE  SourceInv'
<1>0. ReadingOK /\ RegisteringOK /\ AccountsHaveSource BY DEF SourceInv
<1>1. PICK a : Set(n, a) /\ a.pass = g_users[n].pass
  <2>1. n \in Listed BY DEF SetNext, SetEnabled, SetMaxHops, SetLevel
  <2>2. g_users[n] \in Account BY <2>1 DEF IInv, TypeOK, Listed
  <2>3. ASSUME NEW b \in BOOLEAN, SetEnabled(n, b)
        PROVE  \E a : Set(n, a) /\ a.pass = g_users[n].pass
    <3>1. [g_users[n] EXCEPT !.enabled = b].pass = g_users[n].pass
      BY <2>2 DEF Account
    <3>2. QED BY <2>3, <3>1 DEF SetEnabled
  <2>4. ASSUME NEW h \in Hops, SetMaxHops(n, h)
        PROVE  \E a : Set(n, a) /\ a.pass = g_users[n].pass
    <3>1. [g_users[n] EXCEPT !.max_hops = h % 256].pass = g_users[n].pass
      BY <2>2 DEF Account
    <3>2. QED BY <2>4, <3>1 DEF SetMaxHops
  <2>5. ASSUME NEW l \in Level, SetLevel(n, l)
        PROVE  \E a : Set(n, a) /\ a.pass = g_users[n].pass
    <3>1. [g_users[n] EXCEPT !.level = l].pass = g_users[n].pass
      BY <2>2 DEF Account
    <3>2. QED BY <2>5, <3>1 DEF SetLevel
  <2>6. QED BY <2>3, <2>4, <2>5 DEF SetNext
<1>2. /\ Listed' = Listed
      /\ \A m \in Listed : g_users'[m].pass = g_users[m].pass
  BY <1>1 DEF Set, IInv, TypeOK, Listed
<1>3. sets' # 0 BY <1>1 DEF Set, IInv, TypeOK
<1>4. \A m : Configured(m)' = Configured(m) BY <1>1 DEF Configured, Set
<1>5. file' = file BY <1>1 DEF Set
<1>6. AccountsHaveSource'
  BY <1>0, <1>2, <1>3, <1>4, <1>5 DEF AccountsHaveSource
<1>7. RegisteringOK' BY <1>0, <1>1 DEF RegisteringOK, Set
<1>8. ReadingOK' BY <1>0, <1>1, NoReader DEF Set, reloadv
<1>9. QED BY <1>6, <1>7, <1>8 DEF SourceInv

\* user_manager.c:101-142, 303-358, 431-540: however reloads overlap with each
\* other, with registrations and with REST changes, every account comes whole
\* from the file, the default or a registration, for any file and any limit.
THEOREM EveryAccountHasSource == Spec => []AccountsHaveSource
<1>1. Init => SourceInv
  <2> SUFFICES ASSUME Init PROVE SourceInv OBVIOUS
  <2>1. Listed = {} BY DEF Init, Listed
  <2>2. RegisteringOK BY DEF Init, RegisteringOK
  <2>3. \A r \in Reloader : rl[r] # "read" BY DEF Init
  <2>4. QED BY <2>1, <2>2, <2>3 DEF SourceInv, AccountsHaveSource, ReadingOK
<1>2. IInv /\ SourceInv /\ [Next]_vars => SourceInv'
  <2> SUFFICES ASSUME IInv, SourceInv, [Next]_vars PROVE SourceInv' OBVIOUS
  <2>1. ASSUME NEW c \in Client, LoginNext(c) PROVE SourceInv'
    BY <2>1, LoginSource
  <2>2. ASSUME NEW r \in Reloader, ReloadNext(r) PROVE SourceInv'
    BY <2>2, ReloadSource
  <2>3. ASSUME NEW n \in Name, SetNext(n) PROVE SourceInv' BY <2>3, SetSource
  <2>4. CASE UNCHANGED vars
    <3>1. AccountsHaveSource' BY <2>4, SourcesStay DEF vars, SourceInv
    <3>2. ReadingOK' BY <2>4, ReadersStay DEF vars, SourceInv, usersv
    <3>3. RegisteringOK' BY <2>4 DEF vars, SourceInv, RegisteringOK
    <3>4. QED BY <3>1, <3>2, <3>3 DEF SourceInv
  <2>5. QED BY <2>1, <2>2, <2>3, <2>4 DEF Next
<1>3. SourceInv => AccountsHaveSource BY DEF SourceInv
<1>4. QED BY <1>1, <1>2, <1>3, Inductive, PTL DEF Spec
=============================================================================
