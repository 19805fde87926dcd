----------------------------- MODULE LoginGuard -----------------------------
(***************************************************************************)
(* The table of failed logins of core/cccam3_server.c (153-214), which     *)
(* blocks an address for a while.  The threads of all clients use it and   *)
(* no mutex protects it: each of the three functions is a step, except     *)
(* that the count is read in one step and stored in the next.              *)
(*                                                                         *)
(* Time is kept as the age of a slot's first failure and as what is left   *)
(* of its block.  An address is a number, 0 a free slot.  OwnSession states *)
(* what it assumes of the constants, with the sessions that use the guard. *)
(***************************************************************************)
EXTENDS Integers

CONSTANTS Ip,          \* addresses
          Thread,      \* threads that serve a client each
          Slots,       \* LOGIN_FAIL_SLOTS
          Limit,       \* max_login_failures
          Window       \* 60 s: both the window and the block

Slot == 0..(Slots - 1)

VARIABLES g_fail_ip,      \* slot -> address, 0 for none
          g_fail_count,   \* slot -> failures
          age,            \* slot -> seconds since g_fail_since
          blocked,        \* slot -> seconds until g_fail_blocked_until
          th              \* thread -> its login

vars == <<g_fail_ip, g_fail_count, age, blocked, th>>
table == <<g_fail_ip, g_fail_count, age, blocked>>

\* Counts above Limit and ages above Window are not told apart.
Login == [pc : {"idle", "check", "auth", "fail", "store", "refused"},
          ip : Ip \cup {0},
          slot : Slot, count : 0..Limit,
          late : 0..Window]    \* seconds since it read the clock
TypeOK ==
    /\ g_fail_ip \in [Slot -> Ip \cup {0}]
    /\ g_fail_count \in [Slot -> 0..Limit]
    /\ age \in [Slot -> 0..(Window + 1)]
    /\ blocked \in [Slot -> 0..Window]
    /\ th \in [Thread -> Login]

\* The arrays start as zeros: the age is that of the year 1970.
Init ==
    /\ g_fail_ip = [s \in Slot |-> 0]
    /\ g_fail_count = [s \in Slot |-> 0]
    /\ age = [s \in Slot |-> Window + 1]
    /\ blocked = [s \in Slot |-> 0]
    /\ th = [t \in Thread |-> [pc |-> "idle", ip |-> 0, slot |-> 0, count |-> 0,
                              late |-> 0]]

-----------------------------------------------------------------------------

\* Mutant: the count is looked at instead of the time.
BlockedByCount(a) == \E s \in Slot : g_fail_ip[s] = a /\ g_fail_count[s] >= Limit

\* server_login_blocked
Blocked(a) == \E s \in Slot : g_fail_ip[s] = a /\ blocked[s] > 0

FirstOf(S) == CHOOSE s \in S : \A q \in S : s <= q

\* The slot server_login_failure works on: the first with the address, else
\* the first free one, else one that the address hashes to.
SlotOf(a) ==
    LET own  == {s \in Slot : g_fail_ip[s] = a}
        free == {s \in Slot : g_fail_ip[s] = 0}
    IN  IF own # {} THEN FirstOf(own)
        ELSE IF free # {} THEN FirstOf(free)
        ELSE a % Slots

\* handle_client_login
Start(t, a) ==
    /\ th[t].pc = "idle"
    /\ th' = [th EXCEPT ![t].pc = "check", ![t].ip = a]
    /\ UNCHANGED table

Check(t) ==
    /\ th[t].pc = "check"
    /\ th' = [th EXCEPT ![t].pc = IF Blocked(th[t].ip) THEN "refused"
                                                               ELSE "auth"]
    /\ UNCHANGED table

\* The password is right: server_login_success forgets the address, not the
\* block.
Success(t) ==
    LET mine == {s \in Slot : g_fail_ip[s] = th[t].ip}
    IN  /\ th[t].pc = "auth"
        /\ g_fail_ip' = [s \in Slot |-> IF s \in mine THEN 0 ELSE g_fail_ip[s]]
        /\ g_fail_count' = [s \in Slot |-> IF s \in mine THEN 0
                                           ELSE g_fail_count[s]]
        /\ th' = [th EXCEPT ![t].pc = "idle"]
        /\ UNCHANGED <<age, blocked>>

WrongPassword(t) ==
    /\ th[t].pc = "auth"
    /\ th' = [th EXCEPT ![t].pc = "fail"]
    /\ UNCHANGED table

\* A login that cannot be taken apart is not counted.
Malformed(t) ==
    /\ th[t].pc = "auth"
    /\ th' = [th EXCEPT ![t].pc = "idle"]
    /\ UNCHANGED table

\* The first failure of the slot is out of the window.
Expired(s) == age[s] > Window

\* server_login_failure: finds the slot and starts it, or reads its count ...
FailFind(t) ==
    LET a == th[t].ip  s == SlotOf(a)
        fresh == g_fail_ip[s] # a \/ Expired(s)
        n == IF fresh THEN 1
             ELSE IF g_fail_count[s] < Limit THEN g_fail_count[s] + 1 ELSE Limit
    IN  /\ th[t].pc = "fail"
        /\ IF fresh
           THEN /\ g_fail_ip' = [g_fail_ip EXCEPT ![s] = a]
                /\ age' = [age EXCEPT ![s] = 0]
           ELSE UNCHANGED <<g_fail_ip, age>>
        /\ th' = [th EXCEPT ![t].pc = "store", ![t].slot = s, ![t].count = n]
        /\ UNCHANGED <<g_fail_count, blocked>>

\* Mutant: a failure during the block is added to it.
BlockForMore(s, late) == blocked[s] + Window - late

\* A minute from the time that was read.
BlockFor(s, late) == Window - late

\* ... stores the new count and, at the limit, blocks the slot.
FailStore(t) ==
    LET s == th[t].slot
    IN  /\ th[t].pc = "store"
        /\ g_fail_count' = [g_fail_count EXCEPT ![s] = th[t].count]
        /\ blocked' = [blocked EXCEPT ![s] = IF th[t].count >= Limit
                                             THEN BlockFor(s, th[t].late) ELSE @]
        /\ th' = [th EXCEPT ![t].pc = "idle", ![t].slot = 0, ![t].count = 0,
                          ![t].late = 0]
        /\ UNCHANGED <<g_fail_ip, age>>

\* The client of a blocked address is disconnected.
Refuse(t) ==
    /\ th[t].pc = "refused"
    /\ th' = [th EXCEPT ![t].pc = "idle"]
    /\ UNCHANGED table

Tick ==
    /\ age' = [s \in Slot |-> IF age[s] <= Window THEN age[s] + 1 ELSE age[s]]
    /\ blocked' = [s \in Slot |-> IF blocked[s] > 0 THEN blocked[s] - 1 ELSE 0]
    /\ th' = [t \in Thread |->
                 IF th[t].pc = "store" /\ th[t].late < Window
                 THEN [th[t] EXCEPT !.late = @ + 1] ELSE th[t]]
    /\ UNCHANGED <<g_fail_ip, g_fail_count>>

Work(t) == \/ Check(t) \/ Malformed(t) \/ Success(t) \/ WrongPassword(t)
           \/ FailFind(t) \/ FailStore(t) \/ Refuse(t)

Next == \/ \E t \in Thread : (\E a \in Ip : Start(t, a)) \/ Work(t)
        \/ Tick

Spec == Init /\ [][Next]_vars

\* A login in progress goes on, and so does the clock.
FairSpec == Spec /\ WF_vars(Tick) /\ \A t \in Thread : WF_vars(Work(t))

-----------------------------------------------------------------------------
(* Properties. *)

\* server.c:187-192, 205-214: the block of an address comes to an end,
\* whatever its clients keep trying meanwhile.
BlockEnds == \A a \in Ip : Blocked(a) ~> ~Blocked(a)

=============================================================================
