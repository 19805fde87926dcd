------------------------------ MODULE CwStore ------------------------------
(***************************************************************************)
(* What the control-word cache promises its callers, with no list, no      *)
(* capacity and no validity flag: at most one control word per channel,    *)
(* each with an instant of expiry, never returned after it.  The cache may *)
(* forget: an addition may push out one other channel and cleaning drops   *)
(* channels that have expired.  CwCache implements this specification.     *)
(***************************************************************************)
EXTENDS Integers

CONSTANTS Chan,      \* the keys (caid, provid, sid)
          Cw,        \* control words with the hop of their origin
          Timeout,   \* g_cache_timeout
          MaxTime,   \* bound on the clock
          Absent     \* neither a control word nor an entry

VARIABLES store,     \* channel -> what the cache knows of it
          answer,    \* the result of the latest find
          clock      \* time(NULL)

svars == <<store, answer, clock>>

Known(ch) == store[ch] # Absent
Expired(ch) == Known(ch) /\ clock > store[ch].exp

SInit ==
    /\ store = [ch \in Chan |-> Absent]
    /\ answer = Absent
    /\ clock = 1    \* time(NULL) is never 0

\* What an addition may forget: nothing, or one channel.
ForgetOne(s) == {s} \cup {[s EXCEPT ![ch] = Absent] : ch \in Chan}

SAdd(ch, w) ==
    /\ store' \in {[s EXCEPT ![ch] = [cw |-> w, exp |-> clock + Timeout]] :
                       s \in ForgetOne(store)}
    /\ UNCHANGED <<answer, clock>>

\* Memory ran out after the eviction: nothing is stored for ch, which was
\* not known (an overwrite allocates nothing).
SAddFails(ch) ==
    /\ ~Known(ch)
    /\ store' \in ForgetOne(store)
    /\ UNCHANGED <<answer, clock>>

\* A disabled cache is one that never adds: every find is a miss.
SFind(ch) ==
    /\ answer' = [chan |-> ch,
                  cw |-> IF Known(ch) /\ ~Expired(ch) THEN store[ch].cw
                                                      ELSE Absent]
    /\ store' = [store EXCEPT ![ch] = IF Expired(ch) THEN Absent ELSE @]
    /\ UNCHANGED clock

SRemove(ch) ==
    /\ store' = [store EXCEPT ![ch] = Absent]
    /\ UNCHANGED <<answer, clock>>

SClean ==
    /\ \E gone \in SUBSET {ch \in Chan : Expired(ch)} :
           store' = [ch \in Chan |-> IF ch \in gone THEN Absent ELSE store[ch]]
    /\ UNCHANGED <<answer, clock>>

STick ==
    /\ clock < MaxTime
    /\ clock' = clock + 1
    /\ UNCHANGED <<store, answer>>

SNext ==
    \/ \E ch \in Chan, w \in Cw : SAdd(ch, w)
    \/ \E ch \in Chan : SAddFails(ch) \/ SFind(ch) \/ SRemove(ch)
    \/ SClean
    \/ STick

SSpec == SInit /\ [][SNext]_svars
=============================================================================
