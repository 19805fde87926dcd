----------------------------- MODULE ServerLoop -----------------------------
(***************************************************************************)
(* The main loop cccam3_run, the signal handler and the mutex of the       *)
(* logger (core/cccam3_server.c, core/cccam3_logger.c).  A signal is       *)
(* delivered to the main thread or to some other thread of the process;    *)
(* the handler runs on top of whatever that thread was doing.  SIGHUP and  *)
(* SIGUSR1 only set a flag.  SIGINT and SIGTERM write a log line, which    *)
(* takes g_log_mutex, and then clear g_running.                            *)
(*                                                                         *)
(* select() is never restarted after a handler ran in its thread: it       *)
(* returns -1 with EINTR, and cccam3_run leaves the loop on every error.   *)
(* What the loop does with a new connection is the subject of ClientPool;  *)
(* here it is the step Work.  Threads other than the main one appear as    *)
(* one thread that writes log lines.                                       *)
(***************************************************************************)
EXTENDS Integers

CONSTANT MaxSignals   \* bound on SIGHUP and SIGUSR1 deliveries

VARIABLES mpc,                 \* position of the main thread
          part,                \* subsystems reloaded so far
          g_running, g_reload_requested, g_rotate_requested,
          g_log_mutex,         \* "free", "main" or "other"
          handler,             \* thread a SIGTERM handler runs on, or "none"
          terminating,         \* a SIGINT or SIGTERM was delivered
          signals,             \* SIGHUP and SIGUSR1 deliveries so far
          owed                 \* operator's requests no work has started on

vars == <<mpc, part, g_running, g_reload_requested, g_rotate_requested,
          g_log_mutex, handler, terminating, signals, owed>>
flags == <<g_reload_requested, g_rotate_requested>>
sigv  == <<g_running, handler, terminating, signals>>

\* cccam3_run reloads keys, users, readers and channels, in this order.
Parts == 4
MainPC == {"top", "select", "eintr", "err_log", "flags", "hup_log", "reload",
           "rotate_test", "usr_log", "rotate", "work", "work_log", "left"}

TypeOK ==
    /\ mpc \in MainPC
    /\ part \in 0..Parts
    /\ g_running \in BOOLEAN
    /\ g_reload_requested \in BOOLEAN
    /\ g_rotate_requested \in BOOLEAN
    /\ g_log_mutex \in {"free", "main", "other"}
    /\ handler \in {"none", "main", "other"}
    /\ terminating \in BOOLEAN
    /\ signals \in 0..MaxSignals
    /\ owed \in SUBSET {"reload", "rotate"}

Init ==
    /\ mpc = "top"
    /\ part = 0
    /\ g_running = TRUE
    /\ g_reload_requested = FALSE
    /\ g_rotate_requested = FALSE
    /\ g_log_mutex = "free"
    /\ handler = "none"
    /\ terminating = FALSE
    /\ signals = 0
    /\ owed = {}

-----------------------------------------------------------------------------
(* The main thread, which makes no step while a handler runs on it.        *)

MainFree == handler # "main"

Top ==
    /\ MainFree /\ mpc = "top"
    /\ mpc' = IF g_running THEN "select" ELSE "left"
    /\ UNCHANGED <<part, flags, sigv, g_log_mutex, owed>>

\* Mutant: an iteration in which select times out skips the flags.
SelectReturnsOnActivity ==
    /\ MainFree /\ mpc = "select"
    /\ mpc' \in {"flags", "top"}
    /\ UNCHANGED <<part, flags, sigv, g_log_mutex, owed>>

\* select returns a ready descriptor or times out after a second.
SelectReturns ==
    /\ MainFree /\ mpc = "select"
    /\ mpc' = "flags"
    /\ UNCHANGED <<part, flags, sigv, g_log_mutex, owed>>

\* select failed: the loop is left, with a message when g_running is set.
SelectFailed ==
    /\ MainFree /\ mpc = "eintr"
    /\ mpc' = IF g_running THEN "err_log" ELSE "left"
    /\ UNCHANGED <<part, flags, sigv, g_log_mutex, owed>>

\* The flag is cleared before the reload starts.
TakeReload ==
    /\ MainFree /\ mpc = "flags"
    /\ IF g_reload_requested
       THEN /\ mpc' = "hup_log"
            /\ g_reload_requested' = FALSE
            /\ owed' = owed \ {"reload"}
       ELSE mpc' = "rotate_test" /\ UNCHANGED <<g_reload_requested, owed>>
    /\ UNCHANGED <<part, g_rotate_requested, sigv, g_log_mutex>>

\* cccam_log in the main thread: lock, write, unlock.
LogLock(at) ==
    /\ MainFree /\ mpc = at
    /\ g_log_mutex = "free"
    /\ g_log_mutex' = "main"
    /\ UNCHANGED <<mpc, part, flags, sigv, owed>>

LogUnlock(at, next) ==
    /\ MainFree /\ mpc = at
    /\ g_log_mutex = "main"
    /\ g_log_mutex' = "free"
    /\ mpc' = next
    /\ UNCHANGED <<part, flags, sigv, owed>>

\* cccam_emu_reload, cccam_user_manager_reload, cccam_card_manager_reload
\* and cccam_channels_init, one at a time.
ReloadPart ==
    /\ MainFree /\ mpc = "reload"
    /\ part' = (part + 1) % Parts
    /\ mpc' = IF part + 1 = Parts THEN "rotate_test" ELSE "reload"
    /\ UNCHANGED <<flags, sigv, g_log_mutex, owed>>

TakeRotate ==
    /\ MainFree /\ mpc = "rotate_test"
    /\ IF g_rotate_requested
       THEN /\ mpc' = "usr_log"
            /\ g_rotate_requested' = FALSE
            /\ owed' = owed \ {"rotate"}
       ELSE mpc' = "work" /\ UNCHANGED <<g_rotate_requested, owed>>
    /\ UNCHANGED <<part, g_reload_requested, sigv, g_log_mutex>>

\* A connection, the periodic cleaning, or nothing; log lines or none.
Work ==
    /\ MainFree /\ mpc = "work"
    /\ mpc' \in {"work_log", "top"}
    /\ UNCHANGED <<part, flags, sigv, g_log_mutex, owed>>

Main ==
    \/ Top \/ SelectReturns \/ SelectFailed \/ TakeReload \/ ReloadPart \/ TakeRotate \/ Work
    \/ \E at \in {"err_log", "hup_log", "usr_log", "rotate", "work_log"} :
           LogLock(at)
    \/ LogUnlock("err_log", "left")
    \/ LogUnlock("hup_log", "reload")
    \/ LogUnlock("usr_log", "rotate")
    \/ LogUnlock("rotate", "work")
    \/ LogUnlock("work_log", "top")

-----------------------------------------------------------------------------
(* The other threads, and the signals. *)

OtherLog ==
    /\ handler # "other"
    /\ g_log_mutex = "free"
    /\ g_log_mutex' = "other"
    /\ UNCHANGED <<mpc, part, flags, sigv, owed>>

OtherUnlog ==
    /\ handler # "other"
    /\ g_log_mutex = "other"
    /\ g_log_mutex' = "free"
    /\ UNCHANGED <<mpc, part, flags, sigv, owed>>

\* Where the main thread is after a handler ran on thread h: a select it
\* was in has failed with EINTR.
Interrupted(h) == IF h = "main" /\ mpc = "select" THEN "eintr" ELSE mpc

\* SIGHUP and SIGUSR1 are not masked while the handler of another signal
\* runs, so that thread h may be in one.

Hup(h) ==
    /\ signals < MaxSignals
    /\ signals' = signals + 1
    /\ g_reload_requested' = TRUE
    /\ owed' = owed \cup {"reload"}
    /\ mpc' = Interrupted(h)
    /\ UNCHANGED <<part, g_running, g_rotate_requested, g_log_mutex, handler,
                   terminating>>

Usr1(h) ==
    /\ signals < MaxSignals
    /\ signals' = signals + 1
    /\ g_rotate_requested' = TRUE
    /\ owed' = owed \cup {"rotate"}
    /\ mpc' = Interrupted(h)
    /\ UNCHANGED <<part, g_running, g_reload_requested, g_log_mutex, handler,
                   terminating>>

\* SIGINT or SIGTERM: the handler starts ...
Term(h) ==
    /\ handler = "none" /\ ~terminating
    /\ handler' = h
    /\ terminating' = TRUE
    /\ UNCHANGED <<mpc, part, flags, g_running, g_log_mutex, signals, owed>>

\* ... logs, for which it needs the mutex, and clears g_running.
HandlerEnds ==
    /\ handler # "none"
    /\ g_log_mutex = "free"
    /\ g_running' = FALSE
    /\ handler' = "none"
    /\ mpc' = Interrupted(handler)
    /\ UNCHANGED <<part, flags, g_log_mutex, terminating, signals, owed>>

Next ==
    \/ Main \/ OtherLog \/ OtherUnlog
    \/ \E h \in {"main", "other"} : Hup(h) \/ Usr1(h) \/ Term(h)
    \/ HandlerEnds

Spec == Init /\ [][Next]_vars

\* Threads run.  The mutex is handed out fairly enough for a thread that
\* keeps asking to get it; the other threads need not ever log.
FairSpec == /\ Spec
            /\ SF_vars(Main)
            /\ SF_vars(HandlerEnds)
            /\ WF_vars(OtherUnlog)

-----------------------------------------------------------------------------
(* Properties. *)

\* A requested reload starts, unless the loop is left (EINTR) or the server
\* was told to terminate, even if no connection ever wakes select up and
\* other threads keep the mutex of the logger busy.
ReloadStarts ==
    "reload" \in owed ~> \/ "reload" \notin owed
                         \/ mpc = "left"
                         \/ terminating

\* The loop ends only when termination was asked for.
EndsOnTermination == mpc = "left" => terminating

=============================================================================
