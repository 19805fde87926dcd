------------------------------ MODULE DvbReader ------------------------------
(***************************************************************************)
(* The reader of a DVB card, hardware/cccam3_dvb.c: one thread tunes,      *)
(* scans the tables of the transponder, selects a service and descrambles  *)
(* its ECMs; another service of the transponder is asked for through the   *)
(* REST API.  A service is clear, or scrambled and has a pid of ECMs.  The *)
(* hardware is external: a lock is had or not, a table comes or not, the   *)
(* signal may go.                                                          *)
(*                                                                         *)
(* The ECM filter of the demux follows the selection: a new filter throws  *)
(* away what the old one had collected, and a clear service is selected    *)
(* only after a scan, which leaves the filter on a PMT.                    *)
(***************************************************************************)
EXTENDS Naturals

CONSTANTS Tables,       \* what a scan may find: service -> its kind
          Configured,   \* service_id of the configuration
          None          \* no service

Services == UNION {DOMAIN t : t \in Tables}

VARIABLES dvb_running,    \* g_running of this file
          dvb_pc,         \* the thread; "top" is the loop without a lock
          g_channels,     \* what the last scan found
          g_service_id,   \* the selected service
          g_emm_pid,      \* an EMM pid was found; it is never forgotten
          g_pending_zap,  \* service asked for by the REST API
          ecm             \* service of the ECM being processed

vars == <<dvb_running, dvb_pc, g_channels, g_service_id, g_emm_pid,
          g_pending_zap, ecm>>
tuned == <<g_channels, g_service_id, g_emm_pid>>

PC == {"top", "tune", "scan", "setup_emm", "loop", "zap", "read", "process",
       "inject", "emm", "last_emm", "ended"}

TypeOK ==
    /\ dvb_running \in BOOLEAN
    /\ dvb_pc \in PC
    /\ g_channels \in Tables \cup {<<>>}
    /\ g_service_id \in DOMAIN g_channels \cup {None}
    /\ g_emm_pid \in BOOLEAN
    /\ g_pending_zap \in Services \cup {None}
    /\ ecm \in Services \cup {None}

\* cccam_dvb_init, if the configuration has the card and it can be opened.
Init(on) ==
    /\ dvb_running = on
    /\ dvb_pc = IF on THEN "top" ELSE "ended"
    /\ g_channels = <<>>
    /\ g_service_id = None
    /\ g_emm_pid = FALSE
    /\ g_pending_zap = None
    /\ ecm = None

Goes(from, to) == dvb_pc = from /\ dvb_pc' = to

-----------------------------------------------------------------------------
(* dvb_thread_func *)

Top ==
    /\ \/ Goes("top", IF dvb_running THEN "tune" ELSE "ended")
       \/ Goes("loop", IF dvb_running THEN "zap" ELSE "ended")
    /\ UNCHANGED <<dvb_running, tuned, g_pending_zap, ecm>>

\* A lock within five seconds, or another try after three.
Tune ==
    /\ Goes("tune", "scan") \/ Goes("tune", "top")
    /\ UNCHANGED <<dvb_running, tuned, g_pending_zap, ecm>>

Scrambled(t) == {s \in DOMAIN t : t[s] = "scrambled"}

\* dvb_scan_channels: the configured service if the transponder has it, the
\* first one with ECMs otherwise; without either the lock is given up.
Selection(t) ==
    IF Configured \in DOMAIN t THEN {Configured}
    ELSE IF Scrambled(t) = {} THEN {None} ELSE Scrambled(t)

Scan ==
    /\ \E t \in Tables \cup {<<>>} : \E s \in Selection(t) :
          /\ g_channels' = t
          /\ g_service_id' = s
          /\ Goes("scan", IF s = None THEN "top" ELSE "setup_emm")
    /\ UNCHANGED <<dvb_running, g_emm_pid, g_pending_zap, ecm>>

\* The CAT has a pid for the system of the service, or nothing changes.
SetupEmm ==
    /\ Goes("setup_emm", "zap")
    /\ g_emm_pid' \in {g_emm_pid, TRUE}
    /\ UNCHANGED <<dvb_running, g_channels, g_service_id, g_pending_zap, ecm>>

\* Mutant: a section that is there is read first.
ApplyPendingZapWhenIdle ==
    /\ Goes("zap", "read")
    /\ IF g_service_id \in Scrambled(g_channels)
       THEN UNCHANGED <<g_pending_zap, g_service_id>>
       ELSE g_pending_zap' = None /\ UNCHANGED g_service_id
    /\ UNCHANGED <<dvb_running, g_channels, g_emm_pid, ecm>>

\* dvb_apply_pending_zap: the request is taken whatever comes of it.
ApplyPendingZap ==
    /\ Goes("zap", "read")
    /\ g_pending_zap' = None
    /\ g_service_id' = IF g_pending_zap \in Scrambled(g_channels)
                       THEN g_pending_zap ELSE g_service_id
    /\ UNCHANGED <<dvb_running, g_channels, g_emm_pid, ecm>>

AfterSection == IF g_emm_pid THEN "emm" ELSE "loop"

\* An ECM of the selected service.
ReadEcm ==
    /\ g_service_id \in Scrambled(g_channels)
    /\ Goes("read", "process")
    /\ ecm' = g_service_id
    /\ UNCHANGED <<dvb_running, tuned, g_pending_zap>>

\* No section within a second, or one of another table.
ReadNothing ==
    /\ Goes("read", AfterSection)
    /\ UNCHANGED <<dvb_running, tuned, g_pending_zap, ecm>>

\* The signal is lost: the thread tunes again, once an EMM that is there has
\* been forwarded, and the scan starts from the configured service.
SignalLost ==
    /\ Goes("read", IF g_emm_pid THEN "last_emm" ELSE "top")
    /\ UNCHANGED <<dvb_running, tuned, g_pending_zap, ecm>>

\* The thread is in cccam_ecm_process or cccam_ecm_forward_emm, which need not
\* return: the emulator decrypts a section of PowerVU with a key that does not
\* fit over and over.
Asking == dvb_pc \in {"process", "emm", "last_emm"}

\* cccam_ecm_process returns with a control word of the tuned CAID, or not.
Process ==
    /\ \/ Goes("process", "inject") /\ UNCHANGED ecm
       \/ Goes("process", AfterSection) /\ ecm' = None
    /\ UNCHANGED <<dvb_running, tuned, g_pending_zap>>

\* dvb_write_cw
Inject ==
    /\ Goes("inject", AfterSection)
    /\ ecm' = None
    /\ UNCHANGED <<dvb_running, tuned, g_pending_zap>>

\* dvb_handle_emm: an EMM is forwarded, or there is none.
HandleEmm ==
    /\ Goes("emm", "loop") \/ Goes("last_emm", "top")
    /\ UNCHANGED <<dvb_running, tuned, g_pending_zap, ecm>>

Thread == \/ Top \/ Tune \/ Scan \/ SetupEmm \/ ApplyPendingZap
          \/ ReadEcm \/ ReadNothing \/ SignalLost
          \/ Process \/ Inject \/ HandleEmm

-----------------------------------------------------------------------------
(* Called from other threads. *)

\* Mutant: the thread that asks selects the service.
ZapAtOnce(sid) ==
    /\ g_service_id' = IF sid \in Scrambled(g_channels) THEN sid ELSE g_service_id
    /\ UNCHANGED <<dvb_running, dvb_pc, g_channels, g_emm_pid, g_pending_zap, ecm>>

\* cccam_dvb_zap.  Whether there is a card, a lock or such a service is not
\* asked; a later request replaces the one before.
Zap(sid) ==
    /\ g_pending_zap' = sid
    /\ UNCHANGED <<dvb_running, dvb_pc, tuned, ecm>>

\* cccam_dvb_cleanup
Stop == /\ dvb_running' = FALSE
        /\ UNCHANGED <<dvb_pc, tuned, g_pending_zap, ecm>>

Join == dvb_pc = "ended" /\ UNCHANGED vars
=============================================================================
