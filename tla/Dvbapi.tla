------------------------------- MODULE Dvbapi -------------------------------
(***************************************************************************)
(* The DVBAPI server of hardware/cccam3_dvbapi.c: a thread that accepts    *)
(* decoders on a local socket, a detached thread for each, and the end of  *)
(* them all.  What happens under g_lock is one step.                       *)
(*                                                                         *)
(* The messages of a decoder matter by what they leave of its demux: no    *)
(* channel, a channel whose CA_PMT has no system to ask for, or one with   *)
(* filters.  Nobody looks at the result of a write; a decoder that does    *)
(* not read holds up its thread as one that does not write, until its      *)
(* socket is shut down.                                                    *)
(***************************************************************************)
EXTENDS Integers

CONSTANTS MaxDecoders      \* entries of g_clients

VARIABLES dvbapi_running,    \* g_running of this file
          dvbapi_pc,         \* the thread that accepts
          decoder,           \* slot -> its entry of g_clients and its thread
          g_active_clients,
          dvbapi_waiting     \* cleanup waits for the condition

vars == <<dvbapi_running, dvbapi_pc, decoder, g_active_clients, dvbapi_waiting>>

Slot == 1..MaxDecoders

\* An entry that is not alive; its thread is over.  An orphan's thread was
\* never started.
Free == [alive |-> FALSE, fd |-> "closed", demux |-> "none", pc |-> "none"]
Orphan(s) == decoder[s].pc = "orphan"

TypeOK ==
    /\ dvbapi_running \in BOOLEAN
    /\ dvbapi_pc \in {"bind", "test", "select", "slot", "ended"}
    /\ decoder \in [Slot -> [alive : BOOLEAN, fd : {"open", "shut", "closed"},
                             demux : {"none", "nocas", "filtered"},
                             pc : {"none", "orphan", "test", "read", "busy", "leave"}]]
    /\ g_active_clients \in 0..MaxDecoders
    /\ dvbapi_waiting \in BOOLEAN

\* cccam_dvbapi_init, if the configuration has the server.
Init(on) ==
    /\ dvbapi_running = on
    /\ dvbapi_pc = IF on THEN "bind" ELSE "ended"
    /\ decoder = [s \in Slot |-> Free]
    /\ g_active_clients = 0
    /\ dvbapi_waiting = FALSE

AcceptorGoes(from, to) == dvbapi_pc = from /\ dvbapi_pc' = to
Goes(s, from, to) == /\ decoder[s].pc = from
                     /\ decoder' = [decoder EXCEPT ![s].pc = to]

-----------------------------------------------------------------------------
(* dvbapi_thread_func *)

Bind == /\ \/ AcceptorGoes("bind", "test") \/ AcceptorGoes("bind", "ended")
        /\ UNCHANGED <<dvbapi_running, decoder, g_active_clients, dvbapi_waiting>>

AcceptorTest ==
    /\ AcceptorGoes("test", IF dvbapi_running THEN "select" ELSE "ended")
    /\ UNCHANGED <<dvbapi_running, decoder, g_active_clients, dvbapi_waiting>>

\* A decoder connects, or the second is over.
AcceptorSelect ==
    /\ AcceptorGoes("select", "slot") \/ AcceptorGoes("select", "test")
    /\ UNCHANGED <<dvbapi_running, decoder, g_active_clients, dvbapi_waiting>>

FirstFree == CHOOSE s \in Slot : /\ ~decoder[s].alive
                                 /\ \A q \in 1..(s - 1) : decoder[q].alive

\* The entry is taken whether or not pthread_create succeeds.
TakeSlot ==
    /\ AcceptorGoes("slot", "test")
    /\ \E s \in Slot : ~decoder[s].alive
    /\ \E pc \in {"test", "orphan"} :
          decoder' = [decoder EXCEPT ![FirstFree] =
              [alive |-> TRUE, fd |-> "open", demux |-> "none", pc |-> pc]]
    /\ g_active_clients' = g_active_clients + 1
    /\ UNCHANGED <<dvbapi_running, dvbapi_waiting>>

NoSlot ==
    /\ AcceptorGoes("slot", "test")
    /\ \A s \in Slot : decoder[s].alive
    /\ UNCHANGED <<dvbapi_running, decoder, g_active_clients, dvbapi_waiting>>

Acceptor == Bind \/ AcceptorTest \/ AcceptorSelect \/ TakeSlot \/ NoSlot

-----------------------------------------------------------------------------
(* dvbapi_client_thread *)

server == <<dvbapi_running, dvbapi_pc, g_active_clients, dvbapi_waiting>>

DecoderTest(s) ==
    /\ Goes(s, "test", IF dvbapi_running THEN "read" ELSE "leave")
    /\ UNCHANGED server

\* CA_PMT: dvbapi_parse_capmt takes the channel over before it finds that no
\* system is listed; one that is too short leaves the last channel.
CaPmt(s, demux) ==
    /\ decoder[s].pc = "read" /\ decoder[s].fd = "open"
    /\ decoder' = [decoder EXCEPT ![s].pc = "test", ![s].demux = demux]
    /\ UNCHANGED server

CaStop(s) == CaPmt(s, "none")

\* CLIENT_INFO, an ill-formed CA_PMT, the CAT and what belongs to no filter:
\* nothing that is kept changes.
OtherMessage(s) ==
    /\ decoder[s].fd = "open"
    /\ Goes(s, "read", "test")
    /\ UNCHANGED server

\* A section of a filter: an ECM, or an EMM to be forwarded.
Section(s) ==
    /\ decoder[s].fd = "open"
    /\ decoder[s].demux = "filtered"
    /\ Goes(s, "read", "busy")
    /\ UNCHANGED server

\* The thread is in cccam_ecm_process or cccam_ecm_forward_emm, which need not
\* return: the emulator decrypts a section of PowerVU with a key that does not
\* fit over and over.
Asking(s) == decoder[s].pc = "busy"

\* They do return; a control word is sent.
Processed(s) == Goes(s, "busy", "test") /\ UNCHANGED server

\* The decoder goes, its socket is shut down, or its message is not known:
\* one that is longer than 127 bytes puts the two out of step.
Lost(s) == Goes(s, "read", "leave") /\ UNCHANGED server

\* Mutant: the condition is not signalled.
LeaveQuietly(s) ==
    /\ decoder[s].pc = "leave"
    /\ decoder' = [decoder EXCEPT ![s] = Free]
    /\ g_active_clients' = g_active_clients - 1
    /\ UNCHANGED <<dvbapi_running, dvbapi_pc, dvbapi_waiting>>

\* Mutant: a thread that ends does not give back the count.
LeaveCounted(s) ==
    /\ decoder[s].pc = "leave"
    /\ decoder' = [decoder EXCEPT ![s] = Free]
    /\ dvbapi_waiting' = FALSE
    /\ UNCHANGED <<dvbapi_running, dvbapi_pc, g_active_clients>>

\* The thread closes its socket, frees the entry and signals the condition.
Leave(s) ==
    /\ decoder[s].pc = "leave"
    /\ decoder' = [decoder EXCEPT ![s] = Free]
    /\ g_active_clients' = g_active_clients - 1
    /\ dvbapi_waiting' = FALSE
    /\ UNCHANGED <<dvbapi_running, dvbapi_pc>>

\* What the decoder does, and what its thread does whatever the decoder does.
DecoderSends(s) == \/ \E d \in {"filtered", "nocas"} : CaPmt(s, d)
                   \/ CaStop(s) \/ OtherMessage(s) \/ Section(s)
                   \/ decoder[s].fd = "open" /\ Lost(s)
DecoderRuns(s) == \/ DecoderTest(s) \/ Processed(s) \/ Leave(s)
                  \/ decoder[s].fd = "shut" /\ Lost(s)

-----------------------------------------------------------------------------
(* cccam_dvbapi_cleanup, the steps of the main thread. *)

Stop == /\ dvbapi_running' = FALSE
        /\ UNCHANGED <<dvbapi_pc, decoder, g_active_clients, dvbapi_waiting>>

\* shutdown of every socket in use.
Wake == /\ decoder' = [s \in Slot |-> IF decoder[s].alive
                                      THEN [decoder[s] EXCEPT !.fd = "shut"]
                                      ELSE decoder[s]]
        /\ UNCHANGED server

Join == dvbapi_pc = "ended" /\ UNCHANGED vars

Wait == /\ ~dvbapi_waiting
        /\ g_active_clients > 0
        /\ dvbapi_waiting' = TRUE
        /\ UNCHANGED <<dvbapi_running, dvbapi_pc, decoder, g_active_clients>>

AllLeft == ~dvbapi_waiting /\ g_active_clients = 0 /\ UNCHANGED vars

-----------------------------------------------------------------------------
\* Some thread of this server may be using the rest of the program.
Busy == \/ dvbapi_pc # "ended"
        \/ \E s \in Slot : decoder[s].pc \in {"test", "read", "busy"}

\* The entries in use.
Alive == {s \in Slot : decoder[s].alive}

\* dvbapi.c:472-484, 549-567: an entry in use has a thread, unless it could
\* not be started, and an open socket that its thread alone closes.
EntriesWhole == \A s \in Slot : /\ decoder[s].alive <=> decoder[s].pc # "none"
                                /\ decoder[s].alive <=> decoder[s].fd # "closed"
=============================================================================
