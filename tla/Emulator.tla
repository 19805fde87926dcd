------------------------------ MODULE Emulator ------------------------------
(***************************************************************************)
(* The softcam emulator at work: threads that resolve ECMs and take keys   *)
(* from EMMs, and reloads of SoftCam.Key by SIGHUP or by the REST API,     *)
(* which nothing keeps from overlapping.  Every hold of g_emu_mutex is a   *)
(* step; the limit of keys is looked at before the mutex is taken.  The    *)
(* count of keys is written together with the list only and is its length. *)
(***************************************************************************)
EXTENDS EmuEcm

CONSTANTS Worker,      \* threads that bring ECMs and EMMs
          Reloader,    \* threads that reload the keys
          Main,        \* the main thread, which also loads them at the start
          Jobs,        \* the ECMs and EMMs
          Files,       \* what SoftCam.Key may be at the start
          MaxLines,    \* bound on the length of the file
          MaxReloads   \* bound on the number of loads

ASSUME EmulatorAssumption ==
    /\ MaxLines \in Nat
    /\ MaxReloads \in Nat
    /\ Main \in Reloader
    /\ Worker # {} /\ Worker \cap Reloader = {}
    /\ IsFiniteSet(Worker) /\ IsFiniteSet(Reloader)
    /\ \A f \in Files : IsList(f)

Proc == Worker \cup Reloader

VARIABLES keys,      \* g_emu_keys, the latest first
          file,      \* the lines of the key file
          proc,      \* what each thread does
          reloads,   \* number of loads begun
          quiet      \* the reloads nobody has interfered with (for properties)

vars == <<keys, file, proc, reloads, quiet>>

\* pc, the job, the keys found for it, the alternative looked up next, the
\* keys to be added, those of the file's line number n; the list taken away.
Idle == [pc |-> "idle", job |-> Missing, got |-> <<>>, alt |-> 1, adds |-> <<>>,
         n |-> 1, old |-> <<>>, result |-> "none"]

Init ==
    /\ file \in Files
    /\ keys = <<>>
    /\ proc = [p \in Proc |-> Idle]
    /\ reloads = 0
    /\ quiet = {}

Set(p, r) == proc' = [proc EXCEPT ![p] = r]

\* The server listens, and takes signals, once the first load is over.
Running == reloads > 1 \/ (reloads = 1 /\ proc[Main].pc = "idle")

-----------------------------------------------------------------------------
\* ECMs and EMMs.

Vals(got) == [i \in 1..Len(got) |-> IF got[i] = Missing THEN Missing ELSE got[i].val]

Begin(w) ==
    /\ Running
    /\ proc[w].pc = "idle"
    /\ \E j \in Jobs : Set(w, [Idle EXCEPT !.pc = "lookup", !.job = j])
    /\ UNCHANGED <<keys, file, reloads, quiet>>

\* Of a plan, the step a job stands at; the first step of its chain; whether
\* it is left out, as one that follows a step without a key in a chain.
Here(w) == Len(proc[w].got) + 1
ChainStart(plan, i) == CHOOSE j \in 1..i : /\ ~plan[j].chained
                                           /\ \A k \in (j + 1)..i : plan[k].chained
LeftOut(w, plan) ==
    /\ plan[Here(w)].chained
    /\ \E j \in ChainStart(plan, Here(w))..(Here(w) - 1) : proc[w].got[j] = Missing

\* After a lookup: the keys of an EMM that it has opened are next.
Arrived(r) ==
    LET opens == \/ r.job.sys = "irdeto emm" /\ IrdetoEmmOpens(r.job, Vals(r.got))
                 \/ r.job.sys = "powervu emm" /\ PvuEmmOpens(r.job, Vals(r.got))
        new == IF r.job.sys = "irdeto emm" THEN IrdetoEmmKeys(r.job)
                                           ELSE PvuEmmKeys(r.job, r.got[1].prov)
    IN  IF opens /\ new # <<>> THEN [r EXCEPT !.pc = "check", !.adds = new] ELSE r

\* Mutant: after the last alternative comes the first.
LookupAround(w, plan) ==
    /\ Here(w) <= Len(plan)
    /\ ~LeftOut(w, plan)
    /\ \E k \in {Find(keys, plan[Here(w)].asks[proc[w].alt])} :
       LET r == proc[w]
       IN  Set(w, IF k # Missing THEN Arrived([r EXCEPT !.got = Append(@, k), !.alt = 1])
                  ELSE [r EXCEPT !.alt = (@ % Len(plan[Here(w)].asks)) + 1])
    /\ UNCHANGED <<keys, file, reloads, quiet>>

\* One of the cccam_emu_find_key functions, called for the next alternative.
Lookup(w, plan) ==
    /\ Here(w) <= Len(plan)
    /\ ~LeftOut(w, plan)
    /\ \E k \in {Find(keys, plan[Here(w)].asks[proc[w].alt])} :
       LET r == proc[w]
           s == plan[Here(w)]
           Got(x) == Arrived([r EXCEPT !.got = Append(@, x), !.alt = 1])
       IN  IF k # Missing THEN Set(w, Got(k))
           ELSE IF r.alt < Len(s.asks) THEN Set(w, [r EXCEPT !.alt = @ + 1])
           ELSE IF s.otherwise = "go on" THEN Set(w, Got(Missing))
           ELSE Set(w, [r EXCEPT !.pc = "end", !.result = s.otherwise])
    /\ UNCHANGED <<keys, file, reloads, quiet>>

Skip(w, plan) ==
    /\ Here(w) <= Len(plan)
    /\ LeftOut(w, plan)
    /\ Set(w, [proc[w] EXCEPT !.got = Append(@, Missing)])
    /\ UNCHANGED <<keys, file, reloads, quiet>>

\* All keys are there: decrypted, or to be tried once more from the start.
Decode(w, plan) ==
    /\ Here(w) > Len(plan)
    /\ \E res \in {Result(proc[w].job, Vals(proc[w].got))} :
          Set(w, IF res = "again" THEN [proc[w] EXCEPT !.got = <<>>, !.alt = 1]
                 ELSE [proc[w] EXCEPT !.pc = "end", !.result = res])
    /\ UNCHANGED <<keys, file, reloads, quiet>>

End(w) ==
    /\ proc[w].pc = "end"
    /\ Set(w, Idle)
    /\ UNCHANGED <<keys, file, reloads, quiet>>

-----------------------------------------------------------------------------
\* emu_add_key, called by both kinds of threads for the first key of adds.

NextKey(p) ==
    LET a == Head(proc[p].adds)
    IN  IF p \in Worker THEN RuntimeKey(a.type, a.prov, a.token, a.val, a.len) ELSE a
Rest(p) == [proc[p] EXCEPT !.adds = Tail(@),
                           !.pc = IF Len(proc[p].adds) > 1 THEN "check"
                                  ELSE IF p \in Worker THEN "end" ELSE "read",
                           !.result = IF p \in Worker THEN "ok" ELSE @]
\* A worker appends the key to the file next.
After(p) == IF p \in Worker THEN [proc[p] EXCEPT !.pc = "persist"] ELSE Rest(p)

\* Mutant: one key too many.
AtLimitLate == Len(keys) > MaxKeys

AtLimit == Len(keys) >= MaxKeys
AddCheck(p) ==
    /\ proc[p].pc = "check"
    /\ Set(p, IF AtLimit THEN After(p) ELSE [proc[p] EXCEPT !.pc = "insert"])
    /\ UNCHANGED <<keys, file, reloads, quiet>>

AddInsert(p) ==
    /\ proc[p].pc = "insert"
    /\ keys' = Insert(keys, NextKey(p))
    /\ Set(p, After(p))
    /\ quiet' = quiet \cap {p}
    /\ UNCHANGED <<file, reloads>>

\* The line is appended to the file, which may fail.
Persist(w) ==
    /\ proc[w].pc = "persist"
    /\ LET a == Head(proc[w].adds)
           line == RuntimeLine(a.type, a.prov, a.token, a.val, a.len)
       IN  \/ /\ Len(file) < MaxLines
              /\ file' = Append(file, line)
              /\ quiet' = {}
           \/ UNCHANGED <<file, quiet>>
    /\ Set(w, Rest(w))
    /\ UNCHANGED <<keys, reloads>>

-----------------------------------------------------------------------------
\* cccam_emu_init and cccam_emu_reload.

EmuInit ==
    /\ reloads = 0
    /\ Set(Main, [Idle EXCEPT !.pc = "open"])
    /\ reloads' = 1
    /\ quiet' = {Main}
    /\ UNCHANGED <<keys, file>>

Take(r) ==
    /\ Running
    /\ proc[r].pc = "idle"
    /\ reloads < MaxReloads
    /\ Set(r, [Idle EXCEPT !.pc = "open", !.old = keys])
    /\ keys' = <<>>
    /\ reloads' = reloads + 1
    /\ quiet' = IF \E p \in Proc : proc[p].pc \in {"insert", "persist"}
                     \/ (p \in Reloader /\ proc[p].pc # "idle") THEN {} ELSE {r}
    /\ UNCHANGED file

\* The list taken away is only freed from here on.
OpenWorks(r) ==
    /\ proc[r].pc = "open"
    /\ Set(r, [proc[r] EXCEPT !.pc = "read", !.old = <<>>])
    /\ UNCHANGED <<keys, file, reloads, quiet>>

\* Mutant: nothing is put back.
RestoreNothing(r) ==
    /\ proc[r].pc = "open"
    /\ Set(r, Idle)
    /\ quiet' = {}
    /\ UNCHANGED <<keys, file, reloads>>

\* fopen fails: the list taken away is put back.
Restore(r) ==
    /\ proc[r].pc = "open"
    /\ keys' = proc[r].old
    /\ Set(r, Idle)
    /\ quiet' = {}
    /\ UNCHANGED <<file, reloads>>

ReadLine(r) ==
    /\ proc[r].pc = "read"
    /\ proc[r].n <= Len(file)
    /\ LET new == EmuParseLine(file[proc[r].n])
       IN  Set(r, [proc[r] EXCEPT !.n = @ + 1, !.adds = new,
                                  !.pc = IF new = <<>> THEN "read" ELSE "check"])
    /\ UNCHANGED <<keys, file, reloads, quiet>>

\* The end of the file.
Loaded(r) ==
    /\ proc[r].pc = "read"
    /\ proc[r].n > Len(file)
    /\ Set(r, Idle)
    /\ quiet' = quiet \ {r}
    /\ UNCHANGED <<keys, file, reloads>>

-----------------------------------------------------------------------------

Work(w) ==
    /\ proc[w].pc = "lookup"
    /\ \E plan \in {Plan(proc[w].job, Vals(proc[w].got))} :
          Lookup(w, plan) \/ Skip(w, plan) \/ Decode(w, plan)

\* The file is written anew by the REST API or by hand.
Edit ==
    /\ Running
    /\ reloads < MaxReloads
    /\ file' \in Files \ {file}
    /\ quiet' = {}
    /\ UNCHANGED <<keys, proc, reloads>>

WorkerStep(w) == Work(w) \/ End(w) \/ Persist(w)
ReloaderStep(r) == OpenWorks(r) \/ Restore(r) \/ ReadLine(r) \/ Loaded(r)
Adding(p) == AddCheck(p) \/ AddInsert(p)

Next ==
    \/ EmuInit
    \/ \E w \in Worker : Begin(w) \/ WorkerStep(w)
    \/ \E r \in Reloader : Take(r) \/ ReloaderStep(r)
    \/ \E p \in Proc : Adding(p)
    \/ Edit

\* Every thread goes on; a job or a reload need never begin.
Spec == /\ Init /\ [][Next]_vars
        /\ \A w \in Worker : WF_vars(WorkerStep(w) \/ Adding(w))
        /\ \A r \in Reloader : WF_vars(ReloaderStep(r) \/ Adding(r))

-----------------------------------------------------------------------------

\* How far the list may outgrow CCCAM_EMU_MAX_KEYS: the limit is looked at
\* without the mutex, so each of the other threads may add one key beyond it,
\* and as many again after every list that a failed reload puts back
\* (cccam3_emu.c:84, 320).  The first load has the list to itself.
Overrun == reloads * (Cardinality(Proc) - 1) - 1
KeysBounded == Len(keys) <= MaxKeys + Overrun

\* A key has one entry: whatever threads add at once, a lookup by index and
\* an update by index or name mean the same entry (cccam3_emu.c:90).
OneEntryPerKey ==
    \A i, j \in 1..Len(keys) : i # j => ~SameKey(keys[i], keys[j])

\* A reload that nobody interferes with ends with what the file says, the
\* last line of each key, or if the file cannot be opened with the keys there
\* were (cccam3_emu.c:290).  At the limit the list is full: then it may lack
\* a key, and a later line of a key it has is not taken either.  Where keys go
\* both by a name and by an index, one key may be the same as two that differ.
LoadGivesFile(r) ==
    r \in quiet /\ proc[r].pc = "read" /\ proc'[r].pc = "idle"
    /\ Unmixed(Additions(file))
       => LET says == LastWord(Additions(file))
          IN  IF Cardinality(says) < MaxKeys
                THEN {keys'[i] : i \in 1..Len(keys')} = says
                ELSE Len(keys') = MaxKeys
FailureGivesBack(r) ==
    proc[r].pc = "open" /\ proc'[r].pc = "idle" => keys' = proc[r].old
ReloadIsFile ==
    [][\A r \in Reloader : LoadGivesFile(r) /\ FailureGivesBack(r)]_vars

\* Everything a job has asked for is found and does not fit.  PowerVU asks
\* again, for an ECM or an EMM, until it does (cccam3_emu_powervu.c:2024-2055,
\* 2309-2374), though no EMM finds a key: its eight digits are no key's name.
DoesNotFit(w) ==
    /\ proc[w].pc = "lookup"
    /\ \E plan \in {Plan(proc[w].job, Vals(proc[w].got))} :
          Here(w) > Len(plan) /\ Result(proc[w].job, Vals(proc[w].got)) = "again"

\* A job ends, and so does a reload, whatever the others do: unless its keys
\* are found and do not fit, time after time.
JobsEnd ==
    /\ \A w \in Worker : proc[w].pc # "idle" ~> proc[w].pc = "idle" \/ DoesNotFit(w)
    /\ \A r \in Reloader : proc[r].pc # "idle" ~> proc[r].pc = "idle"
=============================================================================
