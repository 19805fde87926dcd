------------------------------- MODULE EmuEcm -------------------------------
(***************************************************************************)
(* The conditional access systems of the emulator, each as the keys it     *)
(* asks for, in order, and as what it makes of them: the control word, or  *)
(* the code of a failure.  The ciphers are abstract: an ECM carries under, *)
(* the values of the keys it was encrypted under, and a hash, a signature  *)
(* or a checksum is right when the keys in hand are those.                 *)
(*                                                                         *)
(* A step of a plan is a sequence of alternatives, of which the first that *)
(* finds a key counts, and the code the ECM ends with if none does, or     *)
(* "go on" if it goes on without.  A step after one that found nothing is  *)
(* skipped if it says so.                                                  *)
(***************************************************************************)
EXTENDS EmuKeys, TLC

Ask(type, prov, index, sizes) ==
    [by |-> "index", type |-> type, prov |-> prov, index |-> index, name |-> NoName,
     sizes |-> sizes]
AskMasked(low, index) ==
    [by |-> "masked", type |-> "P", prov |-> low, index |-> index, name |-> NoName,
     sizes |-> {7}]
AskName(name) ==
    [by |-> "name", type |-> "P", prov |-> <<>>, index |-> 0, name |-> name,
     sizes |-> {7}]

Must(asks) == [asks |-> asks, otherwise |-> "notfound", chained |-> FALSE]
OrElse(asks, code) == [asks |-> asks, otherwise |-> code, chained |-> FALSE]
May(asks) == [asks |-> asks, otherwise |-> "go on", chained |-> FALSE]
Chained(asks) == [asks |-> asks, otherwise |-> "go on", chained |-> TRUE]

\* The index strtoul makes of "%c%X": a letter that is no digit ends it.
HexLetter == [C |-> 12, D |-> 13, E |-> 14]
NameIndex(c, n) ==
    IF c = "0" THEN n % 256
    ELSE IF c \notin DOMAIN HexLetter THEN 0
    ELSE (HexLetter[c] * (IF n < 16 THEN 16 ELSE 256) + n) % 256

-----------------------------------------------------------------------------
\* BISS: four ways to write a service id as a provider.

BissProviders(sid) == << <<38, 0>> \o sid, sid \o <<0, 1>>, <<0, 0>> \o sid,
                         <<161, 31, 238, 213>> >>
BissPlan(e) ==
    <<Must([i \in 1..4 |-> Ask("F", BissProviders(e.sid)[i], 0, {8, 16})])>>

-----------------------------------------------------------------------------
\* Viaccess.  An ECM is its nanos, those inside an 0x80 or 0xDD among them.

TntSat == <<0, 208, 0, 64>>
Csat == <<0, 3, 11, 0>>
ViaKey(ident, c, n, size) ==
    LET of(prov) == [i \in 1..3 |-> Ask(<<"F", "I", "T">>[i], prov,
                                         NameIndex(c, n), {size})]
    IN  IF ident = TntSat THEN of(TntSat) \o of(Csat) ELSE of(ident)

\* What the dispatcher has read when it comes to a nano of the ECM.
ViaStart == [ident |-> <<0, 0, 0, 0>>, version |-> 0, des |-> 0, len |-> 0,
             aes |-> 255, mode |-> 0, select |-> "none", engine |-> "none"]
ViaEngine(s) ==
    CASE s.version < 2 -> "via1"
      [] s.version = 2 -> "via26"
      [] s.version = 3 /\ (s.ident # Csat \/ s.len <= 3
                           \/ s.select \in {"plain", "mix"}) -> "via3"
      [] OTHER -> "none"
ViaNano(s, n) ==
    IF s.engine # "none" THEN s
    ELSE CASE n.cmd = "40" /\ n.len = 3 ->
                [s EXCEPT !.version = n.b[1], !.len = n.len, !.des = n.b[3] % 16,
                          !.ident = <<0, n.b[1], n.b[2], n.b[3] - (n.b[3] % 16)>>,
                          !.select = n.select]
           [] n.cmd = "40" /\ n.len > 3 ->
                [s EXCEPT !.version = n.b[1], !.len = n.len, !.des = n.b[4],
                          !.ident = <<0, n.b[1], n.b[2], n.b[3] \div 16>>,
                          !.select = n.select]
           [] n.cmd = "90" /\ n.len >= 3 ->
                [s EXCEPT !.version = n.b[1], !.len = n.len,
                          !.des = IF n.b[1] = 3 /\ n.len > 3
                                    THEN n.b[n.len - 3] % 16 ELSE n.b[3] % 16,
                          !.ident = <<0, n.b[1], n.b[2], n.b[3] - (n.b[3] % 16)>>,
                          !.select = n.select]
           [] n.cmd = "D2" /\ n.len >= 2 ->
                [s EXCEPT !.mode = n.b[1], !.aes = n.b[2]]
           [] n.cmd = "EA" /\ n.len >= 16 -> [s EXCEPT !.engine = ViaEngine(s)]
           [] OTHER -> s
ViaRead(e) ==
    LET walk[i \in 0..Len(e.nanos)] ==
            IF i = 0 THEN ViaStart ELSE ViaNano(walk[i - 1], e.nanos[i])
    IN  walk[Len(e.nanos)]

\* via26_process_dw and via3_process_dw, called for each half of the control
\* word, return 2 at the first key they lack; no caller looks at it.
Via26Keys(s) == <<May(ViaKey(s.ident, "T", 1, 300)),
                  Chained(ViaKey(s.ident, "P", 1, 8)),
                  Chained(ViaKey(s.ident, "D", 1, 16)),
                  Chained(ViaKey(s.ident, "0", s.des, 16)),
                  Chained(ViaKey(s.ident, "X", 1, 8))>>
Via3Keys(s) == <<May(ViaKey(s.ident, "T", 1, 300)),
                 Chained(ViaKey(s.ident, "P", 1, 8)),
                 Chained(ViaKey(s.ident, "0", s.des, 16)),
                 Chained(ViaKey(s.ident, "X", 1, 8))>>
ViaPlan(e) ==
    LET s == ViaRead(e)
        c1 == Must(ViaKey(s.ident, "C", 1, 8))
        aes == IF s.aes = 255 THEN <<>> ELSE <<Must(ViaKey(s.ident, "E", s.aes, 16))>>
    IN  IF s.engine = "none" \/ s.ident = <<0, 0, 0, 0>> THEN <<>>
        ELSE CASE s.engine = "via1" -> <<Must(ViaKey(s.ident, "0", s.des, 8))>>
               [] s.engine = "via26" -> <<c1>> \o Via26Keys(s) \o Via26Keys(s)
               [] s.engine = "via3" -> <<c1>> \o aes \o Via3Keys(s) \o Via3Keys(s)
\* The signature at the end of an ECM of version 1, and the checksums of a
\* control word of version 3, which only C+ has.
Via1Signed(e, got) == got = e.under
Via3Valid(e, got) == got = e.under
ViaResult(e, got) ==
    LET s == ViaRead(e)
        cmds == {e.nanos[i].cmd : i \in 1..Len(e.nanos)}
    IN  IF s.engine = "none" THEN "unsupported"
        ELSE IF s.ident = <<0, 0, 0, 0>> THEN "corrupt"
        ELSE IF s.engine = "via1" /\ ~({"EA", "F0"} \subseteq cmds) THEN "unsupported"
        ELSE IF \/ s.engine = "via1" /\ ~Via1Signed(e, got)
                \/ s.engine = "via3" /\ s.ident = Csat /\ ~Via3Valid(e, got)
          THEN "checksum"
        ELSE "ok"

-----------------------------------------------------------------------------
\* Irdeto.  The room a nano is checked against is computed without a sign:
\* what is too short for it passes.

IrdKey(ident, c, n) == <<Ask("I", ident, NameIndex(c, n), {16})>>
Room(n, length) == n.at <= length - n.l \/ length - n.l < 0

IrdetoPlan(e) ==
    IF e.ecmLen \notin 12..512 \/ e.ecmLen < e.length + 12 THEN <<>>
    ELSE <<Must(IrdKey(e.ident, "0", e.keyNr)), Must(IrdKey(e.ident, "M", 1)),
           Must(IrdKey(e.ident, "M", 2))>>
\* ird_calculate_hash.
IrdHashRight(e, got) == got = e.under
IrdetoResult(e, got) ==
    IF /\ IrdetoPlan(e) # <<>>
       /\ IrdHashRight(e, got)
       /\ \E i \in 1..Len(e.nanos) :
             LET n == e.nanos[i] IN n.cmd = "78" /\ n.l = 20 /\ Room(n, e.length - 8)
      THEN "ok" ELSE "unsupported"

\* The two kinds of EMM: new operational keys, or new management keys, under
\* one of several management keys.
IrdPmks(e) == IF e.kind = "op" THEN <<3, 4, 5, 6>> ELSE <<11>>
IrdetoEmmPlan(e) ==
    IF e.emmLen \notin 11..1024 \/ e.emmLen < e.length + e.start THEN <<>>
    ELSE <<Must(IrdKey(e.ident, "M", IF e.kind = "op" THEN 0 ELSE 10)),
           Must(IrdKey(e.ident, "M", 2))>>
         \o [i \in 1..Len(IrdPmks(e)) |-> May(IrdKey(e.ident, "M", IrdPmks(e)[i]))]

\* Whether the latest lookup, of management key p, opened the EMM.
IrdetoEmmOpens(e, got) ==
    /\ Len(got) > 2
    /\ got[Len(got)] # Missing
    /\ IrdHashRight(e, <<got[1], got[2], got[Len(got)]>>)
    /\ e.kind = "op" => e.fausto = (IrdPmks(e)[Len(got) - 2] >= 5)

\* What it then adds: the keys of its nanos.
IrdetoEmmKeys(e) ==
    LET of(n) ==
          CASE e.kind = "op" /\ n.cmd = "50" /\ n.l = 19 /\ Room(n, e.start + e.length - 9) ->
                 <<[token |-> Two(n.nr), val |-> n.val]>>
            [] e.kind = "pmk" /\ n.cmd = "68" /\ n.l = 38 /\ Room(n, e.start + e.length - 10) ->
                 <<[token |-> Letter("M", 3), val |-> n.val],
                   [token |-> Letter("M", 4), val |-> n.val2]>>
            [] OTHER -> <<>>
        all[i \in 0..Len(e.nanos)] ==
            IF i = 0 THEN <<>>
            ELSE all[i - 1] \o [j \in 1..Len(of(e.nanos[i])) |->
                                  [type |-> "I", prov |-> e.ident, len |-> 16]
                                  @@ of(e.nanos[i])[j]]
    IN  all[Len(e.nanos)]

-----------------------------------------------------------------------------
\* Nagra.  No signature is checked without a verification key; what is
\* decrypted under other keys is the ECM's garbage.

NagraIdent(e) == IF e.ident \in {1283, 1285, 1297} THEN 1281 ELSE e.ident
NagraKey(e, c, n, size) ==
    <<Ask("N", <<0, 0, NagraIdent(e) \div 256, NagraIdent(e) % 256>>,
          NameIndex(c, n), {size})>>
NagraPlan(e) ==
    IF e.cmdLen <= 63 \/ e.ecmLen < e.cmdLen + 10 THEN <<>>
    ELSE <<Must(NagraKey(e, "0", e.keyNr, 16)), May(NagraKey(e, "V", 0, 16)),
           Must(NagraKey(e, "M", 1, 64))>>
\* The halves of the control word among the nanos; reading stops at both.
NagraHalves(nanos) ==
    LET walk[i \in 0..Len(nanos)] ==
            IF i = 0 THEN [halves |-> {}, algo |-> FALSE]
            ELSE IF walk[i - 1].halves = {0, 1} \/ nanos[i].cmd \notin {"10", "11"}
                   THEN walk[i - 1]
            ELSE [halves |-> walk[i - 1].halves
                                \cup {IF nanos[i].cmd = "10" THEN 1 ELSE 0},
                  algo |-> nanos[i].algo]
    IN  walk[Len(nanos)]
\* The keys in hand are the right ones; only a verification key would tell.
NagraDecrypts(e, got) == got = e.under
NagraResult(e, got) ==
    LET right == NagraDecrypts(e, got)
        read == NagraHalves(IF right THEN e.nanos ELSE e.garbage)
    IN  IF /\ NagraPlan(e) # <<>>
           /\ right \/ got[2] = Missing
           /\ read.halves = {0, 1}
           /\ ~read.algo
          THEN "ok" ELSE "unsupported"

-----------------------------------------------------------------------------
\* Cryptoworks.  A nano 0x80 holds a whole ECM, with nanos of its own; it can
\* be read if the keys of the levels around it were right.

CwIdent(caid, provider) == <<0, 13, caid, provider>>
CwKey(ident, index, size) ==
    LET even == ident[3] = 2 /\ ident[4] \div 16 = 10
        index2 == IF even THEN index - (index % 2) ELSE index
        c0 == ident[3] = 0 /\ ident[4] \div 16 = 12
    IN  <<Ask("W", IF c0 THEN CwIdent(0, 192)
                   ELSE IF index2 = 6 /\ ident[3] = 5 THEN CwIdent(5, 4) ELSE ident,
              index2, {size})>>

CwDefault == [c \in {0, 2, 3, 5} |-> CASE c = 0 -> 192 [] c = 2 -> 160 [] OTHER -> 4]
\* The last nano 0x83 of a level names provider and key.
CwNamed(level) == {i \in 1..Len(level) : level[i].cmd = "83"}
CwHasProvider(e, level) == CwNamed(level) # {} \/ e.caid \in DOMAIN CwDefault
CwProvider(e, level) ==
    IF CwNamed(level) = {} THEN CwDefault[e.caid]
    ELSE LET v == level[CHOOSE i \in CwNamed(level) : \A j \in CwNamed(level) : j <= i].val
         IN  v - (v % 4)
CwKeyIndex(level) ==
    IF CwNamed(level) = {} THEN 0
    ELSE IF level[CHOOSE i \in CwNamed(level) : \A j \in CwNamed(level) : j <= i].val % 4 = 0
           THEN 0 ELSE 1

CwOpens(e, level) ==
    /\ \E i \in 1..Len(level) : level[i].cmd = "80"
    /\ CwProvider(e, level) \in {160, 192, 196, 200}
CwSystemKey(e, level) == e.caid = 0 /\ CwProvider(e, level) # 160
CwLevelPlan(e, level) ==
    IF ~CwHasProvider(e, level) THEN <<>>
    ELSE LET ident == CwIdent(e.caid, CwProvider(e, level))
         IN  <<Must(CwKey(ident, CwKeyIndex(level), 16)), Must(CwKey(ident, 6, 6))>>
             \o (IF CwOpens(e, level) /\ CwSystemKey(e, level)
                   THEN <<OrElse(CwKey(CwIdent(0, 192), 0, 16), "unsupported")>>
                   ELSE <<>>)
\* The plan as far as each level, and whether the keys found for it are right.
CwPlans(e) ==
    LET plan[i \in 1..Len(e.levels)] ==
            IF i = 1 THEN CwLevelPlan(e, e.levels[1])
            ELSE plan[i - 1] \o CwLevelPlan(e, e.levels[i])
    IN  plan
CwRight(e, got, i) ==
    LET plan == CwPlans(e)[i]
    IN  Len(plan) <= Len(got) /\ \A k \in 1..Len(plan) : got[k] = e.under[k]

\* The level reached with what has been found, and the plan so far.
CwOpen(e, got) ==
    {i \in 1..Len(e.levels) :
        \A j \in 1..(i - 1) : CwOpens(e, e.levels[j]) /\ CwRight(e, got, j)}
CwLast(e, got) ==
    CHOOSE i \in CwOpen(e, got) : \A j \in CwOpen(e, got) : j <= i
CwReach(e, got) ==
    LET last == CwLast(e, got)
    IN  [level |-> e.levels[last], plan |-> CwPlans(e)[last],
         right |-> CwRight(e, got, last)]
\* The signature of the level reached.
CwSigned(reach) == reach.right
CwPlan(e, got) == CwReach(e, got).plan
CwResult(e, got) ==
    LET r == CwReach(e, got)
        has(c) == \E i \in 1..Len(r.level) : r.level[i].cmd = c
    IN  IF ~CwHasProvider(e, r.level) \/ CwOpens(e, r.level) THEN "unsupported"
        ELSE IF ~CwSigned(r) /\ has("DF") THEN "checksum"
        ELSE IF has("DB") THEN "ok" ELSE "unsupported"

-----------------------------------------------------------------------------
\* PowerVU.  The key is looked up again as long as the ECM does not open.

PvuIndex(e) == IF e.keyIndex = 1 THEN 1 ELSE 0
PvuPlan(e) ==
    IF ~e.crc \/ ~e.csa THEN <<>>
    ELSE <<Must(<<AskMasked(e.srvid, PvuIndex(e)), AskMasked(e.channel, PvuIndex(e))>>)>>
\* pvu_decrypt: the bytes that frame both parts of an ECM, or that repeat the
\* unique address of an EMM, come out right.
PvuDecrypts(e, got) == got = e.under
PvuResult(e, got) ==
    IF ~e.crc THEN "checksum"
    ELSE IF ~e.csa THEN "unsupported"
    ELSE IF PvuDecrypts(e, got) THEN "ok" ELSE "again"

\* An EMM names a unique address, as eight digits; its groups are tried with
\* the key of that name.
PvuEmmPlan(e) == IF e.emmLen \notin 50..1024 THEN <<>>
                 ELSE <<Must(<<AskName(Eight(e.ua).text)>>)>>
PvuEmmOpens(e, got) == \E i \in 1..Len(e.groups) : e.groups[i].used /\ PvuDecrypts(e, got)
PvuEmmKeys(e, prov) ==
    LET kept(g) == g.used /\ g.kind <= 1 /\ ~g.zero
        all[i \in 0..Len(e.groups)] ==
            IF i = 0 THEN <<>>
            ELSE IF ~kept(e.groups[i]) THEN all[i - 1]
            ELSE Append(all[i - 1],
                        [type |-> "P", prov |-> <<prov[3], prov[4], 0, 0>>, len |-> 7,
                         token |-> Two(e.groups[i].kind), val |-> e.groups[i].val])
    IN  all[Len(e.groups)]

-----------------------------------------------------------------------------
\* The dispatchers by caid, for ECMs and for EMMs.

Plan(e, got) ==
    CASE e.sys = "viaccess"    -> ViaPlan(e)
      [] e.sys = "biss"        -> BissPlan(e)
      [] e.sys = "cryptoworks" -> CwPlan(e, got)
      [] e.sys = "powervu"     -> PvuPlan(e)
      [] e.sys = "nagra"       -> NagraPlan(e)
      [] e.sys = "irdeto"      -> IrdetoPlan(e)
      [] e.sys = "irdeto emm"  -> IrdetoEmmPlan(e)
      [] e.sys = "powervu emm" -> PvuEmmPlan(e)
      [] OTHER                 -> <<>>
Result(e, got) ==
    CASE e.sys = "viaccess"    -> ViaResult(e, got)
      [] e.sys = "biss"        -> "ok"
      [] e.sys = "cryptoworks" -> CwResult(e, got)
      [] e.sys = "powervu"     -> PvuResult(e, got)
      [] e.sys = "nagra"       -> NagraResult(e, got)
      [] e.sys = "irdeto"      -> IrdetoResult(e, got)
      [] e.sys = "irdeto emm"  -> "unsupported"
      [] e.sys = "powervu emm" ->
            IF PvuEmmPlan(e) = <<>> THEN "unsupported"
            ELSE IF PvuEmmOpens(e, got) THEN "ok" ELSE "again"
      [] OTHER                 -> "unsupported"
=============================================================================
