------------------------------ MODULE EmuKeys ------------------------------
(***************************************************************************)
(* The keys of the softcam emulator (CCshare/cccam3_emu.c) as values: what *)
(* a line of SoftCam.Key becomes, how a key finds its place in the list    *)
(* and which key a lookup returns.  Emulator has the threads that use it.  *)
(*                                                                         *)
(* A provider is its four bytes, the highest first; a token of a line is   *)
(* a record of what the parser asks of it: its text, whether all of it is  *)
(* hexadecimal, its number of characters, and the value strtoul gives it.  *)
(***************************************************************************)
EXTENDS Integers, Sequences, FiniteSets

CONSTANTS Today,      \* emu_current_date, YYYYMMDD read as a decimal number
          MaxKeys,    \* CCCAM_EMU_MAX_KEYS
          Missing     \* what a lookup that finds no key returns

ASSUME EmuKeysAssumption ==
    /\ Today \in Nat
    /\ MaxKeys \in Nat \ {0}

NoName == << >>

IsList(s) == s \in Seq({s[i] : i \in 1..Len(s)})

\* What strtoul(.., 16) makes of a text whose decimal digits are those of n.
DigitOf(n, i) == (n \div (10 ^ i)) % 10
HexReading(n) ==
    LET sum[i \in 0..8] == IF i = 0 THEN 0
                           ELSE sum[i - 1] + DigitOf(n, i - 1) * (16 ^ (i - 1))
    IN  sum[8]

\* Tokens.  Two digits, as every index is written; a number of hexadecimal
\* digits; a date YYYYMMDD, which an eight digit unique address looks like.
Two(n) == [text |-> <<"two", n>>, digits |-> 2, hex |-> TRUE, value |-> n]
Name(s, n) == [text |-> <<"name", s>>, digits |-> n, hex |-> TRUE, value |-> 0]
Eight(n) == [text |-> <<"eight", n>>, digits |-> 8, hex |-> TRUE,
             value |-> HexReading(n)]
\* The name of a management key, "M" and a digit: strtoul reads no digit.
Letter(c, n) == [text |-> <<c, n>>, digits |-> 2, hex |-> FALSE, value |-> 0]

-----------------------------------------------------------------------------

Types == {"F", "I", "T", "W", "P"}

NewKey(type, prov, index, val, len, date, name) ==
    [type |-> type, prov |-> prov, index |-> index, name |-> name,
     date |-> date, val |-> val, len |-> len % 256]    \* (uint8_t)data_len

\* The keys that one line adds, in order.  A provider of six digits has
\* three bytes.  An eight digit second token is taken for a date before the
\* branch for unique addresses is reached.
EmuParseLine(l) ==
    LET date == IF l.type = "T" THEN HexReading(l.date) ELSE 0
        prov == IF Len(l.prov) = 3 THEN <<0>> \o l.prov ELSE l.prov
        index == l.token.value % 256
        plain == NewKey(l.type, prov, index, l.val, l.len, date, NoName)
        long == Len(l.prov) = 4
    IN  IF l.type \notin Types \/ ~l.token.hex \/ l.len \notin 1..320
          THEN <<>>
        ELSE IF long /\ l.token.digits = 8
          THEN <<NewKey(l.type, prov, 0, l.val, l.len, l.token.value, NoName)>>
        ELSE IF long /\ l.token.digits >= 3 /\ l.type = "P"
          THEN <<NewKey("P", prov, 0, l.val, l.len, date, l.token.text)>>
        ELSE IF long /\ index = 0 /\ prov[4] # 0
          THEN <<plain, [plain EXCEPT !.prov = <<0, prov[1], prov[2], prov[3]>>,
                                      !.index = prov[4]]>>
        ELSE <<plain>>

\* What cccam_emu_add_runtime_key makes of a key name, and the line it
\* appends when the key is to be kept.
RuntimeKey(type, prov, token, val, len) ==
    NewKey(type, prov, IF token.digits > 2 THEN 0 ELSE token.value % 256,
           val, len, 0, IF token.digits > 2 THEN token.text ELSE NoName)
RuntimeLine(type, prov, token, val, len) ==
    [type |-> type, prov |-> prov, token |-> token, val |-> val, len |-> len,
     date |-> 0]

-----------------------------------------------------------------------------

\* The entry that key k replaces: by name if both have one, else by index.
SameKey(old, k) ==
    /\ old.type = k.type
    /\ old.prov = k.prov
    /\ IF k.name # NoName /\ old.name # NoName THEN old.name = k.name
                                              ELSE old.index = k.index

First(keys, P(_)) ==
    CHOOSE i \in 1..Len(keys) : P(keys[i]) /\ \A j \in 1..(i - 1) : ~P(keys[j])
Has(keys, P(_)) == \E i \in 1..Len(keys) : P(keys[i])

\* Mutant: the entry there is stays.
InsertFront(keys, k) == <<k>> \o keys

\* What is left of an entry when key k is added for it; a name stays.
Updated(old, k) ==
    [old EXCEPT !.val = k.val, !.len = k.len, !.date = k.date,
                !.name = IF k.name # NoName THEN k.name ELSE old.name]

\* emu_add_key under the mutex: replaced where it stands, or put in front.
Insert(keys, k) ==
    LET same(old) == SameKey(old, k)
        i == First(keys, same)
    IN  IF Has(keys, same) THEN [keys EXCEPT ![i] = Updated(keys[i], k)]
                           ELSE <<k>> \o keys

\* A date is what strtoul(.., 16) read, the day of today a decimal number.
Valid(k) == k.date = 0 \/ Today <= k.date

\* The three lookups: the first valid entry that fits is the answer, and is
\* none if the caller's buffer is too small for it.
Fits(ask, k) ==
    /\ k.type = ask.type
    /\ CASE ask.by = "index"  -> k.prov = ask.prov /\ k.index = ask.index
         [] ask.by = "masked" -> /\ SubSeq(k.prov, 3, 4) = ask.prov
                                 /\ k.index = ask.index
         [] ask.by = "name"   -> k.name = ask.name
    /\ Valid(k)
Find(keys, ask) ==
    LET fits(k) == Fits(ask, k)
        k == keys[First(keys, fits)]
    IN  IF Has(keys, fits) /\ k.len \in ask.sizes THEN k ELSE Missing

\* emu_add_key as a whole: nothing is added, nor replaced, at the limit.
Added(keys, k) == IF Len(keys) >= MaxKeys THEN keys ELSE Insert(keys, k)

\* The additions that each beginning of a file, a sequence of lines, asks for,
\* and what the file says in the end: the last addition of every key.
AdditionsTo(lines) ==
    LET to[i \in 0..Len(lines)] ==
            IF i = 0 THEN <<>> ELSE to[i - 1] \o EmuParseLine(lines[i])
    IN  to
Additions(lines) == AdditionsTo(lines)[Len(lines)]
LastWord(adds) ==
    {adds[i] : i \in {j \in 1..Len(adds) :
                        \A k \in (j + 1)..Len(adds) : ~SameKey(adds[j], adds[k])}}

\* What is called by a name in one addition is not called by its index in
\* another.
Unmixed(adds) ==
    \A i, j \in 1..Len(adds) :
        adds[i].type = adds[j].type /\ adds[i].prov = adds[j].prov
        /\ adds[i].index = adds[j].index
            => (adds[i].name = NoName <=> adds[j].name = NoName)
=============================================================================
