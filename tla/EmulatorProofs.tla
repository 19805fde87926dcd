--------------------------- MODULE EmulatorProofs ---------------------------
(***************************************************************************)
(* Proofs about Emulator, for any number of threads, any jobs, files and   *)
(* limits: a key has one entry in the list, whoever adds keys at once; a   *)
(* reload nobody interferes with gives what the file says; and the list    *)
(* outgrows its limit by so many keys at most.                             *)
(*                                                                         *)
(* SameKey compares names if both entries have one, else indices, and an   *)
(* update may give a name to an entry that had none.  That this makes no   *)
(* second entry of the name rests on the parser: a key with a name has the *)
(* index 0, so that an entry of the same type and provider with a name and *)
(* one without would already have been the same key.                       *)
(*                                                                         *)
(* Where the model computes a sequence from its beginning on, the facts    *)
(* about it are proved of the least place at which they would fail.        *)
(***************************************************************************)
EXTENDS Emulator, FiniteSetTheorems, SequenceTheorems, WellFoundedInduction, TLAPS

IsKey(k) == k = [type |-> k.type, prov |-> k.prov, index |-> k.index,
                 name |-> k.name, date |-> k.date, val |-> k.val, len |-> k.len]

\* A key with a name has the index 0.
GoodKey(k) == IsKey(k) /\ (k.name # NoName => k.index = 0)

GoodList(ks) == IsList(ks) /\ \A i \in 1..Len(ks) : GoodKey(ks[i])
OnePerKey(ks) ==
    \A i, j \in 1..Len(ks) : i # j => ~SameKey(ks[i], ks[j])
Tidy(ks) == GoodList(ks) /\ OnePerKey(ks)

-----------------------------------------------------------------------------
(* Keys and lists. *)

LEMMA LeastExists ==
    ASSUME NEW H, H \subseteq Nat, H # {}
    PROVE  \E x \in H : \A y \in H : x <= y
<1> DEFINE R == {ss \in Nat \X Nat : ss[1] < ss[2]}
<1>1. IsWellFoundedOn(R, Nat)
  BY NatLessThanWellFounded DEF OpToRel
<1> HIDE DEF R
<1>2. PICK x \in H : \A y \in H : ~ (<<y, x>> \in R)
  BY <1>1, WFMin
<1>3. \A y \in H : ~ (y < x)
  BY <1>2 DEF R
<1>4. QED BY <1>3

LEMMA ListOfSeq ==
    ASSUME NEW S, NEW ks \in Seq(S)
    PROVE  IsList(ks)
<1>1. /\ Len(ks) \in Nat
      /\ ks \in [1..Len(ks) -> S]
  BY LenProperties
<1> DEFINE R == {ks[i] : i \in 1..Len(ks)}
<1>2. ks \in [1..Len(ks) -> R]
  BY <1>1
<1> HIDE DEF R
<1>3. ks \in Seq(R)
  BY <1>1, <1>2, IsASeq
<1>4. QED BY <1>3 DEF IsList, R

LEMMA EmptyIsTidy == Tidy(<<>>)
<1>1. <<>> \in Seq({})
  OBVIOUS
<1>2. IsList(<<>>)
  BY <1>1, ListOfSeq
<1>3. QED BY <1>2 DEF Tidy, GoodList, OnePerKey

\* The entry that an insertion replaces is one of the list, of the same key.
LEMMA InsertReplaces ==
    ASSUME NEW ks, NEW k, IsList(ks),
           \E j \in 1..Len(ks) : SameKey(ks[j], k)
    PROVE  \E i \in 1..Len(ks) :
              /\ SameKey(ks[i], k)
              /\ Insert(ks, k) = [ks EXCEPT ![i] = Updated(ks[i], k)]
<1> DEFINE H == {j \in 1..Len(ks) : SameKey(ks[j], k)}
<1>0. Len(ks) \in Nat
  BY LenProperties DEF IsList
<1>1. H \subseteq Nat /\ H # {}
  BY <1>0
<1>2. PICK x \in H : \A y \in H : x <= y
  <2> HIDE DEF H
  <2>1. QED BY <1>1, LeastExists
<1>3. \A y \in 1..(x - 1) : ~SameKey(ks[y], k)
  <2>1. TAKE y \in 1..(x - 1)
  <2>2. x \in Nat /\ y \in Nat /\ y < x /\ y \in 1..Len(ks)
    BY <1>0, <1>1
  <2>3. y \notin H
    BY <1>2, <2>2
  <2>4. QED BY <2>2, <2>3
<1> DEFINE i == CHOOSE m \in 1..Len(ks) : /\ SameKey(ks[m], k)
                                          /\ \A j \in 1..(m - 1) : ~SameKey(ks[j], k)
<1>4. i \in 1..Len(ks) /\ SameKey(ks[i], k)
  BY <1>2, <1>3
<1>5. Insert(ks, k) = [ks EXCEPT ![i] = Updated(ks[i], k)]
  BY DEF Insert, First, Has
<1> HIDE DEF i
<1>6. QED BY <1>4, <1>5

LEMMA InsertPrepends ==
    ASSUME NEW ks, NEW k, ~ \E j \in 1..Len(ks) : SameKey(ks[j], k)
    PROVE  Insert(ks, k) = <<k>> \o ks
BY DEF Insert, Has, First

\* An update leaves type, provider and index, and perhaps the name.
LEMMA UpdatedIs ==
    ASSUME NEW old, NEW k, GoodKey(old)
    PROVE  Updated(old, k) =
             [type |-> old.type, prov |-> old.prov, index |-> old.index,
              name |-> IF k.name # NoName THEN k.name ELSE old.name,
              date |-> k.date, val |-> k.val, len |-> k.len]
<1> DEFINE u == Updated(old, k)
           nm == IF k.name # NoName THEN k.name ELSE old.name
<1>1. old = [type |-> old.type, prov |-> old.prov, index |-> old.index,
             name |-> old.name, date |-> old.date, val |-> old.val, len |-> old.len]
  BY DEF GoodKey, IsKey
<1> DEFINE K == [type : {old.type}, prov : {old.prov}, index : {old.index},
                 name : {old.name, nm}, date : {old.date, k.date},
                 val : {old.val, k.val}, len : {old.len, k.len}]
<1>2. old \in K
  BY <1>1
<1>3. u \in K
  BY <1>2 DEF Updated
<1>4. u.date = k.date /\ u.val = k.val /\ u.len = k.len /\ u.name = nm
  BY <1>2 DEF Updated
<1>5. QED BY <1>3, <1>4

\* So it leaves a good key good.
LEMMA UpdatedIsGood ==
    ASSUME NEW old, NEW k, GoodKey(old), GoodKey(k), SameKey(old, k)
    PROVE  /\ GoodKey(Updated(old, k))
           /\ Updated(old, k).type = old.type
           /\ Updated(old, k).prov = old.prov
           /\ Updated(old, k).index = old.index
           /\ Updated(old, k).name = IF k.name # NoName THEN k.name ELSE old.name
<1> DEFINE u == Updated(old, k)
           nm == IF k.name # NoName THEN k.name ELSE old.name
<1>1. u = [type |-> old.type, prov |-> old.prov, index |-> old.index, name |-> nm,
           date |-> k.date, val |-> k.val, len |-> k.len]
  BY UpdatedIs
<1>2. nm # NoName => old.index = 0
  BY DEF SameKey, GoodKey
<1> HIDE DEF u, nm
<1>3. IsKey(u)
  BY <1>1 DEF IsKey
<1>4. u.index = old.index /\ u.name = nm /\ u.type = old.type /\ u.prov = old.prov
  BY <1>1
<1>5. GoodKey(u)
  BY <1>2, <1>3, <1>4 DEF GoodKey
<1>6. QED BY <1>4, <1>5 DEF u, nm

\* An update does not make an entry the same key as another one.
LEMMA UpdatedStaysApart ==
    ASSUME NEW old, NEW k, NEW other, GoodKey(old), GoodKey(k), GoodKey(other),
           SameKey(old, k), ~SameKey(old, other), ~SameKey(other, old)
    PROVE  ~SameKey(Updated(old, k), other) /\ ~SameKey(other, Updated(old, k))
BY UpdatedIsGood DEF SameKey, GoodKey

LEMMA InsertKeepsTidy ==
    ASSUME NEW ks, NEW k, Tidy(ks), GoodKey(k)
    PROVE  Tidy(Insert(ks, k))
<1> DEFINE S == {ks[i] : i \in 1..Len(ks)}
<1>1. ks \in Seq(S) /\ Len(ks) \in Nat
  BY LenProperties DEF Tidy, GoodList, IsList
<1>2. \A i \in 1..Len(ks) : GoodKey(ks[i])
  BY DEF Tidy, GoodList
<1>3. CASE \E j \in 1..Len(ks) : SameKey(ks[j], k)
  <2>1. PICK i \in 1..Len(ks) :
                /\ SameKey(ks[i], k)
                /\ Insert(ks, k) = [ks EXCEPT ![i] = Updated(ks[i], k)]
    BY <1>3, InsertReplaces DEF Tidy, GoodList
  <2> DEFINE new == Insert(ks, k)
             u == Updated(ks[i], k)
  <2>2. GoodKey(u)
    BY <1>2, <2>1, UpdatedIsGood
  <2>3. /\ new \in Seq(S \cup {u})
        /\ Len(new) = Len(ks)
        /\ new[i] = u
        /\ \A j \in 1..Len(ks) : j # i => new[j] = ks[j]
    <3>1. ks \in Seq(S \cup {u})
      BY <1>1, SeqMonotonic
    <3> HIDE DEF u, S
    <3>2. new = [ks EXCEPT ![i] = u]
      BY <2>1 DEF u
    <3>3. QED BY <1>1, <3>1, <3>2, ExceptSeq
  <2> HIDE DEF new, u, S
  <2>4. IsList(new)
    BY <2>3, ListOfSeq
  <2>5. GoodList(new)
    BY <1>2, <2>2, <2>3, <2>4 DEF GoodList
  <2>6. OnePerKey(new)
    <3>1. SUFFICES ASSUME NEW a \in 1..Len(ks), NEW b \in 1..Len(ks), a # b
                   PROVE  ~SameKey(new[a], new[b])
      BY <2>3 DEF OnePerKey
    <3>2. ~SameKey(ks[a], ks[b]) /\ ~SameKey(ks[b], ks[a])
      BY <3>1 DEF Tidy, OnePerKey
    <3>3. GoodKey(ks[a]) /\ GoodKey(ks[b]) /\ GoodKey(ks[i])
      BY <1>2, <2>1, <3>1
    <3>4. CASE a = i
      BY <2>1, <2>3, <3>1, <3>2, <3>3, <3>4, UpdatedStaysApart DEF u
    <3>5. CASE b = i
      BY <2>1, <2>3, <3>1, <3>2, <3>3, <3>5, UpdatedStaysApart DEF u
    <3>6. CASE a # i /\ b # i
      BY <2>3, <3>1, <3>2, <3>6
    <3>7. QED BY <3>4, <3>5, <3>6
  <2>7. QED BY <2>5, <2>6 DEF Tidy, new
<1>4. CASE ~ \E j \in 1..Len(ks) : SameKey(ks[j], k)
  <2> DEFINE new == <<k>> \o ks
  <2>1. Insert(ks, k) = new
    BY <1>4, InsertPrepends
  <2>2. /\ new \in Seq(S \cup {k})
        /\ Len(new) = 1 + Len(ks)
        /\ new[1] = k
        /\ \A j \in 1..Len(ks) : new[1 + j] = ks[j]
    <3>1. ks \in Seq(S \cup {k})
      BY <1>1, SeqMonotonic
    <3>2. <<k>> \in Seq(S \cup {k}) /\ Len(<<k>>) = 1 /\ <<k>>[1] = k
      OBVIOUS
    <3> HIDE DEF S
    <3>3. QED BY <1>1, <3>1, <3>2, ConcatProperties
  <2> HIDE DEF new, S
  <2>3. \A j \in 1..Len(new) : j = 1 \/ (j - 1 \in 1..Len(ks) /\ new[j] = ks[j - 1])
    <3>1. TAKE j \in 1..Len(new)
    <3>2. j = 1 \/ (j - 1 \in 1..Len(ks) /\ j = 1 + (j - 1))
      BY <1>1, <2>2
    <3>3. QED BY <2>2, <3>2
  <2>4. IsList(new)
    BY <2>2, ListOfSeq
  <2>5. GoodList(new)
    BY <1>2, <2>2, <2>3, <2>4 DEF GoodList
  <2>6. OnePerKey(new)
    <3>1. SUFFICES ASSUME NEW a \in 1..Len(new), NEW b \in 1..Len(new), a # b
                   PROVE  ~SameKey(new[a], new[b])
      BY DEF OnePerKey
    <3>2. CASE a = 1
      <4>1. b - 1 \in 1..Len(ks) /\ new[b] = ks[b - 1]
        BY <2>3, <3>1, <3>2
      <4>2. ~SameKey(ks[b - 1], k)
        BY <1>4, <4>1
      <4>3. QED BY <2>2, <3>2, <4>1, <4>2 DEF SameKey
    <3>3. CASE b = 1
      <4>1. a - 1 \in 1..Len(ks) /\ new[a] = ks[a - 1]
        BY <2>3, <3>1, <3>3
      <4>2. QED BY <1>4, <2>2, <3>3, <4>1
    <3>4. CASE a # 1 /\ b # 1
      <4>1. /\ a - 1 \in 1..Len(ks) /\ new[a] = ks[a - 1]
            /\ b - 1 \in 1..Len(ks) /\ new[b] = ks[b - 1]
            /\ a - 1 # b - 1
        BY <2>2, <2>3, <3>1, <3>4
      <4>2. QED BY <4>1 DEF Tidy, OnePerKey
    <3>5. QED BY <3>2, <3>3, <3>4
  <2>7. QED BY <2>1, <2>5, <2>6 DEF Tidy
<1>5. QED BY <1>3, <1>4

LEMMA ShorterIsGood ==
    ASSUME NEW ks, GoodList(ks), Len(ks) > 0
    PROVE  /\ GoodKey(Head(ks))
           /\ GoodList(Tail(ks))
           /\ Len(Tail(ks)) = Len(ks) - 1
<1> DEFINE S == {ks[i] : i \in 1..Len(ks)}
           t == Tail(ks)
<1>1. ks \in Seq(S) /\ Len(ks) \in Nat /\ ks # <<>>
  BY LenProperties DEF GoodList, IsList
<1>2. /\ Head(ks) = ks[1]
      /\ t \in Seq(S)
      /\ Len(t) = Len(ks) - 1
      /\ \A i \in 1..Len(t) : i + 1 \in 1..Len(ks) /\ t[i] = ks[i + 1]
  <2> HIDE DEF S
  <2>1. QED BY <1>1, HeadTailProperties
<1> HIDE DEF S, t
<1>3. IsList(t)
  BY <1>2, ListOfSeq
<1>4. GoodList(t)
  BY <1>2, <1>3 DEF GoodList
<1>5. QED BY <1>1, <1>2, <1>4 DEF GoodList, t

LEMMA RuntimeKeyIsGood ==
    ASSUME NEW type, NEW prov, NEW token, NEW val, NEW len
    PROVE  GoodKey(RuntimeKey(type, prov, token, val, len))
BY DEF RuntimeKey, NewKey, GoodKey, IsKey

\* What the parser makes of a line.
LEMMA ParsedIsGood ==
    ASSUME NEW l
    PROVE  GoodList(EmuParseLine(l))
<1>1. \A type, prov, index, val, len, date, name :
         (name # NoName => index = 0)
            => GoodKey(NewKey(type, prov, index, val, len, date, name))
  BY DEF GoodKey, IsKey, NewKey
<1>2. ASSUME NEW k, GoodKey(k)
      PROVE  GoodList(<<k>>)
  <2>1. <<k>> \in Seq({k}) /\ Len(<<k>>) = 1 /\ <<k>>[1] = k
    OBVIOUS
  <2>2. IsList(<<k>>)
    BY <2>1, ListOfSeq
  <2>3. QED BY <1>2, <2>1, <2>2 DEF GoodList
<1>3. ASSUME NEW k, NEW m, GoodKey(k), GoodKey(m)
      PROVE  GoodList(<<k, m>>)
  <2>1. <<k, m>> \in Seq({k, m}) /\ Len(<<k, m>>) = 2
        /\ <<k, m>>[1] = k /\ <<k, m>>[2] = m
    OBVIOUS
  <2>2. IsList(<<k, m>>)
    BY <2>1, ListOfSeq
  <2>3. QED BY <1>3, <2>1, <2>2 DEF GoodList
<1>4. ASSUME NEW k, GoodKey(k), k.name = NoName, NEW prov, NEW index
      PROVE  GoodKey([k EXCEPT !.prov = prov, !.index = index])
  <2> DEFINE m == [k EXCEPT !.prov = prov, !.index = index]
             K == [type : {k.type}, prov : {k.prov, prov}, index : {k.index, index},
                   name : {k.name}, date : {k.date}, val : {k.val}, len : {k.len}]
  <2>1. k = [type |-> k.type, prov |-> k.prov, index |-> k.index, name |-> k.name,
             date |-> k.date, val |-> k.val, len |-> k.len]
    BY <1>4 DEF GoodKey, IsKey
  <2>2. k \in K
    BY <2>1
  <2>3. m \in K
    BY <2>2
  <2> HIDE DEF m
  <2>4. IsKey(m) /\ m.name = k.name
    BY <2>3 DEF IsKey
  <2>5. GoodKey(m)
    BY <1>4, <2>4 DEF GoodKey
  <2>6. QED BY <2>5 DEF m
<1>5. GoodList(<<>>)
  BY EmptyIsTidy DEF Tidy
<1> DEFINE date == IF l.type = "T" THEN HexReading(l.date) ELSE 0
           prov == IF Len(l.prov) = 3 THEN <<0>> \o l.prov ELSE l.prov
           index == l.token.value % 256
           plain == NewKey(l.type, prov, index, l.val, l.len, date, NoName)
           short == <<0, prov[1], prov[2], prov[3]>>
           sub == [plain EXCEPT !.prov = short, !.index = prov[4]]
           dated == NewKey(l.type, prov, 0, l.val, l.len, l.token.value, NoName)
           named == NewKey("P", prov, 0, l.val, l.len, date, l.token.text)
<1>6. GoodKey(plain) /\ GoodKey(dated) /\ GoodKey(named)
  <2> HIDE DEF date, prov, index
  <2>1. QED BY <1>1
<1>7. plain.name = NoName
  BY DEF NewKey
<1>8. GoodKey(sub)
  <2> HIDE DEF plain, short, prov
  <2>1. QED BY <1>4, <1>6, <1>7
<1> DEFINE none == l.type \notin Types \/ ~l.token.hex \/ l.len \notin 1..320
           long == Len(l.prov) = 4
           isDated == long /\ l.token.digits = 8
           isNamed == long /\ l.token.digits >= 3 /\ l.type = "P"
           isSub == long /\ index = 0 /\ prov[4] # 0
<1>9. EmuParseLine(l) = IF none THEN <<>>
                        ELSE IF isDated THEN <<dated>>
                        ELSE IF isNamed THEN <<named>>
                        ELSE IF isSub THEN <<plain, sub>>
                        ELSE <<plain>>
  BY Zenon DEF EmuParseLine
<1>10. QED
  <2> HIDE DEF plain, sub, dated, named, none, isDated, isNamed, isSub
  <2>1. GoodList(<<dated>>) /\ GoodList(<<named>>) /\ GoodList(<<plain>>)
    BY <1>2, <1>6
  <2>2. GoodList(<<plain, sub>>)
    BY <1>3, <1>6, <1>8
  <2>3. QED BY <1>5, <1>9, <2>1, <2>2

-----------------------------------------------------------------------------
(* The threads. *)

\* What a thread keeps, over values that are left open.
Over(X) == [pc : X, job : X, got : X, alt : X, adds : X, n : X, old : X, result : X]

\* The list is tidy, and so is the one a reload has taken away, which may be
\* put back; what a reload is about to add are good keys.
IInv ==
    /\ \E Y : proc \in [Proc -> Over(Y)]
    /\ Tidy(keys)
    /\ \A p \in Proc : Tidy(proc[p].old)
    /\ \A r \in Reloader :
          proc[r].pc \in {"check", "insert"}
            => GoodList(proc[r].adds) /\ Len(proc[r].adds) > 0

IsProc(r) == \E Y : r \in Over(Y)

LEMMA OverGrows ==
    ASSUME NEW X, NEW Z
    PROVE  Over(Z) \subseteq Over(X \cup Z)
BY DEF Over

LEMMA ProcsAreProcs ==
    ASSUME IInv, NEW p \in Proc
    PROVE  IsProc(proc[p])
BY DEF IInv, IsProc

LEMMA IdleIsProc == IsProc(Idle) /\ Idle.old = <<>> /\ Idle.pc = "idle"
<1> DEFINE Y == {"idle", Missing, <<>>, 1, "none"}
<1>1. "idle" \in Y /\ Missing \in Y /\ <<>> \in Y /\ 1 \in Y /\ "none" \in Y
  OBVIOUS
<1> HIDE DEF Y
<1>2. Idle \in Over(Y)
  BY <1>1 DEF Idle, Over
<1>3. QED BY <1>2 DEF IsProc, Idle

\* Whatever is assigned to the fields of a record, it can be found a range.
LEMMA InOver ==
    ASSUME NEW r, IsProc(r), NEW a, NEW b, NEW c
    PROVE  \E Y : r \in Over(Y) /\ a \in Y /\ b \in Y /\ c \in Y
<1>1. PICK Z : r \in Over(Z)
  BY DEF IsProc
<1> DEFINE Y == {a, b, c} \cup Z
<1>2. r \in Over(Y)
  BY <1>1, OverGrows
<1>3. QED BY <1>2

\* The updates of a record that the steps make.
LEMMA FieldUpdated ==
    ASSUME NEW r, IsProc(r), NEW a
    PROVE  /\ LET u == [r EXCEPT !.pc = a]
              IN  IsProc(u) /\ u.pc = a /\ u.old = r.old /\ u.adds = r.adds
           /\ LET u == [r EXCEPT !.got = a]
              IN  IsProc(u) /\ u.old = r.old
           /\ LET u == [r EXCEPT !.alt = a]
              IN  IsProc(u) /\ u.old = r.old
<1>1. PICK Y : r \in Over(Y) /\ a \in Y
  BY InOver
<1>2. /\ [r EXCEPT !.pc = a] \in Over(Y)
      /\ [r EXCEPT !.got = a] \in Over(Y)
      /\ [r EXCEPT !.alt = a] \in Over(Y)
  BY <1>1 DEF Over
<1>3. QED BY <1>1, <1>2 DEF IsProc, Over

LEMMA GotAltUpdated ==
    ASSUME NEW r, IsProc(r), NEW a, NEW b
    PROVE  /\ IsProc([r EXCEPT !.got = a, !.alt = b])
           /\ [r EXCEPT !.got = a, !.alt = b].old = r.old
<1>1. PICK Y : r \in Over(Y) /\ a \in Y /\ b \in Y
  BY InOver
<1>2. [r EXCEPT !.got = a, !.alt = b] \in Over(Y)
  BY <1>1 DEF Over
<1>3. QED BY <1>1, <1>2 DEF IsProc, Over

LEMMA PcResultUpdated ==
    ASSUME NEW r, IsProc(r), NEW a, NEW b
    PROVE  /\ IsProc([r EXCEPT !.pc = a, !.result = b])
           /\ [r EXCEPT !.pc = a, !.result = b].old = r.old
<1>1. PICK Y : r \in Over(Y) /\ a \in Y /\ b \in Y
  BY InOver
<1>2. [r EXCEPT !.pc = a, !.result = b] \in Over(Y)
  BY <1>1 DEF Over
<1>3. QED BY <1>1, <1>2 DEF IsProc, Over

LEMMA PcAddsUpdated ==
    ASSUME NEW r, IsProc(r), NEW a, NEW b
    PROVE  /\ IsProc([r EXCEPT !.pc = a, !.adds = b])
           /\ [r EXCEPT !.pc = a, !.adds = b].old = r.old
<1>1. PICK Y : r \in Over(Y) /\ a \in Y /\ b \in Y
  BY InOver
<1>2. [r EXCEPT !.pc = a, !.adds = b] \in Over(Y)
  BY <1>1 DEF Over
<1>3. QED BY <1>1, <1>2 DEF IsProc, Over

LEMMA PcJobUpdated ==
    ASSUME NEW r, IsProc(r), NEW a, NEW b
    PROVE  /\ IsProc([r EXCEPT !.pc = a, !.job = b])
           /\ [r EXCEPT !.pc = a, !.job = b].old = r.old
<1>1. PICK Y : r \in Over(Y) /\ a \in Y /\ b \in Y
  BY InOver
<1>2. [r EXCEPT !.pc = a, !.job = b] \in Over(Y)
  BY <1>1 DEF Over
<1>3. QED BY <1>1, <1>2 DEF IsProc, Over

\* A step that changes the record of one thread, and perhaps the list.
LEMMA StepKeeps ==
    ASSUME IInv, NEW p \in Proc, NEW r, IsProc(r), Set(p, r),
           Tidy(keys'), Tidy(r.old),
           p \in Reloader /\ r.pc \in {"check", "insert"}
             => GoodList(r.adds) /\ Len(r.adds) > 0
    PROVE  IInv'
<1>1. PICK Z : proc \in [Proc -> Over(Z)]
  BY DEF IInv
<1>2. PICK X : r \in Over(X)
  BY DEF IsProc
<1> DEFINE Y == X \cup Z
<1>3. proc \in [Proc -> Over(Y)] /\ r \in Over(Y)
  <2>1. Over(Z) \subseteq Over(Y) /\ Over(X) \subseteq Over(Y)
    BY DEF Over
  <2> HIDE DEF Y
  <2>2. QED BY <1>1, <1>2, <2>1
<1> HIDE DEF Y
<1>4. /\ proc' \in [Proc -> Over(Y)]
      /\ proc'[p] = r
      /\ \A q \in Proc : q # p => proc'[q] = proc[q]
  BY <1>3 DEF Set
<1>5. \A q \in Proc : Tidy(proc'[q].old)
  BY <1>4 DEF IInv
<1>6. ASSUME NEW q \in Reloader, proc'[q].pc \in {"check", "insert"}
      PROVE  GoodList(proc'[q].adds) /\ Len(proc'[q].adds) > 0
  <2>1. q \in Proc
    BY DEF Proc
  <2>2. QED BY <1>4, <1>6, <2>1 DEF IInv
<1>7. QED BY <1>4, <1>5, <1>6 DEF IInv

-----------------------------------------------------------------------------
(* The steps of a worker but its insertions leave the list alone. *)

LEMMA WorkerKeeps ==
    ASSUME IInv, NEW w \in Worker, NEW r, IsProc(r), Set(w, r),
           r.old = proc[w].old, keys' = keys
    PROVE  IInv'
<1>1. w \in Proc /\ w \notin Reloader
  BY EmulatorAssumption DEF Proc
<1>2. Tidy(keys') /\ Tidy(r.old)
  BY <1>1 DEF IInv
<1>3. QED BY <1>1, <1>2, StepKeeps

LEMMA ArrivedIsProc ==
    ASSUME NEW r, IsProc(r)
    PROVE  IsProc(Arrived(r)) /\ Arrived(r).old = r.old
<1> DEFINE new == IF r.job.sys = "irdeto emm" THEN IrdetoEmmKeys(r.job)
                  ELSE PvuEmmKeys(r.job, r.got[1].prov)
           u == [r EXCEPT !.pc = "check", !.adds = new]
<1>1. IsProc(u) /\ u.old = r.old
  <2> HIDE DEF new
  <2>1. QED BY PcAddsUpdated
<1>2. Arrived(r) = u \/ Arrived(r) = r
  BY DEF Arrived
<1> HIDE DEF u
<1>3. QED BY <1>1, <1>2

LEMMA LookupKeeps ==
    ASSUME IInv, NEW w \in Worker, NEW plan, Lookup(w, plan)
    PROVE  IInv'
<1> DEFINE r == proc[w]
           s == plan[Here(w)]
           Got(x) == Arrived([r EXCEPT !.got = Append(r.got, x), !.alt = 1])
<1>1. PICK k : IF k # Missing THEN Set(w, Got(k))
               ELSE IF r.alt < Len(s.asks) THEN Set(w, [r EXCEPT !.alt = r.alt + 1])
               ELSE IF s.otherwise = "go on" THEN Set(w, Got(Missing))
               ELSE Set(w, [r EXCEPT !.pc = "end", !.result = s.otherwise])
  BY DEF Lookup
<1>2. keys' = keys
  BY DEF Lookup
<1>3. IsProc(r)
  BY ProcsAreProcs DEF Proc
<1>4. \A x : IsProc(Got(x)) /\ Got(x).old = r.old
  <2>1. TAKE x
  <2> HIDE DEF r
  <2>2. IsProc([r EXCEPT !.got = Append(r.got, x), !.alt = 1])
        /\ [r EXCEPT !.got = Append(r.got, x), !.alt = 1].old = r.old
    BY <1>3, GotAltUpdated
  <2>3. QED BY <2>2, ArrivedIsProc
<1>5. LET u == [r EXCEPT !.alt = r.alt + 1] IN IsProc(u) /\ u.old = r.old
  BY <1>3, FieldUpdated
<1>6. LET u == [r EXCEPT !.pc = "end", !.result = s.otherwise]
      IN  IsProc(u) /\ u.old = r.old
  <2> HIDE DEF r, s
  <2>1. QED BY <1>3, PcResultUpdated
<1> HIDE DEF s, Got
<1>7. QED BY <1>1, <1>2, <1>4, <1>5, <1>6, WorkerKeeps

LEMMA WorkKeeps ==
    ASSUME IInv, NEW w \in Worker, Work(w)
    PROVE  IInv'
<1> DEFINE r == proc[w]
<1>1. IsProc(r)
  BY ProcsAreProcs DEF Proc
<1>2. PICK plan : Lookup(w, plan) \/ Skip(w, plan) \/ Decode(w, plan)
  BY DEF Work
<1>3. CASE Lookup(w, plan)
  BY <1>3, LookupKeeps
<1>4. CASE Skip(w, plan)
  <2> DEFINE u == [r EXCEPT !.got = Append(r.got, Missing)]
  <2>1. Set(w, u) /\ keys' = keys
    BY <1>4 DEF Skip
  <2>2. IsProc(u) /\ u.old = r.old
    BY <1>1, FieldUpdated
  <2> HIDE DEF u
  <2>3. QED BY <2>1, <2>2, WorkerKeeps
<1>5. CASE Decode(w, plan)
  <2>1. PICK res : Set(w, IF res = "again" THEN [r EXCEPT !.got = <<>>, !.alt = 1]
                          ELSE [r EXCEPT !.pc = "end", !.result = res])
    BY <1>5 DEF Decode
  <2> DEFINE u == IF res = "again" THEN [r EXCEPT !.got = <<>>, !.alt = 1]
                  ELSE [r EXCEPT !.pc = "end", !.result = res]
  <2>2. Set(w, u) /\ keys' = keys
    BY <1>5, <2>1 DEF Decode
  <2>3. IsProc(u) /\ u.old = r.old
    <3> HIDE DEF r
    <3>1. CASE res = "again"
      BY <1>1, <3>1, GotAltUpdated
    <3>2. CASE res # "again"
      BY <1>1, <3>2, PcResultUpdated
    <3>3. QED BY <3>1, <3>2
  <2> HIDE DEF u
  <2>4. QED BY <2>2, <2>3, WorkerKeeps
<1>6. QED BY <1>2, <1>3, <1>4, <1>5

-----------------------------------------------------------------------------
(* Keys that are added. *)

\* What a thread is when it has dealt with the first of its keys.
LEMMA RestIsProc ==
    ASSUME IInv, NEW p \in Proc
    PROVE  /\ IsProc(Rest(p)) /\ Rest(p).old = proc[p].old
           /\ Rest(p).adds = Tail(proc[p].adds)
           /\ p \in Reloader /\ Rest(p).pc \in {"check", "insert"}
                => Len(proc[p].adds) > 1
<1> DEFINE r == proc[p]
           x == IF Len(r.adds) > 1 THEN "check" ELSE IF p \in Worker THEN "end" ELSE "read"
           y == IF p \in Worker THEN "ok" ELSE r.result
<1>1. Rest(p) = [r EXCEPT !.adds = Tail(r.adds), !.pc = x, !.result = y]
  BY DEF Rest
<1>2. IsProc(r)
  BY ProcsAreProcs
<1>3. x = "check" \/ x = "end" \/ x = "read"
  OBVIOUS
<1>4. p \in Reloader /\ x \in {"check", "insert"} => Len(r.adds) > 1
  BY EmulatorAssumption
<1> HIDE DEF r, x, y
<1>5. IsProc(Rest(p)) /\ Rest(p).old = r.old /\ Rest(p).adds = Tail(r.adds) /\ Rest(p).pc = x
  <2>1. PICK Y : r \in Over(Y) /\ Tail(r.adds) \in Y /\ x \in Y /\ y \in Y
    BY <1>2, InOver
  <2>2. Rest(p) \in Over(Y)
    BY <1>1, <2>1 DEF Over
  <2>3. Rest(p).old = r.old /\ Rest(p).adds = Tail(r.adds) /\ Rest(p).pc = x
    BY <1>1, <2>1 DEF Over
  <2>4. QED BY <2>2, <2>3 DEF IsProc
<1>6. QED BY <1>4, <1>5 DEF r

LEMMA RestKeeps ==
    ASSUME IInv, NEW p \in Proc, Set(p, Rest(p)), Tidy(keys'),
           p \in Worker \/ proc[p].pc \in {"check", "insert"}
    PROVE  IInv'
<1>1. ASSUME p \in Reloader, Rest(p).pc \in {"check", "insert"}
      PROVE  GoodList(Rest(p).adds) /\ Len(Rest(p).adds) > 0
  <2>1. GoodList(proc[p].adds) /\ Len(proc[p].adds) > 0
    BY <1>1, EmulatorAssumption DEF IInv
  <2>2. Len(proc[p].adds) > 1 /\ Rest(p).adds = Tail(proc[p].adds)
    BY <1>1, RestIsProc
  <2>3. Len(proc[p].adds) \in Nat
    BY <2>1, LenProperties DEF GoodList, IsList
  <2>4. QED BY <2>1, <2>2, <2>3, ShorterIsGood
<1>2. Tidy(proc[p].old)
  BY DEF IInv
<1> HIDE DEF Rest
<1>3. QED BY <1>1, <1>2, RestIsProc, StepKeeps

\* A worker persists the key it has added, a reload goes on.
LEMMA AfterKeeps ==
    ASSUME IInv, NEW p \in Proc, Set(p, After(p)), Tidy(keys'),
           proc[p].pc \in {"check", "insert"}
    PROVE  IInv'
<1>1. CASE p \in Worker
  <2> DEFINE u == [proc[p] EXCEPT !.pc = "persist"]
  <2>1. Set(p, u)
    BY <1>1 DEF After
  <2>2. IsProc(u) /\ u.old = proc[p].old /\ u.pc = "persist"
    BY ProcsAreProcs, FieldUpdated
  <2>3. Tidy(u.old)
    BY <2>2 DEF IInv
  <2> HIDE DEF u
  <2>4. QED BY <2>1, <2>2, <2>3, StepKeeps
<1>2. CASE p \notin Worker
  BY <1>2, RestKeeps DEF After
<1>3. QED BY <1>1, <1>2

LEMMA AddCheckKeeps ==
    ASSUME IInv, NEW p \in Proc, AddCheck(p)
    PROVE  IInv'
<1>1. Tidy(keys') /\ keys' = keys
  BY DEF IInv, AddCheck
<1>2. CASE AtLimit
  BY <1>1, <1>2, AfterKeeps DEF AddCheck
<1>3. CASE ~AtLimit
  <2> DEFINE u == [proc[p] EXCEPT !.pc = "insert"]
  <2>1. Set(p, u)
    BY <1>3 DEF AddCheck
  <2>2. IsProc(u) /\ u.old = proc[p].old /\ u.adds = proc[p].adds
    BY ProcsAreProcs, FieldUpdated
  <2>3. Tidy(u.old)
    BY <2>2 DEF IInv
  <2>4. p \in Reloader => GoodList(u.adds) /\ Len(u.adds) > 0
    BY <2>2 DEF IInv, AddCheck
  <2> HIDE DEF u
  <2>5. QED BY <1>1, <2>1, <2>2, <2>3, <2>4, StepKeeps
<1>4. QED BY <1>2, <1>3

\* What is inserted is a good key.
LEMMA NextKeyIsGood ==
    ASSUME IInv, NEW p \in Proc, proc[p].pc = "insert"
    PROVE  GoodKey(NextKey(p))
<1>1. CASE p \in Worker
  BY <1>1, RuntimeKeyIsGood DEF NextKey
<1>2. CASE p \notin Worker
  <2>1. p \in Reloader
    BY <1>2 DEF Proc
  <2>2. GoodList(proc[p].adds) /\ Len(proc[p].adds) > 0
    BY <2>1 DEF IInv
  <2>3. QED BY <1>2, <2>2, ShorterIsGood DEF NextKey
<1>3. QED BY <1>1, <1>2

LEMMA AddInsertKeeps ==
    ASSUME IInv, NEW p \in Proc, AddInsert(p)
    PROVE  IInv'
<1>1. Tidy(keys')
  BY NextKeyIsGood, InsertKeepsTidy DEF IInv, AddInsert
<1>2. QED BY <1>1, AfterKeeps DEF AddInsert

-----------------------------------------------------------------------------
(* Loads. *)

LEMMA IdleKeeps ==
    ASSUME IInv, NEW p \in Proc, Set(p, Idle), Tidy(keys')
    PROVE  IInv'
<1>1. Tidy(Idle.old)
  BY IdleIsProc, EmptyIsTidy
<1> HIDE DEF Idle
<1>2. QED BY <1>1, IdleIsProc, StepKeeps

\* A load begins, with the list or with nothing taken away.
LEMMA OpenKeeps ==
    ASSUME IInv, NEW r \in Reloader, NEW old, Tidy(old), Tidy(keys'),
           Set(r, [Idle EXCEPT !.pc = "open", !.old = old])
    PROVE  IInv'
<1> DEFINE u == [Idle EXCEPT !.pc = "open", !.old = old]
<1>1. IsProc(u) /\ u.old = old /\ u.pc = "open"
  <2>1. PICK Y : Idle \in Over(Y) /\ "open" \in Y /\ old \in Y
    BY IdleIsProc, InOver
  <2> HIDE DEF Idle
  <2>2. u \in Over(Y) /\ u.old = old /\ u.pc = "open"
    BY <2>1 DEF Over
  <2>3. QED BY <2>2 DEF IsProc
<1>2. r \in Proc
  BY DEF Proc
<1> HIDE DEF u
<1>3. QED BY <1>1, <1>2, StepKeeps DEF u

LEMMA EmuInitKeeps ==
    ASSUME IInv, EmuInit
    PROVE  IInv'
<1> DEFINE u == [Idle EXCEPT !.pc = "open"]
<1>1. IsProc(u) /\ u.old = <<>> /\ u.pc = "open"
  <2> HIDE DEF Idle
  <2>1. QED BY IdleIsProc, FieldUpdated
<1>2. Main \in Proc
  BY EmulatorAssumption DEF Proc
<1>3. Set(Main, u) /\ Tidy(keys')
  BY DEF EmuInit, IInv
<1> HIDE DEF u
<1>4. QED BY <1>1, <1>2, <1>3, EmptyIsTidy, StepKeeps

LEMMA TakeKeeps ==
    ASSUME IInv, NEW r \in Reloader, Take(r)
    PROVE  IInv'
<1>1. Tidy(keys) /\ Tidy(keys')
  BY EmptyIsTidy DEF Take, IInv
<1>2. QED BY <1>1, OpenKeeps DEF Take

LEMMA OpenWorksKeeps ==
    ASSUME IInv, NEW r \in Reloader, OpenWorks(r)
    PROVE  IInv'
<1> DEFINE u == [proc[r] EXCEPT !.pc = "read", !.old = <<>>]
<1>1. r \in Proc /\ IsProc(proc[r])
  BY ProcsAreProcs DEF Proc
<1>2. IsProc(u) /\ u.old = <<>> /\ u.pc = "read"
  <2>1. PICK Y : proc[r] \in Over(Y) /\ "read" \in Y /\ <<>> \in Y
    BY <1>1, InOver
  <2>2. u \in Over(Y) /\ u.old = <<>> /\ u.pc = "read"
    BY <2>1 DEF Over
  <2>3. QED BY <2>2 DEF IsProc
<1>3. Set(r, u) /\ Tidy(keys')
  BY DEF OpenWorks, IInv
<1> HIDE DEF u
<1>4. QED BY <1>1, <1>2, <1>3, EmptyIsTidy, StepKeeps

LEMMA RestoreKeeps ==
    ASSUME IInv, NEW r \in Reloader, Restore(r)
    PROVE  IInv'
<1>1. r \in Proc /\ Tidy(keys')
  BY DEF Restore, IInv, Proc
<1>2. QED BY <1>1, IdleKeeps DEF Restore

LEMMA ReadLineKeeps ==
    ASSUME IInv, NEW r \in Reloader, ReadLine(r)
    PROVE  IInv'
<1> DEFINE new == EmuParseLine(file[proc[r].n])
           x == IF new = <<>> THEN "read" ELSE "check"
           u == [proc[r] EXCEPT !.n = proc[r].n + 1, !.adds = new, !.pc = x]
<1>1. r \in Proc /\ IsProc(proc[r])
  BY ProcsAreProcs DEF Proc
<1>2. IsProc(u) /\ u.old = proc[r].old /\ u.pc = x /\ u.adds = new
  <2> HIDE DEF new, x
  <2>1. PICK Y : proc[r] \in Over(Y) /\ proc[r].n + 1 \in Y /\ new \in Y /\ x \in Y
    BY <1>1, InOver
  <2>2. u \in Over(Y) /\ u.old = proc[r].old /\ u.pc = x /\ u.adds = new
    BY <2>1 DEF Over
  <2>3. QED BY <2>2 DEF IsProc
<1>3. Set(r, u) /\ Tidy(keys')
  BY DEF ReadLine, IInv
<1>4. GoodList(new)
  BY ParsedIsGood
<1>5. x = "read" \/ Len(new) > 0
  <2> HIDE DEF new
  <2>1. new # <<>> => Len(new) > 0
    BY <1>4, LenProperties, EmptySeq DEF GoodList, IsList
  <2>2. QED BY <2>1
<1>6. Tidy(u.old)
  BY <1>1, <1>2 DEF IInv
<1> HIDE DEF u, x, new
<1>7. QED BY <1>1, <1>2, <1>3, <1>4, <1>5, <1>6, StepKeeps

-----------------------------------------------------------------------------

LEMMA InitKeeps == Init => IInv
<1> SUFFICES ASSUME Init PROVE IInv
  OBVIOUS
<1>1. PICK Y : Idle \in Over(Y)
  BY IdleIsProc DEF IsProc
<1>2. \A p \in Proc : proc[p] = Idle
  BY DEF Init
<1>3. proc \in [Proc -> Over(Y)]
  <2> HIDE DEF Idle
  <2>1. QED BY <1>1 DEF Init
<1>4. Tidy(keys)
  BY EmptyIsTidy DEF Init
<1>5. \A p \in Proc : Tidy(proc[p].old)
  BY <1>2, IdleIsProc, EmptyIsTidy
<1>6. \A r \in Reloader : proc[r].pc = "idle"
  BY <1>2, IdleIsProc DEF Proc
<1>7. QED BY <1>3, <1>4, <1>5, <1>6 DEF IInv

LEMMA NextKeeps == IInv /\ [Next]_vars => IInv'
<1> SUFFICES ASSUME IInv, [Next]_vars PROVE IInv'
  OBVIOUS
<1>1. CASE EmuInit
  BY <1>1, EmuInitKeeps
<1>2. ASSUME NEW w \in Worker, Begin(w) \/ WorkerStep(w)
      PROVE  IInv'
  <2>0. w \in Proc /\ Tidy(keys)
    BY DEF Proc, IInv
  <2>1. CASE Begin(w)
    <3>1. PICK j : Set(w, [Idle EXCEPT !.pc = "lookup", !.job = j])
      BY <2>1 DEF Begin
    <3> DEFINE u == [Idle EXCEPT !.pc = "lookup", !.job = j]
    <3>2. IsProc(u) /\ u.old = <<>>
      <4> HIDE DEF Idle
      <4>1. QED BY IdleIsProc, PcJobUpdated
    <3>3. Set(w, u) /\ keys' = keys /\ w \notin Reloader
      BY <2>1, <3>1, EmulatorAssumption DEF Begin
    <3> HIDE DEF u
    <3>4. QED BY <2>0, <3>2, <3>3, EmptyIsTidy, StepKeeps
  <2>2. CASE Work(w)
    BY <2>2, WorkKeeps
  <2>3. CASE End(w)
    BY <2>0, <2>3, IdleKeeps DEF End
  <2>4. CASE Persist(w)
    BY <2>0, <2>4, RestKeeps DEF Persist
  <2>5. QED BY <1>2, <2>1, <2>2, <2>3, <2>4 DEF WorkerStep
<1>3. ASSUME NEW r \in Reloader, Take(r) \/ ReloaderStep(r)
      PROVE  IInv'
  <2>1. CASE Loaded(r)
    BY <2>1, IdleKeeps DEF Loaded, Proc, IInv
  <2>2. QED BY <1>3, <2>1, TakeKeeps, OpenWorksKeeps, RestoreKeeps, ReadLineKeeps
            DEF ReloaderStep
<1>4. ASSUME NEW p \in Proc, Adding(p)
      PROVE  IInv'
  BY <1>4, AddCheckKeeps, AddInsertKeeps DEF Adding
<1>5. CASE Edit
  BY <1>5 DEF Edit, IInv
<1>6. CASE UNCHANGED vars
  BY <1>6 DEF vars, IInv
<1>7. QED BY <1>1, <1>2, <1>3, <1>4, <1>5, <1>6 DEF Next

THEOREM Inductive == Spec => []IInv
BY InitKeeps, NextKeeps, PTL DEF Spec

\* A key has one entry in the list, whatever threads add keys from EMMs and
\* reload the file at once (cccam3_emu.c:81-132).
THEOREM KeysAreOne == Spec => []OneEntryPerKey
<1>1. IInv => OneEntryPerKey
  BY DEF IInv, Tidy, OnePerKey, OneEntryPerKey
<1>2. QED BY Inductive, <1>1, PTL

-----------------------------------------------------------------------------
(* Sequences that are put together step by step. *)

Sums(m, n, c, A, f) ==
    f = [i \in m..n |-> IF i = m THEN c ELSE f[i - 1] \o A[i]]

\* The recursive definition of a sequence of sequences, each the one before
\* with something added, is met by a function.
LEMMA Accumulates ==
    ASSUME NEW m \in Nat, NEW n \in Nat, NEW c, NEW A
    PROVE  \E f : Sums(m, n, c, A, f)
<1> DEFINE Met(k) == \E f : f = [i \in m..k |-> IF i = m THEN c ELSE f[i - 1] \o A[i]]
           H == {k \in Nat : ~Met(k)}
<1>1. ASSUME NEW k \in Nat, k < m
      PROVE  Met(k)
  <2>1. \A i \in m..k : FALSE
    BY <1>1
  <2>2. [i \in m..k |-> c]
          = [i \in m..k |-> IF i = m THEN c ELSE [q \in m..k |-> c][i - 1] \o A[i]]
    BY <2>1
  <2>3. QED BY <2>2
<1>2. Met(m)
  <2>1. \A i \in m..m : i = m
    OBVIOUS
  <2>2. [i \in m..m |-> c]
          = [i \in m..m |-> IF i = m THEN c ELSE [q \in m..m |-> c][i - 1] \o A[i]]
    BY <2>1
  <2>3. QED BY <2>2
<1>3. ASSUME NEW k \in Nat, k > m, Met(k - 1)
      PROVE  Met(k)
  <2>1. PICK f : f = [i \in m..(k - 1) |-> IF i = m THEN c ELSE f[i - 1] \o A[i]]
    BY <1>3
  <2> DEFINE g == [i \in m..k |-> IF i = k THEN f[k - 1] \o A[k] ELSE f[i]]
  <2>2. ASSUME NEW i \in m..k
        PROVE  g[i] = IF i = m THEN c ELSE g[i - 1] \o A[i]
    <3>1. CASE i = m
      <4>1. i \in m..(k - 1) /\ i # k
        BY <1>3, <3>1
      <4>2. g[i] = f[i] /\ f[i] = c
        BY <2>1, <3>1, <4>1
      <4>3. QED BY <3>1, <4>2
    <3>2. CASE i = k
      <4>1. k - 1 \in m..k /\ k - 1 # k /\ i # m
        BY <1>3, <3>2
      <4>2. g[i] = f[k - 1] \o A[k] /\ g[k - 1] = f[k - 1]
        BY <3>2, <4>1
      <4>3. QED BY <3>2, <4>1, <4>2
    <3>3. CASE i # m /\ i # k
      <4>1. i \in m..(k - 1) /\ i - 1 \in m..k /\ i - 1 # k
        BY <1>3, <3>3
      <4>2. g[i] = f[i] /\ g[i - 1] = f[i - 1]
        BY <3>3, <4>1
      <4>3. f[i] = f[i - 1] \o A[i]
        BY <2>1, <3>3, <4>1
      <4>4. QED BY <3>3, <4>2, <4>3
    <3>4. QED BY <3>1, <3>2, <3>3
  <2>3. g = [i \in m..k |-> g[i]]
    OBVIOUS
  <2> HIDE DEF g
  <2>4. g = [i \in m..k |-> IF i = m THEN c ELSE g[i - 1] \o A[i]]
    BY <2>2, <2>3
  <2>5. QED BY <2>4
<1>4. H = {}
  <2>1. SUFFICES ASSUME H # {} PROVE FALSE
    OBVIOUS
  <2> HIDE DEF Met
  <2>2. PICK x \in H : \A y \in H : x <= y
    BY <2>1, LeastExists
  <2>3. x \in Nat /\ ~Met(x) /\ (x > m => x - 1 \in Nat /\ x - 1 \notin H)
    BY <2>2
  <2>4. QED BY <1>1, <1>2, <1>3, <2>3
<1>5. QED BY <1>4 DEF Sums

LEMMA Lists ==
    ASSUME NEW s, IsList(s)
    PROVE  /\ Len(s) \in Nat
           /\ s = [i \in 1..Len(s) |-> s[i]]
BY LenProperties DEF IsList

LEMMA Concatenated ==
    ASSUME NEW s, NEW t, IsList(s), IsList(t)
    PROVE  /\ IsList(s \o t)
           /\ Len(s \o t) = Len(s) + Len(t)
           /\ \A i \in 1..Len(s) : (s \o t)[i] = s[i]
           /\ \A i \in 1..Len(t) : (s \o t)[Len(s) + i] = t[i]
           /\ \A i \in 1..Len(s \o t) :
                 i \in 1..Len(s) \/ \E j \in 1..Len(t) : i = Len(s) + j
<1> DEFINE S == {s[i] : i \in 1..Len(s)}
           T == {t[i] : i \in 1..Len(t)}
           U == S \cup T
<1>1. s \in Seq(S) /\ t \in Seq(T)
  BY DEF IsList
<1> HIDE DEF S, T
<1>2. s \in Seq(U) /\ t \in Seq(U)
  BY <1>1, SeqMonotonic
<1> HIDE DEF U
<1>3. Len(s) \in Nat /\ Len(t) \in Nat
  BY <1>2, LenProperties
<1>4. /\ s \o t \in Seq(U)
      /\ Len(s \o t) = Len(s) + Len(t)
      /\ \A i \in 1..Len(s) + Len(t) :
            (s \o t)[i] = IF i <= Len(s) THEN s[i] ELSE t[i - Len(s)]
  BY <1>2, ConcatProperties
<1>5. IsList(s \o t)
  BY <1>4, ListOfSeq
<1>6. \A i \in 1..Len(t) : /\ Len(s) + i \in 1..Len(s) + Len(t)
                           /\ ~(Len(s) + i <= Len(s)) /\ Len(s) + i - Len(s) = i
  BY <1>3
<1>7. \A i \in 1..Len(s) : i \in 1..Len(s) + Len(t) /\ i <= Len(s)
  BY <1>3
<1>8. \A i \in 1..Len(s) + Len(t) :
         i \in 1..Len(s) \/ (i - Len(s) \in 1..Len(t) /\ i = Len(s) + (i - Len(s)))
  BY <1>3
<1>9. QED BY <1>4, <1>5, <1>6, <1>7, <1>8

-----------------------------------------------------------------------------
(* What the steps of a worker make of its record. *)

Emm == {"irdeto emm", "powervu emm"}

LEMMA AppendedIsList ==
    ASSUME NEW s, IsList(s), NEW x
    PROVE  /\ IsList(Append(s, x))
           /\ Len(Append(s, x)) = Len(s) + 1
           /\ \A i \in 1..Len(s) : Append(s, x)[i] = s[i]
           /\ Append(s, x)[Len(s) + 1] = x
<1> DEFINE S == {s[i] : i \in 1..Len(s)}
           U == S \cup {x}
<1>1. s \in Seq(S)
  BY DEF IsList
<1> HIDE DEF S
<1>2. s \in Seq(U) /\ x \in U
  BY <1>1, SeqMonotonic
<1> HIDE DEF U
<1>3. Append(s, x) \in Seq(U)
  BY <1>2
<1>4. IsList(Append(s, x))
  BY <1>3, ListOfSeq
<1>5. QED BY <1>2, <1>4, AppendProperties

\* The fields that matter here, of the updates the steps of a worker make.
LEMMA OneField ==
    ASSUME NEW r, IsProc(r), NEW a
    PROVE  /\ LET u == [r EXCEPT !.got = a]
              IN  u.pc = r.pc /\ u.job = r.job /\ u.got = a /\ u.result = r.result
           /\ LET u == [r EXCEPT !.alt = a]
              IN  u.pc = r.pc /\ u.job = r.job /\ u.got = r.got /\ u.result = r.result
           /\ LET u == [r EXCEPT !.pc = a]
              IN  u.pc = a /\ u.job = r.job /\ u.got = r.got /\ u.result = r.result
<1>1. PICK Y : r \in Over(Y) /\ a \in Y
  BY InOver
<1>2. QED BY <1>1 DEF Over

LEMMA GotAltFields ==
    ASSUME NEW r, IsProc(r), NEW a, NEW b
    PROVE  LET u == [r EXCEPT !.got = a, !.alt = b]
           IN  u.pc = r.pc /\ u.job = r.job /\ u.got = a /\ u.result = r.result
<1>1. PICK Y : r \in Over(Y) /\ a \in Y /\ b \in Y
  BY InOver
<1>2. QED BY <1>1 DEF Over

LEMMA PcResultFields ==
    ASSUME NEW r, IsProc(r), NEW a, NEW b
    PROVE  LET u == [r EXCEPT !.pc = a, !.result = b]
           IN  u.pc = a /\ u.job = r.job /\ u.got = r.got /\ u.result = b
<1>1. PICK Y : r \in Over(Y) /\ a \in Y /\ b \in Y
  BY InOver
<1>2. QED BY <1>1 DEF Over

LEMMA PcAddsFields ==
    ASSUME NEW r, IsProc(r), NEW a, NEW b
    PROVE  LET u == [r EXCEPT !.pc = a, !.adds = b]
           IN  u.pc = a /\ u.job = r.job /\ u.got = r.got /\ u.result = r.result
<1>1. PICK Y : r \in Over(Y) /\ a \in Y /\ b \in Y
  BY InOver
<1>2. QED BY <1>1 DEF Over

LEMMA PcJobFields ==
    ASSUME NEW r, IsProc(r), NEW a, NEW b
    PROVE  LET u == [r EXCEPT !.pc = a, !.job = b]
           IN  u.pc = a /\ u.job = b /\ u.got = r.got /\ u.result = r.result
<1>1. PICK Y : r \in Over(Y) /\ a \in Y /\ b \in Y
  BY InOver
<1>2. QED BY <1>1 DEF Over

LEMMA ArrivedIs ==
    ASSUME NEW r, IsProc(r)
    PROVE  /\ Arrived(r).job = r.job /\ Arrived(r).got = r.got
           /\ Arrived(r).result = r.result
           /\ \/ Arrived(r).pc = r.pc
              \/ Arrived(r).pc = "check" /\ r.job.sys \in Emm
<1> DEFINE new == IF r.job.sys = "irdeto emm" THEN IrdetoEmmKeys(r.job)
                  ELSE PvuEmmKeys(r.job, r.got[1].prov)
           u == [r EXCEPT !.pc = "check", !.adds = new]
<1>1. u.pc = "check" /\ u.job = r.job /\ u.got = r.got /\ u.result = r.result
  <2> HIDE DEF new
  <2>1. QED BY PcAddsFields
<1>2. (Arrived(r) = u /\ r.job.sys \in Emm) \/ Arrived(r) = r
  BY DEF Arrived, Emm
<1> HIDE DEF u
<1>3. QED BY <1>1, <1>2

-----------------------------------------------------------------------------
(* What a file says: the last addition of every key. *)

\* Two keys that are called the same.
Alike(a, b) ==
    a.type = b.type /\ a.prov = b.prov /\ a.index = b.index /\ a.name = b.name

\* Where names and indices are not mixed, the entry an addition replaces is
\* called the same, and is the addition from then on.
LEMMA UnmixedSame ==
    ASSUME NEW adds, GoodList(adds), Unmixed(adds),
           NEW i \in 1..Len(adds), NEW j \in 1..Len(adds)
    PROVE  SameKey(adds[i], adds[j]) <=> Alike(adds[i], adds[j])
<1>1. GoodKey(adds[i]) /\ GoodKey(adds[j])
  BY DEF GoodList
<1>2. Alike(adds[i], adds[j]) => SameKey(adds[i], adds[j])
  BY DEF Alike, SameKey
<1>3. SameKey(adds[i], adds[j]) => adds[i].index = adds[j].index
  BY <1>1 DEF SameKey, GoodKey
<1>4. QED BY <1>1, <1>2, <1>3 DEF Alike, SameKey, Unmixed

LEMMA AlikeUpdated ==
    ASSUME NEW old, NEW k, GoodKey(old), GoodKey(k), Alike(old, k)
    PROVE  Updated(old, k) = k
<1>1. Updated(old, k) =
        [type |-> k.type, prov |-> k.prov, index |-> k.index, name |-> k.name,
         date |-> k.date, val |-> k.val, len |-> k.len]
  BY UpdatedIs DEF Alike
<1>2. QED BY <1>1 DEF GoodKey, IsKey

LEMMA AppendedIsGood ==
    ASSUME NEW done, GoodList(done), NEW k, GoodKey(k)
    PROVE  GoodList(Append(done, k))
<1>1. /\ IsList(Append(done, k)) /\ Len(Append(done, k)) = Len(done) + 1
      /\ Len(done) \in Nat
      /\ \A i \in 1..Len(done) : Append(done, k)[i] = done[i]
      /\ Append(done, k)[Len(done) + 1] = k
  BY AppendedIsList, Lists DEF GoodList
<1>2. \A i \in 1..(Len(done) + 1) : i \in 1..Len(done) \/ i = Len(done) + 1
  BY <1>1
<1>3. QED BY <1>1, <1>2 DEF GoodList

LEMMA UnmixedBefore ==
    ASSUME NEW done, IsList(done), NEW k, Unmixed(Append(done, k))
    PROVE  Unmixed(done)
<1>1. /\ Len(Append(done, k)) = Len(done) + 1 /\ Len(done) \in Nat
      /\ \A i \in 1..Len(done) : Append(done, k)[i] = done[i]
  BY AppendedIsList, Lists
<1>2. \A i \in 1..Len(done) : i \in 1..Len(Append(done, k))
  BY <1>1
<1>3. QED BY <1>1, <1>2 DEF Unmixed

\* One more addition takes the place of the one of its key.
LEMMA LastWordOfAppend ==
    ASSUME NEW done, IsList(done), NEW k
    PROVE  LastWord(Append(done, k)) = {a \in LastWord(done) : ~SameKey(a, k)} \cup {k}
<1> DEFINE n == Len(done)
           more == Append(done, k)
           L == {j \in 1..n : \A m \in (j + 1)..n : ~SameKey(done[j], done[m])}
           M == {j \in 1..(n + 1) : \A m \in (j + 1)..(n + 1) : ~SameKey(more[j], more[m])}
<1>1. /\ Len(more) = n + 1 /\ n \in Nat
      /\ \A i \in 1..n : more[i] = done[i]
      /\ more[n + 1] = k
  BY AppendedIsList, Lists
<1>2. LastWord(done) = {done[i] : i \in L} /\ LastWord(more) = {more[i] : i \in M}
  BY <1>1 DEF LastWord
<1> HIDE DEF more
<1>3. n + 1 \in M
  BY <1>1
<1>4. ASSUME NEW j \in 1..n
      PROVE  j \in M <=> j \in L /\ ~SameKey(done[j], k)
  <2>1. j \in 1..(n + 1) /\ more[j] = done[j]
        /\ \A m \in (j + 1)..n : m \in (j + 1)..(n + 1) /\ m \in 1..n
    BY <1>1
  <2>2. \A m \in (j + 1)..(n + 1) : m \in (j + 1)..n \/ m = n + 1
    BY <1>1
  <2>3. n + 1 \in (j + 1)..(n + 1)
    BY <1>1
  <2>4. j \in M <=> \A m \in (j + 1)..(n + 1) : ~SameKey(done[j], more[m])
    BY <2>1
  <2>5. j \in L <=> \A m \in (j + 1)..n : ~SameKey(done[j], done[m])
    OBVIOUS
  <2> HIDE DEF n, L, M
  <2>6. QED BY <1>1, <2>1, <2>2, <2>3, <2>4, <2>5
<1>5. \A j \in M : j = n + 1 \/ j \in 1..n
  BY <1>1
<1>6. L \subseteq 1..n
  OBVIOUS
<1> HIDE DEF n, L, M
<1>7. QED BY <1>1, <1>2, <1>3, <1>4, <1>5, <1>6 DEF more

LEMMA LastWordGrows ==
    ASSUME NEW done, GoodList(done), NEW k, GoodKey(k), Unmixed(Append(done, k)),
           IsFiniteSet(LastWord(done))
    PROVE  LET says == LastWord(done)
               new == LastWord(Append(done, k))
           IN  /\ IsFiniteSet(new)
               /\ (\A a \in says : ~SameKey(a, k))
                    => new = says \cup {k} /\ Cardinality(new) = Cardinality(says) + 1
               /\ \A old \in says : SameKey(old, k)
                    => /\ new = (says \ {old}) \cup {k}
                       /\ Cardinality(new) = Cardinality(says)
                       /\ Updated(old, k) = k
<1> DEFINE n == Len(done)
           more == Append(done, k)
           says == LastWord(done)
           new == LastWord(more)
<1>1. /\ Len(more) = n + 1 /\ n \in Nat
      /\ \A i \in 1..n : more[i] = done[i] /\ i \in 1..Len(more)
      /\ more[n + 1] = k /\ n + 1 \in 1..Len(more)
  <2>1. IsList(done)
    BY DEF GoodList
  <2>2. QED BY <2>1, AppendedIsList, Lists
<1>2. new = {a \in says : ~SameKey(a, k)} \cup {k}
  BY LastWordOfAppend DEF GoodList
<1>3. GoodList(more) /\ Unmixed(more)
  BY AppendedIsGood
<1>4. ASSUME NEW a \in says
      PROVE  \E i \in 1..n : a = done[i] /\ \A m \in (i + 1)..n : ~SameKey(a, done[m])
  BY DEF LastWord
<1> HIDE DEF more, new, says
<1>5. ASSUME NEW a \in says
      PROVE  GoodKey(a) /\ (SameKey(a, k) <=> Alike(a, k))
  <2>1. PICK i \in 1..n : a = done[i]
    BY <1>4
  <2>2. QED BY <1>1, <1>3, <2>1, UnmixedSame DEF GoodList
<1>6. ASSUME NEW a \in says, NEW b \in says, Alike(a, b)
      PROVE  a = b
  <2>1. PICK i \in 1..n : a = done[i] /\ \A m \in (i + 1)..n : ~SameKey(a, done[m])
    BY <1>4
  <2>2. PICK j \in 1..n : b = done[j] /\ \A m \in (j + 1)..n : ~SameKey(b, done[m])
    BY <1>4
  <2>3. SameKey(a, b) /\ SameKey(b, a)
    BY <1>6 DEF Alike, SameKey
  <2>4. i = j \/ j \in (i + 1)..n \/ i \in (j + 1)..n
    BY <1>1
  <2>5. QED BY <2>1, <2>2, <2>3, <2>4
<1>7. IsFiniteSet(says)
  BY DEF says
<1>8. Alike(k, k)
  BY DEF Alike
<1>9. ASSUME \A a \in says : ~SameKey(a, k)
      PROVE  /\ IsFiniteSet(new)
             /\ new = says \cup {k} /\ Cardinality(new) = Cardinality(says) + 1
  <2>1. new = says \cup {k} /\ k \notin says
    BY <1>2, <1>5, <1>8, <1>9
  <2>2. QED BY <1>7, <2>1, FS_AddElement
<1>10. ASSUME NEW old \in says, SameKey(old, k)
       PROVE  /\ IsFiniteSet(new)
              /\ new = (says \ {old}) \cup {k}
              /\ Cardinality(new) = Cardinality(says)
              /\ Updated(old, k) = k
  <2>1. Alike(old, k)
    BY <1>5, <1>10
  <2>2. \A a \in says : SameKey(a, k) <=> a = old
    <3>1. TAKE a \in says
    <3>2. Alike(a, k) => Alike(a, old)
      BY <2>1 DEF Alike
    <3>3. QED BY <1>5, <1>6, <1>10, <3>2
  <2>3. new = (says \ {old}) \cup {k}
    BY <1>2, <2>2
  <2>4. k \notin says \ {old}
    BY <1>5, <1>8, <2>2
  <2>5. IsFiniteSet(says \ {old}) /\ Cardinality(says \ {old}) = Cardinality(says) - 1
    BY <1>7, <1>10, FS_RemoveElement
  <2>6. Cardinality(says) \in Nat
    BY <1>7, FS_CardinalityType
  <2>7. IsFiniteSet(new) /\ Cardinality(new) = Cardinality(says \ {old}) + 1
    BY <2>3, <2>4, <2>5, FS_AddElement
  <2>8. Cardinality(new) = Cardinality(says)
    <3> HIDE DEF says
    <3>1. QED BY <2>5, <2>6, <2>7
  <2>9. Updated(old, k) = k
    BY <1>5, <2>1, AlikeUpdated
  <2>10. QED BY <2>3, <2>7, <2>8, <2>9
<1>11. IsFiniteSet(new)
  BY <1>9, <1>10
<1>12. QED BY <1>9, <1>10, <1>11 DEF new, says, more

-----------------------------------------------------------------------------
(* A reload that nobody interferes with. *)

Members(ks) == {ks[i] : i \in 1..Len(ks)}

\* The list holds what the additions made so far say; or it is full, and
\* then they say at least as much.
Reflects(ks, done) ==
    LET says == LastWord(done)
    IN  /\ IsFiniteSet(says)
        /\ IF Len(ks) < MaxKeys THEN Members(ks) = says /\ Cardinality(says) = Len(ks)
           ELSE Len(ks) = MaxKeys /\ MaxKeys <= Cardinality(says)

LEMMA NothingReflected == Reflects(<<>>, <<>>) /\ GoodList(<<>>)
<1>1. Len(<<>>) = 0 /\ \A i \in 1..0 : FALSE
  OBVIOUS
<1>2. LastWord(<<>>) = {} /\ Members(<<>>) = {}
  BY <1>1 DEF LastWord, Members
<1>3. 0 < MaxKeys
  BY EmuKeysAssumption
<1>4. QED BY <1>1, <1>2, <1>3, FS_EmptySet, EmptyIsTidy DEF Reflects, Tidy

\* A key inserted, where the limit is not reached.
LEMMA InsertReflects ==
    ASSUME NEW ks, Tidy(ks), Len(ks) < MaxKeys, NEW k, GoodKey(k),
           NEW done, GoodList(done), Unmixed(Append(done, k)), Reflects(ks, done)
    PROVE  Reflects(Insert(ks, k), Append(done, k))
<1> DEFINE says == LastWord(done)
           new == LastWord(Append(done, k))
           out == Insert(ks, k)
<1>1. /\ IsFiniteSet(says) /\ Members(ks) = says /\ Cardinality(says) = Len(ks)
  BY DEF Reflects
<1>2. Len(ks) \in Nat /\ IsList(ks) /\ MaxKeys \in Nat
  BY Lists, EmuKeysAssumption DEF Tidy, GoodList
<1>3. /\ IsFiniteSet(new)
      /\ (\A a \in says : ~SameKey(a, k))
           => new = says \cup {k} /\ Cardinality(new) = Cardinality(says) + 1
      /\ \A old \in says : SameKey(old, k)
           => /\ new = (says \ {old}) \cup {k}
              /\ Cardinality(new) = Cardinality(says)
              /\ Updated(old, k) = k
  BY <1>1, LastWordGrows
<1> HIDE DEF says, new
<1>4. CASE \E j \in 1..Len(ks) : SameKey(ks[j], k)
  <2>1. PICK i \in 1..Len(ks) :
                SameKey(ks[i], k) /\ out = [ks EXCEPT ![i] = Updated(ks[i], k)]
    BY <1>2, <1>4, InsertReplaces
  <2>2. ks[i] \in says
    BY <1>1, <2>1 DEF Members
  <2>3. new = (says \ {ks[i]}) \cup {k} /\ Cardinality(new) = Cardinality(says)
        /\ out = [ks EXCEPT ![i] = k]
    BY <1>3, <2>1, <2>2
  <2> HIDE DEF out
  <2>4. Len(out) = Len(ks) /\ out[i] = k
        /\ \A j \in 1..Len(ks) : j # i => out[j] = ks[j]
    <3> DEFINE S == {ks[j] : j \in 1..Len(ks)}
               T == S \cup {k}
    <3>1. ks \in Seq(S)
      BY <1>2 DEF IsList
    <3> HIDE DEF S
    <3>2. ks \in Seq(T) /\ k \in T
      BY <3>1, SeqMonotonic
    <3> HIDE DEF T
    <3>3. QED BY <2>1, <2>3, <3>2, ExceptSeq
  <2>5. \A j \in 1..Len(ks) : j # i => ks[j] # ks[i]
    <3>1. \A a : SameKey(a, a)
      BY DEF SameKey
    <3>2. QED BY <2>1, <3>1 DEF Tidy, OnePerKey
  <2>6. Members(out) = (Members(ks) \ {ks[i]}) \cup {k}
    BY <2>1, <2>4, <2>5 DEF Members
  <2>7. QED BY <1>1, <1>3, <2>3, <2>4, <2>6 DEF Reflects, new, out
<1>5. CASE ~ \E j \in 1..Len(ks) : SameKey(ks[j], k)
  <2>1. out = <<k>> \o ks
    BY <1>5, InsertPrepends
  <2>2. \A a \in says : ~SameKey(a, k)
    BY <1>1, <1>5 DEF Members
  <2>3. new = says \cup {k} /\ Cardinality(new) = Len(ks) + 1
    BY <1>1, <1>3, <2>2
  <2> HIDE DEF out
  <2>4. /\ Len(out) = Len(ks) + 1
        /\ out[1] = k
        /\ \A j \in 1..Len(ks) : out[1 + j] = ks[j] /\ 1 + j \in 1..Len(out)
        /\ \A j \in 1..Len(out) : j = 1 \/ \E m \in 1..Len(ks) : j = 1 + m
    <3>1. <<k>> \in Seq({k}) /\ Len(<<k>>) = 1 /\ <<k>>[1] = k
      OBVIOUS
    <3>2. IsList(<<k>>)
      BY <3>1, ListOfSeq
    <3>3. /\ Len(out) = 1 + Len(ks)
          /\ \A i \in 1..1 : out[i] = <<k>>[i]
          /\ \A i \in 1..Len(ks) : out[1 + i] = ks[i]
      BY <1>2, <2>1, <3>1, <3>2, Concatenated
    <3>4. \A j \in 1..(1 + Len(ks)) : j = 1 \/ (j - 1 \in 1..Len(ks) /\ j = 1 + (j - 1))
      BY <1>2
    <3>5. QED BY <1>2, <3>1, <3>3, <3>4
  <2>5. Members(out) = Members(ks) \cup {k}
    <3>1. 1 \in 1..Len(out)
      BY <1>2, <2>4
    <3>2. ASSUME NEW x \in Members(out)
          PROVE  x \in Members(ks) \cup {k}
      BY <2>4 DEF Members
    <3>3. ASSUME NEW x \in Members(ks) \cup {k}
          PROVE  x \in Members(out)
      BY <2>4, <3>1 DEF Members
    <3>4. QED BY <3>2, <3>3
  <2>6. Len(out) < MaxKeys \/ Len(out) = MaxKeys
    BY <1>2, <2>4
  <2>7. QED BY <1>1, <1>2, <1>3, <2>3, <2>4, <2>5, <2>6 DEF Reflects, new, out
<1>6. QED BY <1>4, <1>5

\* A key that is not inserted, as the limit is reached.
LEMMA FullReflects ==
    ASSUME NEW ks, IsList(ks), ~(Len(ks) < MaxKeys), NEW k, GoodKey(k),
           NEW done, GoodList(done), Unmixed(Append(done, k)), Reflects(ks, done)
    PROVE  Reflects(ks, Append(done, k))
<1> DEFINE says == LastWord(done)
           new == LastWord(Append(done, k))
<1>1. IsFiniteSet(says) /\ Len(ks) = MaxKeys /\ MaxKeys <= Cardinality(says)
  BY DEF Reflects
<1>2. /\ IsFiniteSet(new)
      /\ Cardinality(new) = Cardinality(says) \/ Cardinality(new) = Cardinality(says) + 1
  BY <1>1, LastWordGrows
<1>3. Cardinality(says) \in Nat /\ MaxKeys \in Nat
  BY <1>1, FS_CardinalityType, EmuKeysAssumption
<1>4. MaxKeys <= Cardinality(new)
  <2> HIDE DEF says, new
  <2>1. QED BY <1>1, <1>2, <1>3
<1>5. QED BY <1>1, <1>2, <1>4 DEF Reflects

\* The first of the additions that are left is made.
LEMMA Moved ==
    ASSUME NEW done, IsList(done), NEW adds, IsList(adds), Len(adds) > 0
    PROVE  Append(done, Head(adds)) \o Tail(adds) = done \o adds
<1> DEFINE S == {done[i] : i \in 1..Len(done)}
           T == {adds[i] : i \in 1..Len(adds)}
           U == S \cup T
<1>1. done \in Seq(S) /\ adds \in Seq(T)
  BY DEF IsList
<1> HIDE DEF S, T
<1>2. done \in Seq(U) /\ adds \in Seq(U) /\ adds # <<>> /\ Len(adds) \in Nat
  BY <1>1, SeqMonotonic, LenProperties
<1> HIDE DEF U
<1>3. Head(adds) \in U /\ Tail(adds) \in Seq(U) /\ Head(adds) = adds[1]
      /\ Tail(adds) = SubSeq(adds, 2, Len(adds))
  BY <1>2, HeadTailProperties, TailIsSubSeq
<1>4. adds = <<Head(adds)>> \o Tail(adds)
  <2>1. 1 \in 1..Len(adds) /\ Len(adds) \in 1..Len(adds)
    BY <1>2
  <2>2. SubSeq(adds, 1, Len(adds)) = <<adds[1]>> \o SubSeq(adds, 1 + 1, Len(adds))
    BY <1>2, <2>1, SubSeqRecursiveFirst
  <2>3. QED BY <1>2, <1>3, <2>2, SubSeqFull
<1>5. Append(done, Head(adds)) = done \o <<Head(adds)>>
  BY <1>2, <1>3, AppendIsConcat
<1>6. <<Head(adds)>> \in Seq(U)
  BY <1>3
<1>7. (done \o <<Head(adds)>>) \o Tail(adds) = done \o (<<Head(adds)>> \o Tail(adds))
  BY <1>2, <1>3, <1>6, ConcatAssociative
<1>8. QED BY <1>4, <1>5, <1>7

\* What the lines read so far add.
LEMMA AdditionsAre ==
    ASSUME NEW lines, IsList(lines)
    PROVE  /\ AdditionsTo(lines)[0] = <<>>
           /\ \A i \in 1..Len(lines) :
                 AdditionsTo(lines)[i] = AdditionsTo(lines)[i - 1] \o EmuParseLine(lines[i])
<1> DEFINE n == Len(lines)
           A == [i \in 1..n |-> EmuParseLine(lines[i])]
<1>1. n \in Nat
  BY Lists
<1>2. PICK f : f = [i \in 0..n |-> IF i = 0 THEN <<>> ELSE f[i - 1] \o A[i]]
  <2> HIDE DEF A, n
  <2>1. PICK f : Sums(0, n, <<>>, A, f)
    BY <1>1, Accumulates
  <2>2. QED BY <2>1 DEF Sums
<1>3. f = [i \in 0..n |-> IF i = 0 THEN <<>> ELSE f[i - 1] \o EmuParseLine(lines[i])]
  <2>1. \A i \in 0..n : i = 0 \/ i \in 1..n
    BY <1>1
  <2>2. \A i \in 1..n : A[i] = EmuParseLine(lines[i])
    OBVIOUS
  <2> HIDE DEF A, n
  <2>3. QED BY <1>2, <2>1, <2>2
<1>4. AdditionsTo(lines) = CHOOSE g : g = [i \in 0..n |->
                  IF i = 0 THEN <<>> ELSE g[i - 1] \o EmuParseLine(lines[i])]
  BY DEF AdditionsTo
<1> HIDE DEF n
<1>5. AdditionsTo(lines) = [i \in 0..n |->
          IF i = 0 THEN <<>> ELSE AdditionsTo(lines)[i - 1] \o EmuParseLine(lines[i])]
  BY <1>3, <1>4
<1>6. 0 \in 0..n /\ \A i \in 1..n : i \in 0..n /\ i # 0
  BY <1>1
<1>7. QED BY <1>5, <1>6 DEF n

-----------------------------------------------------------------------------

\* A reload that stands at pc before line n, with adds still to be made, has
\* made the additions of the lines before: the list reflects them.
Made(ks, lines, n, adds) ==
    \E done : /\ GoodList(done)
              /\ AdditionsTo(lines)[n - 1] = done \o adds
              /\ Unmixed(done) => Reflects(ks, done)
Loading(ks, lines, pc, n, adds) ==
    /\ pc \in {"open", "read", "check", "insert"}
    /\ n \in 1..(Len(lines) + 1)
    /\ GoodList(adds)
    /\ pc \in {"open", "read"} => adds = <<>>
    /\ pc \in {"check", "insert"} => Len(adds) > 0
    /\ pc = "insert" => Len(ks) < MaxKeys
    /\ Made(ks, lines, n, adds)

\* Before the first load nothing happens.
QInv ==
    /\ reloads \in Nat
    /\ reloads = 0 => keys = <<>> /\ \A p \in Proc : proc[p].pc = "idle"
    /\ IsList(file)
    /\ \A r \in quiet : /\ r \in Reloader /\ quiet = {r}
                        /\ Loading(keys, file, proc[r].pc, proc[r].n, proc[r].adds)

\* A thread's step, which only its own reload takes part in.
LEMMA StepReflects ==
    ASSUME IInv, QInv, NEW p \in Proc, NEW u, Set(p, u),
           reloads' \in Nat, reloads' # 0, IsList(file'),
           quiet' \subseteq quiet \/ quiet' = {p},
           \A r \in quiet' : r # p => keys' = keys /\ file' = file,
           p \in quiet' => p \in Reloader /\ Loading(keys', file', u.pc, u.n, u.adds)
    PROVE  QInv'
<1>1. \A q \in Proc : proc'[q] = IF q = p THEN u ELSE proc[q]
  <2>1. PICK Y : proc \in [Proc -> Over(Y)]
    BY DEF IInv
  <2>2. QED BY <2>1 DEF Set
<1>2. ASSUME NEW r \in quiet'
      PROVE  /\ r \in Reloader /\ quiet' = {r}
             /\ Loading(keys', file', proc'[r].pc, proc'[r].n, proc'[r].adds)
  <2>1. r \in Reloader /\ quiet' = {r}
    BY <1>2 DEF QInv
  <2>2. r \in Proc
    BY <2>1 DEF Proc
  <2>3. CASE r = p
    BY <1>1, <1>2, <2>1, <2>2, <2>3
  <2>4. CASE r # p
    <3>1. keys' = keys /\ file' = file /\ r \in quiet /\ proc'[r] = proc[r]
      BY <1>1, <1>2, <2>2, <2>4
    <3>2. QED BY <2>1, <3>1 DEF QInv
  <2>5. QED BY <2>3, <2>4
<1>3. QED BY <1>2 DEF QInv

\* The list, the file and the reloads nobody interferes with are as before,
\* and the thread is none of them.
LEMMA AsideReflects ==
    ASSUME IInv, QInv, NEW p \in Proc, NEW u, Set(p, u), reloads # 0,
           keys' = keys, file' = file, reloads' = reloads, quiet' \subseteq quiet,
           p \in quiet' => Loading(keys, file, u.pc, u.n, u.adds)
    PROVE  QInv'
<1>1. reloads \in Nat /\ IsList(file)
  BY DEF QInv
<1>2. p \in quiet' => p \in Reloader
  BY DEF QInv
<1>3. QED BY <1>1, <1>2, StepReflects

\* Who does something was let in by the first load.
LEMMA BusyHasBegun ==
    ASSUME QInv, NEW p \in Proc, proc[p].pc # "idle" \/ Running
    PROVE  reloads # 0
BY DEF QInv, Running

LEMMA MadeAtStart ==
    ASSUME NEW lines, IsList(lines)
    PROVE  Made(<<>>, lines, 1, <<>>) /\ GoodList(<<>>) /\ 1 \in 1..(Len(lines) + 1)
<1>1. AdditionsTo(lines)[1 - 1] = <<>> \o <<>>
  <2>1. <<>> \o <<>> = <<>> /\ 1 - 1 = 0
    OBVIOUS
  <2>2. QED BY <2>1, AdditionsAre
<1>2. Len(lines) \in Nat
  BY Lists
<1>3. QED BY <1>1, <1>2, NothingReflected DEF Made

\* One addition is made, or dropped at the limit.
LEMMA MadeNext ==
    ASSUME NEW ks, Tidy(ks), NEW lines, NEW n, NEW adds, GoodList(adds), Len(adds) > 0,
           Made(ks, lines, n, adds), NEW new,
           new = IF Len(ks) < MaxKeys THEN Insert(ks, Head(adds)) ELSE ks
    PROVE  Made(new, lines, n, Tail(adds)) /\ GoodList(Tail(adds))
<1> DEFINE k == Head(adds)
<1>1. PICK done : /\ GoodList(done)
                  /\ AdditionsTo(lines)[n - 1] = done \o adds
                  /\ Unmixed(done) => Reflects(ks, done)
  BY DEF Made
<1>2. GoodKey(k) /\ GoodList(Tail(adds))
  BY ShorterIsGood
<1>3. GoodList(Append(done, k))
  BY <1>1, <1>2, AppendedIsGood
<1>4. AdditionsTo(lines)[n - 1] = Append(done, k) \o Tail(adds)
  BY <1>1, Moved DEF GoodList
<1>5. ASSUME Unmixed(Append(done, k))
      PROVE  Reflects(new, Append(done, k))
  <2>1. Unmixed(done)
    BY <1>1, <1>5, UnmixedBefore DEF GoodList
  <2>2. IsList(ks)
    BY DEF Tidy, GoodList
  <2>3. CASE Len(ks) < MaxKeys
    BY <1>1, <1>2, <1>5, <2>1, <2>3, InsertReflects
  <2>4. CASE ~(Len(ks) < MaxKeys)
    BY <1>1, <1>2, <1>5, <2>1, <2>2, <2>4, FullReflects
  <2>5. QED BY <2>3, <2>4
<1>6. QED BY <1>2, <1>3, <1>4, <1>5 DEF Made

\* A line is read.
LEMMA MadeLine ==
    ASSUME NEW ks, NEW lines, IsList(lines), NEW n \in 1..Len(lines),
           Made(ks, lines, n, <<>>)
    PROVE  Made(ks, lines, n + 1, EmuParseLine(lines[n]))
<1>1. PICK done : /\ GoodList(done)
                  /\ AdditionsTo(lines)[n - 1] = done \o <<>>
                  /\ Unmixed(done) => Reflects(ks, done)
  BY DEF Made
<1>2. done \o <<>> = done
  BY <1>1, ConcatEmptySeq DEF GoodList, IsList
<1>3. AdditionsTo(lines)[n] = done \o EmuParseLine(lines[n])
  BY <1>1, <1>2, AdditionsAre
<1>4. Len(lines) \in Nat
  BY Lists
<1>5. n + 1 - 1 = n
  BY <1>4
<1>6. QED BY <1>1, <1>3, <1>5 DEF Made

\* The fields of a reload after its steps.
LEMMA LoadFields ==
    ASSUME NEW r, IsProc(r), NEW a
    PROVE  LET u == [r EXCEPT !.pc = a]
           IN  u.pc = a /\ u.n = r.n /\ u.adds = r.adds
<1>1. PICK Y : r \in Over(Y) /\ a \in Y
  BY InOver
<1>2. QED BY <1>1 DEF Over

LEMMA OpenFields ==
    ASSUME NEW old
    PROVE  LET u == [Idle EXCEPT !.pc = "open", !.old = old]
           IN  u.pc = "open" /\ u.n = 1 /\ u.adds = <<>>
BY DEF Idle

\* What a reload is when it has dealt with the first of its keys.
LEMMA RestFields ==
    ASSUME NEW p \in Proc, p \notin Worker, IsProc(proc[p])
    PROVE  /\ Rest(p).adds = Tail(proc[p].adds) /\ Rest(p).n = proc[p].n
           /\ Rest(p).pc = IF Len(proc[p].adds) > 1 THEN "check" ELSE "read"
<1> DEFINE r == proc[p]
           x == IF Len(r.adds) > 1 THEN "check" ELSE "read"
<1>1. Rest(p) = [r EXCEPT !.adds = Tail(r.adds), !.pc = x, !.result = r.result]
  BY DEF Rest
<1>2. PICK Y : r \in Over(Y)
  BY DEF IsProc
<1> HIDE DEF r, x
<1>3. Rest(p).adds = Tail(r.adds) /\ Rest(p).n = r.n /\ Rest(p).pc = x
  BY <1>1, <1>2 DEF Over
<1>4. QED BY <1>3 DEF r, x

LEMMA RestLength ==
    ASSUME NEW adds, GoodList(adds), Len(adds) > 0
    PROVE  IF Len(adds) > 1 THEN Len(Tail(adds)) > 0 ELSE Tail(adds) = <<>>
<1>1. Len(adds) \in Nat /\ IsList(Tail(adds)) /\ Len(Tail(adds)) = Len(adds) - 1
  BY ShorterIsGood, Lists DEF GoodList
<1>2. Tail(adds) # <<>> => Len(Tail(adds)) > 0
  BY <1>1, EmptySeq DEF IsList
<1>3. QED BY <1>1, <1>2

LEMMA AddCheckReflects ==
    ASSUME IInv, QInv, NEW p \in Proc, AddCheck(p)
    PROVE  QInv'
<1> DEFINE q == proc[p]
           u == IF AtLimit THEN After(p) ELSE [q EXCEPT !.pc = "insert"]
<1>1. Set(p, u) /\ q.pc = "check" /\ reloads # 0 /\ IsProc(q)
      /\ UNCHANGED <<keys, file, reloads, quiet>>
  BY BusyHasBegun, ProcsAreProcs DEF AddCheck
<1>2. ASSUME p \in quiet
      PROVE  Loading(keys, file, u.pc, u.n, u.adds)
  <2>1. /\ p \in Reloader /\ p \notin Worker
        /\ Loading(keys, file, q.pc, q.n, q.adds)
    BY <1>2, EmulatorAssumption DEF QInv
  <2>2. Tidy(keys) /\ Len(keys) \in Nat /\ MaxKeys \in Nat
    BY Lists, EmuKeysAssumption DEF IInv, Tidy, GoodList
  <2>3. CASE AtLimit
    <3>1. u = Rest(p) /\ ~(Len(keys) < MaxKeys)
      BY <2>1, <2>2, <2>3 DEF After, AtLimit
    <3>2. /\ u.adds = Tail(q.adds) /\ u.n = q.n
          /\ u.pc = IF Len(q.adds) > 1 THEN "check" ELSE "read"
      BY <1>1, <2>1, <3>1, RestFields
    <3>3. Made(keys, file, q.n, Tail(q.adds)) /\ GoodList(Tail(q.adds))
      BY <1>1, <2>1, <2>2, <3>1, MadeNext DEF Loading
    <3> HIDE DEF u
    <3>4. QED BY <1>1, <2>1, <3>2, <3>3, RestLength DEF Loading
  <2>4. CASE ~AtLimit
    <3>1. u.pc = "insert" /\ u.n = q.n /\ u.adds = q.adds
      BY <1>1, <2>4, LoadFields
    <3>2. Len(keys) < MaxKeys
      BY <2>2, <2>4 DEF AtLimit
    <3> HIDE DEF u
    <3>3. QED BY <1>1, <2>1, <3>1, <3>2 DEF Loading
  <2>5. QED BY <2>3, <2>4
<1> HIDE DEF u
<1>3. QED BY <1>1, <1>2, AsideReflects

LEMMA AddInsertReflects ==
    ASSUME IInv, QInv, NEW p \in Proc, AddInsert(p)
    PROVE  QInv'
<1> DEFINE q == proc[p]
           u == After(p)
<1>1. Set(p, u) /\ q.pc = "insert" /\ reloads # 0 /\ IsProc(q)
      /\ file' = file /\ reloads' = reloads /\ quiet' = quiet \cap {p}
      /\ keys' = Insert(keys, NextKey(p))
  BY BusyHasBegun, ProcsAreProcs DEF AddInsert
<1>2. ASSUME p \in quiet'
      PROVE  p \in Reloader /\ Loading(keys', file', u.pc, u.n, u.adds)
  <2>1. /\ p \in Reloader /\ p \notin Worker
        /\ Loading(keys, file, q.pc, q.n, q.adds)
    BY <1>1, <1>2, EmulatorAssumption DEF QInv
  <2>2. u = Rest(p) /\ NextKey(p) = Head(q.adds)
    BY <2>1 DEF After, NextKey
  <2>3. /\ u.adds = Tail(q.adds) /\ u.n = q.n
        /\ u.pc = IF Len(q.adds) > 1 THEN "check" ELSE "read"
    BY <1>1, <2>1, <2>2, RestFields
  <2>4. Tidy(keys)
    BY DEF IInv
  <2>5. Made(keys', file, q.n, Tail(q.adds)) /\ GoodList(Tail(q.adds))
    BY <1>1, <2>1, <2>2, <2>4, MadeNext DEF Loading
  <2> HIDE DEF u
  <2>6. QED BY <1>1, <2>1, <2>3, <2>5, RestLength DEF Loading
<1>3. reloads \in Nat /\ IsList(file)
  BY DEF QInv
<1> HIDE DEF u
<1>4. QED BY <1>1, <1>2, <1>3, StepReflects

LEMMA WorkReflects ==
    ASSUME IInv, QInv, NEW w \in Worker, Begin(w) \/ Work(w) \/ End(w)
    PROVE  QInv'
<1>1. w \in Proc /\ w \notin Reloader
  BY EmulatorAssumption DEF Proc
<1>2. UNCHANGED <<keys, file, reloads, quiet>>
  BY DEF Begin, Work, Lookup, Skip, Decode, End
<1>3. reloads # 0
  BY <1>1, BusyHasBegun DEF Begin, Work, End
<1>4. \E u : Set(w, u)
  <2>1. CASE Begin(w)
    BY <2>1 DEF Begin
  <2>2. CASE End(w)
    BY <2>2 DEF End
  <2>3. CASE Work(w)
    <3>1. PICK plan : Lookup(w, plan) \/ Skip(w, plan) \/ Decode(w, plan)
      BY <2>3 DEF Work
    <3>2. QED BY <3>1 DEF Lookup, Skip, Decode
  <2>4. QED BY <2>1, <2>2, <2>3
<1>5. w \notin quiet
  BY <1>1 DEF QInv
<1>6. QED BY <1>1, <1>2, <1>3, <1>4, <1>5, AsideReflects

LEMMA PersistReflects ==
    ASSUME IInv, QInv, NEW w \in Worker, Persist(w)
    PROVE  QInv'
<1>1. w \in Proc /\ w \notin quiet
  BY EmulatorAssumption DEF Proc, QInv
<1>2. Set(w, Rest(w)) /\ reloads' = reloads /\ reloads # 0 /\ keys' = keys
  BY <1>1, BusyHasBegun DEF Persist
<1>3. /\ reloads \in Nat /\ IsList(file)
      /\ \/ file' = file /\ quiet' = quiet
         \/ quiet' = {} /\ \E l : file' = Append(file, l)
  BY DEF Persist, QInv
<1>4. IsList(file')
  <2>1. CASE file' = file
    BY <1>3, <2>1
  <2>2. CASE \E l : file' = Append(file, l)
    <3>1. PICK l : file' = Append(file, l)
      BY <2>2
    <3>2. IsList(Append(file, l))
      BY <1>3, AppendedIsList
    <3>3. QED BY <3>1, <3>2
  <2>3. QED BY <1>3, <2>1, <2>2
<1> HIDE DEF Rest
<1>5. QED BY <1>1, <1>2, <1>3, <1>4, StepReflects

LEMMA LoadReflects ==
    ASSUME IInv, QInv, NEW r \in Reloader, ReloaderStep(r)
    PROVE  QInv'
<1> DEFINE q == proc[r]
<1>1. r \in Proc /\ IsProc(q) /\ reloads # 0 /\ reloads \in Nat /\ IsList(file)
  BY BusyHasBegun, ProcsAreProcs
     DEF Proc, QInv, ReloaderStep, OpenWorks, Restore, ReadLine, Loaded
<1>2. r \in quiet => Loading(keys, file, q.pc, q.n, q.adds)
  BY DEF QInv
<1>3. CASE OpenWorks(r)
  <2> DEFINE u == [q EXCEPT !.pc = "read", !.old = <<>>]
  <2>1. Set(r, u) /\ q.pc = "open" /\ UNCHANGED <<keys, file, reloads, quiet>>
    BY <1>3 DEF OpenWorks
  <2>2. u.pc = "read" /\ u.n = q.n /\ u.adds = q.adds
    <3>1. PICK Y : q \in Over(Y)
      BY <1>1 DEF IsProc
    <3> HIDE DEF q
    <3>2. QED BY <3>1 DEF Over
  <2> HIDE DEF u
  <2>3. r \in quiet => Loading(keys, file, u.pc, u.n, u.adds)
    BY <1>2, <2>1, <2>2 DEF Loading
  <2>4. QED BY <1>1, <2>1, <2>3, AsideReflects
<1>4. CASE ReadLine(r)
  <2> DEFINE new == EmuParseLine(file[q.n])
             x == IF new = <<>> THEN "read" ELSE "check"
             u == [q EXCEPT !.n = q.n + 1, !.adds = new, !.pc = x]
  <2>1. Set(r, u) /\ q.pc = "read" /\ q.n <= Len(file)
        /\ UNCHANGED <<keys, file, reloads, quiet>>
    BY <1>4 DEF ReadLine
  <2>2. u.pc = x /\ u.n = q.n + 1 /\ u.adds = new
    <3>1. PICK Y : q \in Over(Y)
      BY <1>1 DEF IsProc
    <3> HIDE DEF q, new, x
    <3>2. QED BY <3>1 DEF Over
  <2>3. GoodList(new) /\ (x = "check" => Len(new) > 0)
    <3>1. GoodList(new)
      BY ParsedIsGood
    <3> HIDE DEF new
    <3>2. new # <<>> => Len(new) > 0
      BY <3>1, EmptySeq, LenProperties DEF GoodList, IsList
    <3>3. QED BY <3>1, <3>2
  <2>4. ASSUME r \in quiet
        PROVE  Loading(keys, file, u.pc, u.n, u.adds)
    <3>1. /\ q.n \in 1..(Len(file) + 1) /\ Made(keys, file, q.n, <<>>)
          /\ Len(file) \in Nat
      BY <1>1, <1>2, <2>1, <2>4, Lists DEF Loading
    <3>2. q.n \in 1..Len(file) /\ q.n + 1 \in 1..(Len(file) + 1)
      BY <2>1, <3>1
    <3>3. Made(keys, file, q.n + 1, new)
      <4> HIDE DEF q
      <4>1. QED BY <1>1, <3>1, <3>2, MadeLine
    <3> HIDE DEF u, new
    <3>4. QED BY <2>2, <2>3, <3>2, <3>3 DEF Loading
  <2> HIDE DEF u
  <2>5. QED BY <1>1, <2>1, <2>4, AsideReflects
<1>5. CASE Restore(r)
  BY <1>1, <1>5, StepReflects DEF Restore
<1>6. CASE Loaded(r)
  <2>1. Set(r, Idle) /\ quiet' = quiet \ {r} /\ UNCHANGED <<keys, file, reloads>>
    BY <1>6 DEF Loaded
  <2>2. quiet' \subseteq quiet /\ r \notin quiet'
    BY <2>1
  <2>3. QED BY <1>1, <2>1, <2>2, AsideReflects
<1>7. QED BY <1>3, <1>4, <1>5, <1>6 DEF ReloaderStep

LEMMA TakeReflects ==
    ASSUME IInv, QInv, NEW r \in Reloader, Take(r)
    PROVE  QInv'
<1> DEFINE u == [Idle EXCEPT !.pc = "open", !.old = keys]
<1>1. Set(r, u) /\ keys' = <<>> /\ reloads' = reloads + 1 /\ file' = file
      /\ (quiet' = {} \/ quiet' = {r})
  BY DEF Take
<1>2. r \in Proc /\ reloads \in Nat /\ IsList(file)
  BY DEF Proc, QInv
<1>3. u.pc = "open" /\ u.n = 1 /\ u.adds = <<>>
  BY OpenFields
<1> HIDE DEF u
<1>4. Loading(keys', file', u.pc, u.n, u.adds)
  BY <1>1, <1>2, <1>3, MadeAtStart DEF Loading
<1>5. reloads' \in Nat /\ reloads' # 0 /\ IsList(file')
  BY <1>1, <1>2
<1>6. QED BY <1>1, <1>2, <1>4, <1>5, StepReflects

LEMMA EmuInitReflects ==
    ASSUME IInv, QInv, EmuInit
    PROVE  QInv'
<1> DEFINE u == [Idle EXCEPT !.pc = "open"]
<1>1. Set(Main, u) /\ keys' = <<>> /\ reloads' = 1 /\ file' = file /\ quiet' = {Main}
  BY DEF EmuInit, QInv
<1>2. Main \in Proc /\ Main \in Reloader /\ IsList(file)
  BY EmulatorAssumption DEF Proc, QInv
<1>3. u.pc = "open" /\ u.n = 1 /\ u.adds = <<>>
  BY DEF Idle
<1> HIDE DEF u
<1>4. Loading(keys', file', u.pc, u.n, u.adds)
  BY <1>1, <1>2, <1>3, MadeAtStart DEF Loading
<1>5. QED BY <1>1, <1>2, <1>4, StepReflects

LEMMA InitReflects == Init => QInv
BY EmulatorAssumption, IdleIsProc DEF Init, QInv

LEMMA NextReflects == IInv /\ QInv /\ [Next]_vars => QInv'
<1> SUFFICES ASSUME IInv, QInv, [Next]_vars PROVE QInv'
  OBVIOUS
<1>1. CASE EmuInit
  BY <1>1, EmuInitReflects
<1>2. ASSUME NEW w \in Worker, Begin(w) \/ WorkerStep(w)
      PROVE  QInv'
  BY <1>2, WorkReflects, PersistReflects DEF WorkerStep
<1>3. ASSUME NEW r \in Reloader, Take(r) \/ ReloaderStep(r)
      PROVE  QInv'
  BY <1>3, TakeReflects, LoadReflects
<1>4. ASSUME NEW p \in Proc, Adding(p)
      PROVE  QInv'
  BY <1>4, AddCheckReflects, AddInsertReflects DEF Adding
<1>5. CASE Edit
  <2>1. UNCHANGED <<keys, proc, reloads>> /\ quiet' = {} /\ file' \in Files
    BY <1>5 DEF Edit
  <2>2. QED BY <2>1, EmulatorAssumption DEF QInv
<1>6. CASE UNCHANGED vars
  BY <1>6 DEF vars, QInv
<1>7. QED BY <1>1, <1>2, <1>3, <1>4, <1>5, <1>6 DEF Next

\* The steps that end a reload.
LEMMA ReloadEnds ==
    ASSUME IInv, QInv, [Next]_vars, NEW r \in Reloader, proc'[r].pc = "idle",
           proc[r].pc \in {"open", "read"}
    PROVE  IF proc[r].pc = "open" THEN Restore(r) ELSE Loaded(r)
<1>1. r \in Proc /\ r \notin Worker
  BY EmulatorAssumption DEF Proc
<1>2. ASSUME NEW p \in Proc, NEW u, Set(p, u)
      PROVE  proc'[r] = IF r = p THEN u ELSE proc[r]
  <2>1. PICK Y : proc \in [Proc -> Over(Y)]
    BY DEF IInv
  <2>2. QED BY <1>1, <1>2, <2>1 DEF Set
<1>3. ASSUME NEW w \in Worker, Begin(w) \/ WorkerStep(w)
      PROVE  FALSE
  <2>1. w \in Proc /\ w # r
    BY <1>1 DEF Proc
  <2>2. PICK u : Set(w, u)
    <3>1. CASE Work(w)
      <4>1. PICK plan : Lookup(w, plan) \/ Skip(w, plan) \/ Decode(w, plan)
        BY <3>1 DEF Work
      <4>2. QED BY <4>1 DEF Lookup, Skip, Decode
    <3>2. QED BY <1>3, <3>1 DEF Begin, WorkerStep, End, Persist
  <2>3. QED BY <1>2, <2>1, <2>2
<1>4. ASSUME NEW p \in Proc, Adding(p)
      PROVE  FALSE
  <2>1. PICK u : Set(p, u) /\ proc[p].pc \in {"check", "insert"}
    BY <1>4 DEF Adding, AddCheck, AddInsert
  <2>2. QED BY <1>2, <2>1
<1>5. ASSUME NEW s \in Reloader, Take(s)
      PROVE  FALSE
  <2>1. Set(s, [Idle EXCEPT !.pc = "open", !.old = keys]) /\ proc[s].pc = "idle"
        /\ s \in Proc
    BY <1>5 DEF Take, Proc
  <2>2. QED BY <1>2, <2>1
<1>6. ~EmuInit
  BY <1>1 DEF EmuInit, QInv
<1>7. ASSUME NEW s \in Reloader, ReloaderStep(s)
      PROVE  IF proc[r].pc = "open" THEN Restore(r) ELSE Loaded(r)
  <2>1. s \in Proc
    BY DEF Proc
  <2>2. CASE OpenWorks(s)
    <3> DEFINE u == [proc[s] EXCEPT !.pc = "read", !.old = <<>>]
    <3>1. Set(s, u)
      BY <2>2 DEF OpenWorks
    <3>2. u.pc = "read"
      <4>1. PICK Y : proc[s] \in Over(Y)
        BY <2>1, ProcsAreProcs DEF IsProc
      <4>2. QED BY <4>1 DEF Over
    <3> HIDE DEF u
    <3>3. QED BY <1>2, <2>1, <3>1, <3>2
  <2>3. CASE ReadLine(s)
    <3> DEFINE new == EmuParseLine(file[proc[s].n])
               x == IF new = <<>> THEN "read" ELSE "check"
               u == [proc[s] EXCEPT !.n = proc[s].n + 1, !.adds = new, !.pc = x]
    <3>1. Set(s, u)
      BY <2>3 DEF ReadLine
    <3>2. x # "idle"
      OBVIOUS
    <3>3. u.pc = x
      <4> HIDE DEF new, x
      <4>1. PICK Y : proc[s] \in Over(Y)
        BY <2>1, ProcsAreProcs DEF IsProc
      <4>2. QED BY <4>1 DEF Over
    <3> HIDE DEF u, x
    <3>4. QED BY <1>2, <2>1, <3>1, <3>2, <3>3
  <2>4. CASE Restore(s)
    BY <1>2, <2>1, <2>4 DEF Restore
  <2>5. CASE Loaded(s)
    BY <1>2, <2>1, <2>5 DEF Loaded
  <2>6. QED BY <1>7, <2>2, <2>3, <2>4, <2>5 DEF ReloaderStep
<1>8. ~Edit /\ ~UNCHANGED vars
  BY DEF Edit, vars
<1>9. QED BY <1>3, <1>4, <1>5, <1>6, <1>7, <1>8 DEF Next

\* A reload that nobody interferes with ends with what the file says, the
\* last line of each key, or full; one that cannot open the file ends with
\* the keys there were (cccam3_emu.c:81-132, 283-312).
THEOREM ReloadsGiveFile == Spec => ReloadIsFile
<1>1. ASSUME IInv, QInv, [Next]_vars, NEW r \in Reloader
      PROVE  LoadGivesFile(r)
  <2>1. SUFFICES ASSUME r \in quiet, proc[r].pc = "read", proc'[r].pc = "idle",
                        Unmixed(Additions(file))
                 PROVE  LET says == LastWord(Additions(file))
                        IN  IF Cardinality(says) < MaxKeys THEN Members(keys') = says
                            ELSE Len(keys') = MaxKeys
    BY DEF Members, LoadGivesFile
  <2>2. Loaded(r)
    BY <1>1, <2>1, ReloadEnds
  <2>3. Loading(keys, file, "read", proc[r].n, proc[r].adds) /\ IsList(file)
    BY <1>1, <2>1 DEF QInv
  <2>4. proc[r].n - 1 = Len(file)
    <3>1. Len(file) \in Nat
      BY <2>3, Lists
    <3>2. QED BY <2>2, <2>3, <3>1 DEF Loaded, Loading
  <2>5. PICK done : /\ GoodList(done)
                    /\ Additions(file) = done \o <<>>
                    /\ Unmixed(done) => Reflects(keys, done)
    BY <2>3, <2>4 DEF Loading, Made, Additions
  <2>6. Additions(file) = done
    BY <2>5, ConcatEmptySeq DEF GoodList, IsList
  <2>7. Reflects(keys', done)
    BY <2>1, <2>2, <2>5, <2>6 DEF Loaded
  <2>8. Cardinality(LastWord(done)) \in Nat /\ MaxKeys \in Nat
    BY <2>7, FS_CardinalityType, EmuKeysAssumption DEF Reflects
  <2>9. QED BY <2>6, <2>7, <2>8 DEF Reflects
<1>2. ASSUME IInv, QInv, [Next]_vars, NEW r \in Reloader
      PROVE  FailureGivesBack(r)
  BY <1>2, ReloadEnds DEF Restore, FailureGivesBack
<1>3. IInv /\ QInv /\ [Next]_vars => [\A r \in Reloader : LoadGivesFile(r) /\ FailureGivesBack(r)]_vars
  BY <1>1, <1>2
<1>4. Init => IInv /\ QInv
  BY InitKeeps, InitReflects
<1>5. (IInv /\ QInv) /\ [Next]_vars => (IInv /\ QInv)'
  BY NextKeeps, NextReflects
<1>6. QED BY <1>3, <1>4, <1>5, PTL DEF Spec, ReloadIsFile

-----------------------------------------------------------------------------
(* How far the list may outgrow its limit. *)

Others == Cardinality(Proc) - 1
Bound(k) == MaxKeys - 1 + k * Others
Inserting == {p \in Proc : proc[p].pc = "insert"}

\* Those who have passed the test and have not inserted yet count as keys.
\* A list taken away was within the bound of its time, and so all the others
\* may still insert after it is put back.  While the first load goes on, the
\* others wait for it.
BInv ==
    /\ Len(keys) + Cardinality(Inserting) <= Bound(reloads)
    /\ IF reloads = 0 THEN \A p \in Proc : proc[p].old = <<>>
                      ELSE \A p \in Proc : Len(proc[p].old) <= Bound(reloads - 1)
    /\ reloads = 1 /\ proc[Main].pc # "idle"
         => \A p \in Proc : p # Main => proc[p].pc = "idle"

LEMMA ThreadCount ==
    IsFiniteSet(Proc) /\ Cardinality(Proc) \in Nat /\ Others \in Nat /\ Others >= 1
<1>1. IsFiniteSet(Proc)
  BY EmulatorAssumption, FS_Union DEF Proc
<1>2. PICK w : w \in Worker
  BY EmulatorAssumption
<1>3. {w, Main} \subseteq Proc /\ w # Main
  BY <1>2, EmulatorAssumption DEF Proc
<1>4. Cardinality({w, Main}) = 2
  <2>1. Cardinality({w} \cup {Main}) = 1 + 1
    <3>1. IsFiniteSet({w}) /\ Cardinality({w}) = 1 /\ Main \notin {w}
      BY <1>3, FS_Singleton
    <3>2. QED BY <3>1, FS_AddElement
  <2>2. {w} \cup {Main} = {w, Main}
    OBVIOUS
  <2>3. QED BY <2>1, <2>2
<1>5. Cardinality(Proc) \in Nat /\ Cardinality({w, Main}) <= Cardinality(Proc)
  BY <1>1, <1>3, FS_CardinalityType, FS_Subset
<1>6. QED BY <1>1, <1>4, <1>5 DEF Others

LEMMA Bounds ==
    ASSUME NEW k \in Nat
    PROVE  /\ Bound(k) \in Int
           /\ Bound(k) >= MaxKeys - 1
           /\ Bound(k + 1) = Bound(k) + Others
           /\ k # 0 => Bound(k) = Bound(k - 1) + Others /\ Bound(k - 1) >= MaxKeys - 1
           /\ k >= 2 => Bound(k) >= MaxKeys - 1 + Others + Others
<1> DEFINE d == Others
<1>1. d \in Nat /\ MaxKeys \in Nat /\ d >= 1
  BY ThreadCount, EmuKeysAssumption
<1> HIDE DEF d
<1>2. \A m \in Nat : m * d \in Nat /\ (m + 1) * d = m * d + d
  BY <1>1
<1>3. k * d \in Nat /\ (k + 1) * d = k * d + d
  BY <1>2
<1>4. k # 0 => (k - 1) * d \in Nat /\ k * d = (k - 1) * d + d
  <2>1. k # 0 => k - 1 \in Nat /\ k - 1 + 1 = k
    OBVIOUS
  <2>2. QED BY <1>2, <2>1
<1>5. k >= 2 => (k - 1) * d >= d
  <2>1. k >= 2 => k - 2 \in Nat /\ k - 2 + 1 = k - 1
    OBVIOUS
  <2>2. k >= 2 => (k - 2) * d \in Nat /\ (k - 1) * d = (k - 2) * d + d
    BY <1>2, <2>1
  <2>3. QED BY <1>1, <2>2
<1> DEFINE a == k * d
           b == (k - 1) * d
           c == (k + 1) * d
<1>6. Bound(k) = MaxKeys - 1 + a /\ Bound(k + 1) = MaxKeys - 1 + c
      /\ Bound(k - 1) = MaxKeys - 1 + b
  BY DEF Bound, d
<1> HIDE DEF a, b, c
<1>7. /\ a \in Nat /\ c = a + d
      /\ k # 0 => b \in Nat /\ a = b + d
      /\ k >= 2 => b >= d
  BY <1>3, <1>4, <1>5 DEF a, b, c
<1>8. QED BY <1>1, <1>6, <1>7 DEF d

\* The number of those about to insert, after a step of thread p.
LEMMA InsertingCounts ==
    /\ IsFiniteSet(Inserting) /\ Cardinality(Inserting) \in Nat
    /\ \A p \in Proc :
          /\ p \notin Inserting => Cardinality(Inserting) <= Others
          /\ Cardinality(Inserting \ {p})
               = Cardinality(Inserting) - (IF p \in Inserting THEN 1 ELSE 0)
    /\ Cardinality(Inserting) <= Others + 1
<1>1. Inserting \subseteq Proc
  BY DEF Inserting
<1>2. IsFiniteSet(Inserting) /\ Cardinality(Inserting) \in Nat
      /\ Cardinality(Inserting) <= Cardinality(Proc)
  BY <1>1, ThreadCount, FS_Subset, FS_CardinalityType
<1>3. ASSUME NEW p \in Proc, p \notin Inserting
      PROVE  Cardinality(Inserting) <= Others
  <2>1. IsFiniteSet(Proc \ {p}) /\ Cardinality(Proc \ {p}) = Others
    BY ThreadCount, FS_RemoveElement DEF Others
  <2>2. Inserting \subseteq Proc \ {p}
    BY <1>1, <1>3
  <2>3. QED BY <2>1, <2>2, FS_Subset
<1>4. ASSUME NEW p \in Proc
      PROVE  Cardinality(Inserting \ {p})
               = Cardinality(Inserting) - (IF p \in Inserting THEN 1 ELSE 0)
  <2>1. Cardinality(Inserting \ {p})
          = IF p \in Inserting THEN Cardinality(Inserting) - 1 ELSE Cardinality(Inserting)
    BY <1>2, FS_RemoveElement
  <2>2. QED BY <1>2, <2>1
<1>5. QED BY <1>2, <1>3, <1>4, ThreadCount DEF Others

\* A step of one thread that does not begin a load.
LEMMA StepBounded ==
    ASSUME IInv, QInv, BInv, NEW p \in Proc, NEW u, Set(p, u), reloads' = reloads,
           proc[p].pc # "idle" \/ (p # Main /\ Running),
           Len(u.old) <= Bound(reloads - 1),
           Len(keys') + Cardinality(Inserting') <= Bound(reloads)
    PROVE  BInv'
<1>1. \A q \in Proc : proc'[q] = IF q = p THEN u ELSE proc[q]
  <2>1. PICK Y : proc \in [Proc -> Over(Y)]
    BY DEF IInv
  <2>2. QED BY <2>1 DEF Set
<1>2. reloads # 0
  BY BusyHasBegun
<1>3. Main \in Proc
  BY EmulatorAssumption DEF Proc
<1>4. ASSUME reloads = 1, proc'[Main].pc # "idle", NEW q \in Proc, q # Main
      PROVE  proc'[q].pc = "idle"
  <2>1. CASE p = Main
    <3>1. proc[Main].pc # "idle"
      BY <2>1
    <3>2. QED BY <1>1, <1>4, <2>1, <3>1 DEF BInv
  <2>2. CASE p # Main
    <3>1. proc[Main].pc # "idle"
      BY <1>1, <1>3, <1>4, <2>2
    <3>2. proc[p].pc = "idle" /\ ~Running
      BY <1>4, <2>2, <3>1 DEF BInv, Running
    <3>3. QED BY <3>2
  <2>3. QED BY <2>1, <2>2
<1>5. Len(keys') + Cardinality(Inserting') <= Bound(reloads')
  OBVIOUS
<1>6. reloads' # 0 /\ \A q \in Proc : Len(proc'[q].old) <= Bound(reloads' - 1)
  BY <1>1, <1>2 DEF BInv
<1>7. QED BY <1>4, <1>5, <1>6 DEF BInv, Bound, Others

\* Who is about to insert after a step of p.
LEMMA InsertingNow ==
    ASSUME IInv, NEW p \in Proc, NEW u, Set(p, u)
    PROVE  /\ u.pc # "insert" => Inserting' = Inserting \ {p}
           /\ u.pc = "insert" => Inserting' = Inserting \cup {p}
<1>1. \A q \in Proc : proc'[q] = IF q = p THEN u ELSE proc[q]
  <2>1. PICK Y : proc \in [Proc -> Over(Y)]
    BY DEF IInv
  <2>2. QED BY <2>1 DEF Set
<1>2. QED BY <1>1 DEF Inserting

\* A step that leaves the list alone, and passes no test.
LEMMA CalmBounded ==
    ASSUME IInv, QInv, BInv, NEW p \in Proc, NEW u, Set(p, u), reloads' = reloads,
           proc[p].pc # "idle" \/ (p # Main /\ Running), keys' = keys,
           u.pc # "insert", u.old = proc[p].old \/ u.old = <<>>
    PROVE  BInv'
<1>1. Inserting' = Inserting \ {p}
  BY InsertingNow
<1>2. Cardinality(Inserting') <= Cardinality(Inserting)
      /\ Cardinality(Inserting') \in Nat /\ Cardinality(Inserting) \in Nat
  BY <1>1, InsertingCounts, FS_RemoveElement, FS_CardinalityType
<1>3. reloads # 0 /\ reloads \in Nat /\ Bound(reloads) \in Int /\ MaxKeys \in Nat \ {0}
      /\ Bound(reloads - 1) >= MaxKeys - 1 /\ Bound(reloads - 1) \in Int
  BY BusyHasBegun, Bounds, EmuKeysAssumption DEF QInv
<1>4. Len(u.old) <= Bound(reloads - 1)
  <2>1. Len(<<>>) = 0
    OBVIOUS
  <2>2. QED BY <1>3, <2>1 DEF BInv
<1>5. Len(keys) \in Nat
  BY Lists DEF IInv, Tidy, GoodList
<1>6. Len(keys') + Cardinality(Inserting') <= Bound(reloads)
  BY <1>2, <1>3, <1>5 DEF BInv
<1>7. QED BY <1>4, <1>6, StepBounded

LEMMA WorkBounded ==
    ASSUME IInv, QInv, BInv, NEW w \in Worker, Begin(w) \/ Work(w) \/ End(w)
    PROVE  BInv'
<1> DEFINE r == proc[w]
<1>1. w \in Proc /\ w # Main /\ IsProc(r) /\ Idle.pc = "idle" /\ Idle.old = <<>>
  BY ProcsAreProcs, EmulatorAssumption, IdleIsProc DEF Proc
<1>2. /\ reloads' = reloads /\ keys' = keys
      /\ proc[w].pc # "idle" \/ Running
  BY DEF Begin, Work, Lookup, Skip, Decode, End
<1>3. \E u : Set(w, u) /\ u.pc # "insert" /\ (u.old = r.old \/ u.old = <<>>)
  <2>1. CASE Begin(w)
    <3>1. PICK j : Set(w, [Idle EXCEPT !.pc = "lookup", !.job = j])
      BY <2>1 DEF Begin
    <3> DEFINE u == [Idle EXCEPT !.pc = "lookup", !.job = j]
    <3> HIDE DEF Idle
    <3>2. u.pc = "lookup"
      BY IdleIsProc, PcJobFields
    <3>3. u.old = <<>>
      BY IdleIsProc, PcJobUpdated
    <3> HIDE DEF u
    <3>4. QED BY <3>1, <3>2, <3>3 DEF u
  <2>2. CASE End(w)
    <3> HIDE DEF Idle
    <3>1. QED BY <1>1, <2>2 DEF End
  <2>3. CASE Work(w)
    <3>1. PICK plan : Lookup(w, plan) \/ Skip(w, plan) \/ Decode(w, plan)
      BY <2>3 DEF Work
    <3>2. r.pc = "lookup"
      BY <2>3 DEF Work
    <3>3. ASSUME NEW x
          PROVE  LET u == Arrived([r EXCEPT !.got = Append(r.got, x), !.alt = 1])
                 IN  u.pc # "insert" /\ u.old = r.old
      <4> DEFINE v == [r EXCEPT !.got = Append(r.got, x), !.alt = 1]
      <4>1. IsProc(v) /\ v.old = r.old
        <5> HIDE DEF r
        <5>1. QED BY <1>1, GotAltUpdated
      <4>2. v.pc = "lookup"
        <5> HIDE DEF r
        <5>1. QED BY <1>1, <3>2, GotAltFields
      <4> HIDE DEF v
      <4>3. QED BY <4>1, <4>2, ArrivedIs, ArrivedIsProc DEF v
    <3>4. ASSUME NEW x
          PROVE  /\ LET u == [r EXCEPT !.got = x]
                    IN  u.pc # "insert" /\ u.old = r.old
                 /\ LET u == [r EXCEPT !.alt = x]
                    IN  u.pc # "insert" /\ u.old = r.old
      <4> HIDE DEF r
      <4>1. QED BY <1>1, <3>2, OneField, FieldUpdated
    <3>5. ASSUME NEW x, NEW y
          PROVE  LET u == [r EXCEPT !.got = x, !.alt = y]
                 IN  u.pc # "insert" /\ u.old = r.old
      <4> HIDE DEF r
      <4>1. [r EXCEPT !.got = x, !.alt = y].pc = "lookup"
        BY <1>1, <3>2, GotAltFields
      <4>2. [r EXCEPT !.got = x, !.alt = y].old = r.old
        BY <1>1, GotAltUpdated
      <4>3. QED BY <4>1, <4>2
    <3>6. ASSUME NEW x
          PROVE  LET u == [r EXCEPT !.pc = "end", !.result = x]
                 IN  u.pc # "insert" /\ u.old = r.old
      <4> HIDE DEF r
      <4>1. [r EXCEPT !.pc = "end", !.result = x].pc = "end"
        BY <1>1, PcResultFields
      <4>2. [r EXCEPT !.pc = "end", !.result = x].old = r.old
        BY <1>1, PcResultUpdated
      <4>3. QED BY <4>1, <4>2
    <3>7. CASE Lookup(w, plan)
      <4> DEFINE s == plan[Here(w)]
                 Got(x) == Arrived([r EXCEPT !.got = Append(r.got, x), !.alt = 1])
      <4>1. PICK k : IF k # Missing THEN Set(w, Got(k))
               ELSE IF r.alt < Len(s.asks) THEN Set(w, [r EXCEPT !.alt = r.alt + 1])
               ELSE IF s.otherwise = "go on" THEN Set(w, Got(Missing))
               ELSE Set(w, [r EXCEPT !.pc = "end", !.result = s.otherwise])
        BY <3>7 DEF Lookup
      <4>2. \A x : Got(x).pc # "insert" /\ Got(x).old = r.old
        BY <3>3
      <4> HIDE DEF s, Got, r
      <4>3. CASE Set(w, Got(k)) \/ Set(w, Got(Missing))
        BY <4>2, <4>3
      <4>4. CASE Set(w, [r EXCEPT !.alt = r.alt + 1])
        BY <3>4, <4>4
      <4>5. CASE Set(w, [r EXCEPT !.pc = "end", !.result = s.otherwise])
        BY <3>6, <4>5
      <4>6. QED BY <4>1, <4>3, <4>4, <4>5
    <3>8. CASE Skip(w, plan)
      <4>1. Set(w, [r EXCEPT !.got = Append(r.got, Missing)])
        BY <3>8 DEF Skip
      <4> HIDE DEF r
      <4>2. QED BY <3>4, <4>1
    <3>9. CASE Decode(w, plan)
      <4>1. PICK res : Set(w, IF res = "again" THEN [r EXCEPT !.got = <<>>, !.alt = 1]
                              ELSE [r EXCEPT !.pc = "end", !.result = res])
        BY <3>9 DEF Decode
      <4> HIDE DEF r
      <4>2. CASE res = "again"
        <5>1. Set(w, [r EXCEPT !.got = <<>>, !.alt = 1])
          BY <4>1, <4>2
        <5>2. QED BY <3>5, <5>1
      <4>3. CASE res # "again"
        <5>1. Set(w, [r EXCEPT !.pc = "end", !.result = res])
          BY <4>1, <4>3
        <5>2. QED BY <3>6, <5>1
      <4>4. QED BY <4>2, <4>3
    <3>10. QED BY <3>1, <3>7, <3>8, <3>9
  <2>4. QED BY <2>1, <2>2, <2>3
<1>4. QED BY <1>1, <1>2, <1>3, CalmBounded

LEMMA RestPc ==
    ASSUME IInv, NEW p \in Proc
    PROVE  Rest(p).pc # "insert" /\ Rest(p).old = proc[p].old
<1> DEFINE r == proc[p]
           x == IF Len(r.adds) > 1 THEN "check" ELSE IF p \in Worker THEN "end" ELSE "read"
           y == IF p \in Worker THEN "ok" ELSE r.result
<1>1. Rest(p) = [r EXCEPT !.adds = Tail(r.adds), !.pc = x, !.result = y]
  BY DEF Rest
<1>2. x # "insert"
  OBVIOUS
<1>3. PICK Y : r \in Over(Y)
  BY ProcsAreProcs DEF IsProc
<1> HIDE DEF r, x, y
<1>4. Rest(p).pc = x
  BY <1>1, <1>3 DEF Over
<1>5. QED BY <1>2, <1>4, RestIsProc

LEMMA AfterPc ==
    ASSUME IInv, NEW p \in Proc
    PROVE  After(p).pc # "insert" /\ After(p).old = proc[p].old
<1>1. [proc[p] EXCEPT !.pc = "persist"].pc = "persist"
      /\ [proc[p] EXCEPT !.pc = "persist"].old = proc[p].old
  BY ProcsAreProcs, FieldUpdated
<1>2. QED BY <1>1, RestPc DEF After

LEMMA AddCheckBounded ==
    ASSUME IInv, QInv, BInv, NEW p \in Proc, AddCheck(p)
    PROVE  BInv'
<1> DEFINE q == proc[p]
<1>1. q.pc = "check" /\ reloads # 0 /\ IsProc(q) /\ keys' = keys /\ reloads' = reloads
  BY BusyHasBegun, ProcsAreProcs DEF AddCheck
<1>2. CASE AtLimit
  BY <1>1, <1>2, AfterPc, CalmBounded DEF AddCheck
<1>3. CASE ~AtLimit
  <2> DEFINE u == [q EXCEPT !.pc = "insert"]
  <2>1. Set(p, u) /\ u.pc = "insert" /\ u.old = q.old
    BY <1>1, <1>3, FieldUpdated DEF AddCheck
  <2> HIDE DEF u
  <2>2. Inserting' = Inserting \cup {p}
    BY <2>1, InsertingNow
  <2>3. p \notin Inserting
    BY <1>1 DEF Inserting
  <2>4. /\ Cardinality(Inserting') = Cardinality(Inserting) + 1
        /\ Cardinality(Inserting) \in Nat /\ Cardinality(Inserting) <= Others
    BY <2>2, <2>3, InsertingCounts, FS_AddElement
  <2>5. /\ Len(keys) \in Nat /\ MaxKeys \in Nat \ {0} /\ reloads \in Nat /\ Others \in Nat
        /\ Others >= 1 /\ Len(keys) <= MaxKeys - 1
    BY <1>3, Lists, EmuKeysAssumption, ThreadCount DEF IInv, Tidy, GoodList, QInv, AtLimit
  <2>6. CASE reloads >= 2
    <3>1. Bound(reloads) >= MaxKeys - 1 + Others + Others /\ Bound(reloads) \in Int
      BY <2>5, <2>6, Bounds
    <3>2. Len(keys') + Cardinality(Inserting') <= Bound(reloads)
      BY <1>1, <2>4, <2>5, <3>1
    <3>3. Len(u.old) <= Bound(reloads - 1)
      BY <1>1, <2>1 DEF BInv
    <3>4. QED BY <1>1, <2>1, <3>2, <3>3, StepBounded
  <2>7. CASE reloads = 1
    <3>1. Cardinality(Inserting') <= Others
      <4>1. CASE proc[Main].pc # "idle"
        <5>1. Inserting = {}
          <6>1. \A s \in Proc : s # Main => proc[s].pc = "idle"
            BY <2>7, <4>1 DEF BInv
          <6>2. p = Main
            BY <1>1, <6>1
          <6>3. QED BY <1>1, <6>1, <6>2 DEF Inserting
        <5>2. Cardinality(Inserting) = 0
          BY <5>1, FS_EmptySet
        <5>3. QED BY <2>4, <2>5, <5>2
      <4>2. CASE proc[Main].pc = "idle"
        <5>1. Main \in Proc /\ Main \notin Inserting'
          BY <1>1, <2>2, <4>2, EmulatorAssumption DEF Inserting, Proc
        <5>2. Inserting' \subseteq Proc \ {Main}
          BY <2>2, <5>1 DEF Inserting
        <5>3. IsFiniteSet(Proc \ {Main}) /\ Cardinality(Proc \ {Main}) = Others
          BY <5>1, ThreadCount, FS_RemoveElement DEF Others
        <5>4. QED BY <5>2, <5>3, FS_Subset
      <4>3. QED BY <4>1, <4>2
    <3>2. Bound(reloads) = Bound(reloads - 1) + Others /\ Bound(reloads - 1) >= MaxKeys - 1
          /\ Bound(reloads) \in Int /\ Bound(reloads - 1) \in Int
      BY <2>5, <2>7, Bounds
    <3>3. Len(keys') + Cardinality(Inserting') <= Bound(reloads)
      BY <1>1, <2>4, <2>5, <3>1, <3>2
    <3>4. Len(u.old) <= Bound(reloads - 1)
      BY <1>1, <2>1 DEF BInv
    <3>5. QED BY <1>1, <2>1, <3>3, <3>4, StepBounded
  <2>8. QED BY <1>1, <2>5, <2>6, <2>7
<1>4. QED BY <1>2, <1>3

LEMMA InsertLength ==
    ASSUME NEW ks, Tidy(ks), NEW k
    PROVE  Len(Insert(ks, k)) <= Len(ks) + 1
<1>1. IsList(ks) /\ Len(ks) \in Nat
  BY Lists DEF Tidy, GoodList
<1> DEFINE S == {ks[j] : j \in 1..Len(ks)}
<1>2. ks \in Seq(S)
  BY <1>1 DEF IsList
<1> HIDE DEF S
<1>3. CASE \E j \in 1..Len(ks) : SameKey(ks[j], k)
  <2>1. PICK i \in 1..Len(ks) : Insert(ks, k) = [ks EXCEPT ![i] = Updated(ks[i], k)]
    BY <1>1, <1>3, InsertReplaces
  <2> DEFINE u == Updated(ks[i], k)
             T == S \cup {u}
  <2> HIDE DEF u
  <2>2. ks \in Seq(T) /\ u \in T
    BY <1>2, SeqMonotonic
  <2> HIDE DEF T
  <2>3. Len([ks EXCEPT ![i] = u]) = Len(ks)
    BY <2>2, ExceptSeq
  <2>4. QED BY <1>1, <2>1, <2>3 DEF u
<1>4. CASE ~ \E j \in 1..Len(ks) : SameKey(ks[j], k)
  <2>1. Insert(ks, k) = <<k>> \o ks
    BY <1>4, InsertPrepends
  <2>2. <<k>> \in Seq({k}) /\ Len(<<k>>) = 1
    OBVIOUS
  <2>3. IsList(<<k>>)
    BY <2>2, ListOfSeq
  <2>4. QED BY <1>1, <2>1, <2>2, <2>3, Concatenated
<1>5. QED BY <1>3, <1>4

LEMMA AddInsertBounded ==
    ASSUME IInv, QInv, BInv, NEW p \in Proc, AddInsert(p)
    PROVE  BInv'
<1> DEFINE u == After(p)
<1>1. Set(p, u) /\ proc[p].pc = "insert" /\ reloads # 0 /\ reloads' = reloads
      /\ keys' = Insert(keys, NextKey(p))
  BY BusyHasBegun DEF AddInsert
<1>2. u.pc # "insert" /\ u.old = proc[p].old
  BY AfterPc
<1> HIDE DEF u
<1>3. Inserting' = Inserting \ {p} /\ p \in Inserting
  BY <1>1, <1>2, InsertingNow DEF Inserting
<1>4. Cardinality(Inserting') = Cardinality(Inserting) - 1 /\ Cardinality(Inserting) \in Nat
  BY <1>3, InsertingCounts
<1>5. Tidy(keys) /\ GoodKey(NextKey(p))
  BY NextKeyIsGood DEF IInv, AddInsert
<1>6. Len(keys') <= Len(keys) + 1 /\ Len(keys) \in Nat /\ Len(keys') \in Nat
  <2>1. Tidy(keys')
    BY <1>1, <1>5, InsertKeepsTidy
  <2>2. QED BY <1>1, <1>5, <2>1, InsertLength, Lists DEF Tidy, GoodList
<1>7. Len(keys') + Cardinality(Inserting') <= Bound(reloads)
  <2>1. Len(keys) + Cardinality(Inserting) <= Bound(reloads) /\ Bound(reloads) \in Int
    BY Bounds DEF BInv, QInv
  <2>2. QED BY <1>4, <1>6, <2>1
<1>8. Len(u.old) <= Bound(reloads - 1)
  BY <1>1, <1>2 DEF BInv
<1>9. QED BY <1>1, <1>7, <1>8, StepBounded

LEMMA PersistBounded ==
    ASSUME IInv, QInv, BInv, NEW w \in Worker, Persist(w)
    PROVE  BInv'
<1> DEFINE u == Rest(w)
<1>1. w \in Proc /\ Set(w, u) /\ keys' = keys /\ reloads' = reloads
      /\ proc[w].pc # "idle"
  BY DEF Proc, Persist
<1>2. u.pc # "insert" /\ u.old = proc[w].old
  BY <1>1, RestPc
<1> HIDE DEF u
<1>3. QED BY <1>1, <1>2, CalmBounded

LEMMA LoadBounded ==
    ASSUME IInv, QInv, BInv, NEW r \in Reloader, ReloaderStep(r)
    PROVE  BInv'
<1> DEFINE q == proc[r]
<1>1. r \in Proc /\ IsProc(q) /\ q.pc # "idle" /\ q.pc # "insert" /\ reloads' = reloads
  BY ProcsAreProcs DEF Proc, ReloaderStep, OpenWorks, Restore, ReadLine, Loaded
<1>2. CASE OpenWorks(r)
  <2> DEFINE u == [q EXCEPT !.pc = "read", !.old = <<>>]
  <2>1. Set(r, u) /\ keys' = keys
    BY <1>2 DEF OpenWorks
  <2>2. u.pc = "read" /\ u.old = <<>>
    <3>1. PICK Y : q \in Over(Y)
      BY <1>1 DEF IsProc
    <3> HIDE DEF q
    <3>2. QED BY <3>1 DEF Over
  <2> HIDE DEF u
  <2>3. QED BY <1>1, <2>1, <2>2, CalmBounded
<1>3. CASE ReadLine(r)
  <2> DEFINE new == EmuParseLine(file[q.n])
             x == IF new = <<>> THEN "read" ELSE "check"
             u == [q EXCEPT !.n = q.n + 1, !.adds = new, !.pc = x]
  <2>1. Set(r, u) /\ keys' = keys
    BY <1>3 DEF ReadLine
  <2>2. x # "insert"
    OBVIOUS
  <2>3. u.pc = x /\ u.old = q.old
    <3>1. PICK Y : q \in Over(Y)
      BY <1>1 DEF IsProc
    <3> HIDE DEF q, new, x
    <3>2. QED BY <3>1 DEF Over
  <2> HIDE DEF u, x
  <2>4. QED BY <1>1, <2>1, <2>2, <2>3, CalmBounded
<1>4. CASE Loaded(r)
  <2>1. Set(r, Idle) /\ keys' = keys
    BY <1>4 DEF Loaded
  <2>2. Idle.pc # "insert" /\ Idle.old = <<>>
    BY IdleIsProc
  <2> HIDE DEF Idle
  <2>3. QED BY <1>1, <2>1, <2>2, CalmBounded
<1>5. CASE Restore(r)
  <2>1. Set(r, Idle) /\ keys' = q.old
    BY <1>5 DEF Restore
  <2>2. Idle.pc = "idle" /\ Idle.old = <<>>
    BY IdleIsProc
  <2> HIDE DEF Idle
  <2>3. r \notin Inserting
    BY <1>1 DEF Inserting
  <2>4. Inserting' = Inserting
    BY <1>1, <2>1, <2>2, <2>3, InsertingNow
  <2>5. Cardinality(Inserting) <= Others /\ Cardinality(Inserting) \in Nat
    BY <1>1, <2>3, InsertingCounts
  <2>6. /\ reloads # 0 /\ reloads \in Nat /\ Others \in Nat /\ MaxKeys \in Nat \ {0}
        /\ Bound(reloads) = Bound(reloads - 1) + Others
        /\ Bound(reloads - 1) >= MaxKeys - 1
        /\ Bound(reloads - 1) \in Int
    <3>1. reloads # 0 /\ reloads \in Nat
      BY <1>1, BusyHasBegun DEF QInv
    <3>2. reloads - 1 \in Nat
      BY <3>1
    <3>3. QED BY <3>1, <3>2, Bounds, ThreadCount, EmuKeysAssumption
  <2>7. Len(q.old) <= Bound(reloads - 1) /\ Len(q.old) \in Nat
    BY <1>1, <2>6, Lists DEF BInv, IInv, Tidy, GoodList
  <2>8. Len(keys') + Cardinality(Inserting') <= Bound(reloads)
    BY <2>1, <2>4, <2>5, <2>6, <2>7
  <2>9. Len(<<>>) <= Bound(reloads - 1)
    <3>1. Len(<<>>) = 0
      OBVIOUS
    <3>2. QED BY <2>6, <3>1
  <2>10. QED BY <1>1, <2>1, <2>2, <2>8, <2>9, StepBounded
<1>6. QED BY <1>2, <1>3, <1>4, <1>5 DEF ReloaderStep

\* A list is taken away for a load, within the bound there was.
LEMMA TakeBounded ==
    ASSUME IInv, QInv, BInv, NEW r \in Reloader, Take(r)
    PROVE  BInv'
<1> DEFINE u == [Idle EXCEPT !.pc = "open", !.old = keys]
<1>1. r \in Proc /\ Set(r, u) /\ keys' = <<>> /\ reloads' = reloads + 1
      /\ proc[r].pc = "idle" /\ Running
  BY DEF Take, Proc
<1>2. u.pc = "open" /\ u.old = keys
  BY DEF Idle
<1> HIDE DEF u
<1>3. \A q \in Proc : proc'[q] = IF q = r THEN u ELSE proc[q]
  <2>1. PICK Y : proc \in [Proc -> Over(Y)]
    BY DEF IInv
  <2>2. QED BY <1>1, <2>1 DEF Set
<1>4. r \notin Inserting
  BY <1>1 DEF Inserting
<1>5. Inserting' = Inserting
  BY <1>1, <1>2, <1>4, InsertingNow
<1>6. Cardinality(Inserting) <= Others /\ Cardinality(Inserting) \in Nat
  BY <1>1, <1>4, InsertingCounts
<1>7. reloads # 0 /\ reloads \in Nat
  BY <1>1, BusyHasBegun DEF QInv
<1>8. /\ Others \in Nat /\ MaxKeys \in Nat \ {0}
      /\ Bound(reloads) \in Int /\ Bound(reloads - 1) \in Int
      /\ Bound(reloads + 1) = Bound(reloads) + Others
      /\ Bound(reloads) = Bound(reloads - 1) + Others
      /\ Bound(reloads - 1) >= MaxKeys - 1
  <2>1. reloads - 1 \in Nat
    BY <1>7
  <2>2. QED BY <1>7, <2>1, Bounds, ThreadCount, EmuKeysAssumption
<1>9. Len(keys') + Cardinality(Inserting') <= Bound(reloads')
  <2>1. Len(<<>>) = 0
    OBVIOUS
  <2>2. Len(keys') + Cardinality(Inserting') = Cardinality(Inserting)
    BY <1>1, <1>5, <1>6, <2>1
  <2>3. QED BY <1>1, <1>6, <1>8, <2>2
<1>10. \A q \in Proc : Len(proc'[q].old) <= Bound(reloads' - 1)
  <2>1. TAKE q \in Proc
  <2>2. reloads' - 1 = reloads
    BY <1>1, <1>7
  <2>3. CASE q = r
    <3>1. Len(keys) \in Nat /\ Len(keys) + Cardinality(Inserting) <= Bound(reloads)
      BY Lists DEF IInv, Tidy, GoodList, BInv
    <3>2. Len(keys) <= Bound(reloads)
      BY <1>6, <1>8, <3>1
    <3>3. QED BY <1>2, <1>3, <2>2, <2>3, <3>2
  <2>4. CASE q # r
    <3>1. Len(proc[q].old) \in Nat /\ Len(proc[q].old) <= Bound(reloads - 1)
      BY <1>7, Lists DEF IInv, Tidy, GoodList, BInv
    <3>2. Len(proc[q].old) <= Bound(reloads)
      BY <1>8, <3>1
    <3>3. QED BY <1>3, <2>2, <2>4, <3>2
  <2>5. QED BY <2>3, <2>4
<1>11. reloads' # 1 /\ reloads' # 0
  BY <1>1, <1>7
<1>12. QED BY <1>9, <1>10, <1>11 DEF BInv, Bound, Others

\* The first load begins when nobody does anything yet.
LEMMA EmuInitBounded ==
    ASSUME IInv, QInv, BInv, EmuInit
    PROVE  BInv'
<1> DEFINE u == [Idle EXCEPT !.pc = "open"]
<1>1. Main \in Proc /\ Set(Main, u) /\ keys' = <<>> /\ reloads' = 1
      /\ \A q \in Proc : proc[q].pc = "idle"
  BY EmulatorAssumption DEF EmuInit, Proc, QInv
<1>2. u.pc = "open" /\ u.old = <<>>
  <2> HIDE DEF Idle
  <2>1. QED BY IdleIsProc, FieldUpdated
<1> HIDE DEF u
<1>3. \A q \in Proc : proc'[q] = IF q = Main THEN u ELSE proc[q]
  <2>1. PICK Y : proc \in [Proc -> Over(Y)]
    BY DEF IInv
  <2>2. QED BY <1>1, <2>1 DEF Set
<1>4. Inserting' = {}
  BY <1>1, <1>2, <1>3 DEF Inserting
<1>5. Cardinality(Inserting') = 0
  BY <1>4, FS_EmptySet
<1>6. /\ Bound(0) >= MaxKeys - 1 /\ Bound(0) \in Int /\ MaxKeys \in Nat \ {0}
      /\ Bound(0 + 1) = Bound(0) + Others /\ Others \in Nat /\ reloads = 0
  BY Bounds, ThreadCount, EmuKeysAssumption DEF EmuInit
<1>7. Len(<<>>) = 0
  OBVIOUS
<1>8. 0 + 1 = 1 /\ 1 - 1 = 0
  OBVIOUS
<1>9. Len(keys') + Cardinality(Inserting') <= Bound(1)
  BY <1>1, <1>5, <1>6, <1>7, <1>8
<1>10. ASSUME NEW q \in Proc
       PROVE  Len(proc'[q].old) <= Bound(0)
  <2>1. CASE q = Main
    BY <1>2, <1>3, <1>6, <1>7, <2>1
  <2>2. CASE q # Main
    <3>1. proc'[q].old = <<>>
      BY <1>3, <1>6, <2>2 DEF BInv
    <3>2. QED BY <1>6, <1>7, <3>1
  <2>3. QED BY <2>1, <2>2
<1>11. \A q \in Proc : q # Main => proc'[q].pc = "idle"
  BY <1>1, <1>3
<1>12. QED BY <1>1, <1>8, <1>9, <1>10, <1>11 DEF BInv, Bound, Others

LEMMA InitBounded == Init => BInv
<1> SUFFICES ASSUME Init PROVE BInv
  OBVIOUS
<1>1. keys = <<>> /\ reloads = 0
      /\ \A p \in Proc : proc[p].pc = "idle" /\ proc[p].old = <<>>
  BY IdleIsProc DEF Init
<1>2. Inserting = {} /\ Cardinality(Inserting) = 0
  BY <1>1, FS_EmptySet DEF Inserting
<1>3. Bound(0) >= MaxKeys - 1 /\ Bound(0) \in Int /\ MaxKeys \in Nat \ {0}
  BY Bounds, EmuKeysAssumption
<1>4. Len(<<>>) = 0
  OBVIOUS
<1>5. QED BY <1>1, <1>2, <1>3, <1>4 DEF BInv

LEMMA NextBounded == IInv /\ QInv /\ BInv /\ [Next]_vars => BInv'
<1> SUFFICES ASSUME IInv, QInv, BInv, [Next]_vars PROVE BInv'
  OBVIOUS
<1>1. CASE EmuInit
  BY <1>1, EmuInitBounded
<1>2. ASSUME NEW w \in Worker, Begin(w) \/ WorkerStep(w)
      PROVE  BInv'
  BY <1>2, WorkBounded, PersistBounded DEF WorkerStep
<1>3. ASSUME NEW r \in Reloader, Take(r) \/ ReloaderStep(r)
      PROVE  BInv'
  BY <1>3, TakeBounded, LoadBounded
<1>4. ASSUME NEW p \in Proc, Adding(p)
      PROVE  BInv'
  BY <1>4, AddCheckBounded, AddInsertBounded DEF Adding
<1>5. CASE Edit \/ UNCHANGED vars
  <2>1. UNCHANGED <<keys, proc, reloads>>
    BY <1>5 DEF Edit, vars
  <2>2. QED BY <2>1 DEF BInv, Inserting, Bound, Others
<1>6. QED BY <1>1, <1>2, <1>3, <1>4, <1>5 DEF Next

\* The list outgrows its limit by no more than one key of every other thread,
\* and that once more for every load (cccam3_emu.c:84, 320).
THEOREM KeysAreBounded == Spec => []KeysBounded
<1>1. IInv /\ QInv /\ BInv => KeysBounded
  <2> SUFFICES ASSUME IInv, QInv, BInv PROVE KeysBounded
    OBVIOUS
  <2>1. /\ Len(keys) \in Nat /\ Cardinality(Inserting) \in Nat
        /\ Bound(reloads) \in Int
        /\ Len(keys) + Cardinality(Inserting) <= Bound(reloads)
    BY Lists, InsertingCounts, Bounds DEF IInv, Tidy, GoodList, QInv, BInv
  <2>2. Len(keys) <= Bound(reloads)
    BY <2>1
  <2> DEFINE a == reloads * Others
  <2>3. a \in Nat /\ MaxKeys \in Nat
    BY ThreadCount, EmuKeysAssumption DEF QInv
  <2>4. Bound(reloads) = MaxKeys - 1 + a /\ Overrun = a - 1
    BY DEF Bound, Overrun, Others
  <2> HIDE DEF a
  <2>5. QED BY <2>1, <2>2, <2>3, <2>4 DEF KeysBounded
<1>2. Init => IInv /\ QInv /\ BInv
  BY InitKeeps, InitReflects, InitBounded
<1>3. (IInv /\ QInv /\ BInv) /\ [Next]_vars => (IInv /\ QInv /\ BInv)'
  BY NextKeeps, NextReflects, NextBounded
<1>4. QED BY <1>1, <1>2, <1>3, PTL DEF Spec
=============================================================================
