----------------------------- MODULE MCEmulator -----------------------------
(* Key files for each system and one job per way through the emulator.      *)
EXTENDS Emulator

Line(type, prov, token, val, len) ==
    [type |-> type, prov |-> prov, token |-> token, val |-> val, len |-> len,
     date |-> 0]

\* An Irdeto key, which stands for all management keys, in two generations,
\* with BISS by service id and with PowerVU by group.
IrdFile(m) == <<Line("I", <<6, 4, 18>>, Two(0), m, 16),
                IF m = "m" THEN Line("F", <<38, 0, 0, 1>>, Two(0), "b1", 8)
                           ELSE Line("P", <<0, 1, 0, 128>>, Two(0), "pk", 7)>>
\* Cryptoworks with its two keys and a table T of 300 bytes; Viaccess 1 and a unique address of PowerVU.
CwFile == <<Line("W", <<13, 2, 160>>, Two(0), "w0", 16),
            Line("W", <<13, 2, 160>>, Two(6), "w6", 6),
            Line("T", <<3, 40, 32>>, Two(0), "t1", 300)>>
ViaFile == <<Line("F", <<1, 0, 16>>, Two(8), "v8", 8),
             Line("P", <<0, 1, 0, 7>>, Eight(22334455), "ua", 7)>>
\* Viaccess 3, whose table T is 300 bytes long.
Via3File == <<Line("T", <<3, 40, 32>>, Two(0), "t1", 300),
              Line("I", <<3, 40, 32>>, Two(193), "c1", 8)>>
\* Unique addresses of PowerVU that are no dates, one of them twice.
UaFile == <<Line("P", <<0, 1, 0, 7>>, Name("a", 6), "ua", 7),
            Line("P", <<0, 1, 0, 7>>, Name("b", 6), "ub", 7),
            Line("P", <<0, 1, 0, 7>>, Name("a", 6), "ua2", 7)>>
MCFiles == {IrdFile("m"), IrdFile("m2"), CwFile, ViaFile, Via3File, UaFile}

Nano(cmd, b, select) == [cmd |-> cmd, len |-> Len(b), b |-> b, select |-> select]
Cipher == [cmd |-> "EA", len |-> 16, b |-> <<>>, select |-> "none"]
Sig == [cmd |-> "F0", len |-> 8, b |-> <<>>, select |-> "none"]
Inner(cmd, val) == [cmd |-> cmd, val |-> val]

Biss(n) == [sys |-> "biss", sid |-> <<0, n>>, under |-> <<"b1">>]
Via1 == [sys |-> "viaccess", under |-> <<"v8">>,
         nanos |-> <<Nano("90", <<1, 0, 24>>, "none"), Cipher, Sig>>]
Via3(ident) ==
    [sys |-> "viaccess", under |-> <<"other">>,
     nanos |-> <<Nano("40", ident \o <<8, 5, 103, 1>>, "mix"), Cipher>>]
Cw(levels) == [sys |-> "cryptoworks", caid |-> 2, levels |-> levels,
               under |-> <<"w0", "w6", "w0", "w6">>]
CwInner == <<Inner("83", 160), Inner("DB", 0), Inner("DF", 0)>>
Pvu == [sys |-> "powervu", crc |-> TRUE, csa |-> TRUE, keyIndex |-> 0,
        srvid |-> <<0, 1>>, channel |-> <<0, 128>>, under |-> <<"pk">>]
PvuEmm == [sys |-> "powervu emm", emmLen |-> 100, ua |-> 22334455, under |-> <<"ua">>,
           groups |-> <<[used |-> TRUE, kind |-> 0, zero |-> FALSE, val |-> "g0"]>>]
\* The key found does not fit; no group is in use.
PvuWrong == [Pvu EXCEPT !.under = <<"other">>]
PvuEmmWrong == [PvuEmm EXCEPT !.under = <<"other">>]
PvuEmmEmpty == [PvuEmm EXCEPT !.groups[1].used = FALSE]
Nagra == [sys |-> "nagra", ident |-> 1283, keyNr |-> 0, cmdLen |-> 64, ecmLen |-> 80,
          under |-> <<"n">>, garbage |-> <<>>,
          nanos |-> <<[cmd |-> "10", algo |-> FALSE], [cmd |-> "11", algo |-> FALSE]>>]
Ird == [sys |-> "irdeto", ident |-> <<0, 6, 4, 18>>, keyNr |-> 5, ecmLen |-> 60,
        length |-> 48, under |-> <<"op5", "m", "m">>,
        nanos |-> <<[cmd |-> "78", l |-> 20, at |-> 1]>>]
IrdOp == [sys |-> "irdeto emm", kind |-> "op", ident |-> <<0, 6, 4, 18>>, start |-> 10,
          emmLen |-> 60, length |-> 48, under |-> <<"m", "m", "m">>, fausto |-> TRUE,
          nanos |-> <<[cmd |-> "50", l |-> 19, at |-> 15, nr |-> 5, val |-> "op5"],
                      [cmd |-> "50", l |-> 19, at |-> 34, nr |-> 6, val |-> "op6"]>>]
IrdPmk == [sys |-> "irdeto emm", kind |-> "pmk", ident |-> <<0, 6, 4, 18>>, start |-> 11,
           emmLen |-> 60, length |-> 48, under |-> <<"m", "m", "m">>,
           nanos |-> <<[cmd |-> "68", l |-> 38, at |-> 11, val |-> "m", val2 |-> "m4"]>>]

MCJobs == {Biss(1), Biss(3), Via1, Via3(<<3, 11, 0>>),
           Via3(<<3, 40, 32>>), Cw(<<<<Inner("80", 0)>>, CwInner>>),
           Pvu, PvuWrong, PvuEmm, PvuEmmWrong, PvuEmmEmpty, Nagra, Ird, IrdOp,
           IrdPmk}
=============================================================================
