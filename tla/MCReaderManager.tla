--------------------------- MODULE MCReaderManager ---------------------------
(* Model-checking instances of ReaderManager: reader 1 is a remote server,  *)
(* reader 2, where there is one, the emulator with the better score.        *)
EXTENDS ReaderManager

CONSTANTS ch1, ch2

MCType == [r \in Reader |-> IF r = 2 THEN "emu" ELSE "remote"]
MCPriority == [r \in Reader |-> 0]
MCHop == [r \in Reader |-> IF r = 2 THEN 0 ELSE 1]
MCEnabled == Reader
MCServes == [r \in Reader |-> Chan]

\* Channel 1 has the remote server alone, channel 2 the emulator as well.
MCServesOwn == [r \in Reader |-> IF r = 2 THEN {ch2} ELSE {ch1, ch2}]
=============================================================================
