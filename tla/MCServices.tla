----------------------------- MODULE MCServices -----------------------------
(* Services alone and together, on a transponder with two services. *)
EXTENDS Services, TLC

CONSTANTS s1, s2

MCConfigurations == {{}, {"dvbapi"}, {"dvb", "rest"}}
MCTables == {s1 :> "scrambled" @@ s2 :> "scrambled", s1 :> "clear"}
=============================================================================
