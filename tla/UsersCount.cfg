SPECIFICATION Spec
CONSTANTS
  Admin = Admin
  Pass = {"p", "admin123"}
  NoPass = NoPass
  DefaultPass = "admin123"
  Main = m
  Nobody = Nobody
  bob = bob
  eve = eve
  Name = {Admin, bob, eve}
  Level = {1, 3}
  Hops = {1, 2}
  File <- MCFile
  MayBeMissing = TRUE
  AutoRegister = TRUE
  Client = {c1}
  Reloader = {m, r}
  MaxUsers = 2
  MaxFile = 4
  MaxReloads = 2
  MaxSets = 1
INVARIANTS TypeOK CountExact AccountsHaveSource
