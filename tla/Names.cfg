SPECIFICATION MCSpec
CONSTANTS
  Lookups = {l1, l2, l3, l4}
  DnsRouters = {"main", "other"}
  Main = "main"
  Services = {"local"}
  NoRouter = "none"
  MaxServers = 2
  Peers = {"p", "q"}
  Ids = {1, 2}
  Tasks = {1, 2}
  Lists <- MCLists
  Service <- MCService
  MaxQueries = 2
  MaxToggles = 1
  Reloads = {"r1", "r2", "r3"}
  Configs = {"A", "B"}
  MaxStarts = 3
  MaxReloads = 1
  Configured = {"direct"}
  Selectors <- MCSelectors
  LinkNames = {"none", "a", "s", "direct"}
  Protocols = {"rsq"}
  MaxLines = 2
  Groups = {"g", "h"}
  Members = {"m1", "m2"}
  Default = "m1"
  Requests = {"r1", "r2"}
  MaxRuns = 2
  Absent = "none"
INVARIANTS
  TypesOK SingleFlight   

  
\* Connections, dials and sessions end, and then nothing is left to do.
CHECK_DEADLOCK FALSE
