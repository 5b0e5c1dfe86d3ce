SPECIFICATION Spec
CONSTANTS
  Clients = {c1, c2}
  Conns = {s1, s2}
  Kinds = {"crud", "broken", "custom"}
  MaxMutations = 2
  MaxFaults = 1
  MaxAttempts = 2
  Tables = {"issues", "comments"}
  ReadCases <- MCReadCases
  WriteCases <- MCWriteCases
  CtxClients = {c1, c2}
  Sockets = {s1, s2}
  Users = {"u1", "anonymous"}
  IntervalOptions = {{}, {1}, {2}}
  MaxClock = 1
  MaxRegistrations = 2
  MaxRevision = 1
  MaxAsked = 2
  Oids = {1, 2}
  TableNames = {"t", "u"}
  ColumnNames = {"k", "a", "b"}
  Types = {"int", "text"}
  IndexNames = {"pkey", "idx"}
  Values = {1, 2}
  StartSchemas <- MCStartSchemas
  MaxWork = 4
  MaxVersion = 3
SYMMETRY Symmetry
INVARIANTS
  ExactlyOnceInOrder
  AnswersAreHonest
  AuthorizedExactly
  ValidatedAsItIs
  MaintenanceIsPlanned
  ReplicaAsCopied
  VersionsTellChanges
  LogTellsChanges
CHECK_DEADLOCK FALSE
