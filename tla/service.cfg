SPECIFICATION Spec
CONSTANTS
  Tenant = {acme}
  Username = {u, v}
  NoTenant = NoTenant
  AccessTtl = 1
  RefreshTtl = 2
  Caller = {k1, k2}
  MaxUsers = 3
  MaxSessions = 3
  MaxClock = 3
  MaxProcesses = 2
  MaxBulk = 1
  MaxDepth = 1
  Parse <- ParseCommand
  Encode <- Serialize
  Conn = {c1, c2, c3}
  MaxConnections = 2
  MaxErrors = 1
  MaxRequests = 3
  Payload = {p, q}
  Malformed = Malformed
  NoObject = NoObject
  IdemKey = {k}
  NoKey = NoKey
  KeyRetention = 1
  MaxObjects = 4
  NoDoc = NoDoc
  Id = {i1, i2, i3, i4}
  NoCursor = NoCursor
  NoLimit = NoLimit
  MaxPageSize = 2
  DefaultPageSize = 1
  MaxEdits = 2
INVARIANTS AccountsUnique TokenLifetime RepliesInOrder RepeatsAgree ConditionalWrite PagesCoverList
PROPERTIES KeepsPromise ShutdownDrains
CHECK_DEADLOCK FALSE
