SPECIFICATION Spec
CONSTANTS
  v1 = v1
  v2 = v2
  Files = {"f", "g", "bad"}
  Jobs = {1, 2}
  MaxDrops = 4
  Tabs = {1, 2}
  Remotes = {"a", "b", "http", "userinfo"}
  MaxEdits = 4
  Accounts = {"jane"}
  Warehouses = {"default", "w"}
  Roles = {"reader", "writer", "admin"}
  Ops = {1, 2}
  MaxCalls = 4
  Replicas = {r1, r2}
  EncryptedColumns <- MCColumns
  Values = {v1, v2}
  MaxWrites = 3
  Asked <- MCAsked
  Creators = {1, 2}
  MaxAsks = 3
INVARIANTS UploadsKept SavesKept AlwaysReadable
PROPERTIES MirrorReplaced RoleExact RemovalCompletes CreatedAsAsked
CHECK_DEADLOCK FALSE
