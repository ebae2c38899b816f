CONSTANTS
  MaxIDs = 2
  Names <- TwoNames
  SlugOf <- Colliding
  Cfgs <- OneCfg
  Creds <- OneCred
  NoCreds = NoCreds
  None = None
  MaxEdits = 2
  MaxAdds = 0
  MaxSeals = 1
  MaxFaults = 1
  MaxTrouble = 2
  Savers <- OneSaver
  MaxOps = 2
  Adopting = FALSE
  Importing = FALSE
  Seed <- OnePipeline
  FreshDB = FALSE
  a = a
  b = b
  x = x
  y = y
  k1 = k1
  k2 = k2
  s1 = s1
  s2 = s2
SPECIFICATION Spec
INVARIANT SaveConverges
PROPERTIES HeaderlessKept ForeignSealsKept
CHECK_DEADLOCK FALSE
