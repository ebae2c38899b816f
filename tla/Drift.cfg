CONSTANTS
  MaxIDs = 2
  Names <- TwoNames
  SlugOf <- Distinct
  Cfgs <- OneCfg
  Creds <- OneCred
  NoCreds = NoCreds
  None = None
  MaxEdits = 1
  MaxAdds = 0
  MaxSeals = 1
  MaxFaults = 1
  MaxTrouble = 1
  Savers <- OneSaver
  MaxOps = 1
  Adopting = TRUE
  Importing = TRUE
  Seed <- TwoPipelines
  FreshDB = FALSE
  a = a
  b = b
  x = x
  y = y
  k1 = k1
  k2 = k2
  s1 = s1
  s2 = s2
SPECIFICATION FairSpec
PROPERTY DriftSettles
CHECK_DEADLOCK FALSE
