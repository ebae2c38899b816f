CONSTANTS
  MaxIDs = 2
  Names <- OneName
  SlugOf <- Distinct
  Cfgs <- TwoCfgs
  Creds <- NoSecrets
  NoCreds = NoCreds
  None = None
  MaxEdits = 1
  MaxAdds = 1
  MaxSeals = 0
  MaxFaults = 1
  MaxTrouble = 2
  Savers <- OneSaver
  MaxOps = 0
  Adopting = TRUE
  Importing = TRUE
  Seed <- Plain
  FreshDB = TRUE
  a = a
  b = b
  x = x
  y = y
  k1 = k1
  k2 = k2
  s1 = s1
  s2 = s2
SPECIFICATION FairSpec
PROPERTIES RowsFollowRepo Hydrates
CHECK_DEADLOCK FALSE
