CONSTANTS
  MaxIDs = 1
  Names <- OneName
  SlugOf <- Distinct
  Cfgs <- TwoCfgs
  Creds <- OneCred
  NoCreds = NoCreds
  None = None
  MaxEdits = 1
  MaxAdds = 0
  MaxSeals = 0
  MaxFaults = 0
  MaxTrouble = 1
  Savers <- OneSaver
  MaxOps = 0
  Adopting = TRUE
  Importing = TRUE
  Seed <- OnePipeline
  FreshDB = FALSE
  a = a
  b = b
  x = x
  y = y
  k1 = k1
  k2 = k2
  s1 = s1
  s2 = s2
SPECIFICATION Spec
PROPERTY AdoptKeepsCredentials
CHECK_DEADLOCK FALSE
