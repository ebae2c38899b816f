SPECIFICATION FairSpec
CONSTANTS
  MaxIDs = 2
  Names = {a}
  SlugOf <- OneSlug
  Pipelines = {own, other}
  Foreign = {other}
  MaxRuns = 1
  MaxEvents = 2
  None = None
INVARIANTS TriggerOwned SaveConverges
PROPERTY Hydrates
