SPECIFICATION ReleaseSpec
CONSTANTS
  d1 = d1
  d2 = d2
  Prior = Prior
  Nothing = Nothing
  Deployments <- MCDeployments
INVARIANTS OneMigration AppliedOnOwnMigration
CHECK_DEADLOCK FALSE
