SPECIFICATION Spec
CONSTANTS
  a1 = a1
  a2 = a2
  x1 = x1
  Announcers <- MCAnnouncers
  Executors <- OneExecutor
  EventOf <- SameEvent
  Opening <- MCOpening
  Catalogue <- MCCatalogue
  Revocable = {"notify.slack_channel"}
  Owned = {"namespace"}
  MaxFaults = 1
  MaxRevocations = 1
  MaxDeploys = 1
SYMMETRY BrokerSymmetry
INVARIANTS AppliedOnce RecordIsTrue RevokedIsNotUsed EveryDestinationTried
CHECK_DEADLOCK FALSE
