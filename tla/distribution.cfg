SPECIFICATION SpecEither
CONSTANTS
  Role = {"admin", "administrator", "staff"}
  Stem <- MCStem
  Constructs <- MCProps
  Calls <- MCCalls
  MaxCalls = 2
  Serial = {"AB12", "CD34"}
  Options <- MCOptions
INVARIANTS
  AsAsked
  OneAtATime
  RejectionExplained
  RedirectsLand
  LoopsExplained
  StrongNotUpgraded
  AllowJustified
  SignalTruthful
CHECK_DEADLOCK FALSE
