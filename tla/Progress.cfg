SPECIFICATION Spec
CONSTANTS
  Setups <- MCSetups
  LastMessage = 2
  KindOf <- MCKindOf
  EffectsOf <- MCEffectsOf
  Greenlets = {g1, g2}
  MaxLeases = 1
  MaxRuns = 2
  MaxCrashes = 1
  MaxVersion = 4
  Sinks = {s1, s2}
  Callers = {c1, c2, c3}
  None = None
  MaxWrites = 2
INVARIANTS
  AckedAfterPushed
  EngineConsistent
PROPERTY
  WorkEnds
CHECK_DEADLOCK FALSE
