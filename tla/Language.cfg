SPECIFICATION LangSpec
CONSTANTS
  Locals <- MCLocals
  Paths <- MCPaths
  GlobMatches <- MCGlobMatches
  LabelConfig <- MCLabelConfig
  Registry <- MCRegistry
  Run <- MCRun
  Programs <- MCPrograms
  Resembles <- MCResembles
INVARIANTS
  SourcesJudged
  TypesAndValuesAgree
  QueriesSelect
  ExperimentsFair
  ExecutionSound
PROPERTY
  Terminates
CHECK_DEADLOCK FALSE
