SPECIFICATION Spec
CONSTANTS
  None = None
  t1 = t1
  t2 = t2
  Threads = {t1, t2}
  Scenarios <- MCScenarios
  Elig <- MCElig
  Minted <- MCMinted
  RoutingEnabled = TRUE
  MoePerBucket = 3
  MaxActive = 2
  MaxTokens = 6
  TemplateChars = 12
  MaxConcernsPerCall = 2
  MinSpanChars = 12
  KeywordLimit = 2
  MinMessageChars = 24
INVARIANTS
    AloneOwnsPublished
    GhostsDoNotRoute
PROPERTIES
    StoresAgree
    ResolvesSoundly
    AdmittedIsWoven
    ExtractKeepsCustomisation
