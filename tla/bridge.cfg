SPECIFICATION Spec
CONSTANTS
  None = None
  Blank = Blank
  LowerCase <- MCLower
  UnicodeEscape <- MCEscape
  MaxMessages = 2
  MAX_REPAIR = 1
  Sessions = {"s1"}
  Scenarios <- MCScenarios
INVARIANTS
    AdviceConserved
    BufferConserved
    CreditedOnce
    RepairsOwnTurn
    ReportedOnce
PROPERTIES
    StrictestWins
    
