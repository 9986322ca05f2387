CONSTANTS
  a = a
  b = b
  Plus = Plus
  Hash = Hash
  Levels <- MCLevels
  Patterns <- MCPatterns
  Asked <- MCAsked
  Urls <- MCUrls
  Threads = {t1, t2}
  Wrap = 5
  Leftovers = {0, 4}
  MaxHandlers = 2
  MaxCalls = 2
SPECIFICATION Spec
SYMMETRY Symmetry
INVARIANTS TypeOK HandlersExclusive StatIsPlausible
PROPERTY FirstRuleServes
CHECK_DEADLOCK FALSE
