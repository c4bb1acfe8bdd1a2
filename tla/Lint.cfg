\* One file of any text, and four files in directories with configurations, marks and faults.
SPECIFICATION Spec
CONSTANTS
  NamespaceLines = 2
  Dotted <- MCDotted
  NormalTrigger = 1
  TestTrigger = 2
  SectionLines = 2
  Macros = {"API", "TEST"}
  Path <- MCPath
  Needs <- MCNeeds
  Categories <- MCCategories
  Legacy <- MCLegacy
  Extensions <- MCExtensions
  Inputs <- MCInputs
CHECK_DEADLOCK FALSE
INVARIANTS
  ElidedIsCode
  CloseAndReverseAgree
  ElseLeavesNoTrace
  RepeatedIncludeReported
  ReportedUnlessExcused
  FiltersAsGiven
