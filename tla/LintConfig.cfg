\* The line length of nested configurations.
SPECIFICATION Spec
CONSTANTS
  NamespaceLines = 2
  Dotted <- MCDotted
  NormalTrigger = 1
  TestTrigger = 2
  SectionLines = 2
  Macros = {"API", "TEST"}
  Path <- MCPath
  Needs <- MCNeeds
  Categories <- MCCategories
  Legacy <- MCLegacy
  Extensions <- MCExtensions
  Inputs <- FilesInputs
CHECK_DEADLOCK FALSE
INVARIANTS
  NestedLineLength
