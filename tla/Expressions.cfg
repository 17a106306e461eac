\* Overload resolution in two passes over the syntax tree.
SPECIFICATION Spec
CONSTANTS
  NODES <- MCNodes
  PROGRAMS <- MCPrograms
CHECK_DEADLOCK FALSE
INVARIANTS
  CallsPassWhatIsGiven
  WritingAgainIsTheSame
