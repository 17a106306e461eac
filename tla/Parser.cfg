\* The parsers of VHDL and Verilog on tests of the repository and on files
\* that are cut short or miss a word.
SPECIFICATION FairSpec
CONSTANTS
  Files <- MCFiles
  Rules <- MCRules
INVARIANTS
  TypeOK
  PositionsNest
  NoCallWithoutProgress
  MatchesGrammar
  TestsEndAsExpected
  UnitsAreWhole
PROPERTIES
  OptionalIsAtomic
  ImplementsStream
  Terminates
