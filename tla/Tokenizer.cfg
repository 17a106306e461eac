\* The scanner on every short text of VHDL and of Verilog.
SPECIFICATION Spec
CONSTANTS
  Sources <- MCSources
  KeywordsOf <- MCKeywordsOf
INVARIANTS
  TokensCoverTheText
  EndedFilesAreRead
  TokensAreWhole
  LinesAreCounted
