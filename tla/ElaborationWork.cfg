\* Packages of one library in files that use each other in every way.
SPECIFICATION FairSpec
CONSTANTS
  work = work  std = std  lib = lib  standard = standard
  a = a  b = b  c = c  d = d  x = x  y = y
  here = here  there = there  system = system  m = m  f = f  g = g  h = h
  Libraries <- MCLibraries
  Names <- MCNames
  Identifiers <- MCIdentifiers
  ALL = ALL
  OPERATOR = OPERATOR
  WORK = work
  STD = std
  STANDARD = standard
  Dirs <- MCDirs
  HERE = here
  Files <- MCFiles
  MainFile = m
  NoPath = NoPath
  NoFile = NoFile
  LibraryPath <- MCLibraryPath
  PackageFile <- MCPackageFile
  Unreadable = Unreadable
  Sources <- WorkSources
  Commands <- PlainCommands
  MaxDepth = 4
INVARIANTS
  TypeOK
  SettledOrReported
  EntriesAreFaithful
  FileInformationIsComplete
PROPERTIES
  DefinitionsAreStable
  TidyProgramsCompile
  ImplementsLinkage
