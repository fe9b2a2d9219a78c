CONSTANTS
  Newline = "NL"
  Space <- MCSpace
  Dot = "."
  Digit = {"3"}
  Abbreviation <- MCAbbreviation
  Starter <- MCStarter
  Opener = {"J["}
  Terminal <- MCTerminal
  Closer <- MCCloser
  Catalogs <- MCCatalogs
SPECIFICATION Spec
INVARIANTS
  WordsAreKept
  ParagraphsAreKept
  SentencesEndRight
