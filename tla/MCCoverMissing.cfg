CONSTANTS
  None = None
  Books = {1, 2}
  LiveBook = 2
  Files <- MCFiles
  Pictures = {jpeg, png}
SPECIFICATION Spec
INVARIANTS MissingCoverIsNotFound
