SPECIFICATION Spec
CONSTANTS
    Languages = {"en", "ja", "fr"}
    Catalogs <- MCCatalogs
    Visits = {1, 2}
    None = None
    MaxEdits = 4
    MaxSaves = 2
INVARIANTS
    SavedIsWhole
    ShownIsSaved
    HomeStays
    ActiveIsEnrolled
