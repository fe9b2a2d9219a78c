SPECIFICATION Spec
CONSTANTS
    Languages = {"en", "ja", "fr"}
    Catalogs <- MCCatalogs
    Visits = {1}
    None = None
    MaxEdits = 3
    MaxSaves = 2
INVARIANTS
    FormActiveIsEnrolled
