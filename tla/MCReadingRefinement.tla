------------------------ MODULE MCReadingRefinement -------------------------
EXTENDS ReadingRefinement, MCReadingSession
=============================================================================
