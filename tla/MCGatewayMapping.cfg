\* Every class, two edits of the table; every set of eight neighbouring
\* addresses, five registers in a request, which is no multiple of two as 120
\* is none of 16.  An abandoned dialog ends there, and a read does.
SPECIFICATION MCSpec
CONSTANTS
    Models <- MCModels
    Tables <- MCTables
    Entered <- MCEntered
    MaxEdits = 2
    Nobody = Nobody
    Widths <- MCWidths
    Addresses <- MCAddresses
    Chunk = 5
INVARIANT StoredMappingsApply
INVARIANT OwnRows
INVARIANT AutomaticSetsUp
INVARIANT EachHasItsOwn
INVARIANT RequestsFit
INVARIANT NoneTooMany
CHECK_DEADLOCK FALSE
