\* Four edits of the file.
CONSTANT
    MaxEdits = 4
SPECIFICATION FairSpec
CHECK_DEADLOCK FALSE
INVARIANT TypeOK
PROPERTIES
    NoRollback
    LastEditWins
