\* persist() raises on the index and is called again.
SPECIFICATION Spec
CONSTANTS
    Names = {"a"}
    MaxVersion = 0
    MaxSnapshots = 1
    IndexMayFail = TRUE
INVARIANT
    PersistIsIdempotent
