\* One name of two versions, three snapshots: enough to fork, mutate, persist
\* and delete a record, lose the process in between, fail to write the index
\* and use a version again.
SPECIFICATION Spec
CONSTANTS
    Names = {"a"}
    MaxVersion = 1
    MaxSnapshots = 3
    IndexMayFail = TRUE
INVARIANTS
    NeverWrongBytes
    PersistedSurvives
PROPERTY
    RecordsImmutable
