\* Two jobs, one cleanup call, one restart, the realistic retention.
SPECIFICATION Spec
CONSTANTS
    Job = {j1, j2}
    Client = {}
    Cleaner = {t1}
    Epochs = 1
    Retentions = {"long"}
    MaxRestarts = 1
    NoJob = NoJob
SYMMETRY Symmetry
CHECK_DEADLOCK FALSE
INVARIANTS TypeOK OneRunning StreamWellFormed LiveWorkspaceKept
           SnapshotAvailable
PROPERTY ImplementsLifecycle
