\* README.md:344 says cleanup leaves queued and running jobs alone: with max_age_seconds=0 it does not.
SPECIFICATION Spec
CONSTANTS
    Job = {j1}
    Client = {}
    Cleaner = {t1}
    Epochs = 1
    Retentions = {"zero", "long"}
    MaxRestarts = 0
    NoJob = NoJob
CHECK_DEADLOCK FALSE
INVARIANT LiveWorkspaceKept
