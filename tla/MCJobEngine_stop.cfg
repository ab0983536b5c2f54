\* implementation-plan.md:1171 says a stop waits for the current batch: it waits for the end of training.
SPECIFICATION Spec
CONSTANTS
    Job = {j1}
    Client = {}
    Cleaner = {}
    Epochs = 3
    Retentions = {"long"}
    MaxRestarts = 0
    NoJob = NoJob
CHECK_DEADLOCK FALSE
INVARIANT StopWithinEpoch
