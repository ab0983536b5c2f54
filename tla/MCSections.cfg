\* Two users train networks on one dataset, three trainings together.
SPECIFICATION SectionsSpec
CONSTANTS
    Job = {j1}
    Client = {}
    Cleaner = {t1, t2}
    Epochs = 1
    Retentions = {"zero", "long"}
    MaxRestarts = 1
    NoJob = NoJob
    Table <- Datasets
    Base = 2
    BlockRows = 4
    Few = 6
    Many = 7
    Ops = 4
    NextOps <- MCNextOps
    MaxPeriod = 4
    HeadKeep = 1
    MaxStep = 9
    NetContext = {"c1", "c2"}
    NetOwner <- MCNetOwner
    Network <- SectionGraphs
    Data = {"d"}
    Absence = "u"
    MaxTrainings = 3
    MaxTrained = 1
    MaxSends = 4
    FitEpochs = 4
    FitBatches = 2
    ExportInterval = 2
    Bundle <- Bundles
    Public <- MCPublic
    Fingerprint = {"", "empty", "f1", "f2"}
    RowsOf <- MCRowsOf
    NoArrays <- Absent
    NoBundle <- Job1
    MaxSyncs = 2
    Token = {"", "key"}
    Good = "key"
    Slot = {1, 2}
    MaxEdits = 2
    FitRequest <- Fits
    PlainFit <- Plain
    Unset <- NotGiven
    MaxSamples = 3
CHECK_DEADLOCK FALSE
PROPERTIES OptimizersReset
