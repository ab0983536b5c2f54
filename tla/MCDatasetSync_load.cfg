\* One client synchronises while training loads the dataset.
SPECIFICATION Spec
CONSTANTS
    Session = {s1}
    Job = {j1}
    Header <- MCHeader
    Content <- MCContent
    Version <- MCVersions
    NoHash = NoHash
    NoFp = NoFp
    NoHeader = NoHeader
    MaxRestarts = 0
    block1 = block1
    block2 = block2
    header1 = header1
    header2 = header2
INVARIANTS LoadedMatchesRef
