\* Two clients synchronise the same dataset, one restart; or another component.
SPECIFICATION StoreSpec
CONSTANTS
    Session = {s1, s2}
    Job = {j1}
    Header <- MCHeader
    Content <- MCContent
    Version <- MCVersion
    NoHash = NoHash
    NoFp = NoFp
    NoHeader = NoHeader
    MaxRestarts = 1
    block1 = block1
    block2 = block2
    header1 = header1
    header2 = header2
    None = "none"
    User = {"ann", "bob"}
    Sale = {"s1", "s2"}
    MaxPings = 2
    Name = {"n1", "n2"}
    Attempt = {"x1"}
    Page = {"p1", "p2"}
    TTL = 1
    MaxClock = 1
    Teacher = {"ann", "tom"}
    Student = {"bob", "cyd"}
    Class = {"c1"}
    Stream = {"e1"}
    Scene <- MCScene
    Chat = {"0.doc"}
    Order <- MCOrder
    Release = {"v1", "v2"}
    Archive <- MCArchive
    Program <- MCProgram
    OwnFile <- MCOwnFile
    ApiScene = {"1"}
    ApiContext = {"c", "d"}
    MaxTrained = 2
    NoModel = 9
    ApiTeacher = {"ann"}
    ApiStudent = {"bob"}
    ApiClass = {"c1", "c2"}
    Lesson = {0, 1}
    Request = {"r1", "r2", "r3"}
    Batch = 2
    Load = {"t1", "t2"}
    HashAlgo = {"sha256", "fasthex"}
    ApiVersion <- MCApiVersion
    MaxChanges = 1
    MaxQueue = 1
    MaxCrashes = 1
    MaxCuts = 2
SYMMETRY Clients
INVARIANTS TypeOK BlockIntegrity AckedIsDurable CurrentWhenQuiet AckMeansSynced
    DocumentsTypeOK ApiHolds
PROPERTIES BillingHolds SignInHolds ClassroomsHold ProjectsHold InstallerHolds
