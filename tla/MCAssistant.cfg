\* Two talks of one account and a question of another, or a run, or a graph.
SPECIFICATION AssistSpec
CONSTANTS
    x1 = x1
    x2 = x2
    o1 = o1
    ann = ann
    bob = bob
    g1 = g1
    g2 = g2
    Talk = {x1, x2, o1}
    Account = {ann, bob}
    Owner <- MCOwner
    Once = {o1}
    Graph = {g1, g2}
    NoGraph = NoGraph
    NoNode = NoNode
    Limit <- MCLimit
    FiveMinutes = 0
    Hour = 0
    Day = 1
    MaxClock = 2
    MaxEdits = 1
    Thread = {"r1", "r2"}
    Flood = 2
    ToolRounds = 2
    Interval = 1
    MaxChunks = 1
    MaxTools <- MCMaxTools
    Client = {"w1", "w2"}
    Tooled = {"w1"}
    ApiGraph = {"v1", "v2"}
    ApiFlood = 3
    ApiToolRounds = 1
    LoopFree = "free"
SYMMETRY Alike
CHECK_DEADLOCK FALSE
INVARIANTS AssistantTypeOK LimitsKept ChatKept AllShown ApiTalkHolds
PROPERTIES ProviderServed KeepsPromise
