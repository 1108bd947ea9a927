CONSTANTS
    Ops = {1, 2}
    Requests <- MCRequests
    Keys <- MCKeys
    KeyOf <- MCKeyOf
    Transactions = {"t"}
    Erasures = {"e"}
    Mixes <- MCMixes
    Admit = 1
    Window = 2
    Horizon = 4
    MaxTrouble = 1
SPECIFICATION FairSpec
INVARIANTS OncePerRequest AnswersKept TrailTrue EvidenceKept
PROPERTIES ReceiptsSettle
CHECK_DEADLOCK FALSE
