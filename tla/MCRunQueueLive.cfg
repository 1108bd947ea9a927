CONSTANTS
    sweep1 = sweep1
    sweep2 = sweep2
    slot1 = slot1
    effect1 = effect1
    turn1 = turn1
    Runs = {sweep1, slot1}
    Slots <- MCSlots
    Autos <- MCAutos
    Custom <- MCCustom
    Effects <- MCEffects
    Turns <- MCTurns
    AutoOf <- MCAutoOf
    Capacity <- MCCapacity
    Lanes = 1
    MaxAttempts = 2
    MaxLeases = 1
    MaxEnds = 1
    MaxFaults = 0
    MaxStrays = 0
SPECIFICATION FairSpec
CHECK_DEADLOCK FALSE
INVARIANTS ExecutorOwnsRow
PROPERTIES TerminalIsFinal KeepsRunLife DueRunEnds
