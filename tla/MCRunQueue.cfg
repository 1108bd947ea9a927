CONSTANTS
    sweep1 = sweep1
    sweep2 = sweep2
    slot1 = slot1
    effect1 = effect1
    turn1 = turn1
    Runs = {sweep1, sweep2, effect1, turn1}
    Slots <- MCSlots
    Autos <- MCAutos
    Custom <- MCCustom
    Effects <- MCEffects
    Turns <- MCTurns
    AutoOf <- MCAutoOf
    Capacity <- MCCapacity
    Lanes = 2
    MaxAttempts = 2
    MaxLeases = 1
    MaxEnds = 2
    MaxFaults = 1
    MaxStrays = 1
SPECIFICATION Spec
CHECK_DEADLOCK FALSE
SYMMETRY Symmetry
CONSTRAINT Mix
INVARIANTS RunningWithinCapacity LeaseBudget MarkIsNotStale ClosesCostNoLease
