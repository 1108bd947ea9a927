CONSTANTS
    sweep1 = sweep1
    sweep2 = sweep2
    slot1 = slot1
    effect1 = effect1
    turn1 = turn1
    Runs = {sweep1}
    Slots <- MCSlots
    Autos <- MCAutos
    Custom <- MCCustom
    Effects <- MCEffects
    Turns <- MCTurns
    AutoOf <- MCAutoOf
    Capacity <- MCCapacity
    Lanes = 2
    MaxAttempts = 1
    MaxLeases = 1
    MaxEnds = 0
    MaxFaults = 0
    MaxStrays = 0
SPECIFICATION Spec
CHECK_DEADLOCK FALSE
INVARIANTS StoppedHasNoEffect
