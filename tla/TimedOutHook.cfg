SPECIFICATION RunnerSpec
CONSTANTS
    Fires <- OneFire
    Slot <- OneScript
    Cap = 1
PROPERTY TimedOutHookDies
CHECK_DEADLOCK FALSE
