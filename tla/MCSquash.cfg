SPECIFICATION Spec
CONSTANTS
    MountTries = 2
    ExitCode = {0, 1, 137}
    Signal = {9, 15}
    EXIT_SQUASH = 84
CHECK_DEADLOCK FALSE
INVARIANTS TypeOK ServedWhileAlive SameExitCode WaitNeverBlocks
PROPERTIES RequestEndsParent
