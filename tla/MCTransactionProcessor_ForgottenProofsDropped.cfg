\* One resource of supply 2, three manifest ids, five instructions.
CONSTANTS
    xrd = xrd
    Res = {xrd}
    Total <- MCTotal
    MaxIds = 3
    MaxNodes = 6
    MaxSteps = 5
    MaxAmount = 2
SPECIFICATION Spec
CHECK_DEADLOCK FALSE
PROPERTIES
    ForgottenProofsDropped
