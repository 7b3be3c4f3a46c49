\* One escalated review whose memo draft meets a model fault.
CONSTANTS
    Requests  = {r1}
    MaxItems  = 1
SPECIFICATION Spec
PROPERTY ADraftFaultCostsAParagraph
CHECK_DEADLOCK FALSE
