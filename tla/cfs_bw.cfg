SPECIFICATION Spec
CONSTANTS
    CPUs = {1,2}
    Quota = 4
    Slice = 2
    MinRuntime = 1
    Deltas = {1}
    Debt = 0
    Hotplug = {2}
INVARIANT Inv
PROPERTY ThrottledRuns
