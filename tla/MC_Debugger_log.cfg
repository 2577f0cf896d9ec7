SPECIFICATION DebuggerSpec
CONSTANTS
    Pcs = {p1}
    MaxBreakpoints = 0
INVARIANT LogOpens
