\* Two panels for one board. Two clicks, with reports under way between them,
\* can undo each other; either may be of either panel.
CONSTANTS
    Panels = {p, q}
    None = None
    Switches = {a, b}
    MaxClicks = 2
    MaxAsks = 1
    MaxReports = 1
    MaxText = 1
SPECIFICATION Spec
INVARIANTS TypeOK 
 
SYMMETRY Symmetry
\* Operators may stop.
CHECK_DEADLOCK FALSE
