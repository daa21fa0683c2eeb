CONSTANTS
    Null = Null
    MaxBlock = 2
    MaxFaults = 2
SPECIFICATION Spec
INVARIANTS OutsideViewIsTrue ExitCodeIsTruthful CursorCoversHandled
PROPERTIES ProcessEnds EveryEventHandled
