\* Two physical keys for "w" and one ignored, the on-screen keys "w", "s" and "a".
SPECIFICATION Spec
CONSTANTS
    NoKey = NoKey
    Physical <- MCPhysical
    Buttons = {"w", "s", "a"}
    Keymap <- MCKeymap
    MaxCalls = 2
INVARIANTS LeavingKeyboardStops
PROPERTY ImplementsDriveIntent
