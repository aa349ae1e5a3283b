\* Keyboard only: two physical keys for "w" and one ignored.
SPECIFICATION Spec
CONSTANTS
    NoKey = NoKey
    Physical <- MCPhysical
    Buttons = {}
    Keymap <- MCKeymap
    MaxCalls = 2
PROPERTY HiddenTabSparesOtherCommands
