CONSTANTS
    Window = {w1, w2, w3}
    NULL = NULL
    MAX_WINDOWS = 3
SPECIFICATION Spec
SYMMETRY Symmetry
INVARIANTS IdIsSlot FocusedIsTop
