CONSTANTS
    QUEUE_SIZE = 2
    KEYBOARD_BUFFER_SIZE = 3
    SCREEN_WIDTH = 2
    MAX_SEARCH = 1
SPECIFICATION InputSpec
INVARIANTS KeyboardIsQueue EventsAreQueue
