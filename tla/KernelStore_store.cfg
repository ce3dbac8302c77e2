\* Two processes advance one Campaign, and one of them also serves inspect.
CONSTANTS
    Kernel = {k1, k2}
    Advancing = {k1, k2}
    Inspecting = {k1}
    Step = {a, b}
    MaxVersion = 3
SPECIFICATION Spec
INVARIANTS
    AcknowledgedDurable
PROPERTIES
    StaleWriterFailsClosed
