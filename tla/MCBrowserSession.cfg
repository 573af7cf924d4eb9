\* Two tabs, two requests and a refresh each in flight, two logins.
SPECIFICATION Spec
CONSTANTS
    a = a
    b = b
    s1 = s1
    s2 = s2
    none = none
    Tabs = {a, b}
    NoTab = none
    Slots = {s1, s2}
    MaxTokens = 2
    Faults = TRUE
SYMMETRY Symmetry
INVARIANTS
    TokensBelong
PROPERTIES
    LoginLasts
