SPECIFICATION Spec
CONSTANTS
    Configs = {c1, c2}
    FirstConfig = c1
    NoConfig = none
INVARIANT ChangesInvalidate
