SPECIFICATION RingSpec
CONSTANTS
    Items = {v1, v2}
    Torn = torn
    Slots = 2
    Radix = 4
    Modulus = 16
INVARIANT OnlyPublished
