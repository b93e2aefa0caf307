\* Two calls refresh an expired entry while the server's list changes.
CONSTANTS
    Tasks = {t1, t2}
    MaxVersion = 3
    MaxCalls = 4
SYMMETRY MCSymmetry
SPECIFICATION Spec
PROPERTY CacheNeverRegresses
CHECK_DEADLOCK FALSE
