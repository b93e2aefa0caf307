\* Two keys, key lists of up to two entries, two requests (get or test_all),
\* so counts survive a reload and are added to afterwards.
CONSTANTS
    Keys = {k1, k2}
    MaxKeys = 2
    MaxGets = 2
SYMMETRY MCSymmetry
SPECIFICATION Spec
INVARIANTS
    ConfiguredKeysLoaded
    TotalsCoverClients
\* Reloads, requests and config edits can always go on.
