\* Three keys, key lists of up to three entries, two requests.
CONSTANTS
    Keys = {k1, k2, k3}
    MaxKeys = 3
    MaxGets = 2
SYMMETRY MCSymmetry
SPECIFICATION Spec
INVARIANTS

    NoStaleKeys
\* Reloads, requests and config edits can always go on.
