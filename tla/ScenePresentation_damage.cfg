CONSTANTS
    MaxGen = 3
    Rows = {r1, r2}
    Values = {a, b}
    Junk = Junk
    Faults = {}
    Damages <- PartialDamage
SPECIFICATION SceneSpec
INVARIANTS
    ShadowIsScreen
\* The model stops once MaxGen frames were accepted.
CHECK_DEADLOCK FALSE
