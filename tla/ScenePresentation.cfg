CONSTANTS
    MaxGen = 3
    Rows = {r1, r2}
    Values = {a, b}
    Junk = Junk
    Faults = {"reject", "cancel", "evict"}
    Damages <- PartialDamage
SPECIFICATION SceneSpec
INVARIANTS
    ShadowExact
    LayoutTiles
\* The layout parser stops with its verdict.
CHECK_DEADLOCK FALSE
