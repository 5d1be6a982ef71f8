SPECIFICATION Spec
CONSTANTS
    p1 = p1
    p2 = p2
    h1 = h1
    h2 = h2
    k1 = k1
    k2 = k2
    f1 = f1
    f2 = f2
    n1 = n1
    n2 = n2
    t1 = t1
    t2 = t2
    u1 = u1
    None = None
    Procs = {p1, p2}
    Handles = {h1, h2}
    Cards = {k1, k2}
    PngCards = {k1}
    CardHandle <- MCCardHandle
    LoreOf <- MCLoreOf
    Files = {f1, f2}
    FileName <- MCFileName
    ParentRef <- MCParentRef
    LinesOf <- MCLinesOf
    Texts = {t1, t2}
    Personas = {u1}
    Mixes <- MCMixes
    MaxCrashes = 1
SYMMETRY Same
INVARIANTS
    TypeOK
    PinnedFrozen
    CurrentIsWhole
    ImportOnce
    ReferencedKept
    FormatsHold
CHECK_DEADLOCK FALSE
