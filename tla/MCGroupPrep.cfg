SPECIFICATION MCSpec
CONSTANTS
    Files = {1, 2}
    Docs = {"u0", "u1", "u2", "site", "siteX", "g1", "list"}
    Shapes <- MCShapes
    ShapeOf <- MCShapeOf
    RowsOf <- MCRowsOf
    Transform <- MCTransform
    GroupShapes = {"group"}
    CanonicalShapes = {}
    Registries <- MCRegistries
    Numbers = {"A", "B"}
    Groups = {"x", "y"}
    Requests = {q1, q2}
    Ready <- MCReady
    None = None
    MaxGeneration = 4
    Scenarios = {"edits", "files"}
SYMMETRY RequestSymmetry
INVARIANTS
    ResultsAreCurrent
    ExportedIsClean
    ExpectsHold
