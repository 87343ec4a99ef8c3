SPECIFICATION Spec
CONSTANTS
    Catalog <- MCCatalog
    HomeSchema = "s"
    Dependencies <- MCDependencies
    FixedRoots <- MCFixedRoots
    Kinds <- MCKinds
    RouteDepths <- MCRouteDepths
    TriedDepths <- MCTriedDepths
    Haste = 2
    NoRoot = NoRoot
INVARIANTS
    ShowsWhatIsAsked
    BadgesTellMore
    EdgesAreKeys
CHECK_DEADLOCK FALSE
