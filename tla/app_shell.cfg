SPECIFICATION Spec
CONSTANTS
    Names = {1, 2}
    Conns = {"c1"}
    MaxOthers = 1
    Views = {"database", "roles", "queries"}
    First = "database"
    Rail = 1
    DefaultWidth = 3
    Widths = {1, 5}
    Worlds <- MCWorlds
    Panels <- MCPanels
    Roles = {"r1", "r2"}
INVARIANTS
    ReloadComesBack
    RolesInspectorLatest
    SidebarRemembers
PROPERTIES
    PresetsKept
    UnloadAsked
CHECK_DEADLOCK FALSE
