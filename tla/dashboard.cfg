SPECIFICATION DashboardSpec
CONSTANTS
  Requests = {"r1", "r2", "r3", "r4"}
  NVehicles = 2
  Reports <- MCReports
  MaxClicks = 2
  Pressed = {"control.command.arm", "control.command.hold"}
  SignIns = {"super_admin", "pilot"}
  MaxSessions = 2
  Drones = {"d1"}
  MaxMounts = 2
  MaxPending = 2
  Fleets = {"a", "b"}
  Craft = {"x", "y"}
  Members = {"u"}
  Worlds <- MCWorlds
  PageSize = 1
  MaxRuns = 2
  MaxActs = 3
  Missions = {"a", "b", "c"}
  OldMissions = {"a", "b"}
  Manned = {"a"}
  Uavs = {"u"}
  MaxJobs = 3
  MaxDeeds = 3
  Fliers = {"u", "w"}
  Stands = {"near", "far"}
  Facts <- MCFacts
  RoutePlans <- MCRoutePlans
  MaxStarts = 2
  WaypointIds = {"i", "j", "k"}
  Places = {1}
  MaxVertices = 3
  Grids <- MCGrids
  StoredRoutes <- MCStoredRoutes
  Fences <- MCFences
  Spots <- MCSpots
  GridOptions <- MCGridOptions
  MaxPlaced = 2
  Tabs = {"t1", "t2"}
  Users = {"operator", "admin"}
  Visited = {"/login", "/password-recovery", "/app/users"}
  Accounts = {"me", "v", "n"}
  Self = "me"
  Staff = {"v"}
  Orgs = {"o", "p"}
  HomeOrg = "o"
  Ranks = {"viewer", "admin", "super_admin"}
  MaxTasks = 2
  MaxMoves = 3
INVARIANTS DashboardTypeOK RefreshIsShared ConsoleSafe StreamSafe ListsAreTrue PlanningSafe
  RouteSafe GeometryIsRight SessionSafe
PROPERTIES NoResend SavesDoWhatTheySay LaunchedAreFit NoRefreshLoop NoRedirectLoop DashboardLive
CHECK_DEADLOCK FALSE
