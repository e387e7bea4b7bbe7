CONSTANTS
    Places <- MCPlaces
    At <- MCAt
    Landmarks <- MCLandmarks
    Embankments = {2}
    Bridges = {5}
    Clash <- MCClash
    PaceScale = 100
    Pools <- MCPools
    Drafts <- MCDrafts
    Tastes <- MCTastes
    MaxPins = 2
    RecursionLimit = 13
    MaxBuilds = 2
    RoutesFrom <- ResolveRoutes
SPECIFICATION Spec
INVARIANTS BannedStaysOut RoutesAreSound CriticAccepts OnlyRoutesRefused
PROPERTIES PinsSurvive
CHECK_DEADLOCK FALSE
