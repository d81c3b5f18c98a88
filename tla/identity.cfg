CONSTANTS
    Service <- Names
    Unnamed = ""
    Rule <- Rules
    Default = "fallback"
    NoRepo = "none"
    Python = {"cart-api"}
    Type = {"KeyError", "OSError"}
    Fn = {"handle", "total"}
    Sources = {"total"}
    Message = {"no item", "no disk"}
    Value = {"1", "2"}
    Build <- Builds
    MaxRules = 3
    MaxReports = 2
SPECIFICATION IdentitySpec
INVARIANTS
    OneFingerprintPerSite
PROPERTIES
    RouteMovesOnlyForItsRule
