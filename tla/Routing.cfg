SPECIFICATION RoutingSpec
CONSTANTS
    Published <- PublishedDef
    Latency <- LatencyDef
    Actions <- ActionsDef
    SymbolWord = {"tcs"}
    SymbolField = {"symbols"}
    Kin <- KinDef
    Requests <- RequestsDef
    HintKinds = {"text", "object"}
    Threshold = 2800
    MaxTurns = 2
    Nil = Nil

    
PROPERTIES
    RoutedForCertain
    AskedOnlyUnknown
CHECK_DEADLOCK FALSE
