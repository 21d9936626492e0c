SPECIFICATION BacklightSpec
CONSTANTS
    Procs = {daemon, panel}
    Levels = {50, 200}
    Default = 200
    LeftBehind <- AnythingLeft
    NoFile <- Missing
INVARIANT EffectSeen
PROPERTY OnLights
