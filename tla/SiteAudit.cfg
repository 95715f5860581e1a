CONSTANTS
    UrlOrder <- MCOrder
    bare <- MCSame
    UrlOf <- MCUrlOf
    lowered <- MCSame
    Worlds <- MCWorlds
    Start <- MCStart
    WebOf <- MCWebOf
    site <- MCSite
    cfg <- MCCfg
    Conditions <- MCConditions
    Behind <- MCBehind
    Rechecked <- MCRechecked
    Claims <- MCClaims
    MaxScans = 2
SPECIFICATION Spec
INVARIANTS
    FixedMeansFixed
    
    
    HidingNeverCosts
    ViewsAgree
