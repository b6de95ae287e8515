SPECIFICATION MCSpec
CONSTANTS
    d1 = d1
    d2 = d2
    e1 = e1
    o1 = o1
    o2 = o2
    o3 = o3
    p1 = p1
    Dev <- MCDev
    Luks <- MCLuks
    Opt <- MCOpt
    Plugins <- MCPlugins
    OptDev <- MCOptDev
    MaxUser = 1
    MaxLang = 1
INVARIANTS OptionsUnderDevice DefaultFollowed InputHonoured SentAsShown NothingStale EditorFaithful
CHECK_DEADLOCK FALSE
