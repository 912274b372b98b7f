SPECIFICATION DeskSpec
CONSTANTS
    x1 = x1
    x2 = x2
    k1 = k1
    k2 = k2
    Source = {s1, s2}
    Unstable = {s2}
    Collector = {x1, x2}
    Checker = {c1}
    Disabler = {d1}
    MaxPrice = 1
    Runner = {r1, r2}
    Preparer = {p1}
    MaxRequests = 1
    MaxSlips = 2
    Place <- MCPlace
    PlaceKey = {k1, k2}
    SheetTool = {x1, x2}
    Uploader = {u1}
    Nameless <- MCNameless
    WithWebsite <- MCWithWebsite
    Attempts = 2
    MaxCrawls = 2
    MaxMishaps = 1
    Price <- MCPrice
    FirstDay <- MCFirstDay
    Span = 1
    Feed = {f1}
    Collection = {x1, x2}
    Window = 1
    Compare = 1
    MaxMinutes = 3
    MaxSaves = 3
    Starter = {x1, x2}
    Sheet <- MCSheet
    Clock <- MCClock
    Fallback <- MCFallback
    NoFile = NoFile
    TornFile = TornFile
    MaxEdits = 1
    Lead = {k1, k2}
    Extractor = {x1, x2}
    Crawler = {x1, x2}
    MaxTries = 2
CONSTRAINT Bounds
SYMMETRY Symmetry
INVARIANTS
    HarvestsAreExplained
    SheetIsFaithful
    SettingsAreObeyed
    ViewsAgree
    HistoryIsTold
PROPERTIES
    MarketIsTold
    ReadingIsTrue
CHECK_DEADLOCK FALSE
