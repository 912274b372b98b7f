SPECIFICATION SettingsSpec
CONSTANTS
    Starter = {r1, r2}
    r1 = r1
    r2 = r2
    Sheet <- MCSheet
    Clock <- MCClock
    Fallback <- MCFallback
    NoFile = NoFile
    TornFile = TornFile
    MaxEdits = 1
INVARIANTS
    PhasesAreObeyed
SYMMETRY Symmetry
CHECK_DEADLOCK FALSE
