\* Saves that fall back to a shadow and stops in the middle of a save, with and
\* without torn shadows and interrupted clears.
SPECIFICATION Spec
CONSTANTS
    c1 = c1
    c2 = c2
    d1 = d1
    d2 = d2
    Clients = {c1, c2}
    Drafts = {d1, d2}
    Nothing = Nothing
    Unloaded = Unloaded
    Torn = Torn
    Shadows = 2
    MaxClock = 4
    Regimes = {{"write", "crash"}, {"write", "tear", "crash", "clear"}}
PROPERTIES
    ImplementsRegister
    SavedIsServed
