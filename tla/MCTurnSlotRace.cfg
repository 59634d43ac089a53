SPECIFICATION Spec
CONSTANTS
    u1 = u1
    u2 = u2
    m1 = m1
    m2 = m2
    q1 = q1
    e1 = e1
    e2 = e2
    Loop = Loop
    Ext = Ext
    Guardian = Guardian
    NoTurn = NoTurn
    MaxTurns = 3
    UserItems = {u1}
    TriggerMail = {m1, m2}
    QueueMail = {}
    ExtItems = {}
    Scopes <- RaceScopes
SYMMETRY Symmetry
CHECK_DEADLOCK FALSE
PROPERTIES
    SlotFreeAtInstall
