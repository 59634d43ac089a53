SPECIFICATION Spec
CONSTANTS
    u1 = u1
    u2 = u2
    m1 = m1
    m2 = m2
    q1 = q1
    e1 = e1
    e2 = e2
    Loop = Loop
    Ext = Ext
    Guardian = Guardian
    NoTurn = NoTurn
    MaxTurns = 4
    UserItems = {u1, u2}
    TriggerMail = {m1, m2}
    QueueMail = {q1}
    ExtItems = {e1, e2}
    Scopes <- SafetyScopes
SYMMETRY Symmetry
CHECK_DEADLOCK FALSE
INVARIANTS
    TypeOK
    EndsWithOneTerminal
    RunningTurnIsActive
    InputAccountedFor
PROPERTIES
    SlotFreeAtInstall
