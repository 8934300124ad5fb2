SPECIFICATION Spec
CONSTANTS
    Patches = {p1, p2, p3}
    Senders = {s1, s2}
    MaxAttempts = 2
    ReadStatuses = {"read", "unread", "other"}
    InitialDelivery = {"queued", "failed", "other"}
INVARIANT
    TypeOK
PROPERTIES
    DeliveryAndReadMarksKept
    PatchTakesEffectUnlessClashed
CHECK_DEADLOCK FALSE
