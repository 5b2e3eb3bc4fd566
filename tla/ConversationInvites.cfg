SPECIFICATION Spec
CONSTANTS
    A = A
    B = B
    C = C
    None = None
    User = {A, B, C}
    Thread = {w1, w2}
    Call <- MCCalls
    Friends <- MCFriends
    Palettes <- MCPalettes
    Inviter <- MCInviter
    TTL = 2
    Cooldown = 1
    MaxEvents = 3
SYMMETRY Symmetry
INVARIANTS
    NoInvitationOutlives
CHECK_DEADLOCK FALSE
