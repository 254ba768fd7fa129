SPECIFICATION HubSpec
CONSTANTS
    a = a  b = b  c = c
    Session <- MCSession
    Nobody = Nobody
    LeaseTtl = 3
    Client = {c1}
    TicketId = {t1, t2}
    Screen = {"library", "page"}
    Ttl = 2
INVARIANTS
    GrantsAreSound
    TicketsAreSound
    ConnectionJoinsItsAttempt
PROPERTIES
    SilentHolderLosesTheLease
    ImplementsAbstractLease
    LoopsConnect
