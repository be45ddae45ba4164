SPECIFICATION FairSpec
CONSTANTS
    c1 = c1
    c2 = c2
    d1 = d1
    d2 = d2
    Clients <- MCClients
    Daemons <- MCDaemons
    Nobody = Nobody
INVARIANTS
    TypeOK
    OneDaemon
    ListedHasRecord
PROPERTIES
    DeadAreReaped
