CONSTANTS
    MaxClients = 2
    Clients = {c1, c2}
    Ports = {p1, p2, p3}
    RouterReassigns = TRUE
    ReconnectLimit = 1
    ZombieTime = 1
    Timeout = 2
    BOT = BOT
    Nobody = Nobody
SPECIFICATION FairSpec
INVARIANTS
    OneSlotPerClient
    GameAgrees
PROPERTIES
    ZombiesGo
