CONSTANTS
    Thread = {t1, t2, t3}
    Null = Null
    Sockets = 2
SPECIFICATION FairSpec
INVARIANTS
    TypeOK
    HandleNamesThread
PROPERTIES
    EchoListens
    AutostartEnds
    RetriesServe
