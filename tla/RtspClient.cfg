SPECIFICATION FairSpec
CONSTANTS
    Requests = {r1, r2, r3}
    NoCseq = NoCseq
    None = None
INVARIANTS
    TypeOK
PROPERTIES
    ImplementsExchange
    ExchangesSettle
CHECK_DEADLOCK FALSE
