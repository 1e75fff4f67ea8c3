CONSTANTS
    btc = btc
    eth = eth
    None = None
    ReqID = {r1, r2}
    MaxSubID = 8
    Symbol <- MCSymbol
    SymLists <- MCSymLists
SPECIFICATION Spec
SYMMETRY Symmetry
INVARIANTS
    TypeOK
    ReqIDNamesOneSymbol
    OneSubscriptionPerSymbol
    DataIsRouted
    GrantedForEver
    RefusalNamesItsRequest
PROPERTY ImplementsTable
