\* An order of the session, cancelled or replaced, over two reconnections, or
\* beside an order entered outside the session (Scenarios).
CONSTANTS
    ClOrd = {c1, c2}
    Text = {}
    Ext = {x1}
    Zero = Zero
    None = None
    MaxReqs = 1
    MaxReconnects = 2
    MaxOrders = 2
    MaxQty = 3
    MaxWire = 2
SPECIFICATION Spec
SYMMETRY Symmetry
VIEW Unreported
CONSTRAINT Scenarios
INVARIANTS
    TypeOK
    OneEntryPerOrder
    CumQtyExact
    NeverOverfilled
    OwnExecutions
    AckGivesOrderID
PROPERTIES
    FilledAtLastTrade
    OrderIDLostByCause
    QuantitiesReported
