CONSTANTS
    ClOrd = {c1, c2}
    Text = {}
    Ext = {}
    Zero = Zero
    None = None
    MaxReqs = 1
    MaxReconnects = 1
    MaxOrders = 1
    MaxQty = 2
    MaxWire = 2
SPECIFICATION Spec
CHECK_DEADLOCK FALSE
PROPERTY LastTradeFills
