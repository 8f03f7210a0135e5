SPECIFICATION CbSpec
CONSTANTS
    CbOrders = {"ask", "finish"}
    CbMaxNum = 5
    CbOpens = 2
INVARIANT CbNeverShared
CHECK_DEADLOCK FALSE
