SPECIFICATION EngineLiveSpec
CONSTANTS
    Nothing = Nothing
    Orders = {1, 2, 3}
    Size <- MCSize
    Value <- MCValue
    AddedAt <- MCAddedAt
    Permitted = {1}
    Accepted = {1, 2}
    MaxOrders = 1
    Means = 2
    Cap = 2
    Weathers <- MCWeathers

    
    
PROPERTIES
    ComesUp
CHECK_DEADLOCK FALSE
