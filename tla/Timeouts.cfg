SPECIFICATION Spec
CONSTANTS
    Boot <- MCBoot
    Period <- MCPeriod
    Eth = "eth"
    Tcp = "tcp"
    App = "app"
    Delays = {1, 3}
    Pools = {3, 4}
INVARIANT Inv
PROPERTY DueOrder
PROPERTY NotEarly
PROPERTY TimersRun
