CONSTANTS
    Tests <- MCTests
    Products = {"k3s", "rke2"}
    ServerCounts <- MCServerCounts
    AgentCounts <- MCAgentCounts
    MaxRetries = 2
    HashPolls = 3
    MaxFaults = 2
SPECIFICATION Spec
INVARIANTS
    TypeOK
    OneServerDown
    RotatedIsServed
    NoOldDataServes
    KeysStayTogether
