CONSTANTS
    Nodes = {n1, n2, n3}
    MinReady <- MCMinReady
    MaxChanges = 3
SPECIFICATION FairSpec
INVARIANTS
    WatchTypeOK
    OkNodesWereReady
PROPERTY PassesWhenReady
