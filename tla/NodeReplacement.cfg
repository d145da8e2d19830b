CONSTANTS
    ServerCounts <- MCServerCounts
    AgentCounts <- MCAgentCounts
SPECIFICATION Spec
INVARIANTS
    TypeOK
    MembersRun
    AtMostOneServerShort
    ReplacedWhenDone
    KubectlReachesServer
