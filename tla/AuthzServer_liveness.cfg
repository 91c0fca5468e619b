SPECIFICATION FairSpec
CONSTANTS
    AgentId <- OneAgentId
    PolicyId <- TwoVersions
    PolicyDef <- MCPolicyDef
    AgentSpec <- MCAgentSpec
    Request <- OneRequest
    DataAgents <- MCDataAgents
    DataPolicies <- MCDataPolicies
    Handler = {h1}
    Backend = "memory"
    StatusUpdates = TRUE
    Operator = {o1}
    AuthEnabled = TRUE
    Engine = "opa"
    FailOpen = TRUE
    FixedKey = TRUE
    DefaultTTL = 1
    BackendTTL = 1
    SessionTTL = 1
    GivenState = {"active", "revoked"}
    MaxGrants = 1
    MaxSessions = 1
PROPERTIES
    RevocationTakesEffect
    RequestsAreAnswered
