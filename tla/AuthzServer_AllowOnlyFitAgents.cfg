SPECIFICATION Spec
CONSTANTS
    AgentId <- OneAgentId
    PolicyId <- MCPolicyId
    PolicyDef <- MCPolicyDef
    AgentSpec <- MCAgentSpec
    Request <- OneRequest
    DataAgents <- MCDataAgents
    DataPolicies <- MCDataPolicies
    Handler = {h1}
    Backend = "memory"
    StatusUpdates = TRUE
    Operator = {o1}
    AuthEnabled = FALSE
    Engine = "builtin"
    FailOpen = FALSE
    FixedKey = TRUE
    DefaultTTL = 1
    BackendTTL = 1
    SessionTTL = 1
    GivenState = {"suspended", "revoked"}
    MaxGrants = 1
    MaxSessions = 0
INVARIANTS
    AllowOnlyFitAgents
