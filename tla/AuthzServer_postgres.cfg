SPECIFICATION Spec
CONSTANTS
    AgentId <- MCAgentId
    PolicyId <- MCPolicyId
    PolicyDef <- MCPolicyDef
    AgentSpec <- MCAgentSpec
    Request <- OneRequest
    DataAgents <- MCDataAgents
    DataPolicies <- MCDataPolicies
    Handler = {h1}
    Backend = "postgres"
    StatusUpdates = TRUE
    Operator = {o1}
    AuthEnabled = TRUE
    Engine = "builtin"
    FailOpen = FALSE
    FixedKey = TRUE
    DefaultTTL = 1
    BackendTTL = 1
    SessionTTL = 0
    GivenState = {"active", "revoked"}
    MaxGrants = 1
    MaxSessions = 1
INVARIANTS
    TypeOK
    AllowOnlyFitAgents
    DecisionsAreExplained
PROPERTIES
    ImplementsAuthority
