SPECIFICATION Spec
CONSTANTS
    AgentId <- MCAgentId
    PolicyId <- MCPolicyId
    PolicyDef <- MCPolicyDef
    Request <- MCRequest
    Agents <- MCAgents
    MaxStored = 3
INVARIANTS
    TypeOK
    ScanInvariant
    DecisionIsReference
    AllowIsJustified
    StrictestWins
    AttachmentsAreReference
    MalformedAloneFailsClosed
    GrantKeepsSharedFields
