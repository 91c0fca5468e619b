SPECIFICATION Spec
CONSTANTS
    AgentId <- MCAgentId
    PolicyId <- MCPolicyId
    PolicyDef <- MCPolicyDef
    Request <- MCRequest
    Agents <- MCAgents
    MaxStored = 2
INVARIANT MalformedConditionFailsClosed
