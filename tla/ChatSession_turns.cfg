CONSTANTS
    Slug <- MCSlug
    Numbered <- MCNumbered
    NoAgent = NoAgent
    Request = {r1, r2}
    Turn = {t1, t2}
    r1 = r1
    r2 = r2
    t1 = t1
    t2 = t2
    Old = Old
    NoOne = NoOne
    KeySets <- MCKeySets
    Plan <- MCPlan
    Agents <- MCAgents
    Servers <- MCServers
    Form <- MCForm
    Auth <- MCAuth
    Registry = {"get_user_profile"}
    DatabaseTool = {"query_database"}
    CallId = {"c1", "c2"}
    ToolName = {"render_agent_view", "f"}
    MaxStack = 4
SPECIFICATION Spec
INVARIANTS
    TypeOK
    AuthTruth
    
    SessionTruth
    HeaderOfCaller
    StreamTruth
CHECK_DEADLOCK FALSE
