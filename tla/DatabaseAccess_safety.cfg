CONSTANTS
    MaxRows = 2
    MaxResultChars = 16
    MaxCellChars = 3
    NoticeChars = 2
    ColumnsPerObject = 2
    MaxParameters = 1
    MaxParameterBytes = 4
    Approved = {"reporting"}
    AllowedFunctions = {}
    NoValue = NoValue
    Session = {s1}
    Call = {c1, c2}
    User = {"ann"}
    Subject <- MCSubject
    Group = {"readers"}
    Entitled = {"readers"}
    Granted = {"database_query", "database_schema"}
    Tenant = {"home"}
    TTL = 2
    QueryRequests <- MCQueryRequests
    SchemaRequests <- MCSchemaRequests
    Failures <- MCFailures
    Tables <- MCTables
    Catalogs <- MCCatalogs
    NoEntry = NoEntry
    MaxClock = 3
SPECIFICATION Spec
INVARIANTS
    TypeOK
    AuditTruth
    ResultHonest
    CatalogHonest
    ExposureAudited
SYMMETRY CallSymmetry
CHECK_DEADLOCK FALSE
PROPERTIES
    AdmittedRecently
    ImplementsGate
