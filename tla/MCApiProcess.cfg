SPECIFICATION FairSpec
CONSTANTS
    r1 = r1
    r2 = r2
    fetch_user_data = fetch_user_data
    Other = Other
    None = None
    Requests <- TwoRequests
    Tools <- OneTool
    MaxReturns = 2
    MaxInputs = 2
    MaxChanges = 1
    LambdaTimeout = 2
    TIMEOUT_MS = 3
INVARIANTS
    TypeOK
    ToolsRunAsCaller
    ResultsMatchInvocations
    ToolsAreOffered
PROPERTIES
    AdmitsEntitled
    RequestsEnd
