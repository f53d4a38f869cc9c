SPECIFICATION SetupSpec
CONSTANTS
    h1 = h1
    h2 = h2
    Handlers = {h1, h2}
    Workspaces = {1, 2}
    initiation = initiation
    ProjectManagement = management
    Names = {initiation, management}
    DefaultNames = {initiation}
    FirstRows <- MCFirstRows
    FormKinds <- MCFormKinds
    MaxRows = 4
    MaxRequests = 3
    ann = ann
    Users = {ann}
    WorkspaceUsers <- MCWorkspaceUsers
    FirstDrafts <- MCFirstDrafts
    FirstTemplates <- MCFirstTemplates
    FormTemplates <- MCFormTemplates
    MaxParts = 1
SYMMETRY HandlerSymmetry
CHECK_DEADLOCK FALSE
INVARIANTS TypeOK NumbersExplained EntriesFit
PROPERTIES SetupIsWhole
