SPECIFICATION Spec
CONSTANTS
    ann = ann
    bob = bob
    acme = acme
    site = site
    app = app
    coding = coding
    fix = fix
    backend = backend
    None = None
    Users = {ann, bob}
    Customers = {acme}
    Projects = {site, app}
    Activities = {coding}
    Tasks = {fix}
    Workstreams = {backend}
    CustomerOf <- MCCustomerOf
    GroupMembers <- MCGroupMembers
    Admins = {ann}
    Budgets <- MCBudgets
    Work <- MCWork
    RateForms <- MCRateForms
    Filters <- MCFilters
    Viewers <- MCViewers
    ShareDays = {0, 1}
    MaxTime = 3
    MaxReports = 1
    MaxRequests = 4
CHECK_DEADLOCK FALSE
INVARIANTS TypeOK DashboardsAddUp ReportsAgree
PROPERTIES LinkIsCurrent
