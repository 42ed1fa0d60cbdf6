SPECIFICATION Spec
CONSTANTS
    Customers = {"c", "d"}
    Alerts = {"a1", "a2"}
    CustomerOf <- MCCustomerOf
    Anyone = "anyone"
    Contexts = {"anyone", "c"}
    Questions = {"plain", "some"}
    Plain = "plain"
    Answering <- MCAnswering
    PageOf <- MCPageOf
    Keys = {"k1", "k2"}
    Rows = {"r1"}
    FieldContexts = {"x", "y"}
    Texts = {"t", "u"}
    SourceNames = {"s1", "s2"}
    Values = {"", "v"}
    Names = {"n"}
    Filters = {"f"}
    Widgets = {"w1", "w2"}
    Columns = {"c1", "c2"}
    Labels = {"l1", "l2"}
    LabelOf <- MCLabelOf
    Hours = 3
    PresetLength <- MCPresetLength
    SourceIds = {"s1", "s2"}
    Parsers = {"p", "q"}
    Numbers = {1}
    MaxRevision = 2
    Tabs = {"overview", "users"}
    Sections = {"runs", "accounts"}
    FirstTab = "overview"
    UsersSection = "accounts"
    NeededBy <- MCNeededBy
    Accounts = {1, 2}
    Users = {"u"}
    Tenants = {"t", "s"}
    MaxPolls = 2
    Choices = {"c", "d"}
    Default = "c"
    Notifications = {"m", "n"}
    Hosts <- MCHosts
    Paths = {"x", "y"}
    MaxRuns = 3
    MaxPending = 2
INVARIANT FileIsOfCustomer
CHECK_DEADLOCK FALSE
