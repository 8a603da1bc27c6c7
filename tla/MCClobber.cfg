SPECIFICATION Spec
CONSTANTS
    a1 = a1
    a2 = a2
    p1 = p1
    p2 = p2
    Accounts = {a1, a2}
    Slugs = {a1, a2}
    slug <- MCSlug
    Procs = {p1, p2}
    Roles <- MCRoles
    NoAccount = NoAccount
    MaxTokens <- MCTokens
PROPERTY NeverClobbers
