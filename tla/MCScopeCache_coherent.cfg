\* One administrator with and without a transaction, two resolutions, a version key that may expire at any time.
SPECIFICATION FairSpec
CONSTANTS
    view = view
    edit = edit
    staff = staff
    Permissions = {view}
    Roles = {staff}
    PermissionsOf <- StaffViews
    RolesAtStart = {}
    Readers = {r1, r2}
    Admins = {a1}
    Transactions = {TRUE, FALSE}
    FirstVersion = 1
    VersionExpires = TRUE
    MaxChanges = 2
INVARIANTS TypeOK OldScopesAreNotServed
PROPERTIES StalenessEnds
