\* Not a run: TLC stops at the first of these properties the code violates; take its name
\* out of the list to see the next.
SPECIFICATION Spec
CONSTANTS
    view = view
    edit = edit
    staff = staff
    Permissions = {view}
    Roles = {staff}
    PermissionsOf <- StaffViews
    RolesAtStart = {staff}
    Readers = {r1}
    Admins = {a1, a2}
    \* {TRUE} reaches InvalidationIsSeen with one administrator.
    Transactions = {TRUE, FALSE}
    FirstVersion = 1
    \* TRUE reaches OldScopesAreNeverServed with one administrator as well.
    VersionExpires = FALSE
    MaxChanges = 3
INVARIANTS RemovedRoleGivesNothing InvalidationIsSeen OldScopesAreNeverServed
