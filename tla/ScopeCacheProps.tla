---------------------------- MODULE ScopeCacheProps ----------------------------
(***************************************************************************)
(* What a member's resolved scopes may be while they change.               *)
(***************************************************************************)
EXTENDS ScopeCache

Written == [gives : [Roles -> SUBSET Permissions], roles : [Roles -> {"same", "live", "deleted"}],
            overrides : [Permissions -> {"same", "granted", "denied"}]]

(* The rows, the cache and the requests have the shapes the code gives     *)
(* them.                                                                   *)
TypeOK ==
    /\ rolePermissions \in [Roles -> SUBSET Permissions]
    /\ userRoles \in [Roles -> {"none", "live", "deleted"}]
    /\ overrides \in [Permissions -> {"none", "granted", "denied"}]
    /\ version \in Versions
    /\ DOMAIN entries \subseteq Versions \ {0}
    /\ \A v \in DOMAIN entries : entries[v] \subseteq Permissions
    /\ reader \in [Readers -> [at : {"idle", "first", "versioned", "roles", "grants",
                                     "denies", "resolved", "answered"},
                               version : Versions, scopes : SUBSET Permissions,
                               held : SUBSET Permissions, kept : SUBSET Permissions]]
    /\ admin \in [Admins -> [at : {"idle", "changed", "read", "invalidated"}, version : Versions,
                             atomic : BOOLEAN, written : Written]]
    /\ held \subseteq Permissions /\ kept \subseteq Permissions
    /\ lapsed \in BOOLEAN
    /\ changes \in 0..MaxChanges

(* "Cache versioning prevents race conditions", "making all old cached     *)
(* values inaccessible": a resolution never answers from before the last   *)
(* increment of the version that preceded it, however slow the resolutions *)
(* that stored the scopes.  Each permission it returns was held since,     *)
(* each one it leaves out was missing at some moment since, even though    *)
(* three queries read the database at different moments.  It holds while   *)
(* the version key is there, for one administrator at a time, whether the  *)
(* change is committed before the increment or after it.                   *)
OldScopesAreNotServed ==
    \A r \in Readers :
        ~ lapsed /\ reader[r].at = "answered" =>
            reader[r].scopes \subseteq reader[r].held /\ reader[r].kept \subseteq reader[r].scopes

(* "Results are cached for 5 minutes": however versions were lost, set     *)
(* back or overwritten, once the changes stop the cache comes to hold, and *)
(* keeps to, the scopes of the database.                                   *)
StalenessEnds ==
    <>[](version \in DOMAIN entries => entries[version] = Resolved)

(* The same whatever happens to the version key and whoever increments it. *)
OldScopesAreNeverServed ==
    \A r \in Readers :
        reader[r].at = "answered" =>
            reader[r].scopes \subseteq reader[r].held /\ reader[r].kept \subseteq reader[r].scopes

(* "Invalidate cached scopes for a tenant user": when every change has     *)
(* ended, what is cached under the version is what the database gives.     *)
InvalidationIsSeen ==
    ~ lapsed /\ (\A a \in Admins : admin[a].at = "idle") /\ version \in DOMAIN entries =>
        entries[version] = Resolved

(* "Remove a role from a tenant user": the scopes the database gives come  *)
(* from live roles and grants only.                                        *)
RemovedRoleGivesNothing ==
    Resolved \subseteq user_grants \cup UNION {rolePermissions[r] :
                                                 r \in {r \in Roles : userRoles[r] = "live"}}
=============================================================================
