------------------------------ MODULE ScopeCache ------------------------------
(***************************************************************************)
(* apps/rbac/services.py: the scopes of one tenant member, resolved from   *)
(* three queries and kept in Redis under a version that every change       *)
(* increments.                                                             *)
(*                                                                         *)
(* A change is made in the caller's transaction when it has one, as every  *)
(* routed view has: its rows are then committed after the version was      *)
(* incremented.  In autocommit, as from a management command, they are     *)
(* committed before.  A resolution holds no lock and no snapshot: each     *)
(* query and each cache command is a step, and requests interleave.        *)
(***************************************************************************)
EXTENDS Integers

CONSTANTS
    Permissions,      \* permission codes
    Roles,            \* roles of the tenant
    PermissionsOf,    \* RolePermission: what each role gives at the start
    RolesAtStart,     \* roles the member has at the start
    Readers,          \* requests that resolve the member's scopes
    Admins,           \* requests that change them
    Transactions,     \* whether changes are made in a transaction: {TRUE}, {FALSE} or both
    FirstVersion,     \* the version key at the start, 0 when it is absent
    VersionExpires,   \* whether the version key's TTL may run out
    MaxChanges        \* bound on the changes made

ASSUME ScopeAssumption ==
    /\ PermissionsOf \in [Roles -> SUBSET Permissions]
    /\ Transactions \subseteq BOOLEAN
    /\ FirstVersion \in Nat
    /\ VersionExpires \in BOOLEAN
    /\ MaxChanges \in Nat

VARIABLES
    rolePermissions,  \* RolePermission, by role
    userRoles,        \* TenantUserRole of the member, by role: soft deleted rows stay
    overrides,        \* UserPermission of the member, by permission
    version,          \* cache: scopes:version:tenant_user:<id>
    entries,          \* cache: scopes:tenant_user:<id>:v<version>, by version
    reader,           \* what each resolution has read
    admin,            \* what each change has done
    held, kept,       \* scopes at some, at every moment since the last increment (history)
    lapsed,           \* whether the version key ever ran out (history)
    changes           \* how many changes have been made

database == <<rolePermissions, userRoles, overrides>>
history == <<held, kept, lapsed>>
vars == <<rolePermissions, userRoles, overrides, version, entries, reader, admin,
          held, kept, lapsed, changes>>

Versions == 0..FirstVersion + MaxChanges + 1

(* The three queries of resolve_scopes.  The first joins TenantUserRole    *)
(* and so finds its soft deleted rows too.                                 *)
role_permissions == UNION {rolePermissions[r] : r \in {r \in Roles : userRoles[r] # "none"}}
user_grants == {p \in Permissions : overrides[p] = "granted"}
user_denies == {p \in Permissions : overrides[p] = "denied"}

Resolved == (role_permissions \cup user_grants) \ user_denies

Idle == [at |-> "idle", version |-> 0, scopes |-> {}, held |-> {}, kept |-> {}]

(* Rows written and not committed: what a role is to give besides, what a  *)
(* role of the member and an override are to be.                           *)
NothingWritten == [gives |-> [r \in Roles |-> {}], roles |-> [r \in Roles |-> "same"],
                   overrides |-> [p \in Permissions |-> "same"]]
Quiet == [at |-> "idle", version |-> 0, atomic |-> FALSE, written |-> NothingWritten]

Init ==
    /\ rolePermissions = PermissionsOf
    /\ userRoles = [r \in Roles |-> IF r \in RolesAtStart THEN "live" ELSE "none"]
    /\ overrides = [p \in Permissions |-> "none"]
    /\ version = FirstVersion
    /\ entries = [v \in {} |-> {}]
    /\ reader = [r \in Readers |-> Idle]
    /\ admin = [a \in Admins |-> Quiet]
    /\ held = Resolved
    /\ kept = Resolved
    /\ lapsed = FALSE
    /\ changes = 0

-----------------------------------------------------------------------------
Running == {r \in Readers : reader[r].at \notin {"idle", "answered"}}

(* A resolution may answer from the moments since the last increment of    *)
(* the version before it began, and from its own.                          *)

(* _get_cache_version                                                      *)
get_version(r) ==
    /\ r \notin Running
    /\ reader' = [reader EXCEPT ![r] =
         [at |-> IF version = 0 THEN "first" ELSE "versioned", version |-> version,
          scopes |-> {}, held |-> held, kept |-> kept]]
    /\ UNCHANGED <<database, version, entries, admin, history, changes>>

set_first_version(r) ==
    /\ reader[r].at = "first"
    /\ version' = 1
    /\ reader' = [reader EXCEPT ![r].at = "versioned", ![r].version = 1]
    /\ UNCHANGED <<database, entries, admin, history, changes>>

Answer(r, scopes) ==
    reader' = [reader EXCEPT ![r] = [@ EXCEPT !.at = "answered", !.version = 0, !.scopes = scopes]]

get_cached_scopes(r) ==
    /\ reader[r].at = "versioned"
    /\ IF reader[r].version \in DOMAIN entries
       THEN Answer(r, entries[reader[r].version])
       ELSE reader' = [reader EXCEPT ![r].at = "roles"]
    /\ UNCHANGED <<database, version, entries, admin, history, changes>>

query(r, at, next, scopes) ==
    /\ reader[r].at = at
    /\ reader' = [reader EXCEPT ![r].at = next, ![r].scopes = scopes]
    /\ UNCHANGED <<database, version, entries, admin, history, changes>>

query_roles(r) == query(r, "roles", "grants", role_permissions)
query_grants(r) == query(r, "grants", "denies", reader[r].scopes \cup user_grants)
query_denies(r) == query(r, "denies", "resolved", reader[r].scopes \ user_denies)

(* Mutants of cache_scopes: under the version of now, not the one the      *)
(* resolution began with; under the key without a version.                 *)
cache_scopes_version_of_now(r) ==
    /\ reader[r].at = "resolved"
    /\ entries' = [v \in DOMAIN entries \cup {version} |->
                     IF v = version THEN reader[r].scopes ELSE entries[v]]
    /\ Answer(r, reader[r].scopes)
    /\ UNCHANGED <<database, version, admin, history, changes>>

cache_scopes_unversioned(r) ==
    /\ reader[r].at = "resolved"
    /\ entries' = [v \in DOMAIN entries \cup {0} |->
                     IF v = 0 THEN reader[r].scopes ELSE entries[v]]
    /\ Answer(r, reader[r].scopes)
    /\ UNCHANGED <<database, version, admin, history, changes>>

cache_scopes(r) ==
    /\ reader[r].at = "resolved"
    /\ entries' = [v \in DOMAIN entries \cup {reader[r].version} |->
                     IF v = reader[r].version THEN reader[r].scopes ELSE entries[v]]
    /\ Answer(r, reader[r].scopes)
    /\ UNCHANGED <<database, version, admin, history, changes>>

-----------------------------------------------------------------------------
(* Two transactions do not write the same row: the second waits.           *)
Apart(w, u) ==
    /\ \A r \in Roles : w.gives[r] \cap u.gives[r] = {} /\ "same" \in {w.roles[r], u.roles[r]}
    /\ \A p \in Permissions : "same" \in {w.overrides[p], u.overrides[p]}

Commit(w) ==
    /\ rolePermissions' = [r \in Roles |-> rolePermissions[r] \cup w.gives[r]]
    /\ userRoles' = [r \in Roles |-> IF w.roles[r] = "same" THEN userRoles[r] ELSE w.roles[r]]
    /\ overrides' = [p \in Permissions |->
                       IF w.overrides[p] = "same" THEN overrides[p] ELSE w.overrides[p]]
    /\ held' = held \cup Resolved'
    /\ kept' = kept \cap Resolved'
    /\ reader' = [r \in Readers |->
                    IF r \in Running
                    THEN [reader[r] EXCEPT !.held = @ \cup Resolved', !.kept = @ \cap Resolved']
                    ELSE reader[r]]

(* A change writes its rows, then invalidates.  In autocommit they are     *)
(* there for all to read at once, else when the caller commits.            *)
Change(a, w, atomic, invalidates) ==
    /\ admin[a].at = "idle"
    /\ changes < MaxChanges
    /\ changes' = changes + 1
    /\ \A b \in Admins : Apart(w, admin[b].written)
    /\ admin' = [admin EXCEPT ![a] =
         [at |-> IF invalidates THEN "changed" ELSE "invalidated", version |-> 0, atomic |-> atomic,
          written |-> IF atomic THEN w ELSE NothingWritten]]
    /\ IF atomic THEN UNCHANGED <<database, held, kept, reader>> ELSE Commit(w)
    /\ UNCHANGED <<version, entries, lapsed>>

override_permission(a, atomic, value) ==
    \E p \in Permissions :
        Change(a, [NothingWritten EXCEPT !.overrides[p] = value], atomic, TRUE)

grant_permission(a, atomic) == override_permission(a, atomic, "granted")
deny_permission(a, atomic) == override_permission(a, atomic, "denied")

(* get_or_create finds a live row; it does not see a soft deleted one,     *)
(* cannot insert another beside it, and raises IntegrityError.             *)
assign_role(a, atomic) ==
    \E r \in Roles :
        \/ userRoles[r] = "none"
           /\ Change(a, [NothingWritten EXCEPT !.roles[r] = "live"], atomic, TRUE)
        \/ userRoles[r] = "live" /\ Change(a, NothingWritten, atomic, TRUE)

(* filter(...).delete() is BaseModelQuerySet's soft delete.                *)
remove_role(a, atomic) ==
    \E r \in Roles :
        /\ userRoles[r] = "live"
        /\ Change(a, [NothingWritten EXCEPT !.roles[r] = "deleted"], atomic, TRUE)

(* RolePermissionsAddView.post, itself atomic, invalidates every active    *)
(* holder of the role, found by the same kind of join as the scopes.       *)
add_role_permissions(a) ==
    \E r \in Roles, added \in SUBSET Permissions :
        Change(a, [NothingWritten EXCEPT !.gives[r] = added \ rolePermissions[r]],
               TRUE, userRoles[r] # "none")

(* _increment_cache_version: cache.get(key, 0), then cache.set(key, + 1).  *)
read_version(a) ==
    /\ admin[a].at = "changed"
    /\ admin' = [admin EXCEPT ![a].at = "read", ![a].version = version]
    /\ UNCHANGED <<database, version, entries, reader, history, changes>>

increment_version(a) ==
    /\ admin[a].at = "read"
    /\ version' = admin[a].version + 1
    /\ admin' = [admin EXCEPT ![a] = IF @.atomic THEN [@ EXCEPT !.at = "invalidated", !.version = 0]
                                       ELSE Quiet]
    /\ held' = Resolved
    /\ kept' = Resolved
    /\ UNCHANGED <<database, entries, reader, lapsed, changes>>

(* The caller's transaction ends after the change it made has invalidated. *)
commit(a) ==
    /\ admin[a].at = "invalidated"
    /\ Commit(admin[a].written)
    /\ admin' = [admin EXCEPT ![a] = Quiet]
    /\ UNCHANGED <<version, entries, lapsed, changes>>

(* A request fails or its process dies: a transaction is rolled back, what *)
(* autocommit wrote stays without its invalidation.                        *)
abandon(a) ==
    /\ admin[a].at # "idle"
    /\ admin' = [admin EXCEPT ![a] = Quiet]
    /\ UNCHANGED <<database, version, entries, reader, history, changes>>

-----------------------------------------------------------------------------
(* Mutant of expire_scopes: the entry is set without a TTL.                *)
expire_scopes_never(v) == FALSE /\ v \in DOMAIN entries /\ UNCHANGED vars

(* Redis drops a key when its TTL runs out: 300 s for the scopes, 600 s    *)
(* for the version, counted from the last set of each.                     *)
expire_scopes(v) ==
    /\ v \in DOMAIN entries
    /\ entries' = [u \in DOMAIN entries \ {v} |-> entries[u]]
    /\ UNCHANGED <<database, version, reader, admin, history, changes>>

expire_version ==
    /\ VersionExpires
    /\ version # 0
    /\ version' = 0
    /\ lapsed' = TRUE
    /\ UNCHANGED <<database, entries, reader, admin, held, kept, changes>>

resolve_scopes(r) ==
    \/ get_version(r) \/ set_first_version(r) \/ get_cached_scopes(r)
    \/ query_roles(r) \/ query_grants(r) \/ query_denies(r) \/ cache_scopes(r)

invalidate_scope_cache(a) == read_version(a) \/ increment_version(a)

Administer(a) ==
    \/ \E atomic \in Transactions :
         \/ grant_permission(a, atomic) \/ deny_permission(a, atomic)
         \/ assign_role(a, atomic) \/ remove_role(a, atomic)
    \/ TRUE \in Transactions /\ add_role_permissions(a)

Next ==
    \/ \E r \in Readers : resolve_scopes(r)
    \/ \E a \in Admins :
         Administer(a) \/ invalidate_scope_cache(a) \/ commit(a) \/ abandon(a)
    \/ \E v \in Versions : expire_scopes(v)
    \/ expire_version

Spec == Init /\ [][Next]_vars

(* Requests that run are scheduled to their end and Redis honours the TTL  *)
(* of a scopes entry; nothing makes anybody resolve or change scopes, and  *)
(* the version key need not expire.                                        *)
Fairness ==
    /\ \A r \in Readers : WF_vars(r \in Running /\ resolve_scopes(r))
    /\ \A a \in Admins : WF_vars(invalidate_scope_cache(a) \/ commit(a))
    /\ \A v \in Versions : WF_vars(expire_scopes(v))

FairSpec == Spec /\ Fairness
=============================================================================
