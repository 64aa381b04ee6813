--------------------------- MODULE ScopeCache_proofs ---------------------------
(***************************************************************************)
(* What a member's resolved scopes may be, for any roles and permissions,  *)
(* any number of resolutions and changes.                                  *)
(***************************************************************************)
EXTENDS ScopeCacheProps, FiniteSetTheorems, TLAPS

Reader == [at : {"idle", "first", "versioned", "roles", "grants", "denies", "resolved", "answered"},
           version : Versions, scopes : SUBSET Permissions,
           held : SUBSET Permissions, kept : SUBSET Permissions]

Admin == [at : {"idle", "changed", "read", "invalidated"}, version : Versions,
          atomic : BOOLEAN, written : Written]

-----------------------------------------------------------------------------
(* Type correctness.  A version is one more than one that was read by a    *)
(* change that is counted: it never exceeds the changes that have ended.   *)

Invalidating == {a \in Admins : admin[a].at \in {"changed", "read"}}

Ended == changes - Cardinality(Invalidating)

VersionInv ==
    /\ IsFiniteSet(Invalidating) /\ Ended >= 0
    /\ version <= FirstVersion + 1 + Ended
    /\ \A a \in Admins : admin[a].version <= FirstVersion + 1 + Ended
    /\ \A r \in Running : reader[r].at # "first" => reader[r].version # 0

TypeInv == TypeOK /\ VersionInv

LEMMA ScopesType ==
  ASSUME TypeOK
  PROVE  Resolved \subseteq Permissions
BY DEF TypeOK, Resolved, role_permissions, user_grants

(* What is written and committed are rows of the tables, and no override   *)
(* is ever deleted.                                                        *)
LEMMA CommitType ==
  ASSUME TypeOK, NEW w \in Written, Commit(w)
  PROVE  /\ rolePermissions' \in [Roles -> SUBSET Permissions]
         /\ userRoles' \in [Roles -> {"none", "live", "deleted"}]
         /\ overrides' \in [Permissions -> {"none", "granted", "denied"}]
         /\ \A p \in Permissions : overrides'[p] = overrides[p] \/ overrides'[p] # "none"
         /\ Resolved' \subseteq Permissions
         /\ held' \subseteq Permissions /\ kept' \subseteq Permissions
         /\ reader' \in [Readers -> Reader]
         /\ \A r \in Readers : reader'[r].at = reader[r].at /\ reader'[r].version = reader[r].version
         /\ Running' = Running
<1>1. /\ w.gives \in [Roles -> SUBSET Permissions] /\ w.roles \in [Roles -> {"same", "live", "deleted"}]
      /\ w.overrides \in [Permissions -> {"same", "granted", "denied"}]
  BY DEF Written
<1>2. rolePermissions' \in [Roles -> SUBSET Permissions]
  BY <1>1 DEF Commit, TypeOK
<1>3. userRoles' \in [Roles -> {"none", "live", "deleted"}]
  BY <1>1 DEF Commit, TypeOK
<1>4. /\ overrides' \in [Permissions -> {"none", "granted", "denied"}]
      /\ \A p \in Permissions : overrides'[p] = overrides[p] \/ overrides'[p] # "none"
  BY <1>1 DEF Commit, TypeOK
<1>5. Resolved' \subseteq Permissions
  BY <1>2, <1>4 DEF Resolved, role_permissions, user_grants
<1>6. held' \subseteq Permissions /\ kept' \subseteq Permissions
  BY <1>5 DEF Commit, TypeOK
<1>7. /\ reader' \in [Readers -> Reader]
      /\ \A r \in Readers : reader'[r].at = reader[r].at /\ reader'[r].version = reader[r].version
  <2> DEFINE extended(r) == [reader[r] EXCEPT !.held = @ \cup Resolved', !.kept = @ \cap Resolved']
  <2>1. reader' = [r \in Readers |-> IF r \in Running THEN extended(r) ELSE reader[r]]
    BY DEF Commit
  <2>2. \A r \in Readers : reader[r] \in Reader
    BY DEF TypeOK, Reader
  <2>3. \A r \in Readers : /\ extended(r) \in Reader /\ extended(r).at = reader[r].at
                           /\ extended(r).version = reader[r].version
    BY <1>5, <2>2 DEF Reader
  <2> HIDE DEF extended
  <2> QED BY <2>1, <2>2, <2>3
<1> QED BY <1>2, <1>3, <1>4, <1>5, <1>6, <1>7 DEF Running

LEMMA NothingType == NothingWritten \in Written
BY DEF NothingWritten, Written

(* What the five changes have in common.                                   *)
LEMMA ChangesAlike ==
  ASSUME TypeOK, NEW a \in Admins, Administer(a)
  PROVE  \E w \in Written, atomic \in BOOLEAN, invalidates \in BOOLEAN : Change(a, w, atomic, invalidates)
<1>1. Transactions \subseteq BOOLEAN
  BY ScopeAssumption
<1>2. ASSUME NEW atomic \in Transactions, NEW value \in {"granted", "denied"},
             override_permission(a, atomic, value)
      PROVE  \E w \in Written : Change(a, w, atomic, TRUE)
  <2>1. PICK p \in Permissions :
          Change(a, [NothingWritten EXCEPT !.overrides[p] = value], atomic, TRUE)
    BY <1>2 DEF override_permission
  <2>2. [NothingWritten EXCEPT !.overrides[p] = value] \in Written
    BY DEF NothingWritten, Written
  <2> QED BY <2>1, <2>2
<1>3. ASSUME NEW atomic \in Transactions, assign_role(a, atomic)
      PROVE  \E w \in Written : Change(a, w, atomic, TRUE)
  <2>1. PICK r \in Roles : \/ Change(a, [NothingWritten EXCEPT !.roles[r] = "live"], atomic, TRUE)
                          \/ Change(a, NothingWritten, atomic, TRUE)
    BY <1>3 DEF assign_role
  <2>2. [NothingWritten EXCEPT !.roles[r] = "live"] \in Written
    BY DEF NothingWritten, Written
  <2> QED BY <2>1, <2>2, NothingType
<1>4. ASSUME NEW atomic \in Transactions, remove_role(a, atomic)
      PROVE  \E w \in Written : Change(a, w, atomic, TRUE)
  <2>1. PICK r \in Roles : Change(a, [NothingWritten EXCEPT !.roles[r] = "deleted"], atomic, TRUE)
    BY <1>4 DEF remove_role
  <2>2. [NothingWritten EXCEPT !.roles[r] = "deleted"] \in Written
    BY DEF NothingWritten, Written
  <2> QED BY <2>1, <2>2
<1>5. ASSUME add_role_permissions(a)
      PROVE  \E w \in Written, invalidates \in BOOLEAN : Change(a, w, TRUE, invalidates)
  <2>1. PICK r \in Roles, added \in SUBSET Permissions :
          Change(a, [NothingWritten EXCEPT !.gives[r] = added \ rolePermissions[r]],
                 TRUE, userRoles[r] # "none")
    BY <1>5 DEF add_role_permissions
  <2>2. [NothingWritten EXCEPT !.gives[r] = added \ rolePermissions[r]] \in Written
    BY DEF NothingWritten, Written
  <2>3. (userRoles[r] # "none") \in BOOLEAN
    OBVIOUS
  <2> QED BY <2>1, <2>2, <2>3
<1>6. CASE add_role_permissions(a)
  BY <1>5, <1>6
<1>7. CASE ~ add_role_permissions(a)
  <2>1. PICK atomic \in Transactions :
          \/ grant_permission(a, atomic) \/ deny_permission(a, atomic)
          \/ assign_role(a, atomic) \/ remove_role(a, atomic)
    BY <1>7 DEF Administer
  <2>2. \E w \in Written : Change(a, w, atomic, TRUE)
    BY <1>2, <1>3, <1>4, <2>1 DEF grant_permission, deny_permission
  <2> QED BY <1>1, <2>2
<1> QED BY <1>6, <1>7

LEMMA EndedType ==
  ASSUME TypeInv
  PROVE  Ended \in Nat /\ Ended <= changes
<1>1. Cardinality(Invalidating) \in Nat
  BY FS_CardinalityType DEF TypeInv, VersionInv
<1> QED BY <1>1, ScopeAssumption DEF TypeInv, VersionInv, TypeOK, Ended

(* One more change that may increment the version, or one less.            *)
LEMMA EndedStep ==
  ASSUME TypeInv, NEW a \in Admins,
         \A b \in Admins \ {a} : admin'[b].at = admin[b].at /\ admin'[b].version = admin[b].version,
         admin[a].at \in {"changed", "read"} => changes' = changes,
         admin[a].at \notin {"changed", "read"} => changes' \in {changes, changes + 1},
         admin[a].at \notin {"changed", "read"} /\ admin'[a].at \in {"changed", "read"} => changes' = changes + 1
  PROVE  /\ IsFiniteSet(Invalidating') /\ Ended' \in Nat /\ Ended <= Ended' /\ Ended' <= changes'
         /\ admin[a].at \in {"changed", "read"} /\ admin'[a].at \notin {"changed", "read"} =>
              Ended' = Ended + 1
<1>1. IsFiniteSet(Invalidating) /\ Cardinality(Invalidating) \in Nat /\ changes \in Nat
  BY FS_CardinalityType, ScopeAssumption DEF TypeInv, VersionInv, TypeOK
<1>2. Ended \in Nat /\ Ended = changes - Cardinality(Invalidating)
  BY EndedType DEF Ended
<1>3. CASE admin[a].at \in {"changed", "read"} <=> admin'[a].at \in {"changed", "read"}
  <2>1. Invalidating' = Invalidating
    BY <1>3 DEF Invalidating
  <2> QED BY <1>1, <1>2, <1>3, <2>1 DEF Ended
<1>4. CASE admin[a].at \in {"changed", "read"} /\ admin'[a].at \notin {"changed", "read"}
  <2>1. Invalidating' = Invalidating \ {a} /\ a \in Invalidating
    BY <1>4 DEF Invalidating
  <2>2. IsFiniteSet(Invalidating \ {a}) /\ Cardinality(Invalidating \ {a}) = Cardinality(Invalidating) - 1
    BY <1>1, <2>1, FS_RemoveElement
  <2>3. Cardinality(Invalidating') \in Nat
    BY <2>1, <2>2, FS_CardinalityType
  <2> QED BY <1>1, <1>2, <1>4, <2>1, <2>2, <2>3 DEF Ended
<1>5. CASE admin[a].at \notin {"changed", "read"} /\ admin'[a].at \in {"changed", "read"}
  <2>1. Invalidating' = Invalidating \cup {a} /\ a \notin Invalidating
    BY <1>5 DEF Invalidating
  <2>2. IsFiniteSet(Invalidating \cup {a}) /\ Cardinality(Invalidating \cup {a}) = Cardinality(Invalidating) + 1
    BY <1>1, <2>1, FS_AddElement
  <2>3. Cardinality(Invalidating') \in Nat
    BY <2>1, <2>2, FS_CardinalityType
  <2> QED BY <1>1, <1>2, <1>5, <2>1, <2>2, <2>3 DEF Ended
<1> QED BY <1>3, <1>4, <1>5

LEMMA TypeInit == Init => TypeInv
<1> SUFFICES ASSUME Init PROVE TypeInv
  OBVIOUS
<1> USE DEF Init
<1>1. FirstVersion \in Nat /\ MaxChanges \in Nat /\ PermissionsOf \in [Roles -> SUBSET Permissions]
  BY ScopeAssumption
<1>2. FirstVersion \in Versions /\ 0 \in Versions
  BY <1>1 DEF Versions
<1>3. TypeOK
  <2>1. Idle \in Reader /\ Quiet \in Admin
    BY <1>2, NothingType DEF Idle, Quiet, Reader, Admin
  <2>2. DOMAIN entries = {}
    OBVIOUS
  <2>3. changes \in 0 .. MaxChanges
    BY <1>1
  <2>4. userRoles \in [Roles -> {"none", "live", "deleted"}]
    OBVIOUS
  <2>5. held \subseteq Permissions /\ kept \subseteq Permissions
    BY <1>1 DEF Resolved, role_permissions, user_grants
  <2> QED BY <1>1, <1>2, <2>1, <2>2, <2>3, <2>4, <2>5 DEF TypeOK, Reader, Admin
<1>4. Invalidating = {} /\ Running = {}
  BY DEF Invalidating, Quiet, Running, Idle
<1>5. VersionInv
  BY <1>1, <1>4, FS_EmptySet DEF VersionInv, Ended, Quiet
<1> QED BY <1>3, <1>5 DEF TypeInv

LEMMA ResolutionType ==
  ASSUME TypeInv, NEW r \in Readers, resolve_scopes(r)
  PROVE  TypeInv'
<1> USE DEF TypeInv
<1>1. /\ held \subseteq Permissions /\ kept \subseteq Permissions
      /\ role_permissions \subseteq Permissions /\ user_grants \subseteq Permissions
  BY DEF TypeOK, role_permissions, user_grants
<1>2. 0 \in Versions /\ 1 \in Versions /\ FirstVersion \in Nat
  BY ScopeAssumption DEF Versions
<1>3. UNCHANGED <<database, admin, held, kept, lapsed, changes>> /\ Invalidating' = Invalidating
  BY DEF resolve_scopes, get_version, set_first_version, get_cached_scopes, query_roles, query_grants,
         query_denies, query, cache_scopes, Invalidating, history
<1>4. /\ version' \in Versions /\ version' <= FirstVersion + 1 + Ended
      /\ \E new \in Reader :
           reader' = [reader EXCEPT ![r] = new] /\ (new.at \in {"first", "answered"} \/ new.version # 0)
      /\ DOMAIN entries' \subseteq Versions \ {0}
      /\ \A v \in DOMAIN entries' : entries'[v] \subseteq Permissions
  <2> USE DEF Reader
  <2>0. reader[r] \in Reader
    BY DEF TypeOK
  <2>1. CASE get_version(r)
    <3> DEFINE new == [at |-> IF version = 0 THEN "first" ELSE "versioned", version |-> version,
                       scopes |-> {}, held |-> held, kept |-> kept]
    <3>1. new \in Reader /\ (new.at \in {"first", "answered"} \/ new.version # 0)
      BY <1>1 DEF TypeOK
    <3>2. reader' = [reader EXCEPT ![r] = new]
      BY <2>1 DEF get_version
    <3> HIDE DEF new
    <3> QED BY <2>1, <3>1, <3>2 DEF get_version, TypeOK, VersionInv
  <2>2. CASE set_first_version(r)
    <3> DEFINE new == [reader[r] EXCEPT !.at = "versioned", !.version = 1]
    <3>1. new \in Reader /\ new.version = 1
      BY <1>2, <2>0
    <3>2. reader' = [reader EXCEPT ![r] = new]
      BY <2>2 DEF set_first_version, TypeOK
    <3> HIDE DEF new
    <3>3. version' \in Versions /\ version' <= FirstVersion + 1 + Ended
      BY <1>2, <2>2, EndedType DEF set_first_version, VersionInv
    <3>4. new \in Reader /\ (new.at \in {"first", "answered"} \/ new.version # 0)
      BY <3>1
    <3>5. UNCHANGED entries
      BY <2>2 DEF set_first_version
    <3> QED BY <3>2, <3>3, <3>4, <3>5 DEF TypeOK
  <2>3. CASE get_cached_scopes(r)
    <3>1. CASE reader[r].version \in DOMAIN entries
      <4> DEFINE new == [reader[r] EXCEPT !.at = "answered", !.version = 0,
                                          !.scopes = entries[reader[r].version]]
      <4>1. new \in Reader /\ new.at = "answered"
        BY <1>2, <2>0, <3>1 DEF TypeOK
      <4>2. reader' = [reader EXCEPT ![r] = new] /\ UNCHANGED <<version, entries>>
        BY <2>3, <3>1 DEF get_cached_scopes, Answer
      <4> HIDE DEF new
      <4> QED BY <4>1, <4>2 DEF TypeOK, VersionInv
    <3>2. CASE reader[r].version \notin DOMAIN entries
      <4> DEFINE new == [reader[r] EXCEPT !.at = "roles"]
      <4>1. new \in Reader /\ new.version # 0
        BY <2>0, <2>3 DEF get_cached_scopes, VersionInv, Running
      <4>2. reader' = [reader EXCEPT ![r] = new] /\ UNCHANGED <<version, entries>>
        BY <2>3, <3>2 DEF get_cached_scopes
      <4> HIDE DEF new
      <4> QED BY <4>1, <4>2 DEF TypeOK, VersionInv
    <3> QED BY <3>1, <3>2
  <2>4. CASE query_roles(r) \/ query_grants(r) \/ query_denies(r)
    <3>1. PICK scopes \in SUBSET Permissions, at \in {"grants", "denies", "resolved"} :
            /\ reader[r].at \in {"roles", "grants", "denies"}
            /\ reader' = [reader EXCEPT ![r].at = at, ![r].scopes = scopes]
            /\ UNCHANGED <<version, entries>>
      <4>1. CASE query_roles(r)
        BY <1>1, <4>1 DEF query_roles, query
      <4>2. CASE query_grants(r)
        BY <1>1, <2>0, <4>2 DEF query_grants, query
      <4>3. CASE query_denies(r)
        BY <2>0, <4>3 DEF query_denies, query
      <4> QED BY <2>4, <4>1, <4>2, <4>3
    <3> DEFINE new == [reader[r] EXCEPT !.at = at, !.scopes = scopes]
    <3>2. new \in Reader /\ (new.at \in {"first", "answered"} \/ new.version # 0)
      BY <2>0, <3>1 DEF VersionInv, Running
    <3>3. reader' = [reader EXCEPT ![r] = new]
      BY <3>1
    <3> HIDE DEF new
    <3> QED BY <3>1, <3>2, <3>3 DEF TypeOK, VersionInv
  <2>5. CASE cache_scopes(r)
    <3> DEFINE new == [reader[r] EXCEPT !.at = "answered", !.version = 0, !.scopes = reader[r].scopes]
    <3>1. new \in Reader /\ new.at = "answered"
      BY <1>2, <2>0
    <3>2. reader' = [reader EXCEPT ![r] = new]
      BY <2>5 DEF cache_scopes, Answer
    <3> HIDE DEF new
    <3>3. reader[r].version \in Versions \ {0} /\ reader[r].scopes \subseteq Permissions
      BY <2>0, <2>5 DEF cache_scopes, VersionInv, Running
    <3>4. DOMAIN entries' \subseteq Versions \ {0} /\ \A v \in DOMAIN entries' : entries'[v] \subseteq Permissions
      BY <2>5, <3>3 DEF cache_scopes, TypeOK
    <3> QED BY <2>5, <3>1, <3>2, <3>4 DEF cache_scopes, TypeOK, VersionInv
  <2> QED BY <2>1, <2>2, <2>3, <2>4, <2>5 DEF resolve_scopes
<1>5. PICK new \in Reader :
        reader' = [reader EXCEPT ![r] = new] /\ (new.at \in {"first", "answered"} \/ new.version # 0)
  BY <1>4
<1>6. reader' \in [Readers -> Reader]
  BY <1>5 DEF TypeOK, Reader
<1>7. TypeOK'
  BY <1>3, <1>4, <1>6 DEF TypeOK, Reader, database
<1>8. Ended' = Ended
  BY <1>3 DEF Ended
<1>9. VersionInv'
  <2>1. \A q \in Readers : reader'[q] = IF q = r THEN new ELSE reader[q]
    BY <1>5 DEF TypeOK
  <2>2. \A q \in Running' : reader'[q].at # "first" => reader'[q].version # 0
    BY <1>5, <2>1 DEF VersionInv, Running
  <2> QED BY <1>3, <1>4, <1>8, <2>2 DEF VersionInv
<1> QED BY <1>7, <1>9

LEMMA ChangeType ==
  ASSUME TypeInv, NEW a \in Admins, Administer(a)
  PROVE  TypeInv'
<1> USE DEF TypeInv
<1>1. PICK w \in Written, atomic \in BOOLEAN, invalidates \in BOOLEAN : Change(a, w, atomic, invalidates)
  BY ChangesAlike
<1> DEFINE new == [at |-> IF invalidates THEN "changed" ELSE "invalidated", version |-> 0, atomic |-> atomic,
                   written |-> IF atomic THEN w ELSE NothingWritten]
<1>2. /\ admin[a].at = "idle" /\ changes < MaxChanges /\ changes' = changes + 1
      /\ admin' = [admin EXCEPT ![a] = new]
      /\ IF atomic THEN UNCHANGED <<database, held, kept, reader>> ELSE Commit(w)
      /\ UNCHANGED <<version, entries, lapsed>>
  BY <1>1 DEF Change
<1>3. Ended \in Nat /\ MaxChanges \in Nat /\ FirstVersion \in Nat /\ 0 \in Versions /\ changes \in 0 .. MaxChanges
  BY EndedType, ScopeAssumption DEF Versions, TypeOK
<1>4. /\ rolePermissions' \in [Roles -> SUBSET Permissions]
      /\ userRoles' \in [Roles -> {"none", "live", "deleted"}]
      /\ overrides' \in [Permissions -> {"none", "granted", "denied"}]
      /\ held' \subseteq Permissions /\ kept' \subseteq Permissions
      /\ reader' \in [Readers -> Reader] /\ Running' = Running
      /\ \A r \in Readers : reader'[r].at = reader[r].at /\ reader'[r].version = reader[r].version
  <2>1. CASE atomic
    BY <1>2, <2>1 DEF TypeOK, Reader, database, Running
  <2>2. CASE ~ atomic
    BY <1>2, <2>2, CommitType
  <2> QED BY <2>1, <2>2
<1>5. new \in Admin /\ new.version = 0 /\ new.at # "idle"
  BY <1>3, NothingType DEF Admin
<1> HIDE DEF new
<1>6. admin' \in [Admins -> Admin] /\ \A b \in Admins : admin'[b] = IF b = a THEN new ELSE admin[b]
  BY <1>2, <1>5 DEF TypeOK, Admin
<1>7. changes' \in 0 .. MaxChanges
  BY <1>2, <1>3
<1>8. TypeOK'
  BY <1>2, <1>4, <1>6, <1>7 DEF TypeOK, Reader, Admin
<1>9. IsFiniteSet(Invalidating') /\ Ended' \in Nat /\ Ended <= Ended'
  <2>1. \A b \in Admins \ {a} : admin'[b].at = admin[b].at /\ admin'[b].version = admin[b].version
    BY <1>6
  <2>2. admin[a].at \notin {"changed", "read"} /\ changes' = changes + 1
    BY <1>2
  <2> QED BY <2>1, <2>2, EndedStep
<1>10. VersionInv'
  <2>1. version \in Int /\ \A b \in Admins : admin[b].version \in Int
    BY <1>3, ScopeAssumption DEF TypeOK, Versions, Admin
  <2>2. version' <= FirstVersion + 1 + Ended'
    <3>1. version <= FirstVersion + 1 + Ended
      BY DEF VersionInv
    <3>2. version' = version /\ Ended \in Int /\ Ended' \in Int /\ FirstVersion \in Int
      BY <1>2, <1>3, <1>9
    <3>3. \A v, f, e, n \in Int : v <= f + 1 + e /\ e <= n => v <= f + 1 + n
      OBVIOUS
    <3> QED BY <1>9, <2>1, <3>1, <3>2, <3>3
  <2>3. \A b \in Admins : admin'[b].version <= FirstVersion + 1 + Ended'
    <3>1. \A b \in Admins : admin[b].version <= FirstVersion + 1 + Ended
      BY DEF VersionInv
    <3> QED BY <1>3, <1>5, <1>6, <1>9, <2>1, <3>1
  <2>4. \A r \in Running' : reader'[r].at # "first" => reader'[r].version # 0
    BY <1>4 DEF VersionInv, Running
  <2> QED BY <1>9, <2>2, <2>3, <2>4 DEF VersionInv
<1> QED BY <1>8, <1>10

LEMMA InvalidationType ==
  ASSUME TypeInv, NEW a \in Admins, invalidate_scope_cache(a)
  PROVE  TypeInv'
<1> USE DEF TypeInv
<1>1. Ended \in Nat /\ Ended <= changes /\ MaxChanges \in Nat /\ FirstVersion \in Nat /\ 0 \in Versions
  BY EndedType, ScopeAssumption DEF Versions
<1>2. /\ UNCHANGED <<database, entries, reader, lapsed, changes>>
      /\ admin[a].at \in {"changed", "read"} /\ admin[a] \in Admin
  BY DEF invalidate_scope_cache, read_version, increment_version, TypeOK, Admin, history
<1>3. changes \in 0 .. MaxChanges /\ version \in Int /\ \A b \in Admins : admin[b].version \in Int
  BY <1>1 DEF TypeOK, Versions, Admin
<1>4. Running' = Running
  BY <1>2 DEF Running
<1>5. CASE read_version(a)
  <2> DEFINE new == [admin[a] EXCEPT !.at = "read", !.version = version]
  <2>1. admin' = [admin EXCEPT ![a] = new] /\ UNCHANGED <<version, held, kept>>
    BY <1>5 DEF read_version, history
  <2>2. new \in Admin /\ new.at = "read" /\ new.version = version
    BY <1>2 DEF TypeOK, Admin
  <2> HIDE DEF new
  <2>3. admin' \in [Admins -> Admin] /\ \A b \in Admins : admin'[b] = IF b = a THEN new ELSE admin[b]
    BY <2>1, <2>2 DEF TypeOK, Admin
  <2>4. TypeOK'
    BY <1>2, <2>1, <2>3 DEF TypeOK, Admin, database
  <2>5. IsFiniteSet(Invalidating') /\ Ended' \in Nat /\ Ended <= Ended'
    BY <1>2, <2>3, EndedStep
  <2>6. version' <= FirstVersion + 1 + Ended' /\ \A b \in Admins : admin'[b].version <= FirstVersion + 1 + Ended'
    BY <1>1, <1>3, <2>1, <2>2, <2>3, <2>5 DEF VersionInv
  <2> QED BY <1>2, <1>4, <2>4, <2>5, <2>6 DEF VersionInv
<1>6. CASE increment_version(a)
  <2> DEFINE new == IF admin[a].atomic THEN [admin[a] EXCEPT !.at = "invalidated", !.version = 0] ELSE Quiet
  <2>1. /\ admin' = [admin EXCEPT ![a] = new] /\ version' = admin[a].version + 1
        /\ held' = Resolved /\ kept' = Resolved
    BY <1>6 DEF increment_version
  <2>2. new \in Admin /\ new.at \notin {"changed", "read"} /\ new.version = 0
    BY <1>1, <1>2, NothingType DEF Quiet, Admin
  <2> HIDE DEF new
  <2>3. admin' \in [Admins -> Admin] /\ \A b \in Admins : admin'[b] = IF b = a THEN new ELSE admin[b]
    BY <2>1, <2>2 DEF TypeOK, Admin
  <2>4. IsFiniteSet(Invalidating') /\ Ended' = Ended + 1 /\ Ended' <= changes'
    BY <1>2, <2>2, <2>3, EndedStep
  <2>5. admin[a].version >= 0 /\ admin[a].version <= FirstVersion + 1 + Ended
    BY <1>1, <1>2 DEF VersionInv, Admin, Versions
  <2>6. version' <= FirstVersion + 1 + Ended' /\ version' \in Versions
    BY <1>1, <1>2, <1>3, <2>1, <2>4, <2>5 DEF Versions
  <2>7. TypeOK'
    BY <1>2, <2>1, <2>3, <2>6, ScopesType DEF TypeOK, Admin, database
  <2>8. \A b \in Admins : admin'[b].version <= FirstVersion + 1 + Ended'
    BY <1>1, <1>3, <2>2, <2>3, <2>4 DEF VersionInv
  <2> QED BY <1>1, <1>2, <1>4, <2>4, <2>6, <2>7, <2>8 DEF VersionInv
<1> QED BY <1>5, <1>6 DEF invalidate_scope_cache

LEMMA EndType ==
  ASSUME TypeInv, NEW a \in Admins, commit(a) \/ abandon(a)
  PROVE  TypeInv'
<1> USE DEF TypeInv
<1>1. Ended \in Nat /\ FirstVersion \in Nat /\ 0 \in Versions
  BY EndedType, ScopeAssumption DEF Versions
<1>2. /\ admin' = [admin EXCEPT ![a] = Quiet] /\ UNCHANGED <<version, entries, lapsed, changes>>
      /\ admin[a].at # "idle"
      /\ UNCHANGED <<database, held, kept, reader>> \/ Commit(admin[a].written)
  BY DEF commit, abandon, history
<1>3. /\ rolePermissions' \in [Roles -> SUBSET Permissions]
      /\ userRoles' \in [Roles -> {"none", "live", "deleted"}]
      /\ overrides' \in [Permissions -> {"none", "granted", "denied"}]
      /\ held' \subseteq Permissions /\ kept' \subseteq Permissions
      /\ reader' \in [Readers -> Reader] /\ Running' = Running
      /\ \A r \in Readers : reader'[r].at = reader[r].at /\ reader'[r].version = reader[r].version
  <2>1. CASE UNCHANGED <<database, held, kept, reader>>
    BY <2>1 DEF TypeOK, Reader, database, Running
  <2>2. CASE Commit(admin[a].written)
    <3>1. admin[a].written \in Written
      BY DEF TypeOK
    <3> QED BY <2>2, <3>1, CommitType
  <2> QED BY <1>2, <2>1, <2>2
<1>4. Quiet \in Admin /\ Quiet.at = "idle" /\ Quiet.version = 0
  BY <1>1, NothingType DEF Quiet, Admin
<1>5. admin' \in [Admins -> Admin] /\ \A b \in Admins : admin'[b] = IF b = a THEN Quiet ELSE admin[b]
  BY <1>2, <1>4 DEF TypeOK, Admin
<1>6. TypeOK'
  BY <1>2, <1>3, <1>5 DEF TypeOK, Reader, Admin
<1>7. IsFiniteSet(Invalidating') /\ Ended' \in Nat /\ Ended <= Ended'
  <2>1. \A b \in Admins \ {a} : admin'[b].at = admin[b].at /\ admin'[b].version = admin[b].version
    BY <1>5
  <2>2. admin'[a].at \notin {"changed", "read"} /\ changes' = changes
    BY <1>2, <1>4, <1>5
  <2> QED BY <2>1, <2>2, EndedStep
<1>8. VersionInv'
  <2>1. version \in Int /\ \A b \in Admins : admin[b].version \in Int
    BY <1>1, ScopeAssumption DEF TypeOK, Versions, Admin
  <2>2. version' <= FirstVersion + 1 + Ended'
    <3>1. version <= FirstVersion + 1 + Ended
      BY DEF VersionInv
    <3>2. version' = version /\ Ended \in Int /\ Ended' \in Int /\ FirstVersion \in Int
      BY <1>1, <1>2, <1>7
    <3>3. \A v, f, e, n \in Int : v <= f + 1 + e /\ e <= n => v <= f + 1 + n
      OBVIOUS
    <3> QED BY <1>7, <2>1, <3>1, <3>2, <3>3
  <2>3. \A b \in Admins : admin'[b].version <= FirstVersion + 1 + Ended'
    <3>1. \A b \in Admins : admin[b].version <= FirstVersion + 1 + Ended
      BY DEF VersionInv
    <3> QED BY <1>1, <1>4, <1>5, <1>7, <2>1, <3>1
  <2>4. \A r \in Running' : reader'[r].at # "first" => reader'[r].version # 0
    BY <1>3 DEF VersionInv, Running
  <2> QED BY <1>7, <2>2, <2>3, <2>4 DEF VersionInv
<1> QED BY <1>6, <1>8

LEMMA ExpiryType ==
  ASSUME TypeInv, (\E v \in Versions : expire_scopes(v)) \/ expire_version
  PROVE  TypeInv'
<1> USE DEF TypeInv
<1>1. Ended \in Nat /\ FirstVersion \in Nat /\ 0 \in Versions
  BY EndedType, ScopeAssumption DEF Versions
<1>2. /\ UNCHANGED <<database, reader, admin, held, kept, changes>>
      /\ Invalidating' = Invalidating /\ Ended' = Ended /\ Running' = Running
  BY DEF expire_scopes, expire_version, Invalidating, Ended, Running, history
<1>3. CASE \E v \in Versions : expire_scopes(v)
  BY <1>2, <1>3 DEF expire_scopes, TypeOK, VersionInv, database, history
<1>4. CASE expire_version
  BY <1>1, <1>2, <1>4 DEF expire_version, TypeOK, VersionInv, database
<1> QED BY <1>3, <1>4

LEMMA TypeStep == TypeInv /\ [Next]_vars => TypeInv'
<1> SUFFICES ASSUME TypeInv, [Next]_vars PROVE TypeInv'
  OBVIOUS
<1>1. CASE UNCHANGED vars
  BY <1>1 DEF vars, TypeInv, TypeOK, VersionInv, Ended, Invalidating, Running
<1>2. CASE Next
  BY <1>2, ResolutionType, ChangeType, InvalidationType, EndType, ExpiryType DEF Next
<1> QED BY <1>1, <1>2

(* Rows, cache, resolutions and changes keep their types, and versions are *)
(* as many as the changes, for any number of requests and permissions, with*)
(* any number of administrators and whatever expires.                      *)
THEOREM TypeCorrect == Spec => []TypeOK
<1>1. TypeInv => TypeOK
  BY DEF TypeInv
<1> QED BY <1>1, TypeInit, TypeStep, PTL DEF Spec

-----------------------------------------------------------------------------
(* Freshness, for one administrator and a version key that is there.       *)

OneAdmin == \A a, b \in Admins : a = b

(* What is stored under the present version, or under the version of a     *)
(* resolution that runs, is an answer that resolution could give.          *)
Answers(scopes, some, all) == scopes \subseteq some /\ all \subseteq scopes

VersionsInv ==
    /\ version >= 1
    /\ \A r \in Running : reader[r].at # "first" /\ reader[r].version <= version
    /\ \A a \in Admins : admin[a].at = "read" => admin[a].version = version

(* Resolutions under one version may answer from the same moments, and     *)
(* those under the present version from the moments since it was written.  *)
MomentsInv ==
    /\ Resolved \subseteq held /\ kept \subseteq Resolved
    /\ \A r \in Running : reader[r].version = version =>
         reader[r].held = held /\ reader[r].kept = kept
    /\ \A r, q \in Running : reader[r].version = reader[q].version =>
         reader[r].held = reader[q].held /\ reader[r].kept = reader[q].kept
    /\ \A r \in Running : Resolved \subseteq reader[r].held /\ reader[r].kept \subseteq Resolved

EntriesInv ==
    /\ \A v \in DOMAIN entries : v <= version
    /\ version \in DOMAIN entries => Answers(entries[version], held, kept)
    /\ \A r \in Running : reader[r].version \in DOMAIN entries =>
         Answers(entries[reader[r].version], reader[r].held, reader[r].kept)

(* Between the queries a permission may be missing that was granted to the *)
(* member, and one may be there that was denied.                           *)
QueriesInv ==
    \A r \in Readers : LET q == reader[r] IN
        /\ q.at \in {"grants", "denies"} =>
             \A p \in q.scopes : p \in q.held \/ overrides[p] = "denied"
        /\ q.at = "grants" => \A p \in q.kept : p \in q.scopes \/ overrides[p] = "granted"
        /\ q.at = "denies" => q.kept \subseteq q.scopes
        /\ q.at \in {"resolved", "answered"} => Answers(q.scopes, q.held, q.kept)

FreshInv == ~ lapsed => VersionsInv /\ MomentsInv /\ EntriesInv /\ QueriesInv

LEMMA FreshInit == FirstVersion > 0 /\ Init => FreshInv
<1> SUFFICES ASSUME FirstVersion > 0, Init PROVE FreshInv
  OBVIOUS
<1> USE DEF Init
<1>1. Running = {} /\ DOMAIN entries = {} /\ version >= 1 /\ held = Resolved /\ kept = Resolved
  BY ScopeAssumption DEF Running, Idle
<1>2. \A a \in Admins : admin[a].at = "idle"
  BY DEF Quiet
<1>3. \A r \in Readers : reader[r].at = "idle"
  BY DEF Idle
<1> QED BY <1>1, <1>2, <1>3 DEF FreshInv, VersionsInv, MomentsInv, EntriesInv, QueriesInv

LEMMA Moments ==
  ASSUME TypeInv
  PROVE  /\ \A p \in Permissions :
              p \in Resolved <=> (p \in role_permissions \/ overrides[p] = "granted") /\ overrides[p] # "denied"
         /\ user_grants = {p \in Permissions : overrides[p] = "granted"}
BY DEF Resolved, user_grants, user_denies

LEMMA SameScopes ==
  ASSUME UNCHANGED database
  PROVE  UNCHANGED <<Resolved, role_permissions>>
BY DEF database, Resolved, role_permissions, user_grants, user_denies

LEMMA GoesOn ==
  ASSUME TypeInv, VersionsInv, MomentsInv, NEW r \in Readers,
         reader[r].at \in {"versioned", "roles", "grants", "denies", "resolved"},
         NEW at \in {"roles", "grants", "denies", "resolved"}, NEW scopes,
         reader' = [reader EXCEPT ![r].at = at, ![r].scopes = scopes],
         UNCHANGED <<database, version, admin, held, kept>>
  PROVE  /\ VersionsInv' /\ MomentsInv' /\ r \in Running /\ Running' = Running
         /\ reader'[r].at = at /\ reader'[r].scopes = scopes
         /\ \A q \in Readers : /\ reader'[q].version = reader[q].version
                               /\ reader'[q].held = reader[q].held /\ reader'[q].kept = reader[q].kept
                               /\ q # r => reader'[q] = reader[q]
<1>1. /\ reader'[r].at = at /\ reader'[r].scopes = scopes
      /\ \A q \in Readers : /\ reader'[q].version = reader[q].version
                            /\ reader'[q].held = reader[q].held /\ reader'[q].kept = reader[q].kept
                            /\ q # r => reader'[q] = reader[q]
  <2>1. reader \in [Readers -> Reader]
    BY DEF TypeInv, TypeOK, Reader
  <2>2. reader[r] \in Reader
    BY <2>1
  <2>3. reader' = [reader EXCEPT ![r] = [reader[r] EXCEPT !.at = at, !.scopes = scopes]]
    OBVIOUS
  <2> QED BY <2>1, <2>2, <2>3 DEF Reader
<1>2. r \in Running /\ Running' = Running
  BY <1>1 DEF Running
<1>3. \A q \in Running : reader'[q].at # "first"
  BY <1>1 DEF VersionsInv, Running
<1>4. VersionsInv'
  BY <1>1, <1>2, <1>3 DEF VersionsInv, Running
<1>5. version' = version /\ Resolved' = Resolved /\ held' = held /\ kept' = kept
  BY SameScopes
<1>6. \A q \in Running : /\ reader'[q].version = reader[q].version
                        /\ reader'[q].held = reader[q].held /\ reader'[q].kept = reader[q].kept
  BY <1>1 DEF Running
<1>7. MomentsInv'
  <2>1. \A q \in Running' : reader'[q].version = version' =>
          reader'[q].held = held' /\ reader'[q].kept = kept'
    BY <1>2, <1>5, <1>6 DEF MomentsInv
  <2>2. ASSUME NEW q \in Running', NEW t \in Running', reader'[q].version = reader'[t].version
        PROVE  reader'[q].held = reader'[t].held /\ reader'[q].kept = reader'[t].kept
    <3>1. q \in Running /\ t \in Running
      BY <1>2
    <3>2. reader[q].version = reader[t].version
      BY <1>6, <2>2, <3>1
    <3>3. reader[q].held = reader[t].held /\ reader[q].kept = reader[t].kept
      BY <3>1, <3>2 DEF MomentsInv
    <3> QED BY <1>6, <3>1, <3>3
  <2>3. \A q \in Running' : Resolved' \subseteq reader'[q].held /\ reader'[q].kept \subseteq Resolved'
    BY <1>2, <1>5, <1>6 DEF MomentsInv
  <2> QED BY <1>5, <2>1, <2>2, <2>3 DEF MomentsInv
<1> QED BY <1>1, <1>2, <1>4, <1>7

(* One that answers runs no longer.                                        *)
LEMMA AnswersAndEnds ==
  ASSUME TypeInv, VersionsInv, MomentsInv, QueriesInv, NEW r \in Running, NEW scopes, Answer(r, scopes),
         Answers(scopes, reader[r].held, reader[r].kept),
         UNCHANGED <<database, version, admin, held, kept>>
  PROVE  /\ VersionsInv' /\ MomentsInv' /\ QueriesInv' /\ Running' = Running \ {r}
         /\ \A q \in Readers \ {r} : reader'[q] = reader[q]
<1>1. /\ reader'[r].at = "answered" /\ reader'[r].scopes = scopes
      /\ reader'[r].held = reader[r].held /\ reader'[r].kept = reader[r].kept
      /\ \A q \in Readers \ {r} : reader'[q] = reader[q]
  <2>1. reader \in [Readers -> Reader] /\ r \in Readers /\ reader[r] \in Reader
    BY DEF TypeInv, TypeOK, Reader, Running
  <2> DEFINE new == [reader[r] EXCEPT !.at = "answered", !.version = 0, !.scopes = scopes]
  <2>2. reader' = [reader EXCEPT ![r] = new]
    BY DEF Answer
  <2>3. new.at = "answered" /\ new.scopes = scopes /\ new.held = reader[r].held /\ new.kept = reader[r].kept
    BY <2>1 DEF Reader
  <2> HIDE DEF new
  <2> QED BY <2>1, <2>2, <2>3
<1>2. Running' = Running \ {r}
  BY <1>1 DEF Running
<1>3. \A q \in Running' : q \in Running /\ reader'[q] = reader[q]
  BY <1>1, <1>2 DEF Running
<1>4. VersionsInv'
  BY <1>3 DEF VersionsInv
<1>5. Resolved' = Resolved /\ overrides' = overrides
  BY SameScopes DEF database
<1>6. MomentsInv'
  BY <1>3, <1>5 DEF MomentsInv
<1>7. QueriesInv'
  BY <1>1, <1>5 DEF QueriesInv
<1> QED BY <1>1, <1>2, <1>4, <1>6, <1>7

LEMMA ResolutionFresh ==
  ASSUME TypeInv, FreshInv, ~ lapsed, NEW r \in Readers, resolve_scopes(r)
  PROVE  VersionsInv' /\ MomentsInv' /\ EntriesInv' /\ QueriesInv'
<1>1. VersionsInv /\ MomentsInv /\ EntriesInv /\ QueriesInv
  BY DEF FreshInv
<1>2. UNCHANGED <<database, admin, held, kept>>
  BY DEF resolve_scopes, get_version, set_first_version, get_cached_scopes, query_roles, query_grants,
         query_denies, query, cache_scopes, history
<1>3. UNCHANGED <<Resolved, overrides, held, kept>>
  BY <1>2, SameScopes DEF database
<1>4. reader \in [Readers -> Reader] /\ reader[r] \in Reader
  BY DEF TypeInv, TypeOK, Reader
<1>5. CASE get_version(r)
  <2> DEFINE new == [at |-> IF version = 0 THEN "first" ELSE "versioned", version |-> version,
                     scopes |-> {}, held |-> held, kept |-> kept]
  <2>1. reader' = [reader EXCEPT ![r] = new] /\ UNCHANGED <<version, entries>>
    BY <1>5 DEF get_version
  <2>2. /\ new.at = "versioned" /\ new.version = version
        /\ new.held = held /\ new.kept = kept
    BY <1>1 DEF VersionsInv
  <2> HIDE DEF new
  <2>3. reader'[r] = new /\ \A q \in Readers : q # r => reader'[q] = reader[q]
    BY <1>4, <2>1
  <2>4. Running' = Running \cup {r}
    BY <2>2, <2>3 DEF Running
  <2>5. version \in Int
    BY ScopeAssumption DEF TypeInv, TypeOK, Versions
  <2>6. VersionsInv'
    BY <1>1, <1>2, <2>1, <2>2, <2>3, <2>4, <2>5 DEF VersionsInv
  <2>7. MomentsInv'
    <3>1. \A q \in Running \ {r} : reader'[q] = reader[q]
      BY <2>3 DEF Running
    <3> QED BY <1>1, <1>3, <2>1, <2>2, <2>3, <2>4, <3>1, Moments DEF MomentsInv
  <2>8. EntriesInv'
    <3>1. \A q \in Running \ {r} : reader'[q] = reader[q]
      BY <2>3 DEF Running
    <3> QED BY <1>1, <1>3, <2>1, <2>2, <2>3, <2>4, <3>1 DEF EntriesInv
  <2>9. QueriesInv'
    BY <1>1, <1>3, <2>2, <2>3 DEF QueriesInv
  <2> QED BY <2>6, <2>7, <2>8, <2>9
<1>6. CASE set_first_version(r)
  BY <1>1, <1>6 DEF set_first_version, VersionsInv, Running
<1>7. CASE get_cached_scopes(r)
  <2>1. reader[r].at = "versioned" /\ UNCHANGED <<version, entries>> /\ r \in Running
    BY <1>7 DEF get_cached_scopes, Running
  <2>2. CASE reader[r].version \in DOMAIN entries
    <3>1. Answer(r, entries[reader[r].version])
      BY <1>7, <2>2 DEF get_cached_scopes
    <3>2. Answers(entries[reader[r].version], reader[r].held, reader[r].kept)
      BY <1>1, <2>1, <2>2 DEF EntriesInv
    <3>3. /\ VersionsInv' /\ MomentsInv' /\ QueriesInv' /\ Running' = Running \ {r}
          /\ \A q \in Readers \ {r} : reader'[q] = reader[q]
      BY <1>1, <1>2, <2>1, <3>1, <3>2, AnswersAndEnds
    <3>4. EntriesInv'
      BY <1>1, <1>3, <2>1, <3>3 DEF EntriesInv, Running
    <3> QED BY <3>3, <3>4
  <2>3. CASE reader[r].version \notin DOMAIN entries
    <3>1. reader' = [reader EXCEPT ![r].at = "roles", ![r].scopes = reader[r].scopes]
      BY <1>4, <1>7, <2>3 DEF get_cached_scopes, Reader
    <3>2. /\ VersionsInv' /\ MomentsInv' /\ r \in Running /\ Running' = Running
          /\ reader'[r].at = "roles" /\ reader'[r].scopes = reader[r].scopes
          /\ \A q \in Readers : /\ reader'[q].version = reader[q].version
                                /\ reader'[q].held = reader[q].held /\ reader'[q].kept = reader[q].kept
                                /\ q # r => reader'[q] = reader[q]
      BY <1>1, <1>2, <2>1, <3>1, GoesOn
    <3>3. EntriesInv'
      BY <1>1, <1>3, <2>1, <3>2 DEF EntriesInv, Running
    <3>4. QueriesInv'
      BY <1>1, <1>3, <3>2 DEF QueriesInv
    <3> QED BY <3>2, <3>3, <3>4
  <2> QED BY <2>2, <2>3
<1>8. ASSUME NEW at \in {"roles", "grants", "denies"}, NEW next \in {"grants", "denies", "resolved"},
             NEW scopes, query(r, at, next, scopes),
             /\ next # "resolved" => \A p \in scopes : p \in reader[r].held \/ overrides[p] = "denied"
             /\ next = "grants" => \A p \in reader[r].kept : p \in scopes \/ overrides[p] = "granted"
             /\ next = "denies" => reader[r].kept \subseteq scopes
             /\ next = "resolved" => Answers(scopes, reader[r].held, reader[r].kept)
      PROVE  VersionsInv' /\ MomentsInv' /\ EntriesInv' /\ QueriesInv'
  <2>1. /\ reader[r].at = at /\ reader' = [reader EXCEPT ![r].at = next, ![r].scopes = scopes]
        /\ UNCHANGED <<version, entries>>
    BY <1>8 DEF query
  <2>2. /\ VersionsInv' /\ MomentsInv' /\ r \in Running /\ Running' = Running
        /\ reader'[r].at = next /\ reader'[r].scopes = scopes
        /\ \A q \in Readers : /\ reader'[q].version = reader[q].version
                              /\ reader'[q].held = reader[q].held /\ reader'[q].kept = reader[q].kept
                              /\ q # r => reader'[q] = reader[q]
    BY <1>1, <1>2, <2>1, GoesOn
  <2>3. EntriesInv'
    BY <1>1, <1>3, <2>1, <2>2 DEF EntriesInv, Running
  <2>4. QueriesInv'
    BY <1>1, <1>3, <1>8, <2>2 DEF QueriesInv
  <2> QED BY <2>2, <2>3, <2>4
<1>9. /\ r \in Running => Resolved \subseteq reader[r].held /\ reader[r].kept \subseteq Resolved
      /\ reader[r].kept \subseteq Permissions /\ reader[r].scopes \subseteq Permissions
      /\ role_permissions \subseteq Permissions
  BY <1>1, <1>4 DEF MomentsInv, Reader, TypeInv, TypeOK, role_permissions
<1>10. CASE query_roles(r)
  <2>1. query(r, "roles", "grants", role_permissions) /\ r \in Running
    BY <1>10 DEF query_roles, query, Running
  <2>2. \A p \in role_permissions : p \in reader[r].held \/ overrides[p] = "denied"
    BY <1>9, <2>1, Moments
  <2>3. \A p \in reader[r].kept : p \in role_permissions \/ overrides[p] = "granted"
    BY <1>9, <2>1, Moments
  <2> QED BY <1>8, <2>1, <2>2, <2>3
<1>11. CASE query_grants(r)
  <2>1. query(r, "grants", "denies", reader[r].scopes \cup user_grants) /\ r \in Running /\ reader[r].at = "grants"
    BY <1>11 DEF query_grants, query, Running
  <2>2. \A p \in reader[r].scopes \cup user_grants : p \in reader[r].held \/ overrides[p] = "denied"
    BY <1>1, <1>9, <2>1, Moments DEF QueriesInv
  <2>3. reader[r].kept \subseteq reader[r].scopes \cup user_grants
    BY <1>1, <1>9, <2>1, Moments DEF QueriesInv
  <2> QED BY <1>8, <2>1, <2>2, <2>3
<1>12. CASE query_denies(r)
  <2>1. query(r, "denies", "resolved", reader[r].scopes \ user_denies) /\ r \in Running /\ reader[r].at = "denies"
    BY <1>12 DEF query_denies, query, Running
  <2>2. Answers(reader[r].scopes \ user_denies, reader[r].held, reader[r].kept)
    BY <1>1, <1>9, <2>1 DEF QueriesInv, Answers, user_denies, Resolved
  <2> QED BY <1>8, <2>1, <2>2
<1>13. CASE cache_scopes(r)
  <2> DEFINE scopes == reader[r].scopes
  <2>1. /\ reader[r].at = "resolved" /\ UNCHANGED version /\ r \in Running
        /\ entries' = [v \in DOMAIN entries \cup {reader[r].version} |->
                         IF v = reader[r].version THEN scopes ELSE entries[v]]
        /\ Answer(r, scopes)
    BY <1>13 DEF cache_scopes, Running
  <2>2. Answers(scopes, reader[r].held, reader[r].kept)
    BY <1>1, <2>1 DEF QueriesInv
  <2> HIDE DEF scopes
  <2>3. /\ VersionsInv' /\ MomentsInv' /\ QueriesInv' /\ Running' = Running \ {r}
        /\ \A q \in Readers \ {r} : reader'[q] = reader[q]
    BY <1>1, <1>2, <2>1, <2>2, AnswersAndEnds
  <2>4. \A v \in DOMAIN entries' : v = reader[r].version \/ (v \in DOMAIN entries /\ entries'[v] = entries[v])
    <3>1. DOMAIN entries' = DOMAIN entries \cup {reader[r].version}
      BY <2>1
    <3>2. \A v \in DOMAIN entries \cup {reader[r].version} :
            v # reader[r].version => entries'[v] = entries[v]
      BY <2>1
    <3> QED BY <3>1, <3>2
  <2>5. reader[r].version \in DOMAIN entries' => entries'[reader[r].version] = scopes
    BY <2>1
  <2>6. \A v \in DOMAIN entries' : v <= version
    BY <1>1, <2>1, <2>4 DEF EntriesInv, VersionsInv
  <2>7. version \in DOMAIN entries' => Answers(entries'[version], held, kept)
    <3>1. CASE version = reader[r].version
      BY <1>1, <2>1, <2>2, <2>5, <3>1 DEF MomentsInv
    <3>2. CASE version # reader[r].version
      BY <1>1, <2>4, <3>2 DEF EntriesInv
    <3> QED BY <3>1, <3>2
  <2>8. \A q \in Running : reader[q].version \in DOMAIN entries' =>
          Answers(entries'[reader[q].version], reader[q].held, reader[q].kept)
    <3> SUFFICES ASSUME NEW q \in Running, reader[q].version \in DOMAIN entries'
                 PROVE  Answers(entries'[reader[q].version], reader[q].held, reader[q].kept)
      OBVIOUS
    <3>1. CASE reader[q].version = reader[r].version
      BY <1>1, <2>1, <2>2, <2>5, <3>1 DEF MomentsInv
    <3>2. CASE reader[q].version # reader[r].version
      BY <1>1, <2>4, <3>2 DEF EntriesInv
    <3> QED BY <3>1, <3>2
  <2>9. EntriesInv'
    <3>1. \A q \in Running' : q \in Running /\ reader'[q] = reader[q]
      BY <2>3 DEF Running
    <3> QED BY <1>3, <2>1, <2>6, <2>7, <2>8, <3>1 DEF EntriesInv
  <2> QED BY <2>3, <2>9
<1> QED BY <1>5, <1>6, <1>7, <1>10, <1>11, <1>12, <1>13 DEF resolve_scopes

(* A commit lets the resolutions that run, and those to come under the     *)
(* present version, answer from one moment more.                           *)
LEMMA CommitFresh ==
  ASSUME TypeInv, FreshInv, ~ lapsed, NEW w \in Written, Commit(w), UNCHANGED <<version, entries>>,
         \A a \in Admins : admin'[a].at = "read" => admin[a].at = "read" /\ admin'[a].version = admin[a].version
  PROVE  VersionsInv' /\ MomentsInv' /\ EntriesInv' /\ QueriesInv'
<1>1. VersionsInv /\ MomentsInv /\ EntriesInv /\ QueriesInv
  BY DEF FreshInv
<1>2. /\ overrides' \in [Permissions -> {"none", "granted", "denied"}]
      /\ \A p \in Permissions : overrides'[p] = overrides[p] \/ overrides'[p] # "none"
      /\ \A r \in Readers : reader'[r].at = reader[r].at /\ reader'[r].version = reader[r].version
      /\ Running' = Running
  BY CommitType DEF TypeInv
<1>3. held' = held \cup Resolved' /\ kept' = kept \cap Resolved'
  BY DEF Commit
<1>4. /\ \A r \in Readers : reader'[r].scopes = reader[r].scopes
      /\ \A r \in Running : /\ reader'[r].held = reader[r].held \cup Resolved'
                            /\ reader'[r].kept = reader[r].kept \cap Resolved'
      /\ \A r \in Readers \ Running : reader'[r] = reader[r]
      /\ Running \subseteq Readers
  <2> DEFINE extended(r) == [reader[r] EXCEPT !.held = @ \cup Resolved', !.kept = @ \cap Resolved']
  <2>1. reader' = [r \in Readers |-> IF r \in Running THEN extended(r) ELSE reader[r]]
    BY DEF Commit
  <2>2. \A r \in Readers : reader[r] \in Reader
    BY DEF TypeInv, TypeOK, Reader
  <2>3. \A r \in Readers : /\ extended(r).scopes = reader[r].scopes
                           /\ extended(r).held = reader[r].held \cup Resolved'
                           /\ extended(r).kept = reader[r].kept \cap Resolved'
    BY <2>2 DEF Reader
  <2>4. Running \subseteq Readers
    BY DEF Running
  <2> HIDE DEF extended
  <2> QED BY <2>1, <2>3, <2>4
<1>5. VersionsInv'
  BY <1>1, <1>2, <1>4 DEF VersionsInv
<1>6. MomentsInv'
  <2>1. ASSUME NEW r \in Running', reader'[r].version = version'
        PROVE  reader'[r].held = held' /\ reader'[r].kept = kept'
    BY <1>1, <1>2, <1>3, <1>4, <2>1 DEF MomentsInv
  <2>2. ASSUME NEW q \in Running', NEW t \in Running', reader'[q].version = reader'[t].version
        PROVE  reader'[q].held = reader'[t].held /\ reader'[q].kept = reader'[t].kept
    <3>1. reader[q].held = reader[t].held /\ reader[q].kept = reader[t].kept
      BY <1>1, <1>2, <1>4, <2>2 DEF MomentsInv
    <3> QED BY <1>2, <1>4, <3>1
  <2>3. \A q \in Running' : Resolved' \subseteq reader'[q].held /\ reader'[q].kept \subseteq Resolved'
    BY <1>2, <1>4
  <2> QED BY <1>3, <2>1, <2>2, <2>3 DEF MomentsInv
<1>7. EntriesInv'
  <2>1. \A v \in DOMAIN entries' : v <= version'
    BY <1>1 DEF EntriesInv
  <2>2. version' \in DOMAIN entries' => Answers(entries'[version'], held', kept')
    BY <1>1, <1>3 DEF EntriesInv, Answers
  <2>3. ASSUME NEW r \in Running', reader'[r].version \in DOMAIN entries'
        PROVE  Answers(entries'[reader'[r].version], reader'[r].held, reader'[r].kept)
    <3>1. Answers(entries[reader[r].version], reader[r].held, reader[r].kept)
      BY <1>1, <1>2, <1>4, <2>3 DEF EntriesInv
    <3> QED BY <1>2, <1>4, <3>1 DEF Answers
  <2> QED BY <2>1, <2>2, <2>3 DEF EntriesInv
<1>8. QueriesInv'
  <2> SUFFICES ASSUME NEW r \in Readers
               PROVE  /\ reader'[r].at \in {"grants", "denies"} =>
                           \A p \in reader'[r].scopes : p \in reader'[r].held \/ overrides'[p] = "denied"
                      /\ reader'[r].at = "grants" =>
                           \A p \in reader'[r].kept : p \in reader'[r].scopes \/ overrides'[p] = "granted"
                      /\ reader'[r].at = "denies" => reader'[r].kept \subseteq reader'[r].scopes
                      /\ reader'[r].at \in {"resolved", "answered"} =>
                           Answers(reader'[r].scopes, reader'[r].held, reader'[r].kept)
    BY DEF QueriesInv
  <2>1. CASE r \notin Running
    <3>1. reader'[r] = reader[r] /\ reader[r].at \in {"idle", "answered"}
      BY <1>4, <2>1 DEF Running
    <3> QED BY <1>1, <3>1 DEF QueriesInv
  <2>2. CASE r \in Running
    <3>1. reader[r].scopes \subseteq Permissions /\ reader[r].kept \subseteq Permissions
      BY DEF TypeInv, TypeOK
    <3>2. overrides \in [Permissions -> {"none", "granted", "denied"}]
      BY DEF TypeInv, TypeOK
    <3>3. \A p \in Permissions : (overrides'[p] = "granted" => p \in Resolved')
                                /\ (overrides'[p] = "denied" => p \notin Resolved')
      BY DEF Resolved, user_grants, user_denies
    <3>4. ASSUME reader'[r].at \in {"grants", "denies"}, NEW p \in reader'[r].scopes
          PROVE  p \in reader'[r].held \/ overrides'[p] = "denied"
      <4>1. p \in Permissions /\ (p \in reader[r].held \/ overrides[p] = "denied")
        BY <1>1, <1>2, <1>4, <3>1, <3>4 DEF QueriesInv
      <4> QED BY <1>2, <1>4, <2>2, <3>2, <3>3, <4>1
    <3>5. ASSUME reader'[r].at = "grants", NEW p \in reader'[r].kept
          PROVE  p \in reader'[r].scopes \/ overrides'[p] = "granted"
      <4>1. p \in Permissions /\ p \in Resolved' /\ (p \in reader[r].scopes \/ overrides[p] = "granted")
        BY <1>1, <1>2, <1>4, <2>2, <3>1, <3>5 DEF QueriesInv
      <4> QED BY <1>2, <1>4, <3>2, <3>3, <4>1
    <3>6. reader'[r].at = "denies" => reader'[r].kept \subseteq reader'[r].scopes
      BY <1>1, <1>2, <1>4, <2>2 DEF QueriesInv
    <3>7. reader'[r].at \in {"resolved", "answered"} =>
            Answers(reader'[r].scopes, reader'[r].held, reader'[r].kept)
      BY <1>1, <1>2, <1>4, <2>2 DEF QueriesInv, Answers
    <3> QED BY <3>4, <3>5, <3>6, <3>7
  <2> QED BY <2>1, <2>2
<1> QED BY <1>5, <1>6, <1>7, <1>8

(* What touches neither the tables nor the cache nor the resolutions.      *)
LEMMA NothingSeen ==
  ASSUME FreshInv, ~ lapsed, UNCHANGED <<database, version, entries, reader, held, kept>>,
         \A a \in Admins : admin'[a].at = "read" =>
           \/ admin[a].at = "read" /\ admin'[a].version = admin[a].version
           \/ admin'[a].version = version
  PROVE  VersionsInv' /\ MomentsInv' /\ EntriesInv' /\ QueriesInv'
<1>1. VersionsInv /\ MomentsInv /\ EntriesInv /\ QueriesInv
  BY DEF FreshInv
<1>2. Resolved' = Resolved /\ overrides' = overrides /\ Running' = Running
  BY SameScopes DEF database, Running
<1> QED BY <1>1, <1>2 DEF VersionsInv, MomentsInv, EntriesInv, QueriesInv

LEMMA ChangeFresh ==
  ASSUME TypeInv, FreshInv, ~ lapsed, NEW a \in Admins, Administer(a) \/ commit(a) \/ abandon(a)
  PROVE  VersionsInv' /\ MomentsInv' /\ EntriesInv' /\ QueriesInv'
<1>1. admin \in [Admins -> Admin]
  BY DEF TypeInv, TypeOK, Admin
<1>2. \E new \in Admin \cup {Quiet} :
        new.at # "read" /\ admin' = [admin EXCEPT ![a] = new] /\ UNCHANGED <<version, entries>>
      /\ (UNCHANGED <<database, held, kept, reader>> \/ \E w \in Written : Commit(w))
  <2>1. CASE Administer(a)
    <3>1. PICK w \in Written, atomic \in BOOLEAN, invalidates \in BOOLEAN : Change(a, w, atomic, invalidates)
      BY <2>1, ChangesAlike DEF TypeInv
    <3> DEFINE new == [at |-> IF invalidates THEN "changed" ELSE "invalidated", version |-> 0, atomic |-> atomic,
                       written |-> IF atomic THEN w ELSE NothingWritten]
    <3>2. /\ admin' = [admin EXCEPT ![a] = new] /\ UNCHANGED <<version, entries>>
          /\ UNCHANGED <<database, held, kept, reader>> \/ Commit(w)
      BY <3>1 DEF Change
    <3>3. new \in Admin /\ new.at # "read"
      BY NothingType, ScopeAssumption DEF Admin, Versions
    <3> HIDE DEF new
    <3> QED BY <3>2, <3>3
  <2>2. CASE commit(a)
    <3>1. admin[a].written \in Written
      BY DEF TypeInv, TypeOK
    <3> QED BY <2>2, <3>1 DEF commit, Quiet
  <2>3. CASE abandon(a)
    BY <2>3 DEF abandon, Quiet, history
  <2> QED BY <2>1, <2>2, <2>3
<1>3. \A b \in Admins : admin'[b].at = "read" => admin[b].at = "read" /\ admin'[b].version = admin[b].version
  BY <1>1, <1>2
<1> QED BY <1>2, <1>3, CommitFresh, NothingSeen

(* The version that an invalidation writes is one that nobody had, under   *)
(* which nothing is stored and no resolution runs.                         *)
LEMMA InvalidationFresh ==
  ASSUME TypeInv, FreshInv, ~ lapsed, OneAdmin, NEW a \in Admins, invalidate_scope_cache(a)
  PROVE  VersionsInv' /\ MomentsInv' /\ EntriesInv' /\ QueriesInv'
<1>1. VersionsInv /\ MomentsInv /\ EntriesInv /\ QueriesInv
  BY DEF FreshInv
<1>2. UNCHANGED <<database, entries, reader>> /\ Admins = {a}
  BY DEF invalidate_scope_cache, read_version, increment_version, OneAdmin
<1>3. Resolved' = Resolved /\ overrides' = overrides /\ Running' = Running
  BY <1>2, SameScopes DEF database, Running
<1>4. QueriesInv'
  BY <1>1, <1>2, <1>3 DEF QueriesInv
<1>5. /\ version \in Int /\ admin \in [Admins -> Admin] /\ admin[a] \in Admin
      /\ \A r \in Running : reader[r].version \in Int
      /\ \A v \in DOMAIN entries : v \in Int
  BY ScopeAssumption DEF TypeInv, TypeOK, Versions, Admin, Running
<1>6. CASE read_version(a)
  <2> DEFINE new == [admin[a] EXCEPT !.at = "read", !.version = version]
  <2>1. admin' = [admin EXCEPT ![a] = new] /\ UNCHANGED <<version, held, kept>>
    BY <1>6 DEF read_version, history
  <2>2. new.version = version
    BY <1>5 DEF Admin
  <2> HIDE DEF new
  <2>3. \A b \in Admins : admin'[b].version = version
    BY <1>2, <1>5, <2>1, <2>2
  <2> QED BY <1>2, <2>1, <2>3, NothingSeen
<1>7. CASE increment_version(a)
  <2> DEFINE new == IF admin[a].atomic THEN [admin[a] EXCEPT !.at = "invalidated", !.version = 0] ELSE Quiet
  <2>1. /\ admin[a].at = "read" /\ version' = admin[a].version + 1
        /\ admin' = [admin EXCEPT ![a] = new] /\ held' = Resolved /\ kept' = Resolved
    BY <1>7 DEF increment_version
  <2>2. new.at # "read"
    BY <1>5 DEF Admin, Quiet
  <2> HIDE DEF new
  <2>3. version' = version + 1 /\ \A b \in Admins : admin'[b].at # "read"
    BY <1>1, <1>2, <1>5, <2>1, <2>2 DEF VersionsInv
  <2>4. /\ \A r \in Running : reader[r].version < version'
        /\ \A v \in DOMAIN entries : v < version'
    BY <1>1, <1>5, <2>3 DEF VersionsInv, EntriesInv
  <2>5. VersionsInv'
    BY <1>1, <1>2, <1>3, <1>5, <2>3, <2>4 DEF VersionsInv
  <2>6. MomentsInv'
    <3>1. \A r \in Running : reader[r].version # version'
      BY <1>5, <2>3, <2>4
    <3> QED BY <1>1, <1>2, <1>3, <2>1, <3>1 DEF MomentsInv
  <2>7. EntriesInv'
    <3>1. version' \notin DOMAIN entries
      BY <1>5, <2>3, <2>4
    <3>2. \A v \in DOMAIN entries : v <= version'
      BY <1>5, <2>3, <2>4
    <3> QED BY <1>1, <1>2, <1>3, <3>1, <3>2 DEF EntriesInv
  <2> QED BY <1>4, <2>5, <2>6, <2>7
<1> QED BY <1>6, <1>7 DEF invalidate_scope_cache

LEMMA ExpiryFresh ==
  ASSUME TypeInv, FreshInv, ~ lapsed, NEW v \in Versions, expire_scopes(v)
  PROVE  VersionsInv' /\ MomentsInv' /\ EntriesInv' /\ QueriesInv'
<1>1. VersionsInv /\ MomentsInv /\ EntriesInv /\ QueriesInv
  BY DEF FreshInv
<1>2. UNCHANGED <<database, version, reader, admin, held, kept>>
      /\ entries' = [u \in DOMAIN entries \ {v} |-> entries[u]]
  BY DEF expire_scopes, history
<1>3. UNCHANGED <<Resolved, overrides, Running>>
  BY <1>2, SameScopes DEF Running, database
<1>4. \A u \in DOMAIN entries' : u \in DOMAIN entries /\ entries'[u] = entries[u]
  BY <1>2
<1>5. VersionsInv' /\ MomentsInv' /\ QueriesInv'
  BY <1>1, <1>2, <1>3 DEF VersionsInv, MomentsInv, QueriesInv
<1>6. EntriesInv'
  BY <1>1, <1>2, <1>3, <1>4 DEF EntriesInv
<1> QED BY <1>5, <1>6

LEMMA FreshStep ==
  ASSUME OneAdmin
  PROVE  TypeInv /\ FreshInv /\ [Next]_vars => FreshInv'
<1> SUFFICES ASSUME TypeInv, FreshInv, [Next]_vars, ~ lapsed' PROVE FreshInv'
  BY DEF FreshInv
<1>1. CASE UNCHANGED vars
  <2>1. ~ lapsed /\ UNCHANGED <<database, version, entries, reader, admin, held, kept>>
    BY <1>1 DEF vars, database
  <2> QED BY <2>1, NothingSeen DEF FreshInv
<1>2. ASSUME NEW r \in Readers, resolve_scopes(r) PROVE FreshInv'
  <2>1. ~ lapsed
    BY <1>2 DEF resolve_scopes, get_version, set_first_version, get_cached_scopes, query_roles,
                query_grants, query_denies, query, cache_scopes, history
  <2> QED BY <1>2, <2>1, ResolutionFresh DEF FreshInv
<1>3. ASSUME NEW a \in Admins, Administer(a) \/ commit(a) \/ abandon(a) PROVE FreshInv'
  <2>1. CASE Administer(a)
    <3>1. ~ lapsed
      BY <2>1, ChangesAlike DEF TypeInv, Change
    <3> QED BY <2>1, <3>1, ChangeFresh DEF FreshInv
  <2>2. CASE commit(a) \/ abandon(a)
    <3>1. ~ lapsed
      BY <2>2 DEF commit, abandon, history
    <3> QED BY <2>2, <3>1, ChangeFresh DEF FreshInv
  <2> QED BY <1>3, <2>1, <2>2
<1>4. ASSUME NEW a \in Admins, invalidate_scope_cache(a) PROVE FreshInv'
  <2>1. ~ lapsed
    BY <1>4 DEF invalidate_scope_cache, read_version, increment_version, history
  <2> QED BY <1>4, <2>1, InvalidationFresh DEF FreshInv
<1>5. ASSUME NEW v \in Versions, expire_scopes(v) PROVE FreshInv'
  <2>1. ~ lapsed
    BY <1>5 DEF expire_scopes, history
  <2> QED BY <1>5, <2>1, ExpiryFresh DEF FreshInv
<1>6. ~ expire_version
  BY DEF expire_version
<1> QED BY <1>1, <1>2, <1>3, <1>4, <1>5, <1>6 DEF Next

(* From a version key that is there, with one administrator at a time, no  *)
(* resolution answers from before the last increment of the version that   *)
(* preceded it, until the version key runs out: for any number of          *)
(* resolutions, roles, permissions and changes, in a transaction or not,   *)
(* whatever scopes expire and whichever change fails half way.             *)
THEOREM OldScopesStayHidden ==
  ASSUME FirstVersion > 0, OneAdmin
  PROVE  Spec => []OldScopesAreNotServed
<1>1. FreshInv => OldScopesAreNotServed
  BY DEF FreshInv, QueriesInv, Answers, OldScopesAreNotServed
<1> QED BY <1>1, TypeInit, FreshInit, TypeStep, FreshStep, PTL DEF Spec
=============================================================================
