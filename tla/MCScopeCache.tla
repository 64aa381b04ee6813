------------------------------ MODULE MCScopeCache ------------------------------
EXTENDS ScopeCacheProps, TLC

CONSTANTS view, edit, staff

(* One role that gives one of the permissions.                             *)
StaffViews == [r \in Roles |-> {view}]

Symmetry == Permutations(Readers) \cup Permutations(Admins)
=============================================================================
