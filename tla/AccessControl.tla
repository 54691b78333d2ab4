---------------------------- MODULE AccessControl ---------------------------
(***************************************************************************)
(* Who may do what in one company: roles, their permissions, and the cache *)
(* of permissions that every server process keeps.                         *)
(*                                                                         *)
(* Code: platform/rbac (service.go, enforcer.go) over platform/pgstore/    *)
(* rbac_store.go, and the interceptor that asks before each procedure      *)
(* (platform/server/interceptors.go).  A check that misses the cache reads *)
(* the role, the role's permissions and the membership one after the other *)
(* and then stores an entry; a role change writes and then empties the     *)
(* cache of its own process.  An entry expires after cacheTTL: without a   *)
(* clock here, it may expire at any time.                                  *)
(***************************************************************************)
EXTENDS Naturals, FiniteSets

CONSTANTS Users, Admins,        \* role changes are asked for by Admins
          Roles, Owner, Member, \* OwnerRoleID and MemberRoleID among the Roles
          Custom,               \* the roles CreateRole makes
          Permissions, Granted, \* the permissions each role is meant to have
          Denied,               \* permissions a user's membership overrides away
          Processes, Checks,    \* servers, and permission checks in flight
          MaxChanges

VARIABLES role,     \* the role of each user in the database
          perms,    \* role_permissions
          creating, \* roles whose permissions CreateRole is still adding
          cache,    \* per process and user: Absent or an entry
          check,    \* permission checks in flight
          change,   \* per process, the role change in flight
          changes   \* how many role changes have been asked for

vars == <<role, perms, creating, cache, check, change, changes>>

Absent == [role |-> "none", perms |-> {}, raced |-> FALSE]
NoCheck == [p |-> "none", u |-> "none", role |-> "none", perms |-> {}, at |-> "idle", raced |-> FALSE]
NoChange == [u |-> "none", to |-> "none", by |-> "none", at |-> "idle"]

\* Database, caches and requests keep their types.
TypeOK ==
  /\ role \in [Users \cup Admins -> Roles] /\ perms \in [Roles -> SUBSET Permissions]
  /\ creating \subseteq Custom /\ changes \in 0..MaxChanges
  /\ cache \in [Processes -> [Users ->
       [role : Roles \cup {"none"}, perms : SUBSET Permissions, raced : BOOLEAN]]]
  /\ \A c \in Checks : check[c].at \in {"idle", "role", "perms", "store"}
  /\ \A p \in Processes : change[p].at \in {"idle", "owner", "write", "invalidate"}

Init ==
  /\ role = [u \in Users \cup Admins |-> IF u \in Admins THEN Owner ELSE Member]
  /\ perms = [r \in Roles |-> IF r \in Custom THEN {} ELSE Granted[r]]
  /\ creating = Custom
  /\ cache = [p \in Processes |-> [u \in Users |-> Absent]]
  /\ check = [c \in Checks |-> NoCheck] /\ change = [p \in Processes |-> NoChange]
  /\ changes = 0

-----------------------------------------------------------------------------
\* CreateRole: the role exists, its permissions follow one by one and an
\* error of one of them is dropped.
AddRolePermission(r) ==
  /\ r \in creating
  /\ \E x \in Granted[r] \ perms[r] : perms' = [perms EXCEPT ![r] = @ \cup {x}]
  /\ UNCHANGED <<role, creating, cache, check, change, changes>>

CreateRoleEnds(r) ==
  /\ r \in creating /\ creating' = creating \ {r}
  /\ UNCHANGED <<role, perms, cache, check, change, changes>>

-----------------------------------------------------------------------------
\* HasPermission: an entry that has not expired answers; otherwise the reads
\* begin.  (The interceptor, CheckPermission and CheckFeatureAction call it.)
CheckMiss(c, p, u) ==
  /\ check[c] = NoCheck
  /\ cache' = [cache EXCEPT ![p][u] = Absent]
  /\ check' = [check EXCEPT ![c] = [NoCheck EXCEPT !.p = p, !.u = u, !.at = "role"]]
  /\ UNCHANGED <<role, perms, creating, change, changes>>

GetUserRole(c) ==
  /\ check[c].at = "role"
  /\ check' = [check EXCEPT ![c].role = role[check[c].u], ![c].at = "perms"]
  /\ UNCHANGED <<role, perms, creating, cache, change, changes>>

ListPermissionsByRole(c) ==
  /\ check[c].at = "perms"
  /\ check' = [check EXCEPT ![c].perms = perms[check[c].role], ![c].at = "store"]
  /\ UNCHANGED <<role, perms, creating, cache, change, changes>>

\* The membership's overrides on top (a failed read of them is skipped).
WithOverrides(u, s) == {s, s \ Denied[u]}

StoreEntry(c) ==
  /\ check[c].at = "store"
  /\ \E s \in WithOverrides(check[c].u, check[c].perms) :
       cache' = [cache EXCEPT ![check[c].p][check[c].u] =
         [role |-> check[c].role, perms |-> s, raced |-> check[c].raced]]
  /\ check' = [check EXCEPT ![c] = NoCheck]
  /\ UNCHANGED <<role, perms, creating, change, changes>>

\* A read fails: the check answers with an error and stores nothing.
CheckFails(c) ==
  /\ check[c] # NoCheck
  /\ check' = [check EXCEPT ![c] = NoCheck]
  /\ UNCHANGED <<role, perms, creating, cache, change, changes>>

\* cacheTTL has passed since an entry was stored.
Expire(p, u) ==
  /\ cache[p][u] # Absent
  /\ cache' = [cache EXCEPT ![p][u] = Absent]
  /\ UNCHANGED <<role, perms, creating, check, change, changes>>

-----------------------------------------------------------------------------
\* AssignRole, and RemoveRole, which resets to Member whatever the role was.
ChangeRole(p, u, to, by) ==
  /\ change[p] = NoChange /\ changes < MaxChanges
  /\ change' = [change EXCEPT ![p] =
       [u |-> u, to |-> to, by |-> by, at |-> IF to = Owner THEN "owner" ELSE "write"]]
  /\ changes' = changes + 1
  /\ UNCHANGED <<role, perms, creating, cache, check>>

\* Only an owner makes an owner: a read before the write.
CheckOwner(p) ==
  /\ change[p].at = "owner"
  /\ change' = [change EXCEPT ![p] =
       IF role[change[p].by] = Owner THEN [@ EXCEPT !.at = "write"] ELSE NoChange]
  /\ UNCHANGED <<role, perms, creating, cache, check, changes>>

\* The write reaches the database.  What has read the old role, and what other
\* processes hold of it, is now raced; when the answer is lost, so is the
\* invalidation.
AssignRoleToUser(p, lost) ==
  LET u == change[p].u IN
  /\ change[p].at = "write"
  /\ role' = [role EXCEPT ![u] = change[p].to]
  /\ check' = [c \in Checks |->
       IF check[c].u = u /\ check[c].at \in {"perms", "store"}
       THEN [check[c] EXCEPT !.raced = TRUE] ELSE check[c]]
  /\ cache' = [q \in Processes |-> [v \in Users |->
       IF v = u /\ cache[q][v] # Absent /\ (q # p \/ lost)
       THEN [cache[q][v] EXCEPT !.raced = TRUE] ELSE cache[q][v]]]
  /\ change' = [change EXCEPT ![p] =
       IF lost THEN NoChange ELSE [@ EXCEPT !.at = "invalidate"]]
  /\ UNCHANGED <<perms, creating, changes>>

WriteFails(p) ==
  /\ change[p].at = "write"
  /\ change' = [change EXCEPT ![p] = NoChange]
  /\ UNCHANGED <<role, perms, creating, cache, check, changes>>

Emptied_OfCaller(p) == [cache EXCEPT ![p] = [u \in Users |->
                          IF u = change[p].by THEN Absent ELSE cache[p][u]]]

Emptied(p) == [cache EXCEPT ![p] = [u \in Users |-> Absent]]

InvalidateAll(p) ==
  /\ change[p].at = "invalidate"
  /\ cache' = Emptied(p)
  /\ change' = [change EXCEPT ![p] = NoChange]
  /\ UNCHANGED <<role, perms, creating, check, changes>>

Next ==
  \/ \E r \in Custom : AddRolePermission(r) \/ CreateRoleEnds(r)
  \/ \E c \in Checks, p \in Processes, u \in Users : CheckMiss(c, p, u)
  \/ \E c \in Checks :
       GetUserRole(c) \/ ListPermissionsByRole(c) \/ StoreEntry(c) \/ CheckFails(c)
  \/ \E p \in Processes, u \in Users : Expire(p, u)
  \/ \E p \in Processes, u \in Users, r \in Roles, a \in Users \cup Admins : ChangeRole(p, u, r, a)
  \/ \E p \in Processes : CheckOwner(p) \/ WriteFails(p) \/ InvalidateAll(p)
  \/ \E p \in Processes, lost \in BOOLEAN : AssignRoleToUser(p, lost)

Spec == Init /\ [][Next]_vars

\* Time passes for every entry, and every check comes to its end.
Fairness ==
  /\ \A p \in Processes, u \in Users : WF_vars(Expire(p, u))
  /\ \A c \in Checks : WF_vars(GetUserRole(c) \/ ListPermissionsByRole(c) \/ StoreEntry(c))
  /\ \A p \in Processes : WF_vars(CheckOwner(p) \/ AssignRoleToUser(p, FALSE) \/ InvalidateAll(p))

LiveSpec == Spec /\ Fairness

-----------------------------------------------------------------------------
Invalidating(p, u) == change[p].u = u /\ change[p].at = "invalidate"

\* After AssignRole or RemoveRole returns, its process answers by the new role:
\* an entry of the old one is left only by a check that had read the old role
\* before the write, or when the write's answer was lost.
InvalidationReaches ==
  \A p \in Processes, u \in Users :
    LET e == cache[p][u] IN
    e # Absent /\ ~e.raced => e.role = role[u] \/ Invalidating(p, u)

Answers(e, u) ==
  /\ e.role = role[u] /\ e.perms \subseteq perms[role[u]]
  /\ perms[role[u]] \ Denied[u] \subseteq e.perms

\* Once roles stop changing, every process comes to answer by them: an entry of
\* an old role, or of a new role whose permissions were still being added when
\* it was read, lasts one cacheTTL.
CachesCatchUp ==
  <>[](\A p \in Processes, u \in Users :
         cache[p][u] # Absent => Answers(cache[p][u], u))
=============================================================================
