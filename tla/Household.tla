------------------------------ MODULE Household -----------------------------
(***************************************************************************)
(* One household: its members, who owns the account, who manages it, and   *)
(* who is a child's parent of record.                                      *)
(*                                                                         *)
(* Code: platform/household/service.go over platform/pgstore/              *)
(* household_store.go, or over internal/aoid/composition/                  *)
(* inmem_household.go when InMemory.  The service reads and checks before  *)
(* it calls the store; other calls interleave between those reads and the  *)
(* store's own transaction, which holds the household's row lock.  A       *)
(* member is named by their identity (one row per household and identity). *)
(* A pending member is treated as an active one everywhere.                *)
(***************************************************************************)
EXTENDS FiniteSets, Integers

CONSTANTS Members,
          Born,      \* the members whose birthdate the caller gives
          Kids,      \* the members a parent of record is asked for
          Callers,   \* requests in flight
          InMemory   \* the development store instead of PostgreSQL

VARIABLES household,  \* "none", "live" or "deleted"
          row,        \* member rows: Absent, or role, capabilities and status
          links,      \* parent_of_record rows: child, parent, revoked
          call        \* requests: what is asked, where the service stands

vars == <<household, row, links, call>>

Roles == {"guardian", "adult", "child"}
Absent == [role |-> "none", manager |-> FALSE, owner |-> FALSE, removed |-> FALSE]
Rows == [role : Roles, manager : BOOLEAN, owner : BOOLEAN, removed : BOOLEAN]
Idle == [op |-> "idle"]
Asks ==
  [op : {"role"}, m : Members, role : Roles, manager : BOOLEAN, owner : BOOLEAN]
    \cup [op : {"remove", "transfer"}, m : Members]
    \cup [op : {"link"}, m : Members, child : Kids]

\* Rows, links and requests keep their types.
TypeOK ==
  /\ household \in {"none", "live", "deleted"}
  /\ row \in [Members -> Rows \cup {Absent}]
  /\ links \subseteq [child : Kids, parent : Members, revoked : BOOLEAN]
  /\ call \in [Callers -> {Idle} \cup [ask : Asks, at : {"count", "child", "store"}]]

Init ==
  /\ household = "none" /\ links = {}
  /\ row = [m \in Members |-> Absent]
  /\ call = [c \in Callers |-> Idle]

CanGrantConsent(r) == r = "guardian"
CanBeAccountOwner(r) == r # "child"

ValidateCapabilities(r, manager, owner) ==
  /\ ~(r = "child" /\ (manager \/ owner))
  /\ owner => CanBeAccountOwner(r)

Exists(m) == row[m] # Absent
Here(m) == Exists(m) /\ ~row[m].removed
Owners == {m \in Members : Here(m) /\ row[m].owner}
Managers == {m \in Members : Here(m) /\ row[m].manager}
CountManagers == Cardinality(Managers)

-----------------------------------------------------------------------------
\* The empty household: members come later, through AddMember.
CreateHousehold ==
  household = "none" /\ household' = "live" /\ UNCHANGED <<row, links, call>>

\* The provisioning path: the household and its first member in one write.
CreateHouseholdWithOwner(m, r) ==
  /\ household = "none" /\ ValidateCapabilities(r, TRUE, TRUE)
  /\ household' = "live"
  /\ row' = [row EXCEPT ![m] =
       [role |-> r, manager |-> TRUE, owner |-> TRUE, removed |-> FALSE]]
  /\ UNCHANGED <<links, call>>

\* A delete takes the rows along; PostgreSQL's cascade takes the links too.
DeleteHousehold ==
  /\ household = "live" /\ household' = "deleted"
  /\ row' = [m \in Members |-> Absent]
  /\ links' = IF InMemory THEN links ELSE {}
  /\ UNCHANGED call

\* The insert: the owner's unique index, or the same scan in memory.
AddMember(m, r, manager, owner, removed) ==
  /\ household = "live" \/ (InMemory /\ household = "deleted")
  /\ ~Exists(m)
  /\ r = "child" => m \in Born
  /\ ValidateCapabilities(r, manager, owner)
  /\ (owner /\ (removed => InMemory)) => Owners = {}
  /\ row' = [row EXCEPT ![m] =
       [role |-> r, manager |-> manager, owner |-> owner, removed |-> removed]]
  /\ UNCHANGED <<household, links, call>>

-----------------------------------------------------------------------------
Asking(c, at) == call[c] # Idle /\ call[c].at = at
Goes(c, at) == call' = [call EXCEPT ![c].at = at]
Returns(c) == call' = [call EXCEPT ![c] = Idle]

\* What a request takes from its member.
StripsOwner(a) == a.op = "remove" \/ (a.op = "role" /\ ~a.owner)
StripsManager(a) == a.op = "remove" \/ (a.op = "role" /\ ~a.manager)

\* The service's checks on the request and on the row it has just read.
PassesRead(a) ==
  /\ a.op = "role" => ValidateCapabilities(a.role, a.manager, a.owner)
  /\ Exists(a.m)
  /\ a.op \in {"role", "transfer"} => ~row[a.m].removed
  /\ (a.op = "role" /\ a.role = "child") => a.m \in Born
  /\ StripsOwner(a) => ~row[a.m].owner
  /\ a.op = "transfer" => CanBeAccountOwner(row[a.m].role)
  /\ a.op = "link" => CanGrantConsent(row[a.m].role)

\* A request that the read refuses has returned: it leaves no trace.
GetMember(c, a) ==
  /\ call[c] = Idle /\ PassesRead(a)
  /\ call' = [call EXCEPT ![c] = [ask |-> a, at |->
       IF StripsManager(a) /\ row[a.m].manager THEN "count"
       ELSE IF a.op = "link" THEN "child" ELSE "store"]]
  /\ UNCHANGED <<household, row, links>>

\* The service's count of the managers, a read of its own.
CheckLastManager(c) ==
  /\ Asking(c, "count")
  /\ IF CountManagers <= 1 THEN Returns(c) ELSE Goes(c, "store")
  /\ UNCHANGED <<household, row, links>>

\* The child of a link is read and only has to exist.
GetChild(c) ==
  /\ Asking(c, "child")
  /\ IF Exists(call[c].ask.child) THEN Goes(c, "store") ELSE Returns(c)
  /\ UNCHANGED <<household, row, links>>

-----------------------------------------------------------------------------
GuardMutation_TrustsService(a) == ~row[a.m].removed

\* guardMutation, under the household's lock: the lower bounds again.
GuardMutation(a) ==
  /\ ~row[a.m].removed
  /\ ~(StripsOwner(a) /\ row[a.m].owner)
  /\ ~(StripsManager(a) /\ row[a.m].manager /\ CountManagers <= 1)

Constraints_IndexOnly(rows) ==
  Cardinality({m \in Members : rows[m].owner /\ ~rows[m].removed}) <= 1

\* The schema's constraints on the rows a statement leaves behind.
Constraints(rows) ==
  /\ \A m \in Members :
       rows[m].role = "child" => ~rows[m].manager /\ ~rows[m].owner
  /\ Cardinality({m \in Members : rows[m].owner /\ ~rows[m].removed}) <= 1

WithRole(a) ==
  [row EXCEPT ![a.m].role = a.role, ![a.m].manager = a.manager, ![a.m].owner = a.owner]

UpdateMemberRoleInMemory(a) ==
  /\ Exists(a.m)
  /\ (a.owner /\ ~row[a.m].owner) => Owners \subseteq {a.m}
  /\ row' = WithRole(a)

UpdateMemberRole(a) ==
  IF InMemory THEN UpdateMemberRoleInMemory(a)
  ELSE /\ Exists(a.m) /\ GuardMutation(a) /\ Constraints(WithRole(a))
       /\ row' = WithRole(a)

RemoveMember(a) ==
  /\ Exists(a.m) /\ (InMemory \/ GuardMutation(a))
  /\ row' = [row EXCEPT ![a.m].removed = TRUE]

\* Demote, then promote: one transaction, which a failed promotion rolls back.
Transferred(a) ==
  [m \in Members |->
     [row[m] EXCEPT !.owner = IF m = a.m THEN TRUE ELSE @ /\ row[m].removed]]

\* In memory the removed owners are demoted with the others.
SetAccountOwnerInMemory(a) ==
  row' = [m \in Members |-> [row[m] EXCEPT !.owner = m = a.m]]

SetAccountOwner(a) ==
  /\ Here(a.m)
  /\ IF InMemory THEN SetAccountOwnerInMemory(a)
     ELSE Constraints(Transferred(a)) /\ row' = Transferred(a)

\* PostgreSQL keeps one row for a pair, revoked or not.
EstablishParentOfRecord(a) ==
  LET Pair(l) == l.child = a.child /\ l.parent = a.m
  IN  /\ InMemory \/ (Exists(a.m) /\ Exists(a.child) /\ ~\E l \in links : Pair(l))
      /\ links' = links \cup {[child |-> a.child, parent |-> a.m, revoked |-> FALSE]}

Mutates(a) ==
  \/ a.op = "role" /\ UpdateMemberRole(a) /\ UNCHANGED links
  \/ a.op = "remove" /\ RemoveMember(a) /\ UNCHANGED links
  \/ a.op = "transfer" /\ SetAccountOwner(a) /\ UNCHANGED links
  \/ a.op = "link" /\ EstablishParentOfRecord(a) /\ UNCHANGED row

StoreCommits(c) ==
  Asking(c, "store") /\ Mutates(call[c].ask) /\ Returns(c) /\ UNCHANGED household

\* The store refuses, or the transaction fails: nothing is written.
StoreFails(c) ==
  Asking(c, "store") /\ Returns(c) /\ UNCHANGED <<household, row, links>>

RevokeParentOfRecord(l) ==
  /\ l \in links /\ ~l.revoked
  /\ links' = (links \ {l}) \cup {[l EXCEPT !.revoked = TRUE]}
  /\ UNCHANGED <<household, row, call>>

Next ==
  \/ CreateHousehold \/ DeleteHousehold
  \/ \E m \in Members, r \in Roles : CreateHouseholdWithOwner(m, r)
  \/ \E m \in Members, r \in Roles, mgr, own, rem \in BOOLEAN : AddMember(m, r, mgr, own, rem)
  \/ \E c \in Callers, a \in Asks : GetMember(c, a)
  \/ \E c \in Callers : CheckLastManager(c) \/ GetChild(c)
  \/ \E c \in Callers : StoreCommits(c) \/ StoreFails(c)
  \/ \E l \in links : RevokeParentOfRecord(l)

Spec == Init /\ [][Next]_vars

-----------------------------------------------------------------------------
\* A household that has an account owner keeps exactly one, and one that has
\* a manager keeps at least one, for as long as it exists, whatever the
\* removals, demotions and transfers in flight at once checked before them
\* (guardMutation: "the one that actually holds under concurrency").
OwnerAndManagerKept ==
  [][household' = "live" =>
       /\ Owners # {} => Cardinality(Owners') = 1
       /\ Managers # {} => Managers' # {}]_vars

\* No member is a child and an owner or a manager at once, even when a role
\* change commits between a transfer's check of the role and its write.
ChildHoldsNothing ==
  \A m \in Members : row[m].role = "child" => ~row[m].manager /\ ~row[m].owner
=============================================================================
