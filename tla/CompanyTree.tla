----------------------------- MODULE CompanyTree ----------------------------
(***************************************************************************)
(* Companies, the closure table of who is above whom, and what a member of *)
(* a company may do in the companies below it.                             *)
(*                                                                         *)
(* Code: platform/company/service.go over platform/pgstore/                *)
(* company_store.go, and platform/rbac/hierarchy.go.  CreateCompany is a   *)
(* sequence of statements: the company, the parent's ancestors, and one    *)
(* insert per closure entry.  Other requests see the company in between,   *)
(* and a failure in between leaves it as it is.  ResolveMembership, for    *)
(* one user, reads the ancestors in one statement and each membership in   *)
(* one of its own; a read of a membership that fails counts as none.       *)
(***************************************************************************)
EXTENDS Naturals

CONSTANTS N, None,     \* how many companies, and no company
          Levels,      \* role levels of a membership; 0 is no membership
          NoCap,       \* inherited_role_cap when it is NULL
          Settings,    \* caps and access levels UpdateCompany is called with
          Asked,       \* the companies a membership is resolved in
          MaxUpdates   \* bound on membership and company updates

VARIABLES parent,   \* parent_company_id of the companies that exist
          closure,  \* company_hierarchies: ancestor, descendant, generations
          todo,     \* per creation in flight, the entries to insert
          step,     \* "none", "read", "insert", "done" or "failed"
          clean,    \* companies whose whole line was there when it was read
          member,   \* the user's role level in each company
          cap, access,   \* inherited_role_cap and inherited_access_level
          updates,
          res       \* the ResolveMembership under way, or its answer

tree == <<parent, closure, todo, step, clean>>
vars == <<tree, member, cap, access, updates, res>>

Companies == 1..N   \* company IDs, in the order they are made
Entry(a, d, g) == [anc |-> a, desc |-> d, gen |-> g]
Exists(c) == step[c] # "none"
AccessLevels == {"full", "none"}   \* "read_only" passes like "full"
Entries == [anc : Companies, desc : Companies, gen : 0..N]
NoCall == [op |-> "idle", c |-> None, left |-> {}, reads |-> "whole",
           source |-> None, level |-> 0]

\* Rows and creations keep their types.
TypeOK ==
  /\ parent \in [Companies -> Companies \cup {None}]
  /\ closure \subseteq Entries /\ todo \in [Companies -> SUBSET Entries]
  /\ step \in [Companies -> {"none", "read", "insert", "done", "failed"}]
  /\ clean \subseteq Companies /\ updates \in 0..MaxUpdates
  /\ member \in [Companies -> Levels \cup {0}]
  /\ cap \in [Companies -> Nat] /\ access \in [Companies -> AccessLevels]
  /\ res.op \in {"idle", "list", "walk", "answered"} /\ res.c \in Companies \cup {None}
  /\ res.reads \in {"whole", "failed", "moved"}

Init ==
  /\ parent = [c \in Companies |-> None] /\ closure = {}
  /\ todo = [c \in Companies |-> {}] /\ step = [c \in Companies |-> "none"]
  /\ clean = {} /\ member = [c \in Companies |-> 0] /\ updates = 0
  /\ cap = [c \in Companies |-> NoCap] /\ access = [c \in Companies |-> "full"]
  /\ res = NoCall

\* History of a resolution: "moved" once something it reads was written meanwhile,
\* else "failed" once a read of a membership failed, else "whole".
Moved == res' = IF res = NoCall THEN res ELSE [res EXCEPT !.reads = "moved"]
After(reads, failed) == IF failed /\ reads = "whole" THEN "failed" ELSE reads

-----------------------------------------------------------------------------
\* CreateCompany, first statement: the row, under an existing parent or none.
CreateCompany(c, p) ==
  /\ ~Exists(c) /\ (p # None => Exists(p)) /\ \A d \in 1..(c - 1) : Exists(d)
  /\ parent' = [parent EXCEPT ![c] = p]
  /\ step' = [step EXCEPT ![c] = "read"]
  /\ UNCHANGED <<closure, todo, clean, member, cap, access, updates, res>>

GetAncestors(c) == {e \in closure : e.desc = c}

Lifted_ParentOnly(c) ==
  {Entry(c, c, 0)} \cup {Entry(parent[c], c, 1) : x \in {parent[c]} \ {None}}

\* The entries of a new company: itself, and its parent's one generation up.
Lifted(c) ==
  {Entry(c, c, 0)} \cup {Entry(e.anc, c, e.gen + 1) : e \in GetAncestors(parent[c])}

ReadAncestors(c) ==
  /\ step[c] = "read"
  /\ todo' = [todo EXCEPT ![c] = Lifted(c)]
  /\ step' = [step EXCEPT ![c] = "insert"]
  /\ clean' = IF parent[c] = None \/ (parent[c] \in clean /\ step[parent[c]] = "done")
              THEN clean \cup {c} ELSE clean
  /\ UNCHANGED <<parent, closure, member, cap, access, updates, res>>

\* InsertHierarchyEntries: the self entry first, then by generations.
InsertEntry(c) ==
  /\ step[c] = "insert"
  /\ \E e \in todo[c] :
       /\ \A f \in todo[c] : e.gen <= f.gen
       /\ closure' = IF \E f \in closure : f.anc = e.anc /\ f.desc = e.desc
                     THEN closure ELSE closure \cup {e}
       /\ todo' = [todo EXCEPT ![c] = @ \ {e}]
       /\ step' = IF todo[c] = {e} THEN [step EXCEPT ![c] = "done"] ELSE step
  /\ Moved
  /\ UNCHANGED <<parent, clean, member, cap, access, updates>>

\* A statement fails, or the process stops: what was written stays.
CreateFails(c) ==
  /\ step[c] \in {"read", "insert"}
  /\ step' = [step EXCEPT ![c] = "failed"] /\ todo' = [todo EXCEPT ![c] = {}]
  /\ UNCHANGED <<parent, closure, clean, member, cap, access, updates, res>>

\* CreateMembership and AssignRoleToUser; UpdateCompany; when they change something.
SetMembership(c, l) ==
  /\ Exists(c) /\ member[c] # l /\ updates < MaxUpdates /\ updates' = updates + 1
  /\ member' = [member EXCEPT ![c] = l]
  /\ Moved
  /\ UNCHANGED <<tree, cap, access>>

UpdateCompany(c, x) ==
  /\ Exists(c) /\ <<cap[c], access[c]>> # x
  /\ updates < MaxUpdates /\ updates' = updates + 1
  /\ cap' = [cap EXCEPT ![c] = x[1]] /\ access' = [access EXCEPT ![c] = x[2]]
  /\ Moved
  /\ UNCHANGED <<tree, member>>

-----------------------------------------------------------------------------
\* ResolveMembership: the company itself, then its ancestors, nearest first;
\* the first that has a membership and lets it through answers.
Answered(c, l) == [res EXCEPT !.op = "answered", !.left = {}, !.source = c, !.level = l]

\* GetMembershipInCompany: the level, or none, also when the read fails.
Reads(c) == {[level |-> member[c], failed |-> FALSE], [level |-> 0, failed |-> TRUE]}

ResolveDirect(c) ==
  /\ res = NoCall /\ Exists(c)
  /\ \E r \in Reads(c) :
       res' = [NoCall EXCEPT !.op = IF r.level # 0 THEN "answered" ELSE "list", !.c = c,
                             !.reads = After(@, r.failed), !.level = r.level,
                             !.source = IF r.level # 0 THEN c ELSE None]
  /\ UNCHANGED <<tree, member, cap, access, updates>>

\* GetCompanyAncestors, with the cap and the access level of each.
ResolveList ==
  /\ res.op = "list"
  /\ res' = [res EXCEPT !.op = "walk",
                !.left = {[anc |-> e.anc, gen |-> e.gen, cap |-> cap[e.anc], access |-> access[e.anc]] :
                            e \in {f \in GetAncestors(res.c) : f.gen > 0}}]
  /\ UNCHANGED <<tree, member, cap, access, updates>>

Capped_Never(e, l) == l

Capped(e, l) == IF e.cap # NoCap /\ e.cap < l THEN e.cap ELSE l

ResolveStep ==
  /\ res.op = "walk"
  /\ \E e \in res.left :
       /\ \A f \in res.left : e.gen <= f.gen
       /\ \E r \in Reads(e.anc) :
            LET rest == [res EXCEPT !.left = @ \ {e}, !.reads = After(@, r.failed)] IN
            res' = IF r.level = 0 \/ e.access = "none" THEN rest
                   ELSE Answered(e.anc, Capped(e, r.level))
  /\ UNCHANGED <<tree, member, cap, access, updates>>

\* It returns its answer, or an error: nobody is left, or the list was not read.
ResolveReturn ==
  /\ res.op \in {"list", "answered"} \/ (res.op = "walk" /\ res.left = {})
  /\ res' = NoCall
  /\ UNCHANGED <<tree, member, cap, access, updates>>

Next ==
  \/ \E c \in Companies, p \in Companies \cup {None} : CreateCompany(c, p)
  \/ \E c \in Companies : ReadAncestors(c) \/ InsertEntry(c) \/ CreateFails(c)
  \/ \E c \in Companies, l \in Levels : SetMembership(c, l)
  \/ \E c \in Companies, x \in Settings : UpdateCompany(c, x)
  \/ \E c \in Asked : ResolveDirect(c)
  \/ ResolveList \/ ResolveStep \/ ResolveReturn

Spec == Init /\ [][Next]_vars

-----------------------------------------------------------------------------
\* The line of parents: the reference the closure is compared with.
Line[c \in Companies, g \in 0..N] ==
  IF g = 0 THEN c
  ELSE IF Line[c, g - 1] = None THEN None ELSE parent[Line[c, g - 1]]

Generations == 0..N

\* Every closure entry tells the truth, and a creation that returned with its
\* parents' creations all returned before it has the whole line, whatever
\* creations of other companies failed or ran at the same time.
ClosureExact ==
  /\ \A e \in closure : Line[e.desc, e.gen] = e.anc
  /\ \A c \in clean : step[c] = "done" =>
       \A g \in Generations : Line[c, g] # None => Entry(Line[c, g], c, g) \in closure

Usable(a) == member[a] # 0 /\ access[a] # "none"

\* What a user may do in a company always comes from that company or one on its
\* line of parents: a broken closure, a read that fails or a write that comes in
\* between can hide a membership, never lend one from elsewhere.  With no write in
\* between it is at most the level held there and the cap there; and when no read
\* failed either, and the closure is whole, no nearer company had an answer.  (A
\* read that fails counts as no membership, so that a farther and higher role may
\* then be the answer.)
InheritedFromLine ==
  res.op = "answered" => \E g \in Generations :
    /\ Line[res.c, g] = res.source
    /\ res.reads # "moved" =>
         /\ res.level <= member[res.source]
         /\ g > 0 /\ cap[res.source] # NoCap => res.level <= cap[res.source]
         /\ res.reads = "whole" /\ res.c \in clean /\ step[res.c] = "done" /\ g > 0 =>
              /\ member[res.c] = 0
              /\ \A h \in 1..(g - 1) : Line[res.c, h] # None => ~Usable(Line[res.c, h])
=============================================================================
