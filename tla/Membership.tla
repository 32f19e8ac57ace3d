----------------------------- MODULE Membership -----------------------------
(***************************************************************************)
(* Groups of members and the offices that go with them.                    *)
(*                                                                         *)
(* The controllers of src/ work on any ForumService; kept in memory, a     *)
(* call of the store is atomic and an operation may be several.  Kept in   *)
(* SurrealDB, most of their calls have no effect: groups are looked up by  *)
(* numbers where the table has record identifiers, members by strings.     *)
(* There the API (src/api/admin_routes.rs) appoints and dismisses          *)
(* moderators in the rows of users, and gives and takes a role that        *)
(* another service keeps.  AdminRole has the details of who becomes        *)
(* administrator; here it is one step.                                     *)
(*                                                                         *)
(* Group 1 is of administrators, 2 of moderators in rows of users, 4 of    *)
(* regular members there.  Names, colours and icons of groups are left     *)
(* out, and so are permissions that no handler here looks at.              *)
(***************************************************************************)
EXTENDS Calls

CONSTANTS
  Admin,      \* the administrator of a forum kept in SurrealDB
  Spaces,     \* members who may write spaces by another role of that service
  Tokens,     \* role and permissions of tokens that carry some
  MaxGroup,   \* bound on the numbers of groups
  Targets     \* groups that calls name

None == 0     \* no group

(***************************************************************************)
(* refused:   a query fails and has no effect; the request answers so.     *)
(* lost:      a query has its effect and reports failure.                  *)
(* unnoticed: an UPDATE fails inside its response, which nobody reads.     *)
(***************************************************************************)
ASSUME MembershipAssumption ==
  /\ Admin \in Members /\ Spaces \subseteq Members
  /\ Stores \subseteq {"memory", "surreal"}
  /\ Tokens \subseteq [role: {"member", "mod", "admin"},
                       permissions: SUBSET {"manage_boards", "moderate_forum"}]
  /\ MaxGroup \in Nat /\ MaxGroup >= 5 /\ MaxActs \in Nat
  /\ Targets \subseteq 1..MaxGroup
  /\ Faults \subseteq {"refused", "lost", "unnoticed"}

VARIABLES
  groups,         \* the groups there are, and whether they are protected
  next_group_id,
  member,         \* members kept in memory: their groups
  group_members,  \* the table of that name in SurrealDB
  users,          \* rows of users in SurrealDB
  fields,         \* whether that table has the fields for groups
  docs,           \* who has the role docs_admin
  told,           \* history: what the last answer said of a member's role
  mixed           \* history: whose requests about that role met or failed

kept == <<groups, next_group_id, member, group_members>>
membershipVars == <<store, kept, users, fields, docs, told, mixed, req, acts>>
-----------------------------------------------------------------------------
Ids == 1..MaxGroup
\* History: "claimed" tells whether role and permissions go back to a token.
Row == [role: {"member", "mod", "admin"}, permissions: SUBSET {"manage_boards", "moderate_forum"},
        primary: {None, 2, 4}, additional: SUBSET {2}, claimed: BOOLEAN]

InGroup(record, g) == record.primary = g \/ g \in record.additional

GroupsOf(record) == {g \in Ids : InGroup(record, g)}

Administrators == {m \in DOMAIN member : InGroup(member[m], 1)}

\* The sample data: administrators, moderators, one who is in two groups.
new_with_sample ==
  /\ groups = [g \in {1, 3, 4} |-> g = 1]
  /\ next_group_id = 5
  /\ member \in [Members -> {[primary |-> 1, additional |-> {}], [primary |-> 3, additional |-> {1}]}]

\* Rows as ensure_user makes them: with what the token claims, or else one
\* administrator and members.
NewRow(role, permissions, p, claimed) ==
  [role |-> role, permissions |-> permissions, primary |-> p, additional |-> {}, claimed |-> claimed]

NewRows(m, p) ==
  {IF m = Admin THEN NewRow("admin", {"manage_boards"}, p, FALSE) ELSE NewRow("member", {}, p, FALSE)}
    \cup {NewRow(claim.role, claim.permissions, p, TRUE) : claim \in Tokens}

\* What belongs to the other kind of store has one value.  The role docs_admin
\* is nobody's or everybody's, and primary groups other than 2 are as none.
MembershipInit ==
  /\ store \in Stores
  /\ new_with_sample
  /\ group_members = {}
  /\ fields \in BOOLEAN
  /\ store = "surreal" => member = [m \in Members |-> [primary |-> 1, additional |-> {}]]
  /\ store = "memory" => fields
  /\ \E p \in IF fields /\ store = "surreal" THEN {None, 2} ELSE {None} :
       users \in {rows \in [Members -> UNION {NewRows(m, p) : m \in Members}] :
                   \A m \in Members : rows[m] \in NewRows(m, p)}
  /\ store = "memory" => \A m \in Members : ~users[m].claimed
  /\ docs \in IF store = "surreal" THEN {{}, Members} ELSE {{}}
  /\ told = [m \in Members |-> "nothing"]
  /\ mixed = {}
  /\ req = [r \in Requests |-> Idle]
  /\ acts = 0

Kept == UNCHANGED <<store, users, fields, docs, told, mixed>>
Rows == UNCHANGED <<store, kept, fields, docs, told, mixed>>
-----------------------------------------------------------------------------
(* Groups in memory: every call is one step. *)

save_membergroup(id, flag) ==
  LET key == IF id = None THEN next_group_id ELSE id
  IN /\ key \in Ids
     /\ groups' = [g \in DOMAIN groups \cup {key} |-> IF g = key THEN flag ELSE groups[g]]
     /\ next_group_id' = IF id = None THEN next_group_id + 1 ELSE next_group_id
     /\ UNCHANGED <<member, group_members>>

Left(record, gs) ==
  [primary |-> IF record.primary \in gs THEN None ELSE record.primary,
   additional |-> record.additional \ gs]

\* delete_membergroups of subs_membergroups.rs keeps the protected groups.
PROTECTED_GROUPS == {-1, 0, 1, 3, 4}

Deletable(gs) == gs \ PROTECTED_GROUPS

delete_membergroups_in_memory(gs) ==
  /\ groups' = [g \in DOMAIN groups \ gs |-> groups[g]]
  /\ member' = [m \in DOMAIN member |-> Left(member[m], gs)]
  /\ UNCHANGED <<next_group_id, group_members>>

\* With gs = Ids for all groups, primary and additional.
remove_members_in_memory(ms, gs) ==
  /\ member' = [m \in DOMAIN member |-> IF m \in ms THEN Left(member[m], gs) ELSE member[m]]
  /\ UNCHANGED <<groups, next_group_id, group_members>>

AssignTypes == {"OnlyPrimary", "OnlyAdditional", "ForcePrimary", "Auto"}

Joined(record, g, type) ==
  CASE type = "ForcePrimary" \/ (type # "OnlyAdditional" /\ record.primary = None) ->
         [record EXCEPT !.primary = g]
    [] type = "OnlyAdditional" \/ (type = "Auto" /\ record.primary # None) ->
         [record EXCEPT !.additional = @ \cup {g}]
    [] OTHER -> record

\* Members that are not there are made.
add_members_in_memory(ms, g, type) ==
  /\ g \in DOMAIN groups
  /\ member' = [m \in DOMAIN member \cup ms |->
       LET record == IF m \in DOMAIN member THEN member[m]
                     ELSE [primary |-> None, additional |-> {}]
       IN IF m \in ms THEN Joined(record, g, type) ELSE record]
  /\ UNCHANGED <<groups, next_group_id, group_members>>
-----------------------------------------------------------------------------
(* The same in SurrealDB.  Groups are neither saved nor deleted.           *)

delete_membergroups(gs) ==
  /\ group_members' = {pair \in group_members : pair[1] \notin gs}
  /\ UNCHANGED <<groups, next_group_id, member>>

remove_members_from_groups(ms, gs) ==
  /\ group_members' = {pair \in group_members : pair[1] \notin gs \/ pair[2] \notin ms}
  /\ UNCHANGED <<groups, next_group_id, member>>

\* Row by row, without a look at the group; a failure leaves the rest out.
add_members_to_group(ms, g) ==
  /\ \E some \in {ms} \cup (IF "refused" \in Faults THEN SUBSET ms ELSE {}) :
       group_members' = group_members \cup {<<g, m>> : m \in some}
  /\ UNCHANGED <<groups, next_group_id, member>>

\* The controller.  A group is saved without a look whether there is one of
\* that number.
add_group(flag) == store = "memory" /\ save_membergroup(None, flag)

edit_group(g, flag) == store = "memory" /\ save_membergroup(g, flag)

remove_members_from_group(g, ms) ==
  IF store = "memory" THEN remove_members_in_memory(ms, {g})
  ELSE remove_members_from_groups(ms, {g})

\* The functions of subs_membergroups.rs.  Administrators take members out of
\* protected groups as well, and everybody with the permission takes them out
\* of all groups at once.
subs_delete(gs) ==
  /\ Deletable(gs) # {}
  /\ IF store = "memory" THEN delete_membergroups_in_memory(Deletable(gs))
     ELSE delete_membergroups(Deletable(gs))

subs_remove(ms, gs, is_admin) ==
  LET normalized == IF is_admin \/ gs = Ids THEN gs ELSE gs \ PROTECTED_GROUPS
  IN /\ normalized # {}
     /\ IF store = "memory" THEN remove_members_in_memory(ms, normalized)
        ELSE remove_members_from_groups(ms, normalized)

subs_add(ms, g, type, is_admin) ==
  /\ is_admin \/ g # 1
  /\ IF store = "memory" THEN add_members_in_memory(ms, g, type)
     ELSE add_members_to_group(ms, g)

Edit ==
  /\ \/ \E flag \in BOOLEAN : add_group(flag) \/ \E g \in Targets : edit_group(g, flag)
     \/ \E g \in Targets, m \in Members : remove_members_from_group(g, {m})
     \/ \E gs \in {{5}, {1, 3, 5}} : subs_delete(gs)
     \/ \E m \in Members, gs \in {{1}, Ids}, is_admin \in BOOLEAN : subs_remove({m}, gs, is_admin)
     \/ \E ms \in (SUBSET Members) \ {{}}, g \in Targets, type \in AssignTypes, is_admin \in BOOLEAN :
          subs_add(ms, g, type, is_admin)
  /\ Kept /\ UNCHANGED req
-----------------------------------------------------------------------------
(* Operations of several calls.  With SurrealDB they end at the first, for *)
(* no member and no group is found.                                        *)

\* get_member_record
Begin(r, m, job) ==
  /\ req[r] = Idle
  /\ store = "memory"
  /\ m \in DOMAIN member
  /\ Become(r, [job EXCEPT !.record = member[m]])
  /\ Kept /\ UNCHANGED kept

update_group_membership(r, m, g, action) ==
  Begin(r, m, [stage |-> "groups", m |-> m, g |-> g, action |-> action, record |-> None])

Changed(record, g, action) ==
  CASE action = "set_primary" -> [primary |-> g, additional |-> record.additional \ {g}]
    [] action = "clear_primary" -> [record EXCEPT !.primary = IF @ = g THEN None ELSE @]
    [] action = "remove" -> Left(record, {g})
    [] OTHER -> Joined(record, g, "Auto")

\* A protected group needs an administrator.
list_all_membergroups(r) ==
  /\ req[r].stage = "groups"
  /\ \/ req[r].g \in DOMAIN groups /\ Become(r, [req[r] EXCEPT !.stage = "update"])
     \/ (req[r].g \in DOMAIN groups => groups[req[r].g]) /\ Become(r, Idle)
  /\ Kept /\ UNCHANGED kept

\* The whole record goes back, as it was read and changed.
update_member_groups(r) ==
  /\ req[r].stage = "update"
  /\ member' = [m \in DOMAIN member |->
       IF m = req[r].m THEN Changed(req[r].record, req[r].g, req[r].action) ELSE member[m]]
  /\ Become(r, Idle)
  /\ Kept /\ UNCHANGED <<groups, next_group_id, group_members>>

\* delete_account_confirm: an administrator goes only if there are others.
delete_account_confirm(r, m) ==
  Begin(r, m, [stage |-> "others", m |-> m, others |-> {}, record |-> None])

\* As if the one who goes was one of the others.
OthersAll(r) ==
  /\ req[r].stage = "others"
  /\ LET others == Administrators
     IN IF InGroup(req[r].record, 1) /\ others = {} THEN Become(r, Idle)
        ELSE Become(r, [req[r] EXCEPT !.stage = "delete", !.others = others])
  /\ Kept /\ UNCHANGED kept

Others(r) ==
  /\ req[r].stage = "others"
  /\ LET others == Administrators \ {req[r].m}
     IN IF InGroup(req[r].record, 1) /\ others = {} THEN Become(r, Idle)
        ELSE Become(r, [req[r] EXCEPT !.stage = "delete", !.others = others])
  /\ Kept /\ UNCHANGED kept

delete_member(r) ==
  /\ req[r].stage = "delete"
  /\ member' = [m \in DOMAIN member \ {req[r].m} |-> member[m]]
  /\ Become(r, Idle)
  /\ Kept /\ UNCHANGED <<groups, next_group_id, group_members>>
-----------------------------------------------------------------------------
(* The API.  The caller is administrator when the request arrives, by his  *)
(* row or by his token.                                                    *)

Call(r, by, job) ==
  /\ store = "surreal" /\ req[r] = Idle
  /\ \/ users[by].role = "admin"
     \/ "manage_boards" \in users[by].permissions
     \/ \E claim \in Tokens : "manage_boards" \in claim.permissions
  /\ Become(r, job)
  /\ Rows /\ UNCHANGED users

\* A member is named by a number, which is looked up, or by a record id.
assign_moderator(r, by, m) == Call(r, by, [stage |-> "resolve", kind |-> "assign", m |-> m])

assign_moderator_by_record(r, by, m) == Call(r, by, [stage |-> "load_record", kind |-> "assign", m |-> m])

revoke_moderator(r, by, m) == Call(r, by, [stage |-> "resolve", kind |-> "revoke", m |-> m])

revoke_moderator_by_record(r, by, m) == Call(r, by, [stage |-> "load_record", kind |-> "revoke", m |-> m])

grant_docs_space_create(r, by, m) == Call(r, by, [stage |-> "load_record", kind |-> "grant", m |-> m])

revoke_docs_space_create(r, by, m) == Call(r, by, [stage |-> "load_record", kind |-> "revoke_docs", m |-> m])

\* Not to oneself.
transfer_admin(r, by, m) ==
  /\ by # m
  /\ Call(r, by, [stage |-> "promote", by |-> by, m |-> m])

resolve_member_name_by_id(r) ==
  /\ req[r].stage = "resolve"
  /\ \/ Become(r, [req[r] EXCEPT !.stage = "load"])
     \/ "refused" \in Faults /\ Become(r, Idle)
  /\ Rows /\ UNCHANGED users

Persisting(r) ==
  [stage |-> "persist", kind |-> req[r].kind, m |-> req[r].m, row |-> users[req[r].m]]

load_user_admin_row_by_name(r) ==
  /\ req[r].stage = "load"
  /\ \/ Become(r, Persisting(r))
     \/ "refused" \in Faults /\ Become(r, Idle)
  /\ Rows /\ UNCHANGED users

load_user_admin_row_by_record_id(r) ==
  /\ req[r].stage = "load_record"
  /\ \/ req[r].kind \in {"assign", "revoke"} /\ Become(r, Persisting(r))
     \/ /\ req[r].kind \in {"grant", "revoke_docs"}
        /\ Become(r, [stage |-> "permissions", kind |-> req[r].kind, m |-> req[r].m, granted |-> FALSE])
     \/ "refused" \in Faults /\ Become(r, Idle)
  /\ Rows /\ UNCHANGED users

Appointed(row) ==
  [row EXCEPT !.role = IF @ = "admin" THEN @ ELSE "mod",
              !.permissions = @ \cup {"moderate_forum"},
              !.additional = IF row.primary # 2 THEN @ \cup {2} ELSE @]

Dismissed(row) ==
  [row EXCEPT !.role = IF @ = "admin" THEN @ ELSE "member",
              !.permissions = @ \ {"moderate_forum"},
              !.primary = IF @ = 2 THEN 4 ELSE @,
              !.additional = @ \ {2}]

Wanted(r) == IF req[r].kind = "assign" THEN Appointed(req[r].row) ELSE Dismissed(req[r].row)

\* An UPDATE and how it may end: what a success leads to also follows a
\* failure that nobody notices.
Update(r, m, row, then) ==
  \/ users' = [users EXCEPT ![m] = row] /\ Become(r, then)
  \/ "lost" \in Faults /\ users' = [users EXCEPT ![m] = row] /\ Become(r, Idle)
  \/ "refused" \in Faults /\ Become(r, Idle) /\ UNCHANGED users
  \/ "unnoticed" \in Faults /\ Become(r, then) /\ UNCHANGED users

WithOffice(m, role, permissions, claimed) ==
  [users[m] EXCEPT !.role = role, !.permissions = permissions, !.claimed = claimed]

\* As if groups were left to another statement.
PersistRolesOnly(r) ==
  /\ req[r].stage = "persist"
  /\ LET row == Wanted(r)
     IN Update(r, req[r].m, WithOffice(req[r].m, row.role, row.permissions, row.claimed), Idle)
  /\ Rows

\* persist_user_admin_row_by_name: the whole row in one statement; a table
\* without fields for groups gets the rest.
persist_user_admin_row(r) ==
  /\ req[r].stage = "persist"
  /\ LET row == Wanted(r)
     IN Update(r, req[r].m,
               IF fields THEN row ELSE WithOffice(req[r].m, row.role, row.permissions, row.claimed),
               Idle)
  /\ Rows

\* Two statements about role and permissions.
hand_over(r) ==
  /\ \/ /\ req[r].stage = "promote"
        /\ Update(r, req[r].m, WithOffice(req[r].m, "admin", {"manage_boards"}, FALSE),
                  [req[r] EXCEPT !.stage = "demote"])
     \/ /\ req[r].stage = "demote"
        /\ Update(r, req[r].by, WithOffice(req[r].by, "member", {}, FALSE), Idle)
  /\ Rows

\* Whoever calls while there is no administrator becomes one, unless he may
\* manage boards already.
ensure_user(m) ==
  /\ store = "surreal"
  /\ "manage_boards" \notin users[m].permissions
  /\ \A other \in Members : users[other].role # "admin"
  /\ users' = [users EXCEPT ![m] = WithOffice(m, "admin", {"manage_boards"}, FALSE)]
  /\ Rows /\ UNCHANGED req
-----------------------------------------------------------------------------
(* The role docs_admin, at the service that signs tokens.                  *)

get_user_permissions(m) == m \in docs \cup Spaces

\* A service that reports failure in its answer reads as no permissions.
AskPermissions(r) ==
  /\ req[r].stage = "permissions"
  /\ \/ Become(r, [req[r] EXCEPT !.stage = "role", !.granted = get_user_permissions(req[r].m)])
     \/ "unnoticed" \in Faults /\ Become(r, [req[r] EXCEPT !.stage = "role"])
     \/ "refused" \in Faults /\ Become(r, Idle)
  /\ Rows /\ UNCHANGED users

Answered(m, kind, stale) ==
  /\ told' = [told EXCEPT ![m] = kind]
  /\ mixed' = IF stale THEN mixed \cup {m} ELSE mixed \ {m}

\* assign_role_to_user and remove_role_from_user: how a call of the service may
\* end.  An answer of success is not read further.
CallService(m, kind, after) ==
  \/ docs' = after /\ Answered(m, kind, FALSE)
  \/ "lost" \in Faults /\ docs' = after /\ mixed' = mixed \cup {m} /\ UNCHANGED told
  \/ "unnoticed" \in Faults /\ Answered(m, kind, TRUE) /\ UNCHANGED docs
  \/ "refused" \in Faults /\ UNCHANGED <<docs, told, mixed>>

\* The call is made only if what was read says that there is something to do.
ChangeRole(r) ==
  /\ req[r].stage = "role"
  /\ LET m == req[r].m
     IN \/ /\ req[r].kind = "grant" /\ ~req[r].granted
           /\ CallService(m, "grant", docs \cup {m})
        \/ /\ req[r].kind = "revoke_docs" /\ req[r].granted
           /\ CallService(m, "revoke_docs", docs \ {m})
        \/ /\ (req[r].kind = "grant") = req[r].granted
           /\ Answered(m, req[r].kind, req[r].granted # get_user_permissions(m)) /\ UNCHANGED docs
  /\ Become(r, Idle)
  /\ UNCHANGED <<store, kept, users, fields>>
-----------------------------------------------------------------------------
Start(r) ==
  \E m \in Members :
    \/ \E g \in Targets, action \in {"set_primary", "clear_primary", "remove", "add"} :
         update_group_membership(r, m, g, action)
    \/ delete_account_confirm(r, m)
    \/ \E by \in Members :
         \/ assign_moderator(r, by, m) \/ assign_moderator_by_record(r, by, m)
         \/ revoke_moderator(r, by, m) \/ revoke_moderator_by_record(r, by, m)
         \/ grant_docs_space_create(r, by, m) \/ revoke_docs_space_create(r, by, m)
         \/ transfer_admin(r, by, m)

Step(r) ==
  \/ list_all_membergroups(r) \/ update_member_groups(r) \/ Others(r) \/ delete_member(r)
  \/ resolve_member_name_by_id(r) \/ load_user_admin_row_by_name(r) \/ load_user_admin_row_by_record_id(r)
  \/ persist_user_admin_row(r) \/ hand_over(r)
  \/ AskPermissions(r) \/ ChangeRole(r)

MembershipNext ==
  \/ /\ Act
     /\ \/ \E r \in Requests : Start(r)
        \/ \E m \in Members : ensure_user(m)
        \/ Edit
  \/ \E r \in Requests : Step(r) /\ UNCHANGED acts

MembershipSpec == MembershipInit /\ [][MembershipNext]_membershipVars
-----------------------------------------------------------------------------
(***************************************************************************)
(* Members kept in memory are in groups that exist: a group that goes      *)
(* takes itself out of all of them.  Only update_member_groups may bring a *)
(* group back, when it was deleted after the record or the groups were     *)
(* read.  And the last administrator kept in memory is not deleted, unless *)
(* those whom the request saw besides him, or the request's idea of him,   *)
(* have changed since.                                                     *)
(***************************************************************************)
GroupsGoEverywhere ==
  \A m \in DOMAIN member' :
    LET lost == {g \in GroupsOf(member'[m]) : g \notin DOMAIN groups'}
        before == IF m \in DOMAIN member
                  THEN {g \in GroupsOf(member[m]) : g \notin DOMAIN groups} ELSE {}
    IN \/ lost \subseteq before
       \/ \E r \in Requests : req[r].stage = "update" /\ req[r].m = m /\ req'[r] = Idle

AnAdminStays ==
  \A r \in Requests :
    req[r].stage = "delete" /\ req'[r] = Idle /\ Administrators # {} /\ Administrators' = {} =>
      \/ req[r].others # {} /\ req[r].others \cap Administrators = {}
      \/ ~InGroup(req[r].record, 1)

MembersAreKept == [][GroupsGoEverywhere /\ AnAdminStays]_membershipVars

(***************************************************************************)
(* Role, permissions and groups in a row of users agree, however           *)
(* appointments, dismissals and transfers interleave and fail: each writes *)
(* what belongs together in one statement, even if what it read is stale.  *)
(* Not so a row whose role and permissions go back to a token: create_user *)
(* stores what the token claims as it is, and only a transfer, or becoming *)
(* the first administrator, puts that right.  And the last answer about    *)
(* the role docs_admin is true: after a grant the member may write spaces, *)
(* after a dismissal the role is gone.                                     *)
(* Exempt are answers that what was read meanwhile made stale, failures    *)
(* after the effect, and refusals inside an answer, which nobody reads.    *)
(***************************************************************************)
RowsAgree ==
  \A m \in {other \in Members : ~users[other].claimed} :
    /\ users[m].role = "mod" => "moderate_forum" \in users[m].permissions
    /\ users[m].role = "admin" <=> "manage_boards" \in users[m].permissions
    /\ fields /\ "moderate_forum" \in users[m].permissions =>
         users[m].primary = 2 \/ 2 \in users[m].additional

AnswersAboutDocs ==
  \A m \in Members \ mixed :
    /\ told[m] = "grant" => m \in docs \cup Spaces
    /\ told[m] = "revoke_docs" => m \notin docs

OfficesAgree == RowsAgree /\ AnswersAboutDocs
=============================================================================
