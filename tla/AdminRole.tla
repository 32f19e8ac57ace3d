----------------------------- MODULE AdminRole -----------------------------
(***************************************************************************)
(* Who is administrator.  Every handler starts with ensure_user            *)
(* (src/surreal.rs), which creates the row of the user and makes him       *)
(* administrator if there is none.  transfer_admin and the four handlers   *)
(* that appoint and dismiss moderators (src/api/admin_routes.rs) then      *)
(* change the row of somebody else.  Every query is a step, and no         *)
(* transaction spans two of them.                                          *)
(*                                                                         *)
(* A row is its role: the permission manage_boards comes and goes with     *)
(* "admin".  Tokens that carry a permission to manage are left out.        *)
(***************************************************************************)
EXTENDS Naturals, FiniteSets

CONSTANTS
  Callers,  \* calls under way at a time
  Names,     \* users
  MaxTries,  \* calls of ensure_user within a request; 3 in the code
  Claims,    \* role in the token; "none" also stands for no permissions in it
  RoleFaults     \* what may go wrong, see FaultKinds

(***************************************************************************)
(* unauthorized: a query is refused because the session has expired.       *)
(* lost:         a query reports another error; it may have had its effect. *)
(* unnoticed:    a statement fails and its query is reported Ok; the        *)
(*               handlers of admin_routes.rs do not look further.           *)
(* unreadable:   the result of a count fails to decode and reads as zero.   *)
(* disconnect:   the client goes away and the handler is dropped; the       *)
(*               query it was sending may still be carried out.             *)
(***************************************************************************)
FaultKinds == {"unauthorized", "lost", "unnoticed", "unreadable", "disconnect"}

Roles == {"member", "mod", "admin"}

ASSUME AdminAssumption ==
  /\ MaxTries \in Nat \ {0}
  /\ Claims \subseteq Roles \cup {"none"}
  /\ RoleFaults \subseteq FaultKinds

VARIABLES
  user,      \* the role in each row of users, or "absent"
  pc,        \* the query each request is about to make
  job,       \* the call: who, with what claim, asks for what, about whom
  copy,      \* the role that the request has read last, or is to create
  tries,     \* calls of ensure_user
  ok,        \* whether the last answer was a success
  entitled,  \* history: who has been given the role by right (see Misread)
  orderly,   \* history: no two changes overlapped, no failure went unnoticed
  calm       \* history: no two requests overlapped, nothing failed

roleVars == <<user, pc, job, copy, tries, ok, entitled, orderly, calm>>
history == <<entitled, orderly, calm>>
-----------------------------------------------------------------------------
Kinds == {"visit", "transfer", "appoint", "dismiss"}

Job == [who: Names, claim: Claims, kind: Kinds, target: Names]

NoJob == [who |-> "none", claim |-> "none", kind |-> "none", target |-> "none"]

Steps == {"idle", "find", "count_admins", "bootstrap", "count_users", "create",
          "authorize", "load", "promote", "demote", "persist"}

Who(r) == job[r].who
Target(r) == job[r].target
Changes(r) == job[r].kind \in Kinds \ {"visit"}
Admins == {n \in Names : user[n] = "admin"}

\* A forum nobody has visited, or one with an administrator and members.
RoleInit ==
  /\ user \in {[n \in Names |-> "absent"]} \cup
              {[n \in Names |-> IF n = a THEN "admin" ELSE "member"] : a \in Names}
  /\ pc = [r \in Callers |-> "idle"]
  /\ job = [r \in Callers |-> NoJob]
  /\ copy = [r \in Callers |-> "absent"]
  /\ tries = [r \in Callers |-> 0]
  /\ ok = [r \in Callers |-> FALSE]
  /\ entitled = Admins
  /\ orderly = TRUE
  /\ calm = TRUE

Running(r) == pc[r] # "idle"

-----------------------------------------------------------------------------
(* How a call goes on. *)

GoTo(r, step, role) ==
  /\ pc' = [pc EXCEPT ![r] = step]
  /\ copy' = [copy EXCEPT ![r] = role]
  /\ UNCHANGED <<job, tries, ok>>

End(r, success) ==
  /\ pc' = [pc EXCEPT ![r] = "idle"]
  /\ job' = [job EXCEPT ![r] = NoJob]
  /\ copy' = [copy EXCEPT ![r] = "absent"]
  /\ tries' = [tries EXCEPT ![r] = 0]
  /\ ok' = [ok EXCEPT ![r] = success]

\* Something has failed.
Trouble == calm' = FALSE /\ UNCHANGED <<entitled, orderly>>

\* Mutant of Unauthorized: one repetition too many.
UnauthorizedOnceMore(r) ==
  /\ "unauthorized" \in RoleFaults
  /\ \/ /\ tries[r] <= MaxTries
        /\ pc' = [pc EXCEPT ![r] = "find"]
        /\ copy' = [copy EXCEPT ![r] = "absent"]
        /\ tries' = [tries EXCEPT ![r] = @ + 1]
        /\ UNCHANGED <<job, ok>>
     \/ tries[r] > MaxTries /\ End(r, FALSE)
  /\ Trouble /\ UNCHANGED user

\* ensure_user as a whole is repeated after signing in again, and once more
\* over a new connection.
Unauthorized(r) ==
  /\ "unauthorized" \in RoleFaults
  /\ \/ /\ tries[r] < MaxTries
        /\ pc' = [pc EXCEPT ![r] = "find"]
        /\ copy' = [copy EXCEPT ![r] = "absent"]
        /\ tries' = [tries EXCEPT ![r] = @ + 1]
        /\ UNCHANGED <<job, ok>>
     \/ tries[r] = MaxTries /\ End(r, FALSE)
  /\ Trouble /\ UNCHANGED user

Lost(r) == "lost" \in RoleFaults /\ End(r, FALSE) /\ Trouble /\ UNCHANGED user

\* The request of r arrives; whether it meets others is put on record.
Arrive(r, j) ==
  /\ ~Running(r)
  /\ j.kind = "visit" => j.target = j.who
  /\ pc' = [pc EXCEPT ![r] = "find"]
  /\ job' = [job EXCEPT ![r] = j]
  /\ tries' = [tries EXCEPT ![r] = 1]
  /\ ok' = [ok EXCEPT ![r] = FALSE]
  /\ calm' = (calm /\ \A q \in Callers : ~Running(q))
  /\ orderly' = (orderly /\ (j.kind = "visit" \/ \A q \in Callers : ~Changes(q)))
  /\ UNCHANGED <<user, copy, entitled>>

-----------------------------------------------------------------------------
(* ensure_user *)

\* get_user_by_name
Find(r) ==
  /\ pc[r] = "find"
  /\ LET role == user[Who(r)] IN
     \/ /\ role = "admin" /\ GoTo(r, "authorize", role)
        /\ UNCHANGED <<user, history>>
     \/ /\ role \in {"member", "mod"} /\ GoTo(r, "count_admins", role)
        /\ UNCHANGED <<user, history>>
     \/ /\ role = "absent" /\ job[r].claim = "none"
        /\ GoTo(r, "count_users", role)
        /\ UNCHANGED <<user, history>>
     \/ /\ role = "absent" /\ job[r].claim # "none"
        /\ GoTo(r, "create", job[r].claim)
        /\ entitled' = IF job[r].claim = "admin" THEN entitled \cup {Who(r)}
                                                 ELSE entitled
        /\ UNCHANGED <<user, orderly, calm>>
     \/ Unauthorized(r)
     \/ Lost(r)

\* A count that cannot be decoded reads as zero; who is entitled can no longer
\* be told from then on, and all are taken to be.
Misread ==
  /\ "unreadable" \in RoleFaults
  /\ entitled' = Names /\ calm' = FALSE
  /\ UNCHANGED <<user, orderly>>

\* Whoever finds the forum without an administrator may become one.
CountAdmins(r) ==
  /\ pc[r] = "count_admins"
  /\ \/ /\ Admins = {} /\ GoTo(r, "bootstrap", copy[r])
        /\ entitled' = entitled \cup {Who(r)}
        /\ UNCHANGED <<user, orderly, calm>>
     \/ /\ Admins # {} /\ GoTo(r, "authorize", copy[r])
        /\ UNCHANGED <<user, history>>
     \/ Misread /\ GoTo(r, "bootstrap", copy[r])
     \/ Unauthorized(r)
     \/ Lost(r)

Bootstrap(r) ==
  /\ pc[r] = "bootstrap"
  /\ \/ /\ user' = [user EXCEPT ![Who(r)] = "admin"]
        /\ \/ GoTo(r, "authorize", "admin") /\ UNCHANGED history
           \/ "lost" \in RoleFaults /\ End(r, FALSE) /\ Trouble
     \/ Unauthorized(r)
     \/ Lost(r)

\* Whoever finds the forum without users may become its administrator.
CountUsers(r) ==
  /\ pc[r] = "count_users"
  /\ LET nobody == \A n \in Names : user[n] = "absent" IN
     \/ /\ nobody /\ GoTo(r, "create", "admin")
        /\ entitled' = entitled \cup {Who(r)}
        /\ UNCHANGED <<user, orderly, calm>>
     \/ /\ ~nobody /\ GoTo(r, "create", "member")
        /\ UNCHANGED <<user, history>>
     \/ Misread /\ GoTo(r, "create", "admin")
     \/ Unauthorized(r)
     \/ Lost(r)

\* create_user; the index on the name admits one row for it.
Create(r) ==
  /\ pc[r] = "create"
  /\ \/ /\ user[Who(r)] = "absent"
        /\ user' = [user EXCEPT ![Who(r)] = copy[r]]
        /\ \/ GoTo(r, "authorize", copy[r]) /\ UNCHANGED history
           \/ "lost" \in RoleFaults /\ End(r, FALSE) /\ Trouble
     \/ /\ user[Who(r)] # "absent"
        /\ End(r, FALSE)
        /\ UNCHANGED <<user, history>>
     \/ Unauthorized(r)
     \/ Lost(r)

-----------------------------------------------------------------------------
(* The handlers of administrators. *)

\* Mutant of Authorize: ensure_admin is missing.
AuthorizeAnyone(r) ==
  /\ pc[r] = "authorize"
  /\ \/ job[r].kind = "visit" /\ End(r, TRUE)
     \/ Changes(r) /\ GoTo(r, "load", copy[r])
  /\ UNCHANGED <<user, history>>

\* build_ctx_from_user and ensure_admin; a ban or a missing CSRF token
\* refuses the call as well.
Authorize(r) ==
  /\ pc[r] = "authorize"
  /\ \/ job[r].kind = "visit" /\ End(r, TRUE)
     \/ Changes(r) /\ copy[r] = "admin" /\ GoTo(r, "load", copy[r])
     \/ End(r, FALSE)
  /\ UNCHANGED <<user, history>>

\* The target is looked up.
Load(r) ==
  /\ pc[r] = "load"
  /\ \/ /\ \/ /\ \/ user[Target(r)] = "absent"
                 \/ job[r].kind = "transfer" /\ Target(r) = Who(r)
              /\ End(r, FALSE)
           \/ /\ user[Target(r)] # "absent"
              /\ job[r].kind = "transfer" /\ Target(r) # Who(r)
              /\ GoTo(r, "promote", user[Target(r)])
           \/ /\ user[Target(r)] # "absent"
              /\ job[r].kind # "transfer"
              /\ GoTo(r, "persist", user[Target(r)])
        /\ UNCHANGED <<user, history>>
     \/ Lost(r)

\* An UPDATE that sets the role of a name, and how the query may end.
SetRole(name, role) == user' = [user EXCEPT ![name] = role]

\* The UPDATE failed, and the handler goes on as if it had not.
Unnoticed ==
  /\ "unnoticed" \in RoleFaults
  /\ orderly' = FALSE /\ calm' = FALSE
  /\ UNCHANGED <<user, entitled>>

\* transfer_admin, first query
Promote(r) ==
  /\ pc[r] = "promote"
  /\ \/ /\ SetRole(Target(r), "admin")
        /\ entitled' = IF Who(r) \in entitled THEN entitled \cup {Target(r)}
                                              ELSE entitled
        /\ \/ GoTo(r, "demote", copy[r]) /\ UNCHANGED <<orderly, calm>>
           \/ /\ "lost" \in RoleFaults /\ End(r, FALSE)
              /\ calm' = FALSE /\ UNCHANGED orderly
     \/ GoTo(r, "demote", copy[r]) /\ Unnoticed
     \/ Lost(r)

\* Mutants of Demote: the initiator stays; the wrong row is demoted.
DemoteForgotten(r) ==
  pc[r] = "demote" /\ End(r, TRUE) /\ UNCHANGED <<user, history>>

DemoteTarget(r) ==
  /\ pc[r] = "demote"
  /\ SetRole(Target(r), "member")
  /\ End(r, TRUE) /\ UNCHANGED history

\* transfer_admin, second query
Demote(r) ==
  /\ pc[r] = "demote"
  /\ \/ /\ SetRole(Who(r), "member")
        /\ \/ End(r, TRUE) /\ UNCHANGED history
           \/ "lost" \in RoleFaults /\ End(r, FALSE) /\ Trouble
     \/ End(r, TRUE) /\ Unnoticed
     \/ Lost(r)

\* Mutant of NewRole: dismissing makes a member of everybody.
NewRoleFlat(kind, role) ==
  IF kind = "appoint" THEN (IF role = "admin" THEN "admin" ELSE "mod") ELSE "member"

\* An administrator stays one.
NewRole(kind, role) ==
  IF role = "admin" THEN "admin" ELSE IF kind = "appoint" THEN "mod" ELSE "member"

\* persist_user_admin_row_by_name: the whole row, from the role read before
Persist(r) ==
  /\ pc[r] = "persist"
  /\ \/ /\ SetRole(Target(r), NewRole(job[r].kind, copy[r]))
        /\ \/ End(r, TRUE) /\ UNCHANGED history
           \/ "lost" \in RoleFaults /\ End(r, FALSE) /\ Trouble
     \/ End(r, TRUE) /\ Unnoticed
     \/ Lost(r)

\* The future is dropped while its query is not, or is, on its way.
Disconnect(r) ==
  /\ "disconnect" \in RoleFaults
  /\ Running(r)
  /\ End(r, FALSE)
  /\ calm' = FALSE /\ UNCHANGED orderly
  /\ \/ UNCHANGED <<user, entitled>>
     \/ pc[r] = "bootstrap" /\ SetRole(Who(r), "admin") /\ UNCHANGED entitled
     \/ /\ pc[r] = "create" /\ user[Who(r)] = "absent"
        /\ SetRole(Who(r), copy[r]) /\ UNCHANGED entitled
     \/ /\ pc[r] = "promote" /\ SetRole(Target(r), "admin")
        /\ entitled' = IF Who(r) \in entitled THEN entitled \cup {Target(r)}
                                              ELSE entitled
     \/ pc[r] = "demote" /\ SetRole(Who(r), "member") /\ UNCHANGED entitled
     \/ /\ pc[r] = "persist"
        /\ SetRole(Target(r), NewRole(job[r].kind, copy[r])) /\ UNCHANGED entitled

ServerStep(r) ==
  \/ Find(r) \/ CountAdmins(r) \/ Bootstrap(r) \/ CountUsers(r) \/ Create(r)
  \/ Authorize(r) \/ Load(r) \/ Promote(r) \/ Demote(r) \/ Persist(r)

RoleNext ==
  \/ \E r \in Callers, j \in Job : Arrive(r, j)
  \/ \E r \in Callers : ServerStep(r) \/ Disconnect(r)

RoleSpec == RoleInit /\ [][RoleNext]_roleVars
-----------------------------------------------------------------------------
\* Every variable has its type; ensure_user is called MaxTries times at most.
TypeOK ==
  /\ user \in [Names -> Roles \cup {"absent"}]
  /\ pc \in [Callers -> Steps]
  /\ job \in [Callers -> Job \cup {NoJob}]
  /\ copy \in [Callers -> Roles \cup {"absent"}]
  /\ tries \in [Callers -> 0..MaxTries]
  /\ ok \in [Callers -> BOOLEAN]
  /\ entitled \subseteq Names
  /\ orderly \in BOOLEAN /\ calm \in BOOLEAN

\* However calls race, administrators got the role by right: they found the
\* forum without one, or somebody who got it by right named them.  Only such
\* users get past ensure_admin.  (As long as no count is misread.)
AdminsAreEntitled ==
  /\ Admins \subseteq entitled
  /\ \A r \in Callers :
       pc[r] \in {"load", "promote", "demote", "persist"} => Who(r) \in entitled

\* The forum does not lose its last administrator, whatever errors are
\* reported, clients leave and users visit, unless two changes overlap or a
\* failure goes unnoticed: transfer_admin promotes before it demotes.
AdminRemains == [][orderly' /\ Admins # {} => Admins' # {}]_roleVars

\* Calls one after another, without failures, never leave two administrators.
AtMostOneAdmin == calm /\ (\A r \in Callers : ~Running(r)) => Cardinality(Admins) <= 1

\* A transfer that is answered ok has handed the role over, unless another
\* change was under way: no dual administrators (transfer_admin).
TransferHandsOver ==
  [][\A r \in Callers :
       orderly' /\ pc[r] = "demote" /\ ok'[r] =>
         /\ user'[Target(r)] = "admin"
         /\ user'[Who(r)] # "admin"]_roleVars
=============================================================================
