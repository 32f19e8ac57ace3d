--------------------------- MODULE OfficesProofs ---------------------------
(***************************************************************************)
(* Proofs about offices: the administrator role, for any requests, names,  *)
(* claims and faults, and then the groups of members and the roles that go *)
(* with them.                                                              *)
(***************************************************************************)
EXTENDS AdminRole, Membership, FiniteSetTheorems, TLAPS

\* A running request has a call.
JobInv == \A r \in Callers : Running(r) => job[r] \in Job

\* What the requests have read or are about to write makes nobody administrator
\* who is not entitled.
CopyInv ==
  \A r \in Callers :
    /\ pc[r] = "bootstrap" => Who(r) \in entitled
    /\ pc[r] \in {"count_admins", "create", "authorize"} /\ copy[r] = "admin" =>
         Who(r) \in entitled
    /\ pc[r] = "persist" /\ copy[r] = "admin" => Target(r) \in entitled

RoleInv == TypeOK /\ JobInv /\ AdminsAreEntitled /\ CopyInv

-----------------------------------------------------------------------------
LEMMA RoleStarts == RoleInit => RoleInv
  BY AdminAssumption
  DEF RoleInit, RoleInv, TypeOK, JobInv, AdminsAreEntitled, CopyInv, Running, Steps,
      Roles, Admins, NoJob

\* The types of what belongs to the requests.
LocalOK ==
  /\ pc \in [Callers -> Steps]
  /\ job \in [Callers -> Job \cup {NoJob}]
  /\ copy \in [Callers -> Roles \cup {"absent"}]
  /\ tries \in [Callers -> 0..MaxTries]
  /\ ok \in [Callers -> BOOLEAN]
  /\ JobInv

\* What a step leaves alone: the other requests.
OthersStay(r) ==
  \A q \in Callers \ {r} : pc'[q] = pc[q] /\ job'[q] = job[q] /\ copy'[q] = copy[q]

\* Going on keeps the types and the others.
LEMMA GoToKeeps ==
  ASSUME TypeOK, JobInv, NEW r \in Callers, Running(r),
         NEW step \in Steps \ {"idle"}, NEW role \in Roles \cup {"absent"},
         GoTo(r, step, role)
  PROVE  /\ LocalOK' /\ OthersStay(r)
         /\ pc'[r] = step /\ copy'[r] = role /\ job' = job
  BY DEF GoTo, LocalOK, TypeOK, JobInv, Running, OthersStay

\* Coming to an end does as well.
LEMMA EndKeeps ==
  ASSUME TypeOK, JobInv, NEW r \in Callers, NEW success \in BOOLEAN,
         End(r, success)
  PROVE  /\ LocalOK' /\ OthersStay(r)
         /\ pc'[r] = "idle"
  BY AdminAssumption DEF End, LocalOK, TypeOK, JobInv, Running, OthersStay, Steps, Roles

\* And signing in again.
LEMMA UnauthorizedKeeps ==
  ASSUME TypeOK, JobInv, NEW r \in Callers, Running(r), Unauthorized(r)
  PROVE  /\ LocalOK' /\ OthersStay(r)
         /\ pc'[r] \in {"idle", "find"}
         /\ UNCHANGED <<user, entitled, orderly>> /\ calm' = FALSE
  <1>1. CASE End(r, FALSE)
    BY <1>1, EndKeeps DEF Unauthorized, Trouble
  <1>2. CASE /\ tries[r] < MaxTries
             /\ pc' = [pc EXCEPT ![r] = "find"]
             /\ copy' = [copy EXCEPT ![r] = "absent"]
             /\ tries' = [tries EXCEPT ![r] = @ + 1]
             /\ UNCHANGED <<job, ok>>
    <2>1. tries[r] + 1 \in 0..MaxTries
      BY <1>2, AdminAssumption DEF TypeOK
    <2>2. QED
      BY <1>2, <2>1
      DEF Unauthorized, Trouble, LocalOK, TypeOK, JobInv, Running, OthersStay, Steps
  <1>3. QED
    BY <1>1, <1>2 DEF Unauthorized

\* A step of one request whose own obligations hold afterwards keeps the
\* invariant: the entitled stay entitled.
LEMMA StepKeeps ==
  ASSUME RoleInv, NEW r \in Callers, LocalOK', OthersStay(r),
         user' \in [Names -> Roles \cup {"absent"}],
         entitled' \subseteq Names, orderly' \in BOOLEAN, calm' \in BOOLEAN,
         entitled \subseteq entitled',
         \A n \in Names : user'[n] = "admin" => user[n] = "admin" \/ n \in entitled',
         pc'[r] \in {"load", "promote", "demote", "persist", "bootstrap"} =>
           Who(r)' \in entitled',
         pc'[r] \in {"count_admins", "create", "authorize"} /\ copy'[r] = "admin" =>
           Who(r)' \in entitled',
         pc'[r] = "persist" /\ copy'[r] = "admin" => Target(r)' \in entitled'
  PROVE  RoleInv'
  <1> USE DEF RoleInv
  <1>1. Admins' \subseteq entitled'
    BY DEF AdminsAreEntitled, Admins
  <1>2. AdminsAreEntitled'
    BY <1>1 DEF AdminsAreEntitled, OthersStay, Who
  <1>3. CopyInv'
    BY DEF CopyInv, OthersStay, Who, Target
  <1>4. QED
    BY <1>2, <1>3 DEF TypeOK, LocalOK

\* A request that is refused or fails.
LEMMA TroubleKeeps ==
  ASSUME RoleInv, NEW r \in Callers, Running(r), Unauthorized(r) \/ Lost(r)
  PROVE  RoleInv'
  <1> USE DEF RoleInv
  <1>1. /\ LocalOK' /\ OthersStay(r) /\ pc'[r] \in {"idle", "find"}
        /\ UNCHANGED <<user, entitled, orderly>> /\ calm' = FALSE
    BY UnauthorizedKeeps, EndKeeps DEF Lost, Trouble
  <1>2. QED
    BY <1>1, StepKeeps DEF TypeOK

\* The steps of ensure_user.
LEMMA EnsureUserKeeps ==
  ASSUME RoleInv, NEW r \in Callers,
         \/ Find(r) \/ CountAdmins(r) \/ Bootstrap(r) \/ CountUsers(r) \/ Create(r)
  PROVE  RoleInv'
  <1> USE DEF RoleInv
  <1>r. /\ Running(r) /\ job[r] \in Job /\ Who(r) \in Names
        /\ job[r].claim \in Claims
    BY DEF Find, CountAdmins, Bootstrap, CountUsers, Create, Running, JobInv, Job, Who
  <1>t. CASE Unauthorized(r) \/ Lost(r)
    BY <1>t, <1>r, TroubleKeeps
  <1>g. ASSUME NEW step \in Steps \ {"idle"}, NEW role \in Roles \cup {"absent"},
               GoTo(r, step, role)
        PROVE  /\ LocalOK' /\ OthersStay(r) /\ pc'[r] = step /\ copy'[r] = role
               /\ Who(r)' = Who(r) /\ Target(r)' = Target(r)
    BY <1>g, <1>r, GoToKeeps DEF Who, Target
  <1>e. ASSUME End(r, FALSE)
        PROVE  LocalOK' /\ OthersStay(r) /\ pc'[r] = "idle"
    BY <1>e, <1>r, EndKeeps
  <1>1. CASE Find(r)
    <2>1. user[Who(r)] \in Roles \cup {"absent"} /\ user[Who(r)] = "admin" => Who(r) \in entitled
      BY <1>r DEF TypeOK, AdminsAreEntitled, Admins
    <2>2. CASE GoTo(r, "authorize", user[Who(r)]) /\ UNCHANGED <<user, history>>
      BY <2>1, <2>2, <1>r, <1>g, StepKeeps DEF TypeOK, Steps, history
    <2>3. CASE /\ user[Who(r)] \in {"member", "mod"}
               /\ GoTo(r, "count_admins", user[Who(r)]) /\ UNCHANGED <<user, history>>
      BY <2>3, <1>r, <1>g, StepKeeps DEF TypeOK, Steps, Roles, history
    <2>4. CASE /\ user[Who(r)] = "absent" /\ UNCHANGED <<user, history>>
               /\ GoTo(r, "count_users", user[Who(r)])
      BY <2>1, <2>4, <1>r, <1>g, StepKeeps DEF TypeOK, Steps, history
    <2>5. CASE /\ job[r].claim # "none" /\ GoTo(r, "create", job[r].claim)
               /\ entitled' = IF job[r].claim = "admin" THEN entitled \cup {Who(r)}
                                                        ELSE entitled
               /\ UNCHANGED <<user, orderly, calm>>
      <3>1. job[r].claim \in Roles
        BY <2>5, <1>r, AdminAssumption
      <3>2. QED
        BY <2>5, <3>1, <1>r, <1>g, StepKeeps DEF TypeOK, Steps
    <2>6. QED
      BY <1>1, <1>t, <2>2, <2>3, <2>4, <2>5 DEF Find
  <1>2. CASE CountAdmins(r)
    <2>1. copy[r] \in Roles \cup {"absent"} /\ (copy[r] = "admin" => Who(r) \in entitled)
      BY <1>2 DEF CountAdmins, TypeOK, CopyInv
    <2>2. CASE /\ GoTo(r, "bootstrap", copy[r]) /\ entitled' = entitled \cup {Who(r)}
               /\ UNCHANGED <<user, orderly, calm>>
      BY <2>1, <2>2, <1>r, <1>g, StepKeeps DEF TypeOK, Steps
    <2>3. CASE GoTo(r, "authorize", copy[r]) /\ UNCHANGED <<user, history>>
      BY <2>1, <2>3, <1>r, <1>g, StepKeeps DEF TypeOK, Steps, history
    <2>4. CASE GoTo(r, "bootstrap", copy[r]) /\ Misread
      BY <2>1, <2>4, <1>r, <1>g, StepKeeps DEF TypeOK, Steps, Misread
    <2>5. QED
      BY <1>2, <1>t, <2>2, <2>3, <2>4 DEF CountAdmins
  <1>3. CASE Bootstrap(r)
    <2>1. Who(r) \in entitled
      BY <1>3 DEF Bootstrap, CopyInv
    <2>2. CASE user' = [user EXCEPT ![Who(r)] = "admin"]
      <3>1. /\ user' \in [Names -> Roles \cup {"absent"}]
            /\ \A n \in Names : user'[n] = "admin" => user[n] = "admin" \/ n \in entitled
        BY <2>1, <2>2 DEF TypeOK, Roles
      <3>2. CASE GoTo(r, "authorize", "admin") /\ UNCHANGED history
        BY <2>1, <3>1, <3>2, <1>r, <1>g, StepKeeps DEF TypeOK, Steps, Roles, history
      <3>3. CASE End(r, FALSE) /\ Trouble
        BY <3>1, <3>3, <1>e, StepKeeps DEF TypeOK, Trouble
      <3>4. QED
        BY <1>3, <1>t, <3>2, <3>3 DEF Bootstrap
    <2>3. QED
      BY <1>3, <1>t, <2>2 DEF Bootstrap
  <1>4. CASE CountUsers(r)
    <2>1. CASE /\ GoTo(r, "create", "admin") /\ entitled' = entitled \cup {Who(r)}
               /\ UNCHANGED <<user, orderly, calm>>
      BY <2>1, <1>r, <1>g, StepKeeps DEF TypeOK, Steps, Roles
    <2>2. CASE GoTo(r, "create", "member") /\ UNCHANGED <<user, history>>
      BY <2>2, <1>r, <1>g, StepKeeps DEF TypeOK, Steps, Roles, history
    <2>3. CASE GoTo(r, "create", "admin") /\ Misread
      <3>1. LocalOK' /\ OthersStay(r) /\ pc'[r] = "create" /\ Who(r)' = Who(r)
        BY <2>3, <1>g DEF Steps, Roles
      <3>2. entitled' = Names /\ calm' = FALSE /\ UNCHANGED <<user, orderly>>
        BY <2>3 DEF Misread
      <3>3. QED
        BY <3>1, <3>2, <1>r, StepKeeps DEF TypeOK
    <2>4. QED
      BY <1>4, <1>t, <2>1, <2>2, <2>3 DEF CountUsers
  <1>5. CASE Create(r)
    <2>1. copy[r] \in Roles \cup {"absent"} /\ (copy[r] = "admin" => Who(r) \in entitled)
      BY <1>5 DEF Create, TypeOK, CopyInv
    <2>2. CASE user' = [user EXCEPT ![Who(r)] = copy[r]]
      <3>1. /\ user' \in [Names -> Roles \cup {"absent"}]
            /\ \A n \in Names : user'[n] = "admin" => user[n] = "admin" \/ n \in entitled
        BY <2>1, <2>2 DEF TypeOK
      <3>2. CASE GoTo(r, "authorize", copy[r]) /\ UNCHANGED history
        BY <2>1, <3>1, <3>2, <1>r, <1>g, StepKeeps DEF TypeOK, Steps, history
      <3>3. CASE End(r, FALSE) /\ Trouble
        BY <3>1, <3>3, <1>e, StepKeeps DEF TypeOK, Trouble
      <3>4. CASE End(r, FALSE) /\ UNCHANGED <<user, history>>
        BY <3>1, <3>4, <1>e, StepKeeps DEF TypeOK, history
      <3>5. QED
        BY <1>5, <1>t, <3>2, <3>3, <3>4 DEF Create
    <2>3. CASE End(r, FALSE) /\ UNCHANGED <<user, history>>
      BY <2>3, <1>e, StepKeeps DEF TypeOK, history
    <2>4. QED
      BY <1>5, <1>t, <2>2, <2>3 DEF Create
  <1>6. QED
    BY <1>1, <1>2, <1>3, <1>4, <1>5

\* An administrator's own calls.
LEMMA HandlerKeeps ==
  ASSUME RoleInv, NEW r \in Callers,
         \/ Authorize(r) \/ Load(r) \/ Promote(r) \/ Demote(r) \/ Persist(r)
  PROVE  RoleInv'
  <1> USE DEF RoleInv
  <1>r. /\ Running(r) /\ Who(r) \in Names /\ Target(r) \in Names
        /\ copy[r] \in Roles \cup {"absent"}
    BY DEF Authorize, Load, Promote, Demote, Persist, Running, JobInv, Job, Who, Target,
           TypeOK
  <1>l. CASE Lost(r)
    BY <1>l, <1>r, TroubleKeeps
  <1>g. ASSUME NEW step \in Steps \ {"idle"}, NEW role \in Roles \cup {"absent"},
               GoTo(r, step, role)
        PROVE  /\ LocalOK' /\ OthersStay(r) /\ pc'[r] = step /\ copy'[r] = role
               /\ Who(r)' = Who(r) /\ Target(r)' = Target(r)
    BY <1>g, <1>r, GoToKeeps DEF Who, Target
  <1>e. ASSUME NEW success \in BOOLEAN, End(r, success)
        PROVE  LocalOK' /\ OthersStay(r) /\ pc'[r] = "idle"
    BY <1>e, <1>r, EndKeeps
  <1>n. ASSUME NEW success \in BOOLEAN, End(r, success),
               UNCHANGED <<user, history>> \/ Unnoticed
        PROVE  RoleInv'
    BY <1>n, <1>e, StepKeeps DEF TypeOK, history, Unnoticed
  <1>s. ASSUME NEW success \in BOOLEAN, End(r, success),
               NEW name \in Names, NEW role \in Roles, SetRole(name, role),
               role = "admin" => name \in entitled', entitled \subseteq entitled',
               entitled' \subseteq Names, orderly' \in BOOLEAN, calm' \in BOOLEAN
        PROVE  RoleInv'
    <2>1. /\ user' \in [Names -> Roles \cup {"absent"}]
          /\ \A n \in Names : user'[n] = "admin" => user[n] = "admin" \/ n \in entitled'
      BY <1>s DEF SetRole, TypeOK
    <2>2. QED
      BY <1>s, <2>1, <1>e, StepKeeps
  <1>1. CASE Authorize(r)
    <2>1. CASE Changes(r) /\ copy[r] = "admin" /\ GoTo(r, "load", copy[r])
      <3>1. Who(r) \in entitled
        BY <1>1, <2>1 DEF Authorize, CopyInv
      <3>2. UNCHANGED <<user, history>>
        BY <1>1 DEF Authorize
      <3>3. QED
        BY <2>1, <3>1, <3>2, <1>r, <1>g, StepKeeps DEF TypeOK, Steps, history
    <2>2. QED
      BY <1>1, <2>1, <1>n DEF Authorize
  <1>i. CASE pc[r] # "authorize"
    <2>1. Who(r) \in entitled
      BY <1>i DEF Authorize, Load, Promote, Demote, Persist, AdminsAreEntitled
    <2>2. CASE Load(r)
      <3>1. /\ user[Target(r)] \in Roles \cup {"absent"}
            /\ user[Target(r)] = "admin" => Target(r) \in entitled
        BY <1>r DEF TypeOK, AdminsAreEntitled, Admins
      <3>2. ASSUME NEW step \in {"promote", "persist"}, GoTo(r, step, user[Target(r)]),
                   UNCHANGED <<user, history>>
            PROVE  RoleInv'
        BY <2>1, <3>1, <3>2, <1>r, <1>g, StepKeeps DEF TypeOK, Steps, history
      <3>3. QED
        BY <2>2, <3>2, <1>l, <1>n DEF Load
    <2>3. CASE Promote(r)
      <3>1. CASE /\ SetRole(Target(r), "admin")
                 /\ entitled' = entitled \cup {Target(r)}
                 /\ GoTo(r, "demote", copy[r]) /\ UNCHANGED <<orderly, calm>>
        <4>1. /\ user' \in [Names -> Roles \cup {"absent"}]
              /\ \A n \in Names : user'[n] = "admin" => user[n] = "admin" \/ n \in entitled'
          BY <3>1, <1>r DEF SetRole, TypeOK, Roles
        <4>2. QED
          BY <2>1, <3>1, <4>1, <1>r, <1>g, StepKeeps DEF TypeOK, Steps
      <3>2. CASE /\ SetRole(Target(r), "admin")
                 /\ entitled' = entitled \cup {Target(r)}
                 /\ End(r, FALSE) /\ calm' = FALSE /\ UNCHANGED orderly
        BY <3>2, <1>r, <1>s DEF TypeOK, Roles
      <3>3. CASE GoTo(r, "demote", copy[r]) /\ Unnoticed
        BY <2>1, <3>3, <1>r, <1>g, StepKeeps DEF TypeOK, Steps, Unnoticed
      <3>4. QED
        BY <2>1, <2>3, <3>1, <3>2, <3>3, <1>l DEF Promote
    <2>4. CASE Demote(r)
      <3>1. CASE /\ SetRole(Who(r), "member") /\ entitled' = entitled
                 /\ orderly' \in BOOLEAN /\ calm' \in BOOLEAN
                 /\ End(r, TRUE) \/ End(r, FALSE)
        BY <3>1, <1>r, <1>s DEF TypeOK, Roles
      <3>2. QED
        BY <2>4, <3>1, <1>l, <1>n DEF Demote, history, Trouble, TypeOK
    <2>5. CASE Persist(r)
      <3>1. /\ NewRole(job[r].kind, copy[r]) \in Roles
            /\ NewRole(job[r].kind, copy[r]) = "admin" => Target(r) \in entitled
        BY <2>5 DEF NewRole, Roles, Persist, CopyInv
      <3>2. CASE /\ SetRole(Target(r), NewRole(job[r].kind, copy[r]))
                 /\ entitled' = entitled
                 /\ orderly' \in BOOLEAN /\ calm' \in BOOLEAN
                 /\ End(r, TRUE) \/ End(r, FALSE)
        BY <3>1, <3>2, <1>r, <1>s DEF TypeOK
      <3>3. QED
        BY <2>5, <3>2, <1>l, <1>n DEF Persist, history, Trouble, TypeOK
    <2>6. QED
      BY <1>i, <2>2, <2>3, <2>4, <2>5 DEF Authorize
  <1>2. QED
    BY <1>1, <1>i DEF Authorize, Load, Promote, Demote, Persist

\* A dropped future, with or without the effect of its last query.
LEMMA DisconnectKeeps ==
  ASSUME RoleInv, NEW r \in Callers, Disconnect(r)
  PROVE  RoleInv'
  <1> USE DEF RoleInv
  <1>1. /\ Running(r) /\ LocalOK' /\ OthersStay(r) /\ pc'[r] = "idle"
        /\ calm' = FALSE /\ orderly' = orderly
    BY EndKeeps DEF Disconnect
  <1>2. Who(r) \in Names /\ Target(r) \in Names /\ copy[r] \in Roles \cup {"absent"}
    BY <1>1 DEF JobInv, Job, Who, Target, TypeOK
  <1>3. CASE UNCHANGED <<user, entitled>>
    BY <1>1, <1>3, StepKeeps DEF TypeOK
  <1>4. ASSUME NEW name \in Names, NEW role \in Roles \cup {"absent"}, SetRole(name, role),
               role = "admin" => name \in entitled', entitled \subseteq entitled',
               entitled' \subseteq Names
        PROVE  RoleInv'
    <2>1. /\ user' \in [Names -> Roles \cup {"absent"}]
          /\ \A n \in Names : user'[n] = "admin" => user[n] = "admin" \/ n \in entitled'
      BY <1>4 DEF SetRole, TypeOK
    <2>2. QED
      BY <1>1, <1>4, <2>1, StepKeeps DEF TypeOK
  <1>5. CASE pc[r] = "bootstrap" /\ SetRole(Who(r), "admin") /\ UNCHANGED entitled
    BY <1>2, <1>4, <1>5 DEF CopyInv, TypeOK, Roles
  <1>6. CASE pc[r] = "create" /\ SetRole(Who(r), copy[r]) /\ UNCHANGED entitled
    BY <1>2, <1>4, <1>6 DEF CopyInv, TypeOK
  <1>7. CASE /\ pc[r] = "promote" /\ SetRole(Target(r), "admin")
             /\ entitled' = IF Who(r) \in entitled THEN entitled \cup {Target(r)}
                                                   ELSE entitled
    <2>1. Who(r) \in entitled
      BY <1>7 DEF AdminsAreEntitled
    <2>2. QED
      BY <1>2, <1>4, <1>7, <2>1 DEF TypeOK, Roles
  <1>8. CASE pc[r] = "demote" /\ SetRole(Who(r), "member") /\ UNCHANGED entitled
    BY <1>2, <1>4, <1>8 DEF TypeOK, Roles
  <1>9. CASE /\ pc[r] = "persist" /\ UNCHANGED entitled
             /\ SetRole(Target(r), NewRole(job[r].kind, copy[r]))
    <2>1. /\ NewRole(job[r].kind, copy[r]) \in Roles
          /\ NewRole(job[r].kind, copy[r]) = "admin" => Target(r) \in entitled
      BY <1>9 DEF NewRole, Roles, CopyInv
    <2>2. QED
      BY <1>2, <1>4, <1>9, <2>1 DEF TypeOK
  <1>10. QED
    BY <1>3, <1>5, <1>6, <1>7, <1>8, <1>9 DEF Disconnect

-----------------------------------------------------------------------------
\* The invariant is inductive.
LEMMA RoleStep == RoleInv /\ [RoleNext]_roleVars => RoleInv'
  <1> SUFFICES ASSUME RoleInv, [RoleNext]_roleVars PROVE RoleInv'
    OBVIOUS
  <1>1. ASSUME NEW r \in Callers, NEW j \in Job, Arrive(r, j)
        PROVE  RoleInv'
    <2>1. LocalOK' /\ OthersStay(r) /\ pc'[r] = "find"
      BY <1>1, AdminAssumption
      DEF Arrive, RoleInv, TypeOK, LocalOK, JobInv, Running, OthersStay, Steps
    <2>2. UNCHANGED <<user, entitled>> /\ orderly' \in BOOLEAN /\ calm' \in BOOLEAN
      BY <1>1 DEF Arrive
    <2>3. QED
      BY <2>1, <2>2, StepKeeps DEF RoleInv, TypeOK
  <1>2. ASSUME NEW r \in Callers, ServerStep(r)
        PROVE  RoleInv'
    BY <1>2, EnsureUserKeeps, HandlerKeeps DEF ServerStep
  <1>3. ASSUME NEW r \in Callers, Disconnect(r)
        PROVE  RoleInv'
    BY <1>3, DisconnectKeeps
  <1>4. CASE UNCHANGED roleVars
    BY <1>4
    DEF roleVars, RoleInv, TypeOK, JobInv, AdminsAreEntitled, CopyInv, Admins, Running, Who,
        Target
  <1>5. QED
    BY <1>1, <1>2, <1>3, <1>4 DEF RoleNext

\* The inductive invariant of rows and requests.
THEOREM RoleInvariant == RoleSpec => []RoleInv
  BY RoleStarts, RoleStep, PTL DEF RoleSpec

\* Every variable keeps its type, and ensure_user is called MaxTries times at
\* most.
THEOREM RoleTypes == RoleSpec => []TypeOK
  BY RoleInvariant, PTL DEF RoleInv

\* Administrators got the role by right, however calls race and fail.
THEOREM AdminsAreEntitledHolds == RoleSpec => []AdminsAreEntitled
  BY RoleInvariant, PTL DEF RoleInv

-----------------------------------------------------------------------------
(* Orderly changes: what a change has read of the two roles is still so when *)
(* it writes, since visitors only ever make administrators.                  *)

Handling == {"load", "promote", "demote", "persist"}

\* What a request knows of itself.
Mine(r) ==
  /\ ~Running(r) => job[r] = NoJob
  /\ Running(r) => ~ok[r]
  /\ pc[r] \in Handling => Changes(r)
  /\ pc[r] = "count_admins" => copy[r] # "admin"
  /\ pc[r] \in {"promote", "demote"} => Target(r) # Who(r)

\* What an orderly change knows of the roles.
Current(r) ==
  /\ pc[r] \in Handling \/ (pc[r] = "authorize" /\ copy[r] = "admin") =>
       user[Who(r)] = "admin"
  /\ pc[r] = "demote" => user[Target(r)] = "admin"
  /\ pc[r] = "persist" /\ Target(r) = Who(r) => copy[r] = "admin"

OrderInv ==
  /\ \A r \in Callers : Mine(r)
  /\ orderly => \A q, r \in Callers :
       Changes(r) => Current(r) /\ (Changes(q) => q = r)

\* A step of one request keeps it, if the request is a change, or appoints
\* administrators only.
LEMMA OrderKeeps ==
  ASSUME TypeOK, OrderInv, NEW r \in Callers, OthersStay(r), Mine(r)',
         \A q \in Callers \ {r} : ok'[q] = ok[q],
         Changes(r)' => Changes(r),
         orderly' => orderly,
         orderly' /\ Changes(r)' => Current(r)',
         \/ Changes(r)
         \/ \A n \in Names : user[n] = "admin" => user'[n] = "admin",
         \A q \in Callers : Changes(q) => Who(q) \in Names /\ Target(q) \in Names
  PROVE  OrderInv'
  <1>1. \A q \in Callers \ {r} : Mine(q)'
    BY DEF OrderInv, Mine, OthersStay, Running, Changes, Target, Who
  <1>2. ASSUME orderly', NEW q \in Callers, Changes(q)'
        PROVE  Current(q)'
    <2>1. CASE q # r
      <3>1. Changes(q) /\ ~Changes(r) /\ Current(q)
        BY <1>2, <2>1 DEF Changes, OthersStay, OrderInv
      <3>2. QED
        BY <2>1, <3>1 DEF Current, OthersStay, Who, Target
    <2>2. QED
      BY <1>2, <2>1
  <1>3. ASSUME orderly', NEW p \in Callers, NEW q \in Callers, Changes(p)', Changes(q)'
        PROVE  p = q
    <2>1. Changes(p) /\ Changes(q)
      BY <1>3 DEF Changes, OthersStay
    <2>2. QED
      BY <1>3, <2>1 DEF OrderInv
  <1>4. QED
    BY <1>1, <1>2, <1>3 DEF OrderInv

\* The end of a request leaves it without a call.
LEMMA EndOrders ==
  ASSUME TypeOK, OrderInv, NEW r \in Callers, NEW success \in BOOLEAN, End(r, success),
         orderly' => orderly,
         \/ Changes(r)
         \/ \A n \in Names : user[n] = "admin" => user'[n] = "admin",
         \A q \in Callers : Changes(q) => Who(q) \in Names /\ Target(q) \in Names
  PROVE  OrderInv'
  <1>1. OthersStay(r) /\ \A q \in Callers \ {r} : ok'[q] = ok[q]
    BY DEF End, OthersStay, TypeOK
  <1>2. Mine(r)' /\ ~Changes(r)'
    BY DEF End, Mine, Changes, Running, Handling, NoJob, TypeOK, Kinds
  <1>3. QED
    BY <1>1, <1>2, OrderKeeps

\* Going on.
LEMMA GoToOrders ==
  ASSUME TypeOK, OrderInv, NEW r \in Callers, Running(r), NEW step \in Steps \ {"idle"},
         NEW role \in Roles \cup {"absent"}, GoTo(r, step, role),
         orderly' => orderly,
         \/ Changes(r)
         \/ \A n \in Names : user[n] = "admin" => user'[n] = "admin",
         \A q \in Callers : Changes(q) => Who(q) \in Names /\ Target(q) \in Names,
         step \in Handling => Changes(r),
         step = "count_admins" => role # "admin",
         step \in {"promote", "demote"} => Target(r) # Who(r),
         orderly' /\ (step \in Handling \/ (step = "authorize" /\ role = "admin")) =>
           user'[Who(r)] = "admin",
         orderly' /\ step = "demote" => user'[Target(r)] = "admin",
         orderly' /\ step = "persist" /\ Target(r) = Who(r) => role = "admin"
  PROVE  OrderInv'
  <1>1. OthersStay(r) /\ \A q \in Callers \ {r} : ok'[q] = ok[q]
    BY DEF GoTo, OthersStay, TypeOK
  <1>2. /\ pc'[r] = step /\ copy'[r] = role /\ job' = job /\ ok' = ok
    BY DEF GoTo, TypeOK
  <1>3. Mine(r)'
    BY <1>2 DEF OrderInv, Mine, Running, Changes, Target, Who
  <1>4. orderly' => Current(r)'
    BY <1>2 DEF Current, Who, Target
  <1>5. QED
    BY <1>1, <1>2, <1>3, <1>4, OrderKeeps DEF Changes

LEMMA OrderStep ==
  ASSUME RoleInv, OrderInv, [RoleNext]_roleVars
  PROVE  OrderInv'
  <1> USE DEF RoleInv
  <1>c. \A q \in Callers : Running(q) => Who(q) \in Names /\ Target(q) \in Names
    BY DEF JobInv, Job, Who, Target
  <1>d. \A q \in Callers : Changes(q) => Running(q)
    BY DEF OrderInv, Mine, Changes, NoJob, Kinds
  <1>n. \A q \in Callers : Changes(q) => Who(q) \in Names /\ Target(q) \in Names
    BY <1>c, <1>d
  <1>1. ASSUME NEW r \in Callers, NEW j \in Job, Arrive(r, j)
        PROVE  OrderInv'
    <2>1. /\ OthersStay(r) /\ \A q \in Callers \ {r} : ok'[q] = ok[q]
          /\ pc'[r] = "find" /\ job'[r] = j /\ ok'[r] = FALSE
          /\ UNCHANGED <<user, copy>>
      BY <1>1 DEF Arrive, OthersStay, TypeOK
    <2>2. \A q \in Callers : Mine(q)'
      BY <2>1 DEF OrderInv, Mine, OthersStay, Running, Changes, Target, Who, Handling
    <2>3. orderly' => orderly /\ (Changes(r)' => \A q \in Callers : ~Changes(q))
      BY <1>1, <2>1 DEF Arrive, Changes, Job
    <2>4. ASSUME orderly', NEW q \in Callers, Changes(q)'
          PROVE  Current(q)'
      BY <2>1, <2>3, <2>4 DEF OrderInv, Current, OthersStay, Who, Target, Changes, Handling
    <2>5. ASSUME orderly', NEW p \in Callers, NEW q \in Callers, Changes(p)', Changes(q)'
          PROVE  p = q
      BY <2>1, <2>3, <2>5 DEF OrderInv, OthersStay, Changes
    <2>6. QED
      BY <2>2, <2>4, <2>5 DEF OrderInv
  <1>2. ASSUME NEW r \in Callers, Unauthorized(r) \/ Lost(r), Running(r)
        PROVE  OrderInv'
    <2>0. UNCHANGED <<user, orderly>>
      BY <1>2 DEF Unauthorized, Lost, Trouble
    <2>1. CASE End(r, FALSE)
      BY <2>0, <2>1, <1>n, EndOrders
    <2>2. CASE /\ tries[r] < MaxTries
               /\ pc' = [pc EXCEPT ![r] = "find"]
               /\ copy' = [copy EXCEPT ![r] = "absent"]
               /\ tries' = [tries EXCEPT ![r] = @ + 1]
               /\ UNCHANGED <<job, ok>> /\ Trouble /\ UNCHANGED user
      <3>1. /\ OthersStay(r) /\ pc'[r] = "find" /\ UNCHANGED <<job, ok, user, orderly>>
        BY <2>2 DEF OthersStay, TypeOK, Trouble
      <3>2. Mine(r)' /\ Current(r)'
        BY <1>2, <3>1 DEF OrderInv, Mine, Current, Running, Handling
      <3>3. QED
        BY <3>1, <3>2, <1>n, OrderKeeps DEF Changes
    <2>3. QED
      BY <1>2, <2>1, <2>2 DEF Unauthorized, Lost
  <1>3. ASSUME NEW r \in Callers, Find(r)
        PROVE  OrderInv'
    <2>1. Running(r) /\ user[Who(r)] \in Roles \cup {"absent"} /\ job[r] \in Job
      BY <1>3, <1>c DEF Find, Running, TypeOK, JobInv
    <2>2. CASE /\ GoTo(r, "authorize", user[Who(r)]) /\ UNCHANGED <<user, history>>
      BY <2>1, <2>2, <1>n, GoToOrders DEF history, Steps, Handling
    <2>3. CASE /\ user[Who(r)] \in {"member", "mod"}
               /\ GoTo(r, "count_admins", user[Who(r)]) /\ UNCHANGED <<user, history>>
      BY <2>1, <2>3, <1>n, GoToOrders DEF history, Steps, Handling
    <2>4. CASE GoTo(r, "count_users", user[Who(r)]) /\ UNCHANGED <<user, history>>
      BY <2>1, <2>4, <1>n, GoToOrders DEF history, Steps, Handling
    <2>5. CASE /\ job[r].claim # "none" /\ GoTo(r, "create", job[r].claim)
               /\ UNCHANGED <<user, orderly, calm>>
      <3>1. job[r].claim \in Roles
        BY <2>1, <2>5, AdminAssumption DEF Job
      <3>2. QED
        BY <2>1, <2>5, <3>1, <1>n, GoToOrders DEF Steps, Handling
    <2>6. QED
      BY <1>3, <2>1, <2>2, <2>3, <2>4, <2>5, <1>2 DEF Find
  <1>4. ASSUME NEW r \in Callers, CountAdmins(r)
        PROVE  OrderInv'
    <2>1. Running(r) /\ copy[r] \in Roles \cup {"absent"} /\ copy[r] # "admin"
      BY <1>4 DEF CountAdmins, Running, TypeOK, OrderInv, Mine
    <2>2. ASSUME NEW step \in {"bootstrap", "authorize"}, GoTo(r, step, copy[r]),
                 UNCHANGED <<user, orderly>>
          PROVE  OrderInv'
      BY <2>1, <2>2, <1>n, GoToOrders DEF Steps, Handling
    <2>3. QED
      BY <1>4, <2>1, <2>2, <1>2 DEF CountAdmins, Misread, history
  <1>5. ASSUME NEW r \in Callers, Bootstrap(r)
        PROVE  OrderInv'
    <2>1. Running(r)
      BY <1>5 DEF Bootstrap, Running
    <2>2. CASE user' = [user EXCEPT ![Who(r)] = "admin"]
      <3>1. /\ user'[Who(r)] = "admin"
            /\ \A n \in Names : user[n] = "admin" => user'[n] = "admin"
        BY <2>1, <2>2, <1>c DEF TypeOK
      <3>2. CASE GoTo(r, "authorize", "admin") /\ UNCHANGED history
        BY <2>1, <3>1, <3>2, <1>n, GoToOrders DEF history, Steps, Handling, Roles
      <3>3. CASE End(r, FALSE) /\ Trouble
        BY <3>1, <3>3, <1>n, EndOrders DEF Trouble
      <3>4. QED
        BY <1>5, <2>1, <3>2, <3>3, <1>2 DEF Bootstrap
    <2>3. QED
      BY <1>5, <2>1, <2>2, <1>2 DEF Bootstrap
  <1>6. ASSUME NEW r \in Callers, CountUsers(r)
        PROVE  OrderInv'
    <2>1. Running(r)
      BY <1>6 DEF CountUsers, Running
    <2>2. ASSUME NEW role \in {"admin", "member"}, GoTo(r, "create", role),
                 UNCHANGED <<user, orderly>>
          PROVE  OrderInv'
      BY <2>1, <2>2, <1>n, GoToOrders DEF Steps, Handling, Roles
    <2>3. QED
      BY <1>6, <2>1, <2>2, <1>2 DEF CountUsers, Misread, history
  <1>7. ASSUME NEW r \in Callers, Create(r)
        PROVE  OrderInv'
    <2>1. Running(r) /\ copy[r] \in Roles \cup {"absent"}
      BY <1>7 DEF Create, Running, TypeOK
    <2>2. CASE user[Who(r)] = "absent" /\ user' = [user EXCEPT ![Who(r)] = copy[r]]
      <3>1. /\ user'[Who(r)] = copy[r]
            /\ \A n \in Names : user[n] = "admin" => user'[n] = "admin"
        BY <2>1, <2>2, <1>c DEF TypeOK
      <3>2. CASE GoTo(r, "authorize", copy[r]) /\ UNCHANGED history
        BY <2>1, <3>1, <3>2, <1>n, GoToOrders DEF history, Steps, Handling
      <3>3. CASE End(r, FALSE) /\ Trouble
        BY <3>1, <3>3, <1>n, EndOrders DEF Trouble
      <3>4. QED
        BY <1>7, <2>1, <2>2, <3>2, <3>3, <1>2 DEF Create
    <2>3. CASE End(r, FALSE) /\ UNCHANGED <<user, history>>
      BY <2>3, <1>n, EndOrders DEF history
    <2>4. QED
      BY <1>7, <2>1, <2>2, <2>3, <1>2 DEF Create
  <1>8. ASSUME NEW r \in Callers, Authorize(r)
        PROVE  OrderInv'
    <2>1. CASE Changes(r) /\ copy[r] = "admin" /\ GoTo(r, "load", copy[r])
      <3>1. orderly => user[Who(r)] = "admin"
        BY <1>8, <2>1 DEF Authorize, OrderInv, Current
      <3>2. UNCHANGED <<user, history>>
        BY <1>8 DEF Authorize
      <3>3. QED
        BY <2>1, <3>1, <3>2, <1>n, <1>d, GoToOrders DEF history, Steps, Handling, Roles
    <2>2. QED
      BY <1>8, <2>1, <1>n, EndOrders DEF Authorize, history
  <1>9. ASSUME NEW r \in Callers, Load(r)
        PROVE  OrderInv'
    <2>1. /\ Running(r) /\ Changes(r) /\ user[Target(r)] \in Roles \cup {"absent"}
          /\ orderly => user[Who(r)] = "admin"
      BY <1>9, <1>c DEF Load, Running, OrderInv, Mine, Current, Handling, TypeOK
    <2>2. ASSUME NEW step \in {"promote", "persist"}, GoTo(r, step, user[Target(r)]),
                 step = "promote" => Target(r) # Who(r), UNCHANGED <<user, history>>
          PROVE  OrderInv'
      BY <2>1, <2>2, <1>n, GoToOrders DEF history, Steps, Handling
    <2>3. CASE End(r, FALSE) /\ UNCHANGED <<user, history>>
      BY <2>3, <1>n, EndOrders DEF history
    <2>4. CASE Lost(r)
      BY <2>1, <2>4, <1>2
    <2>5. QED
      BY <1>9, <2>2, <2>3, <2>4 DEF Load
  <1>10. ASSUME NEW r \in Callers, Promote(r)
         PROVE  OrderInv'
    <2>1. /\ Running(r) /\ Changes(r) /\ Target(r) # Who(r)
          /\ copy[r] \in Roles \cup {"absent"}
          /\ orderly => user[Who(r)] = "admin"
      BY <1>10 DEF Promote, Running, OrderInv, Mine, Current, Handling, TypeOK
    <2>2. CASE SetRole(Target(r), "admin") /\ GoTo(r, "demote", copy[r]) /\ UNCHANGED orderly
      <3>1. /\ user'[Target(r)] = "admin"
            /\ orderly => user'[Who(r)] = "admin"
        BY <2>1, <2>2, <1>c DEF SetRole, TypeOK
      <3>2. QED
        BY <2>1, <2>2, <3>1, <1>n, GoToOrders DEF Steps, Handling
    <2>3. CASE GoTo(r, "demote", copy[r]) /\ Unnoticed
      BY <2>1, <2>3, <1>n, GoToOrders DEF Steps, Handling, Unnoticed
    <2>4. CASE End(r, FALSE) /\ UNCHANGED orderly
      BY <2>1, <2>4, <1>n, EndOrders
    <2>5. QED
      BY <1>10, <2>1, <2>2, <2>3, <2>4, <1>2 DEF Promote
  <1>11. ASSUME NEW r \in Callers, Demote(r) \/ Persist(r)
         PROVE  OrderInv'
    <2>1. Changes(r) /\ Running(r)
      BY <1>11 DEF Demote, Persist, OrderInv, Mine, Handling, Running
    <2>2. ASSUME NEW success \in BOOLEAN, End(r, success), orderly' => orderly
          PROVE  OrderInv'
      BY <2>1, <2>2, <1>n, EndOrders
    <2>3. CASE Lost(r)
      BY <2>1, <2>3, <1>2
    <2>4. CASE ~Lost(r)
      <3>1. /\ End(r, TRUE) \/ End(r, FALSE)
            /\ orderly' => orderly
        <4>1. \/ End(r, TRUE) /\ (UNCHANGED history \/ Unnoticed)
              \/ End(r, FALSE) /\ Trouble
          BY <1>11, <2>4, Zenon DEF Demote, Persist
        <4>2. orderly' => orderly
          BY <4>1 DEF Trouble, Unnoticed, history
        <4>3. QED
          BY <4>1, <4>2, Zenon
      <3>2. QED
        BY <3>1, <2>2
    <2>5. QED
      BY <2>3, <2>4
  <1>12. ASSUME NEW r \in Callers, Disconnect(r)
         PROVE  OrderInv'
    <2>1. \/ Changes(r)
          \/ \A n \in Names : user[n] = "admin" => user'[n] = "admin"
      BY <1>12, <1>c DEF Disconnect, SetRole, TypeOK, OrderInv, Mine, Handling
    <2>2. QED
      BY <1>12, <2>1, <1>n, EndOrders DEF Disconnect
  <1>13. CASE UNCHANGED roleVars
    BY <1>13 DEF roleVars, OrderInv, Mine, Current, Running, Changes, Who, Target
  <1>14. QED
    BY <1>1, <1>3, <1>4, <1>5, <1>6, <1>7, <1>8, <1>9, <1>10, <1>11, <1>12, <1>13
    DEF RoleNext, ServerStep

LEMMA OrderInit == RoleInit => OrderInv
  BY DEF RoleInit, OrderInv, Mine, Running, Handling, Changes, Kinds, NoJob

\* The inductive invariant of orderly changes.
THEOREM OrderInvariant == RoleSpec => []OrderInv
  BY RoleInvariant, OrderInit, OrderStep, PTL DEF RoleSpec

\* The forum does not lose its last administrator: transfer_admin promotes the
\* target before it demotes the caller, and whoever writes a row back has seen
\* who is administrator in it.
LEMMA RemainStep ==
  ASSUME RoleInv, OrderInv, [RoleNext]_roleVars, orderly', Admins # {}
  PROVE  Admins' # {}
  <1>1. PICK a \in Names : user[a] = "admin"
    BY DEF Admins
  <1> SUFFICES \E n \in Names : user'[n] = "admin"
    BY DEF Admins
  <1>c. \A q \in Callers : Running(q) => Who(q) \in Names /\ Target(q) \in Names
    BY DEF RoleInv, JobInv, Job, Who, Target
  <1>2. CASE UNCHANGED user
    BY <1>1, <1>2
  <1>3. ASSUME NEW r \in Callers, pc[r] = "demote", SetRole(Who(r), "member"), orderly
        PROVE  user'[Target(r)] = "admin" /\ Target(r) \in Names
    <2>1. /\ Target(r) # Who(r) /\ Target(r) \in Names /\ Changes(r)
      BY <1>3, <1>c DEF OrderInv, Mine, Handling, Running
    <2>2. user[Target(r)] = "admin"
      BY <1>3, <2>1 DEF OrderInv, Current
    <2>3. QED
      BY <1>3, <2>1, <2>2 DEF SetRole, RoleInv, TypeOK
  <1>4. ASSUME NEW r \in Callers, pc[r] = "persist", orderly,
               SetRole(Target(r), NewRole(job[r].kind, copy[r]))
        PROVE  user'[Who(r)] = "admin" /\ Who(r) \in Names
    <2>1. Who(r) \in Names /\ Changes(r)
      BY <1>4, <1>c DEF OrderInv, Mine, Handling, Running
    <2>2. user[Who(r)] = "admin" /\ (Target(r) = Who(r) => copy[r] = "admin")
      BY <1>4, <2>1 DEF OrderInv, Current, Handling
    <2>3. QED
      BY <1>4, <2>1, <2>2 DEF SetRole, NewRole, RoleInv, TypeOK
  <1>5. ASSUME NEW n \in Names, user' = [user EXCEPT ![n] = "admin"]
        PROVE  user'[n] = "admin"
    BY <1>5 DEF RoleInv, TypeOK
  <1>6. ASSUME NEW n \in Names, user[n] = "absent", NEW role, user' = [user EXCEPT ![n] = role]
        PROVE  user'[a] = "admin"
    BY <1>1, <1>6 DEF RoleInv, TypeOK
  <1>7. ASSUME NEW r \in Callers, ServerStep(r)
        PROVE  \E n \in Names : user'[n] = "admin"
    <2>1. Running(r)
      BY <1>7 DEF ServerStep, Find, CountAdmins, Bootstrap, CountUsers, Create, Authorize,
        Load, Promote, Demote, Persist, Running
    <2>2. CASE Bootstrap(r)
      BY <2>1, <2>2, <1>c, <1>2, <1>5 DEF Bootstrap, Unauthorized, Lost
    <2>3. CASE Create(r)
      BY <2>1, <2>3, <1>c, <1>2, <1>6 DEF Create, Unauthorized, Lost
    <2>4. CASE Promote(r)
      BY <2>1, <2>4, <1>c, <1>2, <1>5 DEF Promote, SetRole, Unnoticed, Lost
    <2>5. CASE Demote(r)
      BY <2>5, <1>3, <1>2 DEF Demote, Unnoticed, Lost, Trouble, history
    <2>6. CASE Persist(r)
      BY <2>6, <1>4, <1>2 DEF Persist, Unnoticed, Lost, Trouble, history
    <2>7. QED
      BY <1>7, <2>2, <2>3, <2>4, <2>5, <2>6, <1>2 DEF ServerStep, Find, CountAdmins,
        CountUsers, Authorize, Load, Misread, Unauthorized, Lost
  <1>8. ASSUME NEW r \in Callers, Disconnect(r)
        PROVE  \E n \in Names : user'[n] = "admin"
    <2>1. Running(r) /\ orderly
      BY <1>8 DEF Disconnect
    <2>2. QED
      BY <1>8, <2>1, <1>c, <1>2, <1>3, <1>4, <1>5, <1>6 DEF Disconnect, SetRole
  <1>9. QED
    BY <1>2, <1>7, <1>8 DEF RoleNext, Arrive, roleVars

\* The last administrator remains as long as changes do not overlap and no
\* failure goes unnoticed, whatever fails, leaves or visits.
THEOREM AdminRemainsHolds == RoleSpec => AdminRemains
  <1>1. RoleInv /\ OrderInv /\ [RoleNext]_roleVars => [orderly' /\ Admins # {} => Admins' # {}]_roleVars
    BY RemainStep
  <1>2. QED
    BY <1>1, RoleInvariant, OrderInvariant, PTL DEF RoleSpec, AdminRemains

\* What an orderly transfer that is answered ok leaves behind.
LEMMA HandOverStep ==
  ASSUME RoleInv, OrderInv, [RoleNext]_roleVars, NEW r \in Callers,
         orderly', pc[r] = "demote", ok'[r]
  PROVE  user'[Target(r)] = "admin" /\ user'[Who(r)] # "admin"
  <1>1. /\ ~ok[r] /\ Changes(r) /\ Target(r) # Who(r) /\ Running(r)
        /\ Who(r) \in Names /\ Target(r) \in Names
    BY DEF OrderInv, Mine, Handling, Running, RoleInv, JobInv, Job, Who, Target
  <1>2. ASSUME NEW q \in Callers, NEW j \in Job, Arrive(q, j)
        PROVE  FALSE
    BY <1>1, <1>2 DEF Arrive, RoleInv, TypeOK, Running
  <1>3. ASSUME NEW q \in Callers, q # r, ServerStep(q) \/ Disconnect(q)
        PROVE  FALSE
    <2>1. \/ UNCHANGED ok
          \/ \E success : ok' = [ok EXCEPT ![q] = success]
      <3>1. CASE Find(q) \/ CountAdmins(q) \/ Bootstrap(q) \/ CountUsers(q) \/ Create(q)
        BY <3>1 DEF Find, CountAdmins, Bootstrap, CountUsers, Create, Unauthorized, Lost,
          GoTo, End
      <3>2. CASE Authorize(q) \/ Load(q) \/ Promote(q) \/ Demote(q) \/ Persist(q)
        BY <3>2 DEF Authorize, Load, Promote, Demote, Persist, Lost, GoTo, End
      <3>3. CASE Disconnect(q)
        BY <3>3 DEF Disconnect, End
      <3>4. QED
        BY <1>3, <3>1, <3>2, <3>3 DEF ServerStep
    <2>2. QED
      BY <1>1, <1>3, <2>1 DEF RoleInv, TypeOK
  <1>4. ASSUME Disconnect(r)
        PROVE  FALSE
    BY <1>4 DEF Disconnect, End, RoleInv, TypeOK
  <1>5. ASSUME ServerStep(r)
        PROVE  SetRole(Who(r), "member") /\ orderly
    <2>1. Demote(r)
      BY <1>5 DEF ServerStep, Find, CountAdmins, Bootstrap, CountUsers, Create, Authorize,
        Load, Promote, Persist
    <2>2. ~End(r, FALSE)
      BY DEF End, RoleInv, TypeOK
    <2>3. QED
      BY <2>1, <2>2 DEF Demote, Unnoticed, Lost, history
  <1>6. ASSUME SetRole(Who(r), "member"), orderly
        PROVE  user'[Target(r)] = "admin" /\ user'[Who(r)] # "admin"
    <2>1. user[Target(r)] = "admin"
      BY <1>1, <1>6 DEF OrderInv, Current
    <2>2. QED
      BY <1>1, <1>6, <2>1 DEF SetRole, RoleInv, TypeOK
  <1>7. CASE UNCHANGED roleVars
    BY <1>1, <1>7 DEF roleVars
  <1>8. QED
    BY <1>2, <1>3, <1>4, <1>5, <1>6, <1>7 DEF RoleNext

\* A transfer that is answered ok has handed the role over, unless another
\* change was under way or a failure went unnoticed.
THEOREM TransferHandsOverHolds == RoleSpec => TransferHandsOver
  <1>1. RoleInv /\ OrderInv /\ [RoleNext]_roleVars =>
          [\A r \in Callers :
             orderly' /\ pc[r] = "demote" /\ ok'[r] =>
               /\ user'[Target(r)] = "admin"
               /\ user'[Who(r)] # "admin"]_roleVars
    BY HandOverStep
  <1>2. QED
    BY <1>1, RoleInvariant, OrderInvariant, PTL DEF RoleSpec, TransferHandsOver

-----------------------------------------------------------------------------
(* Calls one after another.  In a calm history one request runs at a time,   *)
(* and what it has found out about the forum is still so when it writes.     *)

\* No token makes an administrator of a user on his first visit.
NoAdminClaims == "admin" \notin Claims

\* What a request that runs alone knows.
Alone(r) ==
  /\ pc[r] = "bootstrap" \/ (pc[r] = "create" /\ copy[r] = "admin") => Admins = {}
  /\ pc[r] = "persist" /\ copy[r] = "admin" => user[Target(r)] = "admin"

\* There are two administrators only between the two queries of a transfer.
OneAdminOrHandingOver ==
  \A m, n \in Admins :
    m = n \/ \E r \in Callers : pc[r] = "demote" /\ {m, n} = {Who(r), Target(r)}

CalmInv ==
  calm =>
    /\ orderly
    /\ \A q, r \in Callers : Running(r) => Alone(r) /\ (Running(q) => q = r)
    /\ OneAdminOrHandingOver

LEMMA CalmInit == RoleInit => CalmInv
  BY DEF RoleInit, CalmInv, OneAdminOrHandingOver, Running, Admins

\* A step of the only request that runs keeps it.
LEMMA CalmKeeps ==
  ASSUME CalmInv, calm, orderly', NEW r \in Callers, Running(r), OthersStay(r),
         Alone(r)', OneAdminOrHandingOver'
  PROVE  CalmInv'
  <1>1. \A q \in Callers : Running(q)' => q = r
    BY DEF CalmInv, OthersStay, Running
  <1>2. QED
    BY <1>1 DEF CalmInv

\* Reading leaves the administrators alone.
LEMMA ReadingIsCalm ==
  ASSUME TypeOK, CalmInv, calm, NEW r \in Callers, Running(r), pc[r] # "demote",
         NEW step \in Steps, NEW role \in Roles \cup {"absent"}, GoTo(r, step, role),
         UNCHANGED <<user, orderly>>,
         step = "bootstrap" \/ (step = "create" /\ role = "admin") => Admins = {},
         step = "persist" /\ role = "admin" => user[Target(r)] = "admin"
  PROVE  CalmInv'
  <1>1. OthersStay(r) /\ pc'[r] = step /\ copy'[r] = role /\ job' = job /\ Admins' = Admins
    BY DEF GoTo, OthersStay, TypeOK, Admins
  <1>2. \A m, n \in Admins : m = n
    BY DEF CalmInv, OneAdminOrHandingOver, Running
  <1>3. Alone(r)' /\ OneAdminOrHandingOver' /\ orderly'
    BY <1>1, <1>2 DEF Alone, OneAdminOrHandingOver, Target, CalmInv
  <1>4. QED
    BY <1>1, <1>3, CalmKeeps

\* The end of the request, when one administrator is left at most.
LEMMA EndIsCalm ==
  ASSUME TypeOK, CalmInv, calm, NEW r \in Callers, Running(r),
         NEW success, End(r, success), UNCHANGED orderly,
         \A m, n \in Admins' : m = n
  PROVE  CalmInv'
  <1>1. OthersStay(r) /\ pc'[r] = "idle"
    BY DEF End, OthersStay, TypeOK
  <1>2. Alone(r)' /\ OneAdminOrHandingOver' /\ orderly'
    BY <1>1 DEF Alone, OneAdminOrHandingOver, CalmInv
  <1>3. QED
    BY <1>1, <1>2, CalmKeeps

LEMMA CalmStep ==
  ASSUME NoAdminClaims, RoleInv, OrderInv, CalmInv, [RoleNext]_roleVars
  PROVE  CalmInv'
  <1> SUFFICES ASSUME calm'
               PROVE  CalmInv'
    BY DEF CalmInv
  <1> USE DEF RoleInv
  <1>c. \A q \in Callers : Running(q) =>
          Who(q) \in Names /\ Target(q) \in Names /\ job[q] \in Job
    BY DEF JobInv, Job, Who, Target
  <1>t. \A q \in Callers : copy[q] \in Roles \cup {"absent"}
    BY DEF TypeOK
  <1>s. ASSUME calm, NEW r \in Callers, Running(r), pc[r] # "demote"
        PROVE  \A m, n \in Admins : m = n
    BY <1>s DEF CalmInv, OneAdminOrHandingOver, Running
  <1>u. UNCHANGED user => Admins' = Admins
    BY DEF Admins
  <1>1. ASSUME NEW r \in Callers, NEW j \in Job, Arrive(r, j)
        PROVE  CalmInv'
    <2>1. /\ calm /\ \A q \in Callers : ~Running(q)
          /\ OthersStay(r) /\ pc'[r] = "find" /\ Admins' = Admins
      BY <1>1, <1>u DEF Arrive, OthersStay, TypeOK
    <2>2. (\A m, n \in Admins : m = n) /\ orderly
      BY <2>1 DEF CalmInv, OneAdminOrHandingOver, Running
    <2>3. orderly'
      <3>1. \A q \in Callers : ~Changes(q)
        BY <2>1 DEF OrderInv, Mine, Changes, NoJob, Kinds
      <3>2. QED
        BY <1>1, <2>2, <3>1 DEF Arrive
    <2>4. \A q \in Callers : Running(q)' => q = r
      BY <2>1 DEF OthersStay, Running
    <2>5. Alone(r)' /\ OneAdminOrHandingOver'
      BY <2>1, <2>2 DEF Alone, OneAdminOrHandingOver
    <2>6. QED
      BY <2>3, <2>4, <2>5 DEF CalmInv
  <1>2. ASSUME NEW r \in Callers, Unauthorized(r) \/ Lost(r)
        PROVE  FALSE
    BY <1>2 DEF Unauthorized, Lost, Trouble
  <1>3. ASSUME NEW r \in Callers, Find(r)
        PROVE  CalmInv'
    <2>1. /\ Running(r) /\ user[Who(r)] \in Roles \cup {"absent"} /\ pc[r] # "demote"
          /\ UNCHANGED <<user, orderly, calm>>
      BY <1>3, <1>2, <1>c DEF Find, Running, TypeOK, history
    <2>2. CASE \E step \in {"authorize", "count_admins", "count_users"} :
                 GoTo(r, step, user[Who(r)])
      BY <2>1, <2>2, ReadingIsCalm DEF Steps
    <2>3. CASE job[r].claim # "none" /\ GoTo(r, "create", job[r].claim)
      <3>1. job[r].claim \in Roles /\ job[r].claim # "admin"
        BY <2>1, <2>3, <1>c, AdminAssumption DEF Job, NoAdminClaims
      <3>2. QED
        BY <2>1, <2>3, <3>1, ReadingIsCalm DEF Steps
    <2>4. QED
      BY <1>3, <2>2, <2>3, <1>2 DEF Find
  <1>4. ASSUME NEW r \in Callers, CountAdmins(r)
        PROVE  CalmInv'
    <2>1. /\ Running(r) /\ pc[r] # "demote"
          /\ \/ Admins = {} /\ GoTo(r, "bootstrap", copy[r])
             \/ GoTo(r, "authorize", copy[r])
          /\ UNCHANGED <<user, orderly, calm>>
      BY <1>4, <1>2 DEF CountAdmins, Running, Misread, history
    <2>2. QED
      BY <2>1, <1>t, ReadingIsCalm DEF Steps
  <1>5. ASSUME NEW r \in Callers, CountUsers(r)
        PROVE  CalmInv'
    <2>1. /\ Running(r) /\ pc[r] # "demote"
          /\ \/ Admins = {} /\ GoTo(r, "create", "admin")
             \/ GoTo(r, "create", "member")
          /\ UNCHANGED <<user, orderly, calm>>
      BY <1>5, <1>2 DEF CountUsers, Running, Misread, history, Admins
    <2>2. QED
      BY <2>1, ReadingIsCalm DEF Steps, Roles
  <1>6. ASSUME NEW r \in Callers, Bootstrap(r) \/ Create(r)
        PROVE  CalmInv'
    <2>1. /\ Running(r) /\ pc[r] # "demote" /\ UNCHANGED <<orderly, calm>>
      BY <1>6, <1>2 DEF Bootstrap, Create, Running, Trouble, history
    <2>2. CASE UNCHANGED user /\ End(r, FALSE)
      BY <2>1, <2>2, <1>s, <1>u, EndIsCalm
    <2>3. ASSUME NEW role \in Roles \cup {"absent"}, user' = [user EXCEPT ![Who(r)] = role],
                 GoTo(r, "authorize", role), role = "admin" => Admins = {}
          PROVE  CalmInv'
      <3>1. \A m, n \in Admins' : m = n
        BY <2>1, <2>3, <1>s, <1>c DEF Admins, TypeOK
      <3>2. OthersStay(r) /\ pc'[r] = "authorize"
        BY <2>3 DEF GoTo, OthersStay, TypeOK
      <3>3. Alone(r)' /\ OneAdminOrHandingOver' /\ orderly'
        BY <2>1, <3>1, <3>2 DEF Alone, OneAdminOrHandingOver, CalmInv
      <3>4. QED
        BY <2>1, <3>2, <3>3, CalmKeeps
    <2>4. CASE Bootstrap(r)
      <3>1. Admins = {}
        BY <2>1, <2>4 DEF CalmInv, Alone, Bootstrap
      <3>2. QED
        BY <2>3, <2>4, <3>1, <1>2 DEF Bootstrap, Trouble, Roles
    <2>5. CASE Create(r)
      <3>1. copy[r] = "admin" => Admins = {}
        BY <2>1, <2>5 DEF CalmInv, Alone, Create
      <3>2. QED
        BY <2>2, <2>3, <2>5, <3>1, <1>2, <1>t DEF Create, Trouble
    <2>6. QED
      BY <1>6, <2>4, <2>5
  <1>7. ASSUME NEW r \in Callers, Authorize(r) \/ Load(r)
        PROVE  CalmInv'
    <2>1. /\ Running(r) /\ pc[r] # "demote" /\ UNCHANGED <<user, orderly, calm>>
      BY <1>7, <1>2 DEF Authorize, Load, Running, history
    <2>2. CASE \E success \in BOOLEAN : End(r, success)
      BY <2>1, <2>2, <1>s, <1>u, EndIsCalm
    <2>3. CASE GoTo(r, "load", copy[r])
      BY <2>1, <2>3, <1>t, ReadingIsCalm DEF Steps
    <2>4. CASE \E step \in {"promote", "persist"} : GoTo(r, step, user[Target(r)])
      <3>1. user[Target(r)] \in Roles \cup {"absent"}
        BY <2>1, <1>c DEF TypeOK
      <3>2. QED
        BY <2>1, <2>4, <3>1, ReadingIsCalm DEF Steps
    <2>5. QED
      BY <1>7, <2>2, <2>3, <2>4, <1>2 DEF Authorize, Load
  <1>8. ASSUME NEW r \in Callers, Promote(r)
        PROVE  CalmInv'
    <2>1. /\ Running(r) /\ Changes(r) /\ pc[r] # "demote"
          /\ SetRole(Target(r), "admin") /\ GoTo(r, "demote", copy[r])
          /\ UNCHANGED <<orderly, calm>>
      BY <1>8, <1>2 DEF Promote, Running, Unnoticed, OrderInv, Mine, Handling
    <2>2. user[Who(r)] = "admin" /\ Who(r) \in Names
      BY <1>8, <2>1, <1>c DEF Promote, CalmInv, OrderInv, Current, Handling
    <2>3. /\ OthersStay(r) /\ pc'[r] = "demote" /\ job' = job
      BY <2>1 DEF GoTo, OthersStay, TypeOK
    <2>4. \A m \in Admins' : m \in {Who(r), Target(r)}
      BY <2>1, <2>2, <1>s DEF SetRole, Admins, TypeOK
    <2>5. Alone(r)' /\ OneAdminOrHandingOver' /\ orderly'
      BY <2>1, <2>3, <2>4 DEF Alone, OneAdminOrHandingOver, Who, Target, CalmInv
    <2>6. QED
      BY <2>1, <2>3, <2>5, CalmKeeps
  <1>9. ASSUME NEW r \in Callers, Demote(r)
        PROVE  CalmInv'
    <2>1. /\ Running(r) /\ pc[r] = "demote" /\ SetRole(Who(r), "member")
          /\ End(r, TRUE) /\ UNCHANGED <<orderly, calm>>
      BY <1>9, <1>2 DEF Demote, Running, Trouble, Unnoticed, history
    <2>2. Admins' = Admins \ {Who(r)}
      BY <2>1, <1>c DEF SetRole, Admins, TypeOK
    <2>3. \A m, n \in Admins : m = n \/ {m, n} = {Who(r), Target(r)}
      BY <2>1 DEF CalmInv, OneAdminOrHandingOver, Running
    <2>4. \A m, n \in Admins' : m = n
      BY <2>2, <2>3
    <2>5. QED
      BY <2>1, <2>4, EndIsCalm
  <1>10. ASSUME NEW r \in Callers, Persist(r)
         PROVE  CalmInv'
    <2>1. /\ Running(r) /\ pc[r] = "persist" /\ End(r, TRUE) /\ UNCHANGED <<orderly, calm>>
          /\ SetRole(Target(r), NewRole(job[r].kind, copy[r]))
      BY <1>10, <1>2 DEF Persist, Running, Trouble, Unnoticed, history
    <2>2. copy[r] = "admin" => user[Target(r)] = "admin"
      BY <2>1 DEF CalmInv, Alone
    <2>3. Admins' \subseteq Admins
      BY <2>1, <2>2, <1>c DEF SetRole, NewRole, Admins, TypeOK
    <2>4. QED
      BY <2>1, <2>3, <1>s, EndIsCalm
  <1>11. ASSUME NEW r \in Callers, Disconnect(r)
         PROVE  FALSE
    BY <1>11 DEF Disconnect
  <1>12. CASE UNCHANGED roleVars
    BY <1>12 DEF roleVars, CalmInv, OneAdminOrHandingOver, Alone, Running, Admins, Who, Target
  <1>13. QED
    BY <1>1, <1>3, <1>4, <1>5, <1>6, <1>7, <1>8, <1>9, <1>10, <1>11, <1>12
    DEF RoleNext, ServerStep

\* Calls one after another, without failures and without tokens that claim the
\* role, never leave two administrators.
THEOREM AtMostOneAdminHolds ==
  ASSUME NoAdminClaims
  PROVE  RoleSpec => []AtMostOneAdmin
  <1>1. CalmInv => AtMostOneAdmin
    <2> SUFFICES ASSUME CalmInv, calm, \A r \in Callers : ~Running(r)
                 PROVE  Cardinality(Admins) <= 1
      BY DEF AtMostOneAdmin
    <2>1. \A m, n \in Admins : m = n
      BY DEF CalmInv, OneAdminOrHandingOver, Running
    <2>2. CASE Admins = {}
      BY <2>2, FS_EmptySet
    <2>3. ASSUME NEW a \in Admins
          PROVE  Cardinality(Admins) <= 1
      <3>1. Admins = {a}
        BY <2>1
      <3>2. Cardinality(Admins) = 1
        BY <3>1, FS_Singleton
      <3>3. QED
        BY <3>2
    <2>4. QED
      BY <2>2, <2>3
  <1>2. RoleInv /\ OrderInv /\ CalmInv /\ [RoleNext]_roleVars => CalmInv'
    BY CalmStep
  <1>3. QED
    BY <1>1, <1>2, CalmInit, RoleInvariant, OrderInvariant, PTL DEF RoleSpec
-----------------------------------------------------------------------------
(***************************************************************************)
(* The other half: module Membership, for any members, requests and        *)
(* faults.                                                                 *)
(***************************************************************************)

(* Role, permissions and groups of a row go together, unless they go back   *)
(* to a token.                                                              *)
RowAgrees(row, has) ==
  /\ row = [role |-> row.role, permissions |-> row.permissions, primary |-> row.primary,
            additional |-> row.additional, claimed |-> row.claimed]
  /\ \/ row.claimed
     \/ /\ row.role = "mod" => "moderate_forum" \in row.permissions
        /\ row.role = "admin" <=> "manage_boards" \in row.permissions
        /\ has /\ "moderate_forum" \in row.permissions =>
             row.primary = 2 \/ 2 \in row.additional

IsRecord(record) ==
  record = [primary |-> record.primary, additional |-> record.additional]

(* A request, as far as it matters for rows and for the role of another     *)
(* service, and what the removal of a member has seen.                      *)
IsRequest(rq, has) ==
  \/ rq = Idle
  \/ /\ rq.stage \in {"groups", "update"}
     /\ rq = [stage |-> rq.stage, m |-> rq.m, g |-> rq.g, action |-> rq.action, record |-> rq.record]
     /\ IsRecord(rq.record) /\ rq.action \in {"set_primary", "clear_primary", "remove", "add"}
  \/ /\ rq.stage = "others"
     /\ rq = [stage |-> "others", m |-> rq.m, others |-> rq.others, record |-> rq.record]
  \/ /\ rq.stage = "delete" /\ rq.m \notin rq.others
     /\ InGroup(rq.record, 1) => rq.others # {}
  \/ /\ rq.stage \in {"resolve", "load", "load_record"} /\ rq.m \in Members
     /\ rq = [stage |-> rq.stage, kind |-> rq.kind, m |-> rq.m]
     /\ rq.kind \in {"assign", "revoke", "grant", "revoke_docs"}
  \/ rq.stage = "persist" /\ rq.m \in Members /\ RowAgrees(rq.row, has)
  \/ /\ rq.stage \in {"promote", "demote"} /\ rq.m \in Members /\ rq.by \in Members
     /\ rq = [stage |-> rq.stage, by |-> rq.by, m |-> rq.m]
  \/ /\ rq.stage \in {"permissions", "role"} /\ rq.m \in Members
     /\ rq.kind \in {"grant", "revoke_docs"}
     /\ rq.granted \in BOOLEAN
     /\ rq = [stage |-> rq.stage, kind |-> rq.kind, m |-> rq.m, granted |-> rq.granted]

OfficesInv ==
  /\ DOMAIN users = Members /\ \A m \in Members : RowAgrees(users[m], fields)
  /\ DOMAIN told = Members /\ AnswersAboutDocs
  /\ \A m \in DOMAIN member : IsRecord(member[m])
  /\ DOMAIN req = Requests /\ \A r \in Requests : IsRequest(req[r], fields)
-----------------------------------------------------------------------------
(* Appointments and dismissals change what goes together.                   *)
LEMMA RowsFit ==
  ASSUME NEW row, RowAgrees(row, fields)
  PROVE  RowAgrees(Appointed(row), fields) /\ RowAgrees(Dismissed(row), fields)
<1>1. RowAgrees(Appointed(row), fields)
  <2>1. PICK new : new = Appointed(row)
    OBVIOUS
  <2>2. /\ new.role = IF row.role = "admin" THEN row.role ELSE "mod"
        /\ new.permissions = row.permissions \cup {"moderate_forum"}
        /\ new.primary = row.primary
        /\ new.additional = IF row.primary # 2 THEN row.additional \cup {2} ELSE row.additional
        /\ new.claimed = row.claimed
        /\ new = [role |-> new.role, permissions |-> new.permissions, primary |-> new.primary,
                  additional |-> new.additional, claimed |-> new.claimed]
    BY <2>1 DEF RowAgrees, Appointed
  <2> QED
    BY <2>1, <2>2 DEF RowAgrees
<1>2. RowAgrees(Dismissed(row), fields)
  <2>1. PICK new : new = Dismissed(row)
    OBVIOUS
  <2>2. /\ new.role = IF row.role = "admin" THEN row.role ELSE "member"
        /\ new.permissions = row.permissions \ {"moderate_forum"}
        /\ new.claimed = row.claimed
        /\ new = [role |-> new.role, permissions |-> new.permissions, primary |-> new.primary,
                  additional |-> new.additional, claimed |-> new.claimed]
    BY <2>1 DEF RowAgrees, Dismissed
  <2> QED
    BY <2>1, <2>2 DEF RowAgrees
<1> QED
  BY <1>1, <1>2

(* Role and permissions of a row, replaced together.                        *)
LEMMA RolesFit ==
  ASSUME NEW m, RowAgrees(users[m], fields), NEW role, NEW permissions, NEW claimed,
         \/ claimed
         \/ /\ role = "mod" => "moderate_forum" \in permissions
            /\ role = "admin" <=> "manage_boards" \in permissions
            /\ fields => "moderate_forum" \notin permissions
  PROVE  RowAgrees(WithOffice(m, role, permissions, claimed), fields)
<1>1. PICK row, new : row = users[m] /\ new = WithOffice(m, role, permissions, claimed)
  OBVIOUS
<1>2. /\ new.role = role /\ new.permissions = permissions /\ new.claimed = claimed
      /\ new = [role |-> new.role, permissions |-> new.permissions, primary |-> new.primary,
                additional |-> new.additional, claimed |-> new.claimed]
  BY <1>1 DEF RowAgrees, WithOffice
<1> QED
  BY <1>1, <1>2 DEF RowAgrees

(* A step of one request, which writes one row at most.                     *)
LEMMA RowStepKeeps ==
  ASSUME OfficesInv, NEW r \in Requests, NEW new, Become(r, new), IsRequest(new, fields),
         UNCHANGED <<fields, docs, told, mixed>>,
         \A m \in DOMAIN member' : IsRecord(member'[m]),
         \/ UNCHANGED users
         \/ \E m, row : RowAgrees(row, fields) /\ users' = [users EXCEPT ![m] = row]
  PROVE  OfficesInv'
<1>1. /\ DOMAIN req' = Requests
      /\ \A q \in Requests : req'[q] = IF q = r THEN new ELSE req[q]
  BY DEF OfficesInv, Become
<1>2. \A q \in Requests : IsRequest(req'[q], fields)
  BY <1>1 DEF OfficesInv
<1>3. DOMAIN users' = Members /\ \A m \in Members : RowAgrees(users'[m], fields)
  BY DEF OfficesInv
<1>4. DOMAIN told' = Members /\ AnswersAboutDocs'
  BY DEF OfficesInv, AnswersAboutDocs
<1> QED
  BY <1>1, <1>2, <1>3, <1>4 DEF OfficesInv

(* How an UPDATE may end, for a row that agrees.                            *)
LEMMA UpdateKeeps ==
  ASSUME OfficesInv, NEW r \in Requests, NEW m, NEW row, NEW then,
         Update(r, m, row, then), IsRequest(then, fields), RowAgrees(row, fields),
         UNCHANGED <<fields, member, docs, told, mixed>>
  PROVE  OfficesInv'
<1>1. IsRequest(Idle, fields)
  BY DEF IsRequest
<1> QED
  BY <1>1, RowStepKeeps DEF Update, OfficesInv

(* A call of the service for one member.                                    *)
LEMMA ServiceKeeps ==
  ASSUME OfficesInv, NEW r \in Requests, ChangeRole(r)
  PROVE  OfficesInv'
<1> DEFINE m == req[r].m
           kind == req[r].kind
<1>1. req[r].stage = "role" /\ Become(r, Idle) /\ UNCHANGED <<users, fields, member>>
  BY DEF ChangeRole, kept
<1>2. m \in Members /\ kind \in {"grant", "revoke_docs"} /\ req[r].granted \in BOOLEAN
  BY <1>1 DEF OfficesInv, IsRequest, Idle
<1>3. ASSUME NEW after, CallService(m, kind, after),
             kind = "grant" => after = docs \cup {m},
             kind = "revoke_docs" => after = docs \ {m}
      PROVE  DOMAIN told' = Members /\ AnswersAboutDocs'
  BY <1>2, <1>3 DEF CallService, Answered, OfficesInv, AnswersAboutDocs
<1>4. ASSUME (kind = "grant") = req[r].granted,
             Answered(m, kind, req[r].granted # get_user_permissions(m)), UNCHANGED docs
      PROVE  DOMAIN told' = Members /\ AnswersAboutDocs'
  <2>1. /\ told' = [told EXCEPT ![m] = kind]
        /\ mixed' = IF req[r].granted # get_user_permissions(m) THEN mixed \cup {m} ELSE mixed \ {m}
    BY <1>4 DEF Answered
  <2>2. CASE req[r].granted # get_user_permissions(m)
    BY <1>2, <1>4, <2>1, <2>2 DEF OfficesInv, AnswersAboutDocs
  <2>3. CASE req[r].granted = get_user_permissions(m)
    <3>1. (kind = "grant" => m \in docs \cup Spaces) /\ (kind = "revoke_docs" => m \notin docs)
      BY <1>2, <1>4, <2>3 DEF get_user_permissions
    <3> QED
      BY <1>2, <1>4, <2>1, <2>3, <3>1 DEF OfficesInv, AnswersAboutDocs
  <2> QED
    BY <2>2, <2>3
<1>5. DOMAIN told' = Members /\ AnswersAboutDocs'
  BY <1>2, <1>3, <1>4 DEF ChangeRole
<1>6. /\ DOMAIN req' = Requests
      /\ \A q \in Requests : req'[q] = IF q = r THEN Idle ELSE req[q]
  BY <1>1 DEF OfficesInv, Become
<1>7. \A q \in Requests : IsRequest(req'[q], fields)
  BY <1>6 DEF OfficesInv, IsRequest
<1> QED
  BY <1>1, <1>5, <1>6, <1>7 DEF OfficesInv

(* What the groups of a record become.                                      *)
LEMMA RecordsChange ==
  ASSUME NEW record, IsRecord(record), NEW g, NEW gs
  PROVE  /\ IsRecord(Left(record, gs)) /\ GroupsOf(Left(record, gs)) \subseteq GroupsOf(record) \ gs
         /\ \A type \in AssignTypes :
              /\ IsRecord(Joined(record, g, type))
              /\ GroupsOf(Joined(record, g, type)) \subseteq GroupsOf(record) \cup {g}
         /\ \A action \in {"set_primary", "clear_primary", "remove", "add"} :
              IsRecord(Changed(record, g, action))
<1>1. None \notin Ids
  BY DEF Ids, None
<1>2. \A hs : IsRecord(Left(record, hs)) /\ GroupsOf(Left(record, hs)) \subseteq GroupsOf(record) \ hs
  BY <1>1 DEF Left, GroupsOf, InGroup, IsRecord
<1>3. ASSUME NEW type \in AssignTypes
      PROVE  /\ IsRecord(Joined(record, g, type))
             /\ GroupsOf(Joined(record, g, type)) \subseteq GroupsOf(record) \cup {g}
  <2>1. PICK first, more : /\ first = [record EXCEPT !.primary = g]
                           /\ more = [record EXCEPT !.additional = record.additional \cup {g}]
    OBVIOUS
  <2>2. /\ first.primary = g /\ first.additional = record.additional
        /\ more.primary = record.primary /\ more.additional = record.additional \cup {g}
        /\ IsRecord(first) /\ IsRecord(more)
    BY <2>1 DEF IsRecord
  <2>3. /\ GroupsOf(first) \subseteq GroupsOf(record) \cup {g}
        /\ GroupsOf(more) \subseteq GroupsOf(record) \cup {g}
    BY <2>2 DEF GroupsOf, InGroup
  <2>4. Joined(record, g, type) \in {first, more, record}
    BY <2>1 DEF Joined, AssignTypes
  <2> QED
    BY <2>2, <2>3, <2>4
<1>4. ASSUME NEW action \in {"set_primary", "clear_primary", "remove", "add"}
      PROVE  IsRecord(Changed(record, g, action))
  <2>1. CASE action = "set_primary"
    BY <2>1 DEF Changed, IsRecord
  <2>2. CASE action = "clear_primary"
    BY <2>2 DEF Changed, IsRecord
  <2>3. CASE action = "remove"
    BY <1>2, <2>3 DEF Changed
  <2>4. CASE action = "add"
    <3>1. Changed(record, g, action) = Joined(record, g, "Auto")
      BY <2>4 DEF Changed
    <3> QED
      BY <1>3, <3>1 DEF AssignTypes
  <2> QED
    BY <2>1, <2>2, <2>3, <2>4
<1> QED
  BY <1>2, <1>3, <1>4

(* The calls of the stores about groups, and what they leave behind.        *)
LEMMA EditsKeep ==
  ASSUME OfficesInv, Edit
  PROVE  /\ OfficesInv'
         /\ UNCHANGED req
         /\ \A m \in DOMAIN member' : \A g \in GroupsOf(member'[m]) :
              g \in DOMAIN groups' \/ (/\ m \in DOMAIN member /\ g \in GroupsOf(member[m])
                                       /\ g \notin DOMAIN groups)
<1> DEFINE Quiet == \A m \in DOMAIN member' : \A g \in GroupsOf(member'[m]) :
              g \in DOMAIN groups' \/ (/\ m \in DOMAIN member /\ g \in GroupsOf(member[m])
                                       /\ g \notin DOMAIN groups)
           Fits == \A m \in DOMAIN member' : IsRecord(member'[m])
<1>1. \A m \in DOMAIN member : IsRecord(member[m])
  BY DEF OfficesInv
<1>2. ASSUME NEW gs, delete_membergroups_in_memory(gs)
      PROVE  Fits /\ Quiet
  BY <1>1, <1>2, RecordsChange DEF delete_membergroups_in_memory
<1>3. ASSUME NEW ms, NEW gs, remove_members_in_memory(ms, gs)
      PROVE  Fits /\ Quiet
  BY <1>1, <1>3, RecordsChange DEF remove_members_in_memory
<1>4. ASSUME NEW ms, NEW g, NEW type \in AssignTypes, add_members_in_memory(ms, g, type)
      PROVE  Fits /\ Quiet
  <2>1. PICK none : none = [primary |-> None, additional |-> {}]
    OBVIOUS
  <2>2. IsRecord(none) /\ GroupsOf(none) = {}
    BY <2>1 DEF IsRecord, GroupsOf, InGroup, Ids, None
  <2>3. g \in DOMAIN groups /\ UNCHANGED groups
    BY <1>4 DEF add_members_in_memory
  <2>4. ASSUME NEW m \in DOMAIN member'
        PROVE  \E record : /\ IsRecord(record)
                           /\ record = none \/ (m \in DOMAIN member /\ record = member[m])
                           /\ member'[m] \in {record, Joined(record, g, type)}
    BY <1>1, <1>4, <2>1, <2>2, <2>4 DEF add_members_in_memory
  <2>5. ASSUME NEW m \in DOMAIN member'
        PROVE  /\ IsRecord(member'[m])
               /\ \A h \in GroupsOf(member'[m]) : h = g \/ (m \in DOMAIN member /\ h \in GroupsOf(member[m]))
    BY <2>2, <2>4, RecordsChange
  <2> QED
    BY <2>3, <2>5
<1>5. ASSUME UNCHANGED member, \A g \in DOMAIN groups : g \in DOMAIN groups'
      PROVE  Fits /\ Quiet
  BY <1>1, <1>5
<1>6. ASSUME NEW id, NEW flag, save_membergroup(id, flag)
      PROVE  Fits /\ Quiet
  BY <1>5, <1>6 DEF save_membergroup
<1> HIDE DEF Fits, Quiet
<1>7. Fits /\ Quiet
  BY <1>2, <1>3, <1>4, <1>5, <1>6
     DEF Edit, add_group, edit_group, remove_members_from_group, subs_delete,
         subs_remove, subs_add, delete_membergroups, remove_members_from_groups,
         add_members_to_group
<1>8. Kept /\ UNCHANGED req
  BY DEF Edit
<1>9. OfficesInv'
  BY <1>7, <1>8 DEF OfficesInv, Kept, AnswersAboutDocs, Fits
<1> QED
  BY <1>7, <1>8, <1>9 DEF Quiet

(* What a request does by itself.                                           *)
LEMMA RequestsKeep ==
  ASSUME OfficesInv, NEW r \in Requests, Start(r) \/ Step(r)
  PROVE  OfficesInv'
<1>1. IsRequest(Idle, fields) /\ Idle.stage = "idle"
  BY DEF IsRequest, Idle
<1>2. ASSUME NEW new, Become(r, new), IsRequest(new, fields), UNCHANGED users, Rows
      PROVE  OfficesInv'
  BY <1>2, RowStepKeeps DEF Rows, kept, OfficesInv
<1>3. ASSUME NEW new, Become(r, new), IsRequest(new, fields), Kept,
             \A m \in DOMAIN member' : IsRecord(member'[m])
      PROVE  OfficesInv'
  BY <1>3, RowStepKeeps DEF Kept
<1>4. \A m \in DOMAIN member : IsRecord(member[m])
  BY DEF OfficesInv
<1>5. ASSUME NEW m, NEW g, NEW action \in {"set_primary", "clear_primary", "remove", "add"},
             update_group_membership(r, m, g, action)
      PROVE  OfficesInv'
  <2>1. PICK new : new = [stage |-> "groups", m |-> m, g |-> g, action |-> action, record |-> member[m]]
    OBVIOUS
  <2>2. Become(r, new) /\ Kept /\ UNCHANGED kept /\ m \in DOMAIN member
    BY <1>5, <2>1 DEF update_group_membership, Begin
  <2>3. IsRequest(new, fields)
    BY <1>4, <2>1, <2>2 DEF IsRequest
  <2> QED
    BY <1>3, <1>4, <2>2, <2>3 DEF kept
<1>6. ASSUME NEW m, delete_account_confirm(r, m)
      PROVE  OfficesInv'
  <2>1. PICK new : new = [stage |-> "others", m |-> m, others |-> {}, record |-> member[m]]
    OBVIOUS
  <2>2. Become(r, new) /\ Kept /\ UNCHANGED kept
    BY <1>6, <2>1 DEF delete_account_confirm, Begin
  <2>3. IsRequest(new, fields)
    BY <2>1 DEF IsRequest
  <2> QED
    BY <1>3, <1>4, <2>2, <2>3 DEF kept
<1>7. ASSUME NEW by \in Members, NEW m \in Members,
             \/ assign_moderator(r, by, m) \/ assign_moderator_by_record(r, by, m)
             \/ revoke_moderator(r, by, m) \/ revoke_moderator_by_record(r, by, m)
             \/ grant_docs_space_create(r, by, m) \/ revoke_docs_space_create(r, by, m)
             \/ transfer_admin(r, by, m)
      PROVE  OfficesInv'
  <2>1. \E new : /\ Call(r, by, new)
                 /\ \/ /\ new.stage \in {"resolve", "load_record"} /\ new.m \in Members
                       /\ new = [stage |-> new.stage, kind |-> new.kind, m |-> new.m]
                       /\ new.kind \in {"assign", "revoke", "grant", "revoke_docs"}
                    \/ new = [stage |-> "promote", by |-> by, m |-> m]
    <3>1. CASE transfer_admin(r, by, m)
      BY <3>1 DEF transfer_admin
    <3>2. ASSUME NEW stage \in {"resolve", "load_record"},
                 NEW kind \in {"assign", "revoke", "grant", "revoke_docs"},
                 Call(r, by, [stage |-> stage, kind |-> kind, m |-> m])
          PROVE  \E new : /\ Call(r, by, new)
                          /\ new.stage \in {"resolve", "load_record"} /\ new.m \in Members
                          /\ new = [stage |-> new.stage, kind |-> new.kind, m |-> new.m]
                          /\ new.kind \in {"assign", "revoke", "grant", "revoke_docs"}
      <4>1. PICK new : new = [stage |-> stage, kind |-> kind, m |-> m]
        OBVIOUS
      <4>2. new.stage = stage /\ new.kind = kind /\ new.m = m
        BY <4>1
      <4> QED
        BY <3>2, <4>1, <4>2
    <3>3. CASE \E stage \in {"resolve", "load_record"},
                  kind \in {"assign", "revoke", "grant", "revoke_docs"} :
                  Call(r, by, [stage |-> stage, kind |-> kind, m |-> m])
      BY <3>2, <3>3
    <3> QED
      BY <1>7, <3>1, <3>3
         DEF assign_moderator, assign_moderator_by_record, revoke_moderator,
             revoke_moderator_by_record, grant_docs_space_create, revoke_docs_space_create
  <2>2. PICK new : /\ Call(r, by, new)
                   /\ \/ /\ new.stage \in {"resolve", "load_record"} /\ new.m \in Members
                         /\ new = [stage |-> new.stage, kind |-> new.kind, m |-> new.m]
                         /\ new.kind \in {"assign", "revoke", "grant", "revoke_docs"}
                      \/ new = [stage |-> "promote", by |-> by, m |-> m]
    BY <2>1
  <2>3. IsRequest(new, fields)
    BY <2>2 DEF IsRequest
  <2> QED
    BY <1>2, <2>2, <2>3 DEF Call
<1>8. CASE list_all_membergroups(r)
  <2>1. PICK new : new = [req[r] EXCEPT !.stage = "update"]
    OBVIOUS
  <2>2. (Become(r, new) \/ Become(r, Idle)) /\ Kept /\ UNCHANGED kept /\ req[r].stage = "groups"
    BY <1>8, <2>1 DEF list_all_membergroups
  <2>3. /\ req[r] = [stage |-> "groups", m |-> req[r].m, g |-> req[r].g,
                     action |-> req[r].action, record |-> req[r].record]
        /\ IsRecord(req[r].record) /\ req[r].action \in {"set_primary", "clear_primary", "remove", "add"}
    BY <1>1, <2>2 DEF OfficesInv, IsRequest
  <2>4. new = [stage |-> "update", m |-> req[r].m, g |-> req[r].g,
               action |-> req[r].action, record |-> req[r].record]
    <3>1. ASSUME NEW rq, rq = [stage |-> "groups", m |-> rq.m, g |-> rq.g,
                               action |-> rq.action, record |-> rq.record]
          PROVE  [rq EXCEPT !.stage = "update"] = [stage |-> "update", m |-> rq.m, g |-> rq.g,
                                                   action |-> rq.action, record |-> rq.record]
      BY <3>1
    <3> QED
      BY <2>1, <2>3, <3>1
  <2>5. IsRequest(new, fields)
    BY <2>3, <2>4 DEF IsRequest
  <2> QED
    BY <1>1, <1>3, <1>4, <2>2, <2>5 DEF kept
<1>9. CASE update_member_groups(r)
  <2>1. req[r].stage = "update" /\ Become(r, Idle) /\ Kept
    BY <1>9 DEF update_member_groups
  <2>2. IsRecord(req[r].record) /\ req[r].action \in {"set_primary", "clear_primary", "remove", "add"}
    BY <1>1, <2>1 DEF OfficesInv, IsRequest
  <2>3. IsRecord(Changed(req[r].record, req[r].g, req[r].action))
    BY <2>2, RecordsChange
  <2>4. \A m \in DOMAIN member' : IsRecord(member'[m])
    BY <1>4, <1>9, <2>3 DEF update_member_groups
  <2> QED
    BY <1>1, <1>3, <2>1, <2>4
<1>10. CASE Others(r)
  <2>1. PICK others, new : /\ others = Administrators \ {req[r].m}
                           /\ new = [req[r] EXCEPT !.stage = "delete", !.others = others]
    OBVIOUS
  <2>2. /\ req[r].stage = "others" /\ Kept /\ UNCHANGED kept
        /\ \/ Become(r, Idle)
           \/ Become(r, new) /\ (InGroup(req[r].record, 1) => others # {})
    BY <1>10, <2>1 DEF Others
  <2>3. req[r] = [stage |-> "others", m |-> req[r].m, others |-> req[r].others, record |-> req[r].record]
    BY <1>1, <2>2 DEF OfficesInv, IsRequest
  <2>4. new.stage = "delete" /\ new.m = req[r].m /\ new.others = others /\ new.record = req[r].record
    <3>1. ASSUME NEW rq, rq = [stage |-> "others", m |-> rq.m, others |-> rq.others, record |-> rq.record],
                 new = [rq EXCEPT !.stage = "delete", !.others = others]
          PROVE  new.stage = "delete" /\ new.m = rq.m /\ new.others = others /\ new.record = rq.record
      BY <3>1
    <3> QED
      BY <2>1, <2>3, <3>1
  <2>5. (InGroup(req[r].record, 1) => others # {}) => IsRequest(new, fields)
    BY <2>1, <2>4 DEF IsRequest
  <2> QED
    BY <1>1, <1>3, <1>4, <2>2, <2>5 DEF kept
<1>11. CASE delete_member(r)
  BY <1>1, <1>3, <1>4, <1>11 DEF delete_member
<1>12. CASE resolve_member_name_by_id(r)
  <2>1. PICK new : new = [req[r] EXCEPT !.stage = "load"]
    OBVIOUS
  <2>2. (Become(r, new) \/ Become(r, Idle)) /\ Rows /\ UNCHANGED users /\ req[r].stage = "resolve"
    BY <1>12, <2>1 DEF resolve_member_name_by_id
  <2>3. /\ req[r] = [stage |-> "resolve", kind |-> req[r].kind, m |-> req[r].m]
        /\ req[r].m \in Members /\ req[r].kind \in {"assign", "revoke", "grant", "revoke_docs"}
    BY <1>1, <2>2 DEF OfficesInv, IsRequest
  <2>4. new = [stage |-> "load", kind |-> req[r].kind, m |-> req[r].m]
    <3>1. ASSUME NEW rq, rq = [stage |-> "resolve", kind |-> rq.kind, m |-> rq.m]
          PROVE  [rq EXCEPT !.stage = "load"] = [stage |-> "load", kind |-> rq.kind, m |-> rq.m]
      BY <3>1
    <3> QED
      BY <2>1, <2>3, <3>1
  <2>5. IsRequest(new, fields)
    BY <2>3, <2>4 DEF IsRequest
  <2> QED
    BY <1>1, <1>2, <2>2, <2>5
<1>13. ASSUME req[r].stage \in {"load", "load_record"}
       PROVE  req[r].m \in Members /\ IsRequest(Persisting(r), fields)
  <2>1. req[r].m \in Members
    BY <1>1, <1>13 DEF OfficesInv, IsRequest
  <2>2. RowAgrees(users[req[r].m], fields)
    BY <2>1 DEF OfficesInv
  <2> QED
    BY <2>1, <2>2 DEF Persisting, IsRequest
<1>14. CASE load_user_admin_row_by_name(r)
  BY <1>1, <1>2, <1>13, <1>14 DEF load_user_admin_row_by_name
<1>15. CASE load_user_admin_row_by_record_id(r)
  <2>1. PICK new : new = [stage |-> "permissions", kind |-> req[r].kind, m |-> req[r].m, granted |-> FALSE]
    OBVIOUS
  <2>2. /\ req[r].stage = "load_record" /\ Rows /\ UNCHANGED users
        /\ \/ Become(r, Persisting(r)) \/ Become(r, Idle)
           \/ req[r].kind \in {"grant", "revoke_docs"} /\ Become(r, new)
    BY <1>15, <2>1 DEF load_user_admin_row_by_record_id
  <2>3. req[r].kind \in {"grant", "revoke_docs"} => IsRequest(new, fields)
    BY <1>13, <2>1, <2>2 DEF IsRequest
  <2> QED
    BY <1>1, <1>2, <1>13, <2>2, <2>3
<1>16. CASE persist_user_admin_row(r)
  <2>1. PICK row : row = Wanted(r)
    OBVIOUS
  <2>2. /\ req[r].stage = "persist" /\ Rows
        /\ Update(r, req[r].m, IF fields THEN row
                               ELSE WithOffice(req[r].m, row.role, row.permissions, row.claimed),
                  Idle)
    BY <1>16, <2>1 DEF persist_user_admin_row
  <2>3. req[r].m \in Members /\ RowAgrees(req[r].row, fields)
    BY <1>1, <2>2 DEF OfficesInv, IsRequest
  <2>4. RowAgrees(row, fields)
    BY <2>1, <2>3, RowsFit DEF Wanted
  <2>5. ~fields => RowAgrees(WithOffice(req[r].m, row.role, row.permissions, row.claimed), fields)
    <3>1. RowAgrees(users[req[r].m], fields)
      BY <2>3 DEF OfficesInv
    <3>2. \/ row.claimed
          \/ /\ row.role = "mod" => "moderate_forum" \in row.permissions
             /\ row.role = "admin" <=> "manage_boards" \in row.permissions
      BY <2>4 DEF RowAgrees
    <3> QED
      BY <3>1, <3>2, RolesFit
  <2> QED
    BY <1>1, <2>2, <2>4, <2>5, UpdateKeeps DEF Rows, kept
<1>17. CASE hand_over(r)
  <2>1. req[r].stage \in {"promote", "demote"} /\ Rows
    BY <1>17 DEF hand_over
  <2>2. /\ req[r] = [stage |-> req[r].stage, by |-> req[r].by, m |-> req[r].m]
        /\ req[r].m \in Members /\ req[r].by \in Members
    BY <1>1, <2>1 DEF OfficesInv, IsRequest
  <2>3. \A m \in Members :
          /\ RowAgrees(WithOffice(m, "admin", {"manage_boards"}, FALSE), fields)
          /\ RowAgrees(WithOffice(m, "member", {}, FALSE), fields)
    <3>1. \A m \in Members : RowAgrees(users[m], fields)
      BY DEF OfficesInv
    <3> QED
      BY <3>1, RolesFit
  <2>4. CASE req[r].stage = "promote"
    <3>1. PICK new : new = [req[r] EXCEPT !.stage = "demote"]
      OBVIOUS
    <3>2. ASSUME NEW rq, rq = [stage |-> rq.stage, by |-> rq.by, m |-> rq.m]
          PROVE  [rq EXCEPT !.stage = "demote"] = [stage |-> "demote", by |-> rq.by, m |-> rq.m]
      BY <3>2
    <3>3. new = [stage |-> "demote", by |-> req[r].by, m |-> req[r].m]
      BY <2>2, <3>1, <3>2
    <3>4. IsRequest(new, fields)
      BY <2>2, <3>3 DEF IsRequest
    <3>5. Update(r, req[r].m, WithOffice(req[r].m, "admin", {"manage_boards"}, FALSE), new)
      BY <1>17, <2>4, <3>1 DEF hand_over
    <3> QED
      BY <2>1, <2>2, <2>3, <3>4, <3>5, UpdateKeeps DEF Rows, kept
  <2>5. CASE req[r].stage = "demote"
    <3>1. Update(r, req[r].by, WithOffice(req[r].by, "member", {}, FALSE), Idle)
      BY <1>17, <2>5 DEF hand_over
    <3> QED
      BY <1>1, <2>1, <2>2, <2>3, <3>1, UpdateKeeps DEF Rows, kept
  <2> QED
    BY <2>1, <2>4, <2>5
<1>18. CASE AskPermissions(r)
  <2>1. PICK granted, new, same :
          /\ granted = get_user_permissions(req[r].m)
          /\ new = [req[r] EXCEPT !.stage = "role", !.granted = granted]
          /\ same = [req[r] EXCEPT !.stage = "role"]
    OBVIOUS
  <2>2. /\ req[r].stage = "permissions" /\ Rows /\ UNCHANGED users
        /\ Become(r, new) \/ Become(r, same) \/ Become(r, Idle)
    BY <1>18, <2>1 DEF AskPermissions
  <2>3. /\ req[r] = [stage |-> "permissions", kind |-> req[r].kind, m |-> req[r].m, granted |-> req[r].granted]
        /\ req[r].m \in Members /\ req[r].kind \in {"grant", "revoke_docs"} /\ req[r].granted \in BOOLEAN
    BY <1>1, <2>2 DEF OfficesInv, IsRequest
  <2>4. granted \in BOOLEAN
    BY <2>1 DEF get_user_permissions
  <2>5. ASSUME NEW rq, rq = [stage |-> "permissions", kind |-> rq.kind, m |-> rq.m, granted |-> rq.granted]
        PROVE  /\ \A g : [rq EXCEPT !.stage = "role", !.granted = g]
                    = [stage |-> "role", kind |-> rq.kind, m |-> rq.m, granted |-> g]
               /\ [rq EXCEPT !.stage = "role"]
                    = [stage |-> "role", kind |-> rq.kind, m |-> rq.m, granted |-> rq.granted]
    <3>1. ASSUME NEW g
          PROVE  [rq EXCEPT !.stage = "role", !.granted = g]
                    = [stage |-> "role", kind |-> rq.kind, m |-> rq.m, granted |-> g]
      <4>1. PICK x : x = [rq EXCEPT !.stage = "role", !.granted = g]
        OBVIOUS
      <4>2. /\ x.stage = "role" /\ x.kind = rq.kind /\ x.m = rq.m /\ x.granted = g
            /\ x = [stage |-> x.stage, kind |-> x.kind, m |-> x.m, granted |-> x.granted]
        BY <2>5, <4>1
      <4> QED
        BY <4>1, <4>2
    <3>2. [rq EXCEPT !.stage = "role"]
            = [stage |-> "role", kind |-> rq.kind, m |-> rq.m, granted |-> rq.granted]
      BY <2>5
    <3> QED
      BY <3>1, <3>2
  <2>6. /\ new = [stage |-> "role", kind |-> req[r].kind, m |-> req[r].m, granted |-> granted]
        /\ same = [stage |-> "role", kind |-> req[r].kind, m |-> req[r].m, granted |-> req[r].granted]
    BY <2>1, <2>3, <2>5
  <2>7. IsRequest(new, fields) /\ IsRequest(same, fields)
    BY <2>3, <2>4, <2>6 DEF IsRequest
  <2> QED
    BY <1>1, <1>2, <2>2, <2>7
<1>19. CASE ChangeRole(r)
  BY <1>19, ServiceKeeps
<1>20. CASE Start(r)
  BY <1>5, <1>6, <1>7, <1>20 DEF Start
<1> QED
  BY <1>8, <1>9, <1>10, <1>11, <1>12, <1>14, <1>15, <1>16, <1>17, <1>18, <1>19, <1>20 DEF Step

(* The rows that ensure_user writes.                                        *)
LEMMA FirstKeeps ==
  ASSUME OfficesInv, NEW m \in Members, ensure_user(m)
  PROVE  OfficesInv'
<1>1. users' = [users EXCEPT ![m] = WithOffice(m, "admin", {"manage_boards"}, FALSE)]
  BY DEF ensure_user
<1>2. UNCHANGED <<fields, member, docs, told, mixed, req>>
  BY DEF ensure_user, Rows, kept
<1>3. RowAgrees(users[m], fields)
  BY DEF OfficesInv
<1>4. RowAgrees(WithOffice(m, "admin", {"manage_boards"}, FALSE), fields)
  BY <1>3, RolesFit
<1>5. DOMAIN users' = Members /\ \A other \in Members : RowAgrees(users'[other], fields)
  BY <1>1, <1>4 DEF OfficesInv
<1> QED
  BY <1>2, <1>5 DEF OfficesInv, AnswersAboutDocs

(* The inductive invariant, for any members, requests, bounds and faults.    *)
THEOREM OfficesInvariant == MembershipSpec => []OfficesInv
<1>1. ASSUME MembershipInit PROVE OfficesInv
  <2>1. \A m \in DOMAIN member : IsRecord(member[m])
    BY <1>1 DEF MembershipInit, new_with_sample, IsRecord
  <2>2. DOMAIN users = Members /\ \A m \in Members : RowAgrees(users[m], fields)
    <3>1. ASSUME NEW m \in Members, NEW p, NEW row \in NewRows(m, p)
          PROVE  RowAgrees(row, fields)
      <4>1. CASE row = NewRow("admin", {"manage_boards"}, p, FALSE)
        BY <4>1 DEF NewRow, RowAgrees
      <4>2. CASE row = NewRow("member", {}, p, FALSE)
        BY <4>2 DEF NewRow, RowAgrees
      <4>3. CASE \E claim \in Tokens : row = NewRow(claim.role, claim.permissions, p, TRUE)
        BY <4>3 DEF NewRow, RowAgrees
      <4> QED
        BY <4>1, <4>2, <4>3 DEF NewRows
    <3>2. PICK p : /\ users \in [Members -> UNION {NewRows(m, p) : m \in Members}]
                   /\ \A m \in Members : users[m] \in NewRows(m, p)
      BY <1>1 DEF MembershipInit
    <3> QED
      BY <3>1, <3>2
  <2>3. DOMAIN told = Members /\ AnswersAboutDocs
    BY <1>1 DEF MembershipInit, AnswersAboutDocs
  <2>4. DOMAIN req = Requests /\ \A r \in Requests : IsRequest(req[r], fields)
    BY <1>1 DEF MembershipInit, IsRequest
  <2> QED
    BY <2>1, <2>2, <2>3, <2>4 DEF OfficesInv
<1>2. ASSUME OfficesInv, [MembershipNext]_membershipVars PROVE OfficesInv'
  <2>1. CASE MembershipNext
    BY <1>2, <2>1, RequestsKeep, FirstKeeps, EditsKeep DEF MembershipNext
  <2>2. CASE UNCHANGED membershipVars
    BY <1>2, <2>2 DEF membershipVars, kept, OfficesInv, AnswersAboutDocs
  <2> QED
    BY <1>2, <2>1, <2>2
<1> QED
  BY <1>1, <1>2, PTL DEF MembershipSpec

(* Role, permissions and groups of a row agree, and the answers about the    *)
(* role of the other service are true, however requests interleave and fail. *)
THEOREM OfficesAgreeHolds == MembershipSpec => []OfficesAgree
<1>1. OfficesInv => OfficesAgree
  BY DEF OfficesInv, OfficesAgree, RowsAgree, RowAgrees
<1> QED
  BY <1>1, OfficesInvariant, PTL

(* Which steps of a request change members kept in memory.                  *)
LEMMA RequestsLeave ==
  ASSUME OfficesInv, NEW r \in Requests, Start(r) \/ Step(r)
  PROVE  \/ UNCHANGED <<groups, member>> /\ (req[r].stage = "delete" => FALSE)
         \/ update_member_groups(r) \/ delete_member(r)
<1>1. Idle.stage = "idle"
  BY DEF Idle
<1> QED
  BY <1>1
     DEF Start, Step, update_group_membership, delete_account_confirm, Begin, Call,
         kept, Rows, assign_moderator, assign_moderator_by_record, revoke_moderator,
         revoke_moderator_by_record, grant_docs_space_create, revoke_docs_space_create,
         transfer_admin, list_all_membergroups, Others, resolve_member_name_by_id,
         load_user_admin_row_by_name, load_user_admin_row_by_record_id,
         persist_user_admin_row, hand_over, AskPermissions, ChangeRole

(* No step forgets a group in some member, or the last administrator.        *)
LEMMA StepsKeepMembers ==
  ASSUME OfficesInv, [MembershipNext]_membershipVars
  PROVE  GroupsGoEverywhere /\ AnAdminStays
<1>1. ASSUME UNCHANGED <<groups, member>>
      PROVE  GroupsGoEverywhere
  BY <1>1 DEF GroupsGoEverywhere, GroupsOf
<1>2. ASSUME UNCHANGED req
      PROVE  AnAdminStays
  BY <1>2 DEF AnAdminStays, OfficesInv, IsRequest, Idle
<1>3. CASE UNCHANGED membershipVars
  BY <1>1, <1>2, <1>3 DEF membershipVars, kept
<1>4. CASE Edit
  <2>1. GroupsGoEverywhere
    BY <1>4, EditsKeep DEF GroupsGoEverywhere
  <2> QED
    BY <1>2, <1>4, <2>1, EditsKeep
<1>5. ASSUME NEW m \in Members, ensure_user(m)
      PROVE  GroupsGoEverywhere /\ AnAdminStays
  BY <1>1, <1>2, <1>5 DEF ensure_user, Rows, kept
<1>6. ASSUME NEW r \in Requests, Start(r) \/ Step(r)
      PROVE  GroupsGoEverywhere /\ AnAdminStays
  <2>1. \E new : Become(r, new)
    BY <1>6
       DEF Start, Step, update_group_membership, delete_account_confirm, Begin, Call,
           assign_moderator, assign_moderator_by_record, revoke_moderator,
           revoke_moderator_by_record, grant_docs_space_create, revoke_docs_space_create,
           transfer_admin, list_all_membergroups, Others, update_member_groups,
           delete_member, resolve_member_name_by_id, load_user_admin_row_by_name,
           load_user_admin_row_by_record_id, persist_user_admin_row, hand_over,
           AskPermissions, ChangeRole, Update
  <2>2. \A q \in Requests \ {r} : req'[q] = req[q]
    BY <2>1 DEF Become, OfficesInv
  <2>3. \A q \in Requests : req[q].stage = "delete" /\ req'[q] = Idle => q = r
    BY <2>2 DEF Idle
  <2>4. CASE UNCHANGED <<groups, member>> /\ req[r].stage # "delete"
    BY <1>1, <2>3, <2>4 DEF AnAdminStays
  <2>5. CASE update_member_groups(r)
    <3>1. /\ req[r].stage = "update" /\ UNCHANGED groups
          /\ member' = [m \in DOMAIN member |->
               IF m = req[r].m THEN Changed(req[r].record, req[r].g, req[r].action) ELSE member[m]]
          /\ req'[r] = Idle
      BY <2>5 DEF update_member_groups, Become, OfficesInv
    <3>2. ASSUME NEW m \in DOMAIN member'
          PROVE  m \in DOMAIN member /\ (m = req[r].m \/ GroupsOf(member'[m]) = GroupsOf(member[m]))
      BY <3>1
    <3>3. GroupsGoEverywhere
      BY <3>1, <3>2 DEF GroupsGoEverywhere
    <3> QED
      BY <2>3, <3>1, <3>3 DEF AnAdminStays
  <2>6. CASE delete_member(r)
    <3>1. /\ req[r].stage = "delete" /\ UNCHANGED groups
          /\ member' = [m \in DOMAIN member \ {req[r].m} |-> member[m]]
      BY <2>6 DEF delete_member
    <3>2. GroupsGoEverywhere
      BY <3>1 DEF GroupsGoEverywhere
    <3>3. req[r].m \notin req[r].others /\ (InGroup(req[r].record, 1) => req[r].others # {})
      BY <3>1 DEF OfficesInv, IsRequest, Idle
    <3>4. Administrators' = Administrators \ {req[r].m}
      BY <3>1 DEF Administrators, InGroup
    <3>5. AnAdminStays
      BY <2>3, <3>3, <3>4 DEF AnAdminStays
    <3> QED
      BY <3>2, <3>5
  <2> QED
    BY <1>6, <2>4, <2>5, <2>6, RequestsLeave
<1> QED
  BY <1>3, <1>4, <1>5, <1>6 DEF MembershipNext

(* The same of every behaviour: a group that goes leaves all members, and    *)
(* the last administrator is not deleted by a request that saw him alone.    *)
THEOREM MembersAreKeptHolds == MembershipSpec => MembersAreKept
<1>1. OfficesInv /\ [MembershipNext]_membershipVars =>
        [GroupsGoEverywhere /\ AnAdminStays]_membershipVars
  BY StepsKeepMembers
<1> QED
  BY <1>1, OfficesInvariant, PTL DEF MembershipSpec, MembersAreKept
=============================================================================
