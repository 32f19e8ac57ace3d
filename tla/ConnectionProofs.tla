-------------------------- MODULE ConnectionProofs --------------------------
(***************************************************************************)
(* Proofs about Connection: a request writes at most one row, to the home  *)
(* database unless a sign-in strayed from it, and while the server is well *)
(* an operation fails only if its client lost its token or its database    *)
(* once more.                                                              *)
(***************************************************************************)
EXTENDS Connection, TLAPS

Sessions == [token : {"none", "good", "expired"}, on : Databases \union {None},
             strayed : BOOLEAN]
Stages == {"idle", "select", "query", "signin", "use", "connect", "health", "done"}
Progress == [stage : Stages, op : Ops, try : 0..3, via : {"own", "new"},
             candidate : DOMAIN Candidates, failed : SUBSET DOMAIN Candidates,
             late : BOOLEAN, answer : {None, "ok"} \union Errors,
             from : Databases \union {None}]

TypeInv ==
    /\ sharing \in {"shared", "cloned"}
    /\ calm \in BOOLEAN
    /\ sessions \in [SessionIds -> Sessions]
    /\ actor \in [Actors -> Progress]
    /\ written \in [Requests -> Seq(Databases)]
    /\ actor[Refresher].via = "own"

(* A database other than home is selected only in a client that strayed.    *)
AtHome(s) == sessions[s].on \in {Home, None} \/ sessions[s].strayed

(* Signing in goes through the candidates in their order.                   *)
InOrder(a) ==
    actor[a].stage \in {"signin", "use"} =>
        /\ actor[a].failed = 1 .. (actor[a].candidate - 1)
        /\ Candidates[actor[a].candidate].db = Home \/ sessions[SessionOf(a)].strayed

(* A request wrote and answered nothing before it is done.                  *)
WroteOnce(r) ==
    IF actor[r].stage = "done"
    THEN /\ Len(written[r]) <= 1
         /\ actor[r].answer = "ok" /\ actor[r].op.writes => Len(written[r]) = 1
         /\ \A db \in ToSet(written[r]) \union ({actor[r].from} \ {None}) :
              db = Home \/ sessions[SessionOf(r)].strayed
    ELSE written[r] = <<>> /\ actor[r].from = None

HomeInv ==
    /\ TypeInv
    /\ \A s \in SessionIds : AtHome(s)
    /\ \A a \in Actors : InOrder(a)
    /\ \A r \in Requests : WroteOnce(r)

(* The operations that sign in before they give up.                         *)
Persistent(op) == op.again # "never" \/ op.fresh

(* A client has its token and its database, unless it lost one since it     *)
(* signed in last.                                                          *)
Whole(s) == sessions[s].token = "good" /\ sessions[s].on # None
Fresh(r) == Whole(SessionOf(r)) \/ actor[r].late

(* What is known of a request that got an error: a loss came late, or the   *)
(* client had no database to begin with and the operation does not mend it. *)
Excused(p) == \/ p.late
              \/ /\ p.answer = uninitialised
                 /\ uninitialised \notin p.op.retries /\ p.try = 1

Earned(r) ==
    LET stage == actor[r].stage
        calls == stage \in {"select", "query"} IN
    /\ Persistent(actor[r].op) =>
         /\ stage = "health" \/ (calls /\ actor[r].try # 1) => Fresh(r)
         /\ stage = "use" => sessions[SessionOf(r)].token = "good" \/ actor[r].late
         /\ stage = "signin" /\ actor[r].candidate # 1 => actor[r].late
         /\ stage = "done" /\ actor[r].answer \in Errors => Excused(actor[r])
    /\ actor[r].op.fresh => (calls => actor[r].try # 1)
                         /\ (stage \in {"signin", "use"} => actor[r].via = "new")
    /\ ~Persistent(actor[r].op) => stage \in {"idle", "select", "query", "done"}

CalmInv ==
    calm => /\ Candidates[1].user \in accepted
            /\ \A r \in Requests : Earned(r)
-----------------------------------------------------------------------------
(* No error is an answer, and a refusal is none of the other errors.        *)
LEMMA ErrorsApart ==
    /\ unauthorized \in Errors /\ uninitialised \in Errors /\ noclient \in Errors
    /\ "down" \in Errors /\ "lost" \in Errors
    /\ "ok" \notin Errors /\ None \notin Errors
    /\ "lost" \notin {unauthorized, uninitialised}
    /\ uninitialised # unauthorized /\ uninitialised # noclient
BY DEF Errors, unauthorized, uninitialised, noclient, None

(* Each operation signs in again only for a token, if at all; the one that  *)
(* starts with a new client does not.                                       *)
LEMMA OpsShape ==
    ASSUME NEW op \in Ops
    PROVE  /\ op.writes \in BOOLEAN /\ op.selects \in BOOLEAN /\ op.fresh \in BOOLEAN
           /\ op.retries \subseteq {unauthorized, uninitialised}
           /\ op.again \in {"reconnect", "either", "retry", "never"}
           /\ op.again # "never" => unauthorized \in op.retries
           /\ op.fresh => op.again = "never"
           /\ op.again = "never" => op.retries = {}
<1> DEFINE Shape(o) ==
        /\ o.writes \in BOOLEAN /\ o.selects \in BOOLEAN /\ o.fresh \in BOOLEAN
        /\ o.retries \subseteq {unauthorized, uninitialised}
        /\ o.again \in {"reconnect", "either", "retry", "never"}
        /\ o.again # "never" => unauthorized \in o.retries
        /\ o.fresh => o.again = "never"
        /\ o.again = "never" => o.retries = {}
<1>1. Shape(list_boards) /\ Shape(create_topic) /\ Shape(create_verification_challenge)
  BY DEF list_boards, create_topic, create_verification_challenge, Wrapped
<1>2. Shape(create_board)
  BY DEF create_board, Wrapped
<1>3. Shape(personal_message_page) /\ Shape(load_user_admin_row_by_record_id)
  BY DEF personal_message_page, load_user_admin_row_by_record_id, Wrapped
<1>4. Shape(Plain(TRUE)) /\ Shape(Plain(FALSE))
  BY DEF Plain, Wrapped
<1>5. Shape(create_surreal_board)
  BY DEF create_surreal_board, Plain, Wrapped
<1>6. op \in {create_board, create_topic, create_verification_challenge, list_boards,
              personal_message_page, load_user_admin_row_by_record_id, Plain(TRUE),
              Plain(FALSE), create_surreal_board}
  <2> HIDE DEF Shape
  <2>1. create_post_in_topic = create_topic
    BY DEF create_post_in_topic, create_topic
  <2>2. /\ list_topics = list_boards /\ get_topic = list_boards
        /\ list_posts_for_topic = list_boards /\ list_posts = list_boards
        /\ list_users = list_boards /\ list_admins = list_boards
        /\ get_board_permissions = list_boards /\ points_leaderboard = list_boards
        /\ list_members = list_boards /\ list_board_access = list_boards
        /\ list_ban_rules = list_boards /\ get_points_balance = list_boards
        /\ list_recent_points_events = list_boards
    BY DEF list_topics, list_boards, get_topic, list_posts_for_topic, list_posts, list_users,
           list_admins, get_board_permissions, points_leaderboard, list_members,
           list_board_access, list_ban_rules, get_points_balance, list_recent_points_events
  <2>3. personal_message_labels = personal_message_page
        /\ personal_message_page_counts = personal_message_page
    BY DEF personal_message_labels, personal_message_page, personal_message_page_counts
  <2>4. /\ create_notification = Plain(TRUE) /\ create_attachment_meta = Plain(TRUE)
        /\ create_post = Plain(TRUE) /\ create_demo_post = Plain(TRUE)
        /\ list_notifications = Plain(FALSE) /\ list_attachments_for_user = Plain(FALSE)
    BY DEF create_notification, create_attachment_meta, create_post, create_demo_post,
           list_notifications, list_attachments_for_user
  <2> QED
    BY <2>1, <2>2, <2>3, <2>4, Zenon DEF Ops
<1>7. Shape(op)
  <2> HIDE DEF Shape
  <2> QED BY <1>1, <1>2, <1>3, <1>4, <1>5, <1>6, Zenon
<1> QED
  BY <1>7

(* The candidates are a non-empty list that starts at home, and whatever    *)
(* comes before one of another database includes every one for home.        *)
LEMMA CandidateOrder ==
    /\ Len(Candidates) \in Nat /\ DOMAIN Candidates = 1 .. Len(Candidates)
    /\ 1 \in DOMAIN Candidates
    /\ Home \in Databases /\ None \notin Databases /\ Home # None
    /\ \A i \in DOMAIN Candidates : Candidates[i].db \in Databases
    /\ \A i \in DOMAIN Candidates :
          Candidates[i].db # Home => HomeCandidates \subseteq 1 .. (i - 1)
<1>1. /\ Len(Candidates) \in Nat /\ DOMAIN Candidates = 1 .. Len(Candidates)
      /\ 1 \in DOMAIN Candidates
  BY ConnectionAssumption
<1>2. \A i \in DOMAIN Candidates : Candidates[i].db \in Databases
  BY DEF Databases
<1>3. ASSUME NEW i \in DOMAIN Candidates, Candidates[i].db # Home, NEW j \in HomeCandidates
      PROVE  j \in 1 .. (i - 1)
  <2>1. j \in DOMAIN Candidates /\ Candidates[j].db = Home
    BY DEF HomeCandidates
  <2>2. ~(i < j) /\ i # j
    BY <1>3, <2>1, ConnectionAssumption
  <2> QED
    BY <1>1, <1>3, <2>1, <2>2
<1> QED
  BY <1>1, <1>2, <1>3, ConnectionAssumption

(* The session of an actor is of its own making or the one of the process:  *)
(* no other actor's.                                                        *)
LEMMA SessionsApart ==
    ASSUME TypeInv, NEW a \in Actors
    PROVE  /\ State \in SessionIds /\ SessionOf(a) \in SessionIds
           /\ <<a, "own">> \in SessionIds /\ <<a, "new">> \in SessionIds
           /\ State # <<a, "own">> /\ State # <<a, "new">>
           /\ \A b \in Actors \ {a} :
                SessionOf(b) # <<a, "own">> /\ SessionOf(b) # <<a, "new">>
<1>1. \A b \in Actors : actor[b].via \in {"own", "new"}
  BY DEF TypeInv, Progress
<1> QED
  BY <1>1 DEF SessionOf, SessionIds, State

(* What the step of one actor leaves alone: the invariant of the others.    *)
LEMMA HomeFrame ==
    ASSUME HomeInv, NEW a \in Actors,
           UNCHANGED <<sharing, calm>>,
           actor' \in [Actors -> Progress],
           \A b \in Actors \ {a} : actor'[b] = actor[b],
           a = Refresher => actor'[a].via = "own",
           sessions' \in [SessionIds -> Sessions],
           \A s \in SessionIds : AtHome(s)',
           \A s \in SessionIds : s # <<a, "own">> /\ s # <<a, "new">>
                                 /\ sessions[s].strayed => sessions'[s].strayed,
           written' \in [Requests -> Seq(Databases)],
           \A r \in Requests \ {a} : written'[r] = written[r],
           InOrder(a)',
           a \in Requests => WroteOnce(a)'
    PROVE  HomeInv'
<1> USE DEF HomeInv
<1>1. TypeInv'
  BY DEF TypeInv, Actors
<1>2. ASSUME NEW b \in Actors \ {a}
      PROVE  /\ SessionOf(b)' = SessionOf(b)
             /\ sessions[SessionOf(b)].strayed => sessions'[SessionOf(b)].strayed
  BY SessionsApart DEF SessionOf
<1>3. ASSUME NEW b \in Actors \ {a}
      PROVE  InOrder(b)'
  BY <1>2 DEF InOrder
<1>4. ASSUME NEW r \in Requests \ {a}
      PROVE  WroteOnce(r)'
  <2>1. r \in Actors \ {a} /\ actor'[r] = actor[r] /\ written'[r] = written[r]
    BY DEF Actors
  <2> QED
    BY <1>2, <2>1 DEF WroteOnce
<1> QED
  BY <1>1, <1>3, <1>4

(* A record of progress, changed in the fields that the steps change.       *)
LEMMA ProgressFields ==
    ASSUME TypeInv, NEW a \in Actors
    PROVE  /\ actor[a] \in Progress
           /\ actor[a].op \in Ops
           /\ FirstCall(actor[a].op) \in {"select", "query"}
           /\ Idle \in Progress
           /\ Idle.stage = "idle" /\ Idle.from = None /\ Idle.via = "own"
<1>1. actor[a] \in Progress /\ actor[a].op \in Ops
  BY DEF TypeInv, Progress
<1>2. Idle \in Progress /\ Idle.stage = "idle" /\ Idle.from = None /\ Idle.via = "own"
  <2>1. list_notifications \in Ops
    BY Zenon DEF Ops
  <2>2. 1 \in DOMAIN Candidates
    BY CandidateOrder
  <2> HIDE DEF list_notifications
  <2> QED
    BY <2>1, <2>2 DEF Idle, Progress, Stages
<1> QED
  BY <1>1, <1>2 DEF FirstCall

(* After an error an actor gives up, or signs in from the first candidate   *)
(* on, or builds a new client; it does not give up before it signed in.     *)
LEMMA AfterwardsShape ==
    ASSUME TypeInv, NEW r \in Requests, NEW error \in Errors, Afterwards(r, error)
    PROVE  /\ actor' \in [Actors -> Progress]
           /\ \A b \in Actors \ {r} : actor'[b] = actor[b]
           /\ actor'[r].op = actor[r].op /\ actor'[r].via = actor[r].via
           /\ actor'[r].late = actor[r].late /\ actor'[r].try = actor[r].try
           /\ \/ /\ actor'[r].stage = "done" /\ actor'[r].answer = error
                 /\ actor'[r].from = None
                 /\ error \in actor[r].op.retries /\ actor[r].op.again # "never"
                      => actor[r].try # 1
              \/ /\ actor'[r].stage = "signin" /\ actor'[r].candidate = 1
                 /\ actor'[r].failed = {} /\ actor'[r].from = actor[r].from
                 /\ error \in actor[r].op.retries /\ actor[r].op.again # "never"
              \/ /\ actor'[r].stage = "connect" /\ actor'[r].from = actor[r].from
                 /\ error \in actor[r].op.retries /\ actor[r].op.again = "reconnect"
<1> DEFINE signs == Retriable(actor[r].op, error) /\ actor[r].op.again # "never"
                    /\ actor[r].try = 1
           connects == Retriable(actor[r].op, error) /\ actor[r].op.again = "reconnect"
                       /\ actor[r].try = 2
<1>1. r \in Actors /\ actor \in [Actors -> Progress] /\ actor[r] \in Progress
  BY DEF Actors, TypeInv
<1>2. CASE signs
  <2>1. actor' = [actor EXCEPT ![r] =
            [actor[r] EXCEPT !.stage = "signin", !.candidate = 1, !.failed = {}]]
    BY <1>2 DEF Afterwards
  <2> QED
    BY <1>1, <1>2, <2>1, CandidateOrder DEF Progress, Stages, Retriable
<1>3. CASE ~signs /\ connects
  <2>1. actor' = [actor EXCEPT ![r] = [actor[r] EXCEPT !.stage = "connect"]]
    BY <1>3 DEF Afterwards
  <2> QED
    BY <1>1, <1>3, <2>1 DEF Progress, Stages, Retriable
<1>4. CASE ~signs /\ ~connects
  <2>1. actor' = [actor EXCEPT ![r] = Answered(r, error, None)]
    BY <1>4 DEF Afterwards
  <2> QED
    BY <1>1, <1>4, <2>1 DEF Progress, Stages, Retriable, Answered
<1> QED
  BY <1>2, <1>3, <1>4

(* After a sign-in, or none, an actor calls, or checks the new client, or   *)
(* builds one; without any it may give up. The background task rests.       *)
LEMMA ReauthShape ==
    ASSUME TypeInv, NEW a \in Actors, NEW signed \in BOOLEAN
    PROVE  LET p == AfterReauth(a, signed) IN
           /\ p \in Progress
           /\ a = Refresher => p.via = "own" /\ p.stage = "idle"
           /\ a # Refresher =>
                /\ p.op = actor[a].op /\ p.via = actor[a].via /\ p.late = actor[a].late
                /\ p.from = actor[a].from
                /\ p.stage \in {"health", "done", "connect", "select", "query"}
                /\ p.stage = "done" => p.answer = noclient /\ ~signed
                /\ p.stage = "health" => actor[a].via = "new"
                /\ p.stage \in {"health", "select", "query"} /\ actor[a].via = "new" => signed
                /\ p.stage \in {"select", "query"} => actor[a].via = "own" /\ p.try = 2
                /\ p.stage = "connect" => actor[a].op.again = "either"
<1>1. /\ actor[a] \in Progress /\ FirstCall(actor[a].op) \in {"select", "query"}
      /\ Idle \in Progress /\ Idle.stage = "idle" /\ Idle.via = "own"
  BY ProgressFields
<1>2. CASE a = Refresher
  BY <1>1, <1>2 DEF AfterReauth
<1>3. CASE a # Refresher
  <2>1. CASE actor[a].via = "new" /\ signed
    <3>1. AfterReauth(a, signed) = [actor[a] EXCEPT !.stage = "health"]
      BY <1>3, <2>1 DEF AfterReauth
    <3> QED
      BY <1>1, <1>3, <2>1, <3>1 DEF Progress, Stages
  <2>2. CASE actor[a].via = "new" /\ ~signed
    <3>1. AfterReauth(a, signed) = [actor[a] EXCEPT !.stage = "done", !.answer = noclient]
      BY <1>3, <2>2 DEF AfterReauth
    <3> QED
      BY <1>1, <1>3, <2>2, <3>1 DEF Progress, Stages, Errors, noclient
  <2>3. CASE actor[a].via = "own" /\ actor[a].op.again = "either" /\ ~signed
    <3>1. AfterReauth(a, signed) = [actor[a] EXCEPT !.stage = "connect", !.try = 2]
      BY <1>3, <2>3 DEF AfterReauth
    <3>2. AfterReauth(a, signed) \in Progress
      BY <1>1, <3>1, 2 \in 0..3 DEF Progress, Stages
    <3> QED
      BY <1>1, <1>3, <2>3, <3>1, <3>2 DEF Progress
  <2>4. CASE actor[a].via = "own" /\ ~(actor[a].op.again = "either" /\ ~signed)
    <3>1. AfterReauth(a, signed)
            = [actor[a] EXCEPT !.stage = FirstCall(actor[a].op), !.try = 2]
      BY <1>3, <2>4 DEF AfterReauth
    <3>2. AfterReauth(a, signed) \in Progress
      BY <1>1, <3>1, 2 \in 0..3 DEF Progress, Stages
    <3> QED
      BY <1>1, <1>3, <2>4, <3>1, <3>2 DEF Progress
  <2> QED
    BY <1>1, <2>1, <2>2, <2>3, <2>4 DEF Progress
<1> QED
  BY <1>2, <1>3

(* A candidate that failed is left for the next one, or for what follows    *)
(* the sign-in; the session only learns that it strayed.                    *)
LEMMA NextCandidateShape ==
    ASSUME TypeInv, NEW a \in Actors, NextCandidate(a)
    PROVE  /\ actor' \in [Actors -> Progress]
           /\ \A b \in Actors \ {a} : actor'[b] = actor[b]
           /\ \/ /\ actor[a].candidate < Len(Candidates)
                 /\ actor'[a] = [actor[a] EXCEPT !.stage = "signin",
                                    !.failed = @ \union {actor[a].candidate},
                                    !.candidate = @ + 1]
              \/ actor'[a] = AfterReauth(a, FALSE)
           /\ sessions' \in [SessionIds -> Sessions]
           /\ \A s \in SessionIds :
                /\ s # SessionOf(a) => sessions'[s] = sessions[s]
                /\ sessions'[s].token = sessions[s].token
                /\ sessions'[s].on = sessions[s].on
                /\ sessions[s].strayed => sessions'[s].strayed
           /\ HomeCandidates \subseteq actor[a].failed \union {actor[a].candidate}
                => sessions'[SessionOf(a)].strayed
<1> DEFINE failed == actor[a].failed \union {actor[a].candidate}
<1>1. /\ actor \in [Actors -> Progress] /\ actor[a] \in Progress
      /\ AfterReauth(a, FALSE) \in Progress
  BY ReauthShape DEF TypeInv
<1>2. /\ sessions \in [SessionIds -> Sessions] /\ SessionOf(a) \in SessionIds
      /\ sessions[SessionOf(a)] \in Sessions
  BY SessionsApart DEF TypeInv
<1>3. sessions' = [sessions EXCEPT ![SessionOf(a)] =
          [sessions[SessionOf(a)] EXCEPT !.strayed = @ \/ HomeCandidates \subseteq failed]]
  BY <1>2 DEF NextCandidate
<1>4. /\ sessions' \in [SessionIds -> Sessions]
      /\ \A s \in SessionIds :
                /\ s # SessionOf(a) => sessions'[s] = sessions[s]
                /\ sessions'[s].token = sessions[s].token
                /\ sessions'[s].on = sessions[s].on
                /\ sessions[s].strayed => sessions'[s].strayed
      /\ HomeCandidates \subseteq failed => sessions'[SessionOf(a)].strayed
  <2> DEFINE gone == HomeCandidates \subseteq failed
             new == [sessions[SessionOf(a)] EXCEPT !.strayed = @ \/ gone]
  <2>1. new \in Sessions /\ new.token = sessions[SessionOf(a)].token
        /\ new.on = sessions[SessionOf(a)].on
    BY <1>2 DEF Sessions
  <2>2. /\ sessions[SessionOf(a)].strayed => new.strayed
        /\ gone => new.strayed
    BY <1>2, Zenon DEF Sessions
  <2>3. sessions' = [sessions EXCEPT ![SessionOf(a)] = new]
    BY <1>3
  <2> HIDE DEF new
  <2> QED
    BY <1>2, <2>1, <2>2, <2>3
<1>5. CASE actor[a].candidate < Len(Candidates)
  <2> DEFINE next == [actor[a] EXCEPT !.stage = "signin", !.failed = failed,
                                      !.candidate = actor[a].candidate + 1]
  <2>1. actor' = [actor EXCEPT ![a] = next]
    <3>1. actor' = [actor EXCEPT ![a] = [actor[a] EXCEPT
                       !.stage = "signin", !.failed = failed, !.candidate = @ + 1]]
      BY <1>5 DEF NextCandidate
    <3>2. [actor[a] EXCEPT !.stage = "signin", !.failed = failed, !.candidate = @ + 1]
            = next
      BY <1>1 DEF Progress
    <3> QED
      BY <3>1, <3>2
  <2>2. next \in Progress
    <3>1. /\ actor[a].candidate \in DOMAIN Candidates
          /\ actor[a].failed \in SUBSET DOMAIN Candidates
      BY <1>1 DEF Progress
    <3>2. /\ actor[a].candidate + 1 \in DOMAIN Candidates
          /\ failed \in SUBSET DOMAIN Candidates
      BY <1>5, <3>1, CandidateOrder
    <3> HIDE DEF failed
    <3> QED
      BY <1>1, <3>2 DEF Progress, Stages
  <2> HIDE DEF next
  <2>3. actor' \in [Actors -> Progress] /\ actor'[a] = next
        /\ \A b \in Actors \ {a} : actor'[b] = actor[b]
    BY <1>1, <2>1, <2>2
  <2> QED
    BY <1>4, <1>5, <2>3 DEF next
<1>6. CASE ~(actor[a].candidate < Len(Candidates))
  <2>1. actor' = [actor EXCEPT ![a] = AfterReauth(a, FALSE)]
    BY <1>6 DEF NextCandidate
  <2> HIDE DEF NextCandidate
  <2> QED
    BY <1>1, <1>4, <2>1
<1> QED
  BY <1>5, <1>6
-----------------------------------------------------------------------------
(* The sessions start at home or strayed, and nobody did anything yet.      *)
LEMMA HomeInit == Init => HomeInv
<1> SUFFICES ASSUME Init
             PROVE  HomeInv
  OBVIOUS
<1>1. PICK strayed \in BOOLEAN, on \in Databases :
        /\ ~strayed => on = Home
        /\ sessions = [s \in SessionIds |->
             IF s = State \/ (sharing = "cloned" /\ s = <<Refresher, "own">>)
             THEN [token |-> "good", on |-> on, strayed |-> strayed] ELSE NoSession]
  BY CandidateOrder DEF Init
<1>2. sessions \in [SessionIds -> Sessions] /\ \A s \in SessionIds : AtHome(s)
  BY <1>1 DEF Sessions, NoSession, AtHome
<1>3. \A a \in Actors : actor[a] = Idle /\ Idle \in Progress
                        /\ Idle.stage = "idle" /\ Idle.from = None /\ Idle.via = "own"
  <2>1. actor = [a \in Actors |-> Idle]
    BY DEF Init
  <2>2. list_notifications \in Ops
    BY Zenon DEF Ops
  <2>3. 1 \in DOMAIN Candidates
    BY CandidateOrder
  <2> HIDE DEF list_notifications
  <2> QED
    BY <2>1, <2>2, <2>3 DEF Idle, Progress, Stages
<1>4. TypeInv
  <2> HIDE DEF Idle
  <2> QED
    BY <1>2, <1>3, ConnectionAssumption DEF Init, TypeInv, Actors
<1>5. \A a \in Actors : InOrder(a)
  BY <1>3 DEF InOrder
<1>6. \A r \in Requests : WroteOnce(r)
  BY <1>3 DEF WroteOnce, Init, Actors
<1> QED
  BY <1>2, <1>4, <1>5, <1>6 DEF HomeInv

(* A request that begins takes a copy of the session of the process, or     *)
(* uses it; what it wrote before is over.                                   *)
LEMMA BeginHome ==
    ASSUME HomeInv, NEW r \in Requests, NEW op \in Ops, Begin(r, op)
    PROVE  HomeInv'
<1>1. r \in Actors /\ r # Refresher /\ Idle \in Progress /\ Idle.from = None
  BY ConnectionAssumption, ProgressFields DEF Actors, HomeInv
<1> DEFINE p == [Idle EXCEPT !.op = op, !.try = 1,
                    !.stage = IF op.fresh THEN "connect" ELSE FirstCall(op)]
<1>2. p \in Progress /\ p.stage \in {"connect", "select", "query"} /\ p.from = None
  <2> DEFINE stage == IF op.fresh THEN "connect" ELSE FirstCall(op)
  <2>1. stage \in {"connect", "select", "query"}
    BY DEF FirstCall
  <2> HIDE DEF Idle, stage
  <2>2. [Idle EXCEPT !.op = op, !.try = 1, !.stage = stage] \in Progress
    BY <1>1, <2>1, 1 \in 0..3 DEF Progress, Stages
  <2> QED
    BY <1>1, <2>1, <2>2 DEF Progress, stage
<1>3. actor' = [actor EXCEPT ![r] = p] /\ actor \in [Actors -> Progress]
  BY DEF Begin, HomeInv, TypeInv
<1>4. /\ sessions \in [SessionIds -> Sessions] /\ State \in SessionIds
      /\ \A s \in SessionIds : AtHome(s)
      /\ NoSession \in Sessions /\ NoSession.on = None
      /\ <<r, "own">> \in SessionIds /\ <<r, "new">> \in SessionIds
      /\ State # <<r, "own">> /\ State # <<r, "new">>
  BY <1>1, SessionsApart DEF HomeInv, TypeInv, NoSession, Sessions
<1>5. /\ sessions' \in [SessionIds -> Sessions]
      /\ \A s \in SessionIds : \/ sessions'[s] = sessions[s]
                               \/ sessions'[s] = sessions[State]
                               \/ sessions'[s] = NoSession
      /\ \A s \in SessionIds : s # <<r, "own">> /\ s # <<r, "new">>
                                 => sessions'[s] = sessions[s]
  BY <1>4 DEF Begin
<1>6. \A s \in SessionIds : AtHome(s)'
  BY <1>4, <1>5 DEF AtHome
<1>7. /\ written' \in [Requests -> Seq(Databases)] /\ written'[r] = <<>>
      /\ \A q \in Requests \ {r} : written'[q] = written[q]
  BY DEF Begin, HomeInv, TypeInv
<1>8. /\ actor' \in [Actors -> Progress] /\ actor'[r] = p
      /\ \A b \in Actors \ {r} : actor'[b] = actor[b]
  <2> HIDE DEF p
  <2> QED BY <1>1, <1>2, <1>3
<1> HIDE DEF p
<1>9. InOrder(r)' /\ WroteOnce(r)'
  BY <1>2, <1>7, <1>8 DEF InOrder, WroteOnce
<1>10. UNCHANGED <<sharing, calm>>
  BY DEF Begin, world
<1> QED
  BY <1>1, <1>5, <1>6, <1>7, <1>8, <1>9, <1>10, HomeFrame

(* A round of the background task starts with the first candidate.          *)
LEMMA RefreshHome ==
    ASSUME HomeInv, Refresh
    PROVE  HomeInv'
<1> DEFINE p == [Idle EXCEPT !.stage = "signin"]
<1>1. Refresher \in Actors /\ Refresher \notin Requests /\ Idle \in Progress
      /\ Idle.via = "own"
  BY ConnectionAssumption, ProgressFields DEF Actors, HomeInv
<1>2. p \in Progress /\ p.via = "own" /\ p.candidate = 1 /\ p.failed = {}
  BY <1>1 DEF Progress, Stages, Idle
<1>3. /\ actor' \in [Actors -> Progress] /\ actor'[Refresher] = p
      /\ \A b \in Actors \ {Refresher} : actor'[b] = actor[b]
  <2>1. actor' = [actor EXCEPT ![Refresher] = p] /\ actor \in [Actors -> Progress]
    BY DEF Refresh, HomeInv, TypeInv
  <2> HIDE DEF p
  <2> QED BY <1>1, <1>2, <2>1
<1>4. UNCHANGED <<sharing, calm, sessions, written>>
  BY DEF Refresh, world
<1> HIDE DEF p
<1>5. InOrder(Refresher)'
  BY <1>2, <1>3, 1 .. (1 - 1) = {}, ConnectionAssumption DEF InOrder
<1>6. /\ sessions' \in [SessionIds -> Sessions] /\ written' \in [Requests -> Seq(Databases)]
      /\ \A s \in SessionIds : AtHome(s)'
  BY <1>4 DEF HomeInv, TypeInv, AtHome
<1> QED
  BY <1>1, <1>2, <1>3, <1>4, <1>5, <1>6, HomeFrame

(* What an error leads to keeps a request in order, if it wrote nothing or  *)
(* is done with one row of the database it uses.                            *)
LEMMA AfterwardsHome ==
    ASSUME HomeInv, NEW r \in Requests, NEW error \in Errors, Afterwards(r, error),
           actor[r].stage \in {"select", "query"},
           UNCHANGED <<sharing, calm, sessions>>,
           written' \in [Requests -> Seq(Databases)],
           \A q \in Requests \ {r} : written'[q] = written[q],
           \/ written'[r] = <<>>
           \/ /\ error \notin {unauthorized, uninitialised}
              /\ \E db \in Databases : written'[r] = <<db>>
                    /\ (db = Home \/ sessions[SessionOf(r)].strayed)
    PROVE  HomeInv'
<1>1. r \in Actors /\ r # Refresher /\ actor[r] \in Progress /\ actor[r].op \in Ops
      /\ WroteOnce(r) /\ TypeInv
  BY ConnectionAssumption, ProgressFields DEF Actors, HomeInv
<1>2. /\ actor' \in [Actors -> Progress]
      /\ \A b \in Actors \ {r} : actor'[b] = actor[b]
      /\ actor'[r].via = actor[r].via
      /\ \/ /\ actor'[r].stage = "done" /\ actor'[r].answer \in Errors
            /\ actor'[r].from = None
         \/ /\ actor'[r].stage = "signin" /\ actor'[r].candidate = 1
            /\ actor'[r].failed = {} /\ actor'[r].from = actor[r].from
            /\ error \in {unauthorized, uninitialised}
         \/ /\ actor'[r].stage = "connect" /\ actor'[r].from = actor[r].from
            /\ error \in {unauthorized, uninitialised}
  BY <1>1, AfterwardsShape, OpsShape
<1>3. InOrder(r)'
  BY <1>2, 1 .. (1 - 1) = {}, ConnectionAssumption DEF InOrder
<1>4. SessionOf(r)' = SessionOf(r)
  BY <1>1, <1>2 DEF SessionOf
<1>5. actor[r].from = None
  BY <1>1 DEF WroteOnce
<1>6. WroteOnce(r)'
  <2>1. CASE written'[r] = <<>>
    BY <1>2, <1>5, <2>1, ErrorsApart DEF WroteOnce, ToSet
  <2>2. CASE written'[r] # <<>>
    <3>1. PICK db \in Databases : written'[r] = <<db>>
                    /\ (db = Home \/ sessions[SessionOf(r)].strayed)
      BY <2>2
    <3>2. actor'[r].stage = "done" /\ actor'[r].answer \in Errors /\ actor'[r].from = None
      BY <1>2, <2>2
    <3>3. ToSet(written'[r]) = {db} /\ Len(written'[r]) = 1
      BY <3>1 DEF ToSet
    <3> QED
      BY <1>4, <3>1, <3>2, <3>3, ErrorsApart DEF WroteOnce
  <2> QED
    BY <2>1, <2>2
<1>7. /\ sessions' \in [SessionIds -> Sessions]
      /\ \A s \in SessionIds : AtHome(s)'
  BY <1>1 DEF HomeInv, TypeInv, AtHome
<1> QED
  BY <1>1, <1>2, <1>3, <1>6, <1>7, HomeFrame

(* create_board selects the home database, or signs in, or gives up.        *)
LEMMA SelectHome ==
    ASSUME HomeInv, NEW r \in Requests, Select(r)
    PROVE  HomeInv'
<1>1. r \in Actors /\ r # Refresher /\ actor[r] \in Progress /\ TypeInv /\ WroteOnce(r)
  BY ConnectionAssumption, ProgressFields DEF Actors, HomeInv
<1>2. /\ UNCHANGED <<sharing, calm, written>> /\ actor[r].stage = "select"
      /\ written[r] = <<>> /\ written \in [Requests -> Seq(Databases)]
      /\ actor[r].from = None
  BY <1>1 DEF Select, world, TypeInv, WroteOnce
<1>3. CASE /\ sessions' = [sessions EXCEPT ![SessionOf(r)].on = Home]
           /\ actor' = [actor EXCEPT ![r].stage = "query"]
  <2>1. /\ sessions \in [SessionIds -> Sessions] /\ SessionOf(r) \in SessionIds
        /\ sessions[SessionOf(r)] \in Sessions
    BY <1>1, SessionsApart DEF TypeInv
  <2>2. [sessions[SessionOf(r)] EXCEPT !.on = Home] \in Sessions
    BY <2>1, CandidateOrder DEF Sessions
  <2>3. /\ sessions' \in [SessionIds -> Sessions]
        /\ \A s \in SessionIds : sessions'[s].strayed = sessions[s].strayed
        /\ \A s \in SessionIds : s # SessionOf(r) => sessions'[s] = sessions[s]
        /\ sessions'[SessionOf(r)].on = Home
    BY <1>3, <2>1, <2>2 DEF Sessions
  <2>4. \A s \in SessionIds : AtHome(s)'
    BY <2>3 DEF AtHome, HomeInv
  <2>5. /\ actor' \in [Actors -> Progress]
        /\ \A b \in Actors \ {r} : actor'[b] = actor[b]
        /\ actor'[r].stage = "query" /\ actor'[r].from = actor[r].from
    BY <1>1, <1>3 DEF TypeInv, Progress, Stages
  <2>6. InOrder(r)' /\ WroteOnce(r)'
    BY <1>2, <2>5 DEF InOrder, WroteOnce
  <2> QED
    BY <1>1, <1>2, <2>3, <2>4, <2>5, <2>6, HomeFrame
<1>4. CASE UNCHANGED sessions /\ \E error \in Errors : Afterwards(r, error)
  BY <1>2, <1>4, AfterwardsHome
<1> QED
  BY <1>3, <1>4, ErrorsApart DEF Select

(* The query writes to the database of the session: home, or it strayed.    *)
LEMMA QueryHome ==
    ASSUME HomeInv, NEW r \in Requests, QueryStep(r)
    PROVE  HomeInv'
<1> DEFINE on == sessions[SessionOf(r)].on
           Effect == written' = [written EXCEPT ![r] =
                         IF actor[r].op.writes THEN Append(@, on) ELSE @]
<1>1. r \in Actors /\ r # Refresher /\ actor[r] \in Progress /\ TypeInv /\ WroteOnce(r)
  BY ConnectionAssumption, ProgressFields DEF Actors, HomeInv
<1>2. /\ UNCHANGED <<sharing, calm, sessions>> /\ actor[r].stage = "query"
      /\ written[r] = <<>> /\ written \in [Requests -> Seq(Databases)]
      /\ actor[r].from = None
  BY <1>1 DEF QueryStep, world, TypeInv, WroteOnce
<1>3. /\ SessionOf(r) \in SessionIds /\ on \in Databases \union {None}
      /\ on \in {Home, None} \/ sessions[SessionOf(r)].strayed
  BY <1>1, SessionsApart DEF HomeInv, TypeInv, AtHome, Sessions
<1>4. Refusal(r) = None => on # None
  BY DEF Refusal, None, unauthorized, uninitialised
<1>5. ASSUME Refusal(r) = None, Effect
      PROVE  /\ written' \in [Requests -> Seq(Databases)]
             /\ \A q \in Requests \ {r} : written'[q] = written[q]
             /\ IF actor[r].op.writes THEN written'[r] = <<on>> ELSE written'[r] = <<>>
             /\ on \in Databases
  <2>1. on \in Databases
    BY <1>3, <1>4, <1>5
  <2> HIDE DEF on
  <2>2. Append(written[r], on) = <<on>> /\ <<on>> \in Seq(Databases)
    BY <1>2, <2>1
  <2> QED
    BY <1>2, <1>5, <2>1, <2>2
<1>6. CASE Refusal(r) = None /\ Effect /\ Finished(r, "ok", on)
  <2>1. on \in Databases /\ on # None
    BY <1>5, <1>6, CandidateOrder
  <2>2. actor' = [actor EXCEPT ![r] = Answered(r, "ok", on)]
    BY <1>6 DEF Finished
  <2>3. /\ actor' \in [Actors -> Progress]
        /\ \A b \in Actors \ {r} : actor'[b] = actor[b]
        /\ actor'[r].stage = "done" /\ actor'[r].from = on /\ actor'[r].answer = "ok"
        /\ actor'[r].via = actor[r].via /\ actor'[r].op = actor[r].op
    <3> HIDE DEF on
    <3> QED BY <1>1, <2>1, <2>2 DEF TypeInv, Answered, Progress, Stages
  <2>4. SessionOf(r)' = SessionOf(r)
    BY <1>2, <2>3 DEF SessionOf
  <2>5. on = Home \/ sessions[SessionOf(r)].strayed
    BY <1>3, <2>1
  <2>6. InOrder(r)'
    BY <2>3 DEF InOrder
  <2>7. ToSet(written'[r]) \subseteq {on} /\ Len(written'[r]) <= 1
        /\ (actor[r].op.writes => Len(written'[r]) = 1)
    <3> HIDE DEF on
    <3>1. CASE actor[r].op.writes
      BY <1>5, <1>6, <3>1 DEF ToSet
    <3>2. CASE ~actor[r].op.writes
      BY <1>5, <1>6, <3>2 DEF ToSet
    <3> QED
      BY <3>1, <3>2
  <2>8. WroteOnce(r)'
    <3> HIDE DEF on
    <3>1. \A db \in ToSet(written'[r]) \union ({actor'[r].from} \ {None}) : db = on
      BY <2>3, <2>7
    <3>2. on = Home \/ sessions'[SessionOf(r)'].strayed
      BY <1>2, <2>4, <2>5 DEF on
    <3> QED
      BY <2>3, <2>7, <3>1, <3>2 DEF WroteOnce
  <2>9. /\ sessions' \in [SessionIds -> Sessions]
        /\ \A s \in SessionIds : AtHome(s)'
    BY <1>2 DEF HomeInv, TypeInv, AtHome
  <2> HIDE DEF on
  <2> QED
    BY <1>1, <1>2, <1>5, <1>6, <2>3, <2>6, <2>8, <2>9, HomeFrame
<1>7. CASE Refusal(r) = None /\ Effect /\ Afterwards(r, "lost")
  <2>1. on = Home \/ sessions[SessionOf(r)].strayed
    BY <1>3, <1>4, <1>7
  <2> QED
    BY <1>2, <1>5, <1>7, <2>1, ErrorsApart, AfterwardsHome
<1>8. CASE UNCHANGED written /\ \E error \in Errors : Afterwards(r, error)
  BY <1>2, <1>8, AfterwardsHome
<1> QED
  BY <1>6, <1>7, <1>8, ErrorsApart DEF QueryStep, Refusal

(* The next candidate is tried only after the earlier ones failed; once all *)
(* of home did, the session strayed.                                        *)
LEMMA NextCandidateHome ==
    ASSUME HomeInv, NEW a \in Actors, NextCandidate(a),
           actor[a].stage \in {"signin", "use"},
           UNCHANGED <<sharing, calm, written>>
    PROVE  HomeInv'
<1>1. TypeInv /\ InOrder(a) /\ actor[a] \in Progress
  BY ProgressFields DEF HomeInv
<1>2. /\ actor' \in [Actors -> Progress]
      /\ \A b \in Actors \ {a} : actor'[b] = actor[b]
      /\ sessions' \in [SessionIds -> Sessions]
      /\ \A s \in SessionIds :
           /\ s # SessionOf(a) => sessions'[s] = sessions[s]
           /\ sessions'[s].on = sessions[s].on
           /\ sessions[s].strayed => sessions'[s].strayed
      /\ HomeCandidates \subseteq actor[a].failed \union {actor[a].candidate}
           => sessions'[SessionOf(a)].strayed
  BY <1>1, NextCandidateShape
<1>3. \A s \in SessionIds : AtHome(s)'
  BY <1>2 DEF HomeInv, AtHome
<1>4. a \in Requests => written[a] = <<>> /\ actor[a].from = None
  BY DEF HomeInv, WroteOnce
<1>5. CASE /\ actor[a].candidate < Len(Candidates)
           /\ actor'[a] = [actor[a] EXCEPT !.stage = "signin",
                                    !.failed = @ \union {actor[a].candidate},
                                    !.candidate = @ + 1]
  <2> DEFINE c == actor[a].candidate
  <2>1. /\ c \in 1 .. Len(Candidates) /\ actor[a].failed = 1 .. (c - 1)
        /\ Len(Candidates) \in Nat /\ DOMAIN Candidates = 1 .. Len(Candidates)
    BY <1>1, CandidateOrder DEF InOrder, Progress
  <2>2. /\ actor'[a].stage = "signin" /\ actor'[a].candidate = c + 1
        /\ actor'[a].failed = actor[a].failed \union {c}
        /\ actor'[a].via = actor[a].via /\ actor'[a].from = actor[a].from
    BY <1>1, <1>5 DEF Progress
  <2> HIDE DEF c
  <2>3. (1 .. (c - 1)) \union {c} = 1 .. c /\ (c + 1) - 1 = c /\ c + 1 \in DOMAIN Candidates
    BY <1>5, <2>1 DEF c
  <2>4. actor'[a].failed = 1 .. (actor'[a].candidate - 1)
    BY <2>1, <2>2, <2>3
  <2>5. SessionOf(a)' = SessionOf(a)
    BY <2>2 DEF SessionOf
  <2>6. Candidates[c + 1].db = Home \/ sessions'[SessionOf(a)].strayed
    <3>1. Candidates[c + 1].db # Home => HomeCandidates \subseteq 1 .. ((c + 1) - 1)
      BY <2>3, CandidateOrder
    <3> QED
      BY <1>2, <2>1, <2>3, <3>1 DEF c
  <2>7. InOrder(a)'
    BY <2>2, <2>4, <2>5, <2>6 DEF InOrder
  <2>8. a \in Requests => WroteOnce(a)'
    BY <1>4, <2>2 DEF WroteOnce
  <2>9. a = Refresher => actor'[a].via = "own"
    BY <1>1, <2>2 DEF TypeInv
  <2> QED
    BY <1>1, <1>2, <1>3, <2>7, <2>8, <2>9, HomeFrame DEF TypeInv
<1>6. CASE actor'[a] = AfterReauth(a, FALSE)
  <2>1. /\ a = Refresher => actor'[a].via = "own" /\ actor'[a].stage = "idle"
        /\ a # Refresher =>
             /\ actor'[a].from = actor[a].from
             /\ actor'[a].stage \in {"health", "done", "connect", "select", "query"}
             /\ actor'[a].stage = "done" => actor'[a].answer \in Errors
    BY <1>1, <1>6, ReauthShape, ErrorsApart
  <2>2. InOrder(a)'
    BY <2>1 DEF InOrder
  <2>3. a \in Requests => WroteOnce(a)'
    BY <1>4, <2>1, ConnectionAssumption, ErrorsApart DEF WroteOnce, ToSet
  <2> QED
    BY <1>1, <1>2, <1>3, <2>1, <2>2, <2>3, HomeFrame DEF TypeInv
<1> QED
  BY <1>1, <1>5, <1>6, NextCandidateShape

(* A sign-in that succeeds keeps its candidate for the selection.           *)
LEMMA SignInHome ==
    ASSUME HomeInv, NEW a \in Actors, SignIn(a)
    PROVE  HomeInv'
<1>1. TypeInv /\ InOrder(a) /\ actor[a] \in Progress
  BY ProgressFields DEF HomeInv
<1>2. UNCHANGED <<sharing, calm, written>> /\ actor[a].stage = "signin"
  BY DEF SignIn, world
<1>3. CASE /\ sessions' = [sessions EXCEPT ![SessionOf(a)].token = "good"]
           /\ actor' = [actor EXCEPT ![a].stage = "use", ![a].late = FALSE]
  <2>1. /\ sessions \in [SessionIds -> Sessions] /\ SessionOf(a) \in SessionIds
        /\ sessions[SessionOf(a)] \in Sessions
    BY <1>1, SessionsApart DEF TypeInv
  <2>2. [sessions[SessionOf(a)] EXCEPT !.token = "good"] \in Sessions
    BY <2>1 DEF Sessions
  <2>3. /\ sessions' \in [SessionIds -> Sessions]
        /\ \A s \in SessionIds : sessions'[s].strayed = sessions[s].strayed
        /\ \A s \in SessionIds : sessions'[s].on = sessions[s].on
    BY <1>3, <2>1, <2>2 DEF Sessions
  <2>4. \A s \in SessionIds : AtHome(s)'
    BY <2>3 DEF AtHome, HomeInv
  <2>5. /\ actor' \in [Actors -> Progress]
        /\ \A b \in Actors \ {a} : actor'[b] = actor[b]
        /\ actor'[a].stage = "use" /\ actor'[a].from = actor[a].from
        /\ actor'[a].via = actor[a].via /\ actor'[a].failed = actor[a].failed
        /\ actor'[a].candidate = actor[a].candidate
    BY <1>1, <1>3 DEF TypeInv, Progress, Stages
  <2>6. SessionOf(a)' = SessionOf(a)
    BY <1>2, <2>5 DEF SessionOf
  <2>7. InOrder(a)'
    BY <1>1, <1>2, <2>1, <2>3, <2>5, <2>6 DEF InOrder
  <2>8. a \in Requests => WroteOnce(a)'
    BY <1>2, <2>5 DEF WroteOnce, HomeInv
  <2>9. a = Refresher => actor'[a].via = "own"
    BY <1>1, <2>5 DEF TypeInv
  <2>10. /\ written' \in [Requests -> Seq(Databases)]
         /\ \A r \in Requests \ {a} : written'[r] = written[r]
    BY <1>1, <1>2 DEF TypeInv
  <2> QED
    BY <1>2, <2>3, <2>4, <2>5, <2>7, <2>8, <2>9, <2>10, HomeFrame
<1>4. CASE NextCandidate(a)
  BY <1>2, <1>4, NextCandidateHome
<1> QED
  BY <1>3, <1>4 DEF SignIn

(* The selection of a candidate puts the session at home or it strayed.     *)
LEMMA UseHome ==
    ASSUME HomeInv, NEW a \in Actors, Use(a)
    PROVE  HomeInv'
<1> DEFINE db == Candidates[actor[a].candidate].db
<1>1. TypeInv /\ InOrder(a) /\ actor[a] \in Progress
  BY ProgressFields DEF HomeInv
<1>2. UNCHANGED <<sharing, calm, written>> /\ actor[a].stage = "use"
  BY DEF Use, world
<1>3. CASE /\ sessions' = [sessions EXCEPT ![SessionOf(a)].on = db]
           /\ actor' = [actor EXCEPT ![a] = AfterReauth(a, TRUE)]
  <2>1. /\ sessions \in [SessionIds -> Sessions] /\ SessionOf(a) \in SessionIds
        /\ sessions[SessionOf(a)] \in Sessions
    BY <1>1, SessionsApart DEF TypeInv
  <2>2. db \in Databases /\ (db = Home \/ sessions[SessionOf(a)].strayed)
    BY <1>1, <1>2, CandidateOrder DEF InOrder, Progress
  <2> HIDE DEF db
  <2>3. [sessions[SessionOf(a)] EXCEPT !.on = db] \in Sessions
    BY <2>1, <2>2 DEF Sessions
  <2>4. /\ sessions' \in [SessionIds -> Sessions]
        /\ \A s \in SessionIds : sessions'[s].strayed = sessions[s].strayed
        /\ \A s \in SessionIds : s # SessionOf(a) => sessions'[s] = sessions[s]
        /\ sessions'[SessionOf(a)].on = db
    BY <1>3, <2>1, <2>3 DEF Sessions
  <2>5. \A s \in SessionIds : AtHome(s)'
    BY <2>1, <2>2, <2>4 DEF AtHome, HomeInv
  <2>6. /\ AfterReauth(a, TRUE) \in Progress
        /\ a = Refresher => AfterReauth(a, TRUE).via = "own"
                            /\ AfterReauth(a, TRUE).stage = "idle"
        /\ a # Refresher =>
             /\ AfterReauth(a, TRUE).from = actor[a].from
             /\ AfterReauth(a, TRUE).stage \in {"health", "done", "connect", "select", "query"}
             /\ AfterReauth(a, TRUE).stage = "done" => AfterReauth(a, TRUE).answer \in Errors
    BY <1>1, ReauthShape, ErrorsApart
  <2>7. /\ actor' \in [Actors -> Progress] /\ actor'[a] = AfterReauth(a, TRUE)
        /\ \A b \in Actors \ {a} : actor'[b] = actor[b]
    BY <1>1, <1>3, <2>6 DEF TypeInv
  <2>8. InOrder(a)'
    BY <2>6, <2>7 DEF InOrder
  <2>9. a \in Requests => WroteOnce(a)'
    <3>1. a \in Requests => written[a] = <<>> /\ actor[a].from = None
      BY <1>2 DEF HomeInv, WroteOnce
    <3>2. a \in Requests =>
             /\ written'[a] = <<>> /\ actor'[a].from = None
             /\ actor'[a].stage = "done" => actor'[a].answer \in Errors
      BY <1>2, <2>6, <2>7, <3>1, ConnectionAssumption
    <3> QED
      BY <3>2, ErrorsApart DEF WroteOnce, ToSet
  <2>10. /\ written' \in [Requests -> Seq(Databases)]
         /\ \A r \in Requests \ {a} : written'[r] = written[r]
    BY <1>1, <1>2 DEF TypeInv
  <2> QED
    BY <1>2, <2>4, <2>5, <2>6, <2>7, <2>8, <2>9, <2>10, HomeFrame
<1>4. CASE NextCandidate(a)
  BY <1>2, <1>4, NextCandidateHome
<1> QED
  BY <1>3, <1>4 DEF Use

(* A new client starts with the first candidate, in a session of its own.   *)
LEMMA ConnectHome ==
    ASSUME HomeInv, NEW r \in Requests, Connect(r)
    PROVE  HomeInv'
<1>1. /\ r \in Actors /\ r # Refresher /\ actor[r] \in Progress /\ TypeInv
      /\ WroteOnce(r) /\ \A s \in SessionIds : AtHome(s)
  BY ConnectionAssumption, ProgressFields DEF Actors, HomeInv
<1>2. /\ UNCHANGED <<sharing, calm, written>> /\ actor[r].stage = "connect"
      /\ written[r] = <<>> /\ written' \in [Requests -> Seq(Databases)]
      /\ actor[r].from = None
  BY <1>1 DEF Connect, world, TypeInv, WroteOnce
<1>3. CASE /\ sessions' = [sessions EXCEPT ![<<r, "new">>] = NoSession]
           /\ actor' = [actor EXCEPT ![r].stage = "signin", ![r].via = "new",
                                     ![r].candidate = 1, ![r].failed = {},
                                     ![r].late = FALSE]
  <2>1. NoSession \in Sessions /\ NoSession.on = None
    BY DEF NoSession, Sessions
  <2>2. /\ sessions' \in [SessionIds -> Sessions]
        /\ \A s \in SessionIds : s # <<r, "new">> => sessions'[s] = sessions[s]
        /\ \A s \in SessionIds : sessions'[s] \in {sessions[s], NoSession}
    BY <1>1, <1>3, <2>1, SessionsApart DEF TypeInv
  <2>3. \A s \in SessionIds : AtHome(s)'
    BY <1>1, <2>1, <2>2 DEF AtHome
  <2>4. /\ actor' \in [Actors -> Progress]
        /\ \A b \in Actors \ {r} : actor'[b] = actor[b]
        /\ actor'[r].stage = "signin" /\ actor'[r].from = actor[r].from
        /\ actor'[r].failed = {} /\ actor'[r].candidate = 1
    BY <1>1, <1>3, CandidateOrder DEF TypeInv, Progress, Stages
  <2>5. InOrder(r)'
    BY <2>4, 1 .. (1 - 1) = {}, ConnectionAssumption DEF InOrder
  <2>6. WroteOnce(r)'
    BY <1>2, <2>4 DEF WroteOnce
  <2> QED
    BY <1>1, <1>2, <2>2, <2>3, <2>4, <2>5, <2>6, HomeFrame
<1>4. CASE Finished(r, noclient, None) /\ UNCHANGED sessions
  <2>1. actor' = [actor EXCEPT ![r] = Answered(r, noclient, None)]
    BY <1>4 DEF Finished
  <2>2. /\ actor' \in [Actors -> Progress]
        /\ \A b \in Actors \ {r} : actor'[b] = actor[b]
        /\ actor'[r].stage = "done" /\ actor'[r].from = None
        /\ actor'[r].answer \in Errors
    BY <1>1, <2>1, ErrorsApart DEF TypeInv, Answered, Progress, Stages
  <2>3. InOrder(r)' /\ WroteOnce(r)'
    BY <1>2, <2>2, ErrorsApart DEF InOrder, WroteOnce, ToSet
  <2>4. /\ sessions' \in [SessionIds -> Sessions]
        /\ \A s \in SessionIds : AtHome(s)'
    BY <1>1, <1>4 DEF TypeInv, AtHome
  <2> QED
    BY <1>1, <1>2, <1>4, <2>2, <2>3, <2>4, HomeFrame
<1> QED
  BY <1>3, <1>4 DEF Connect

(* The health query writes nothing.                                         *)
LEMMA HealthHome ==
    ASSUME HomeInv, NEW r \in Requests, Health(r)
    PROVE  HomeInv'
<1>1. /\ r \in Actors /\ r # Refresher /\ actor[r] \in Progress /\ TypeInv
      /\ WroteOnce(r) /\ FirstCall(actor[r].op) \in {"select", "query"}
      /\ \A s \in SessionIds : AtHome(s)
  BY ConnectionAssumption, ProgressFields DEF Actors, HomeInv
<1>2. /\ UNCHANGED <<sharing, calm, written, sessions>> /\ actor[r].stage = "health"
      /\ written[r] = <<>> /\ written' \in [Requests -> Seq(Databases)]
      /\ actor[r].from = None
  BY <1>1 DEF Health, world, TypeInv, WroteOnce
<1>3. /\ actor' \in [Actors -> Progress]
      /\ \A b \in Actors \ {r} : actor'[b] = actor[b]
      /\ actor'[r].from = None
      /\ \/ actor'[r].stage \in {"select", "query"}
         \/ actor'[r].stage = "done" /\ actor'[r].answer \in Errors
  <2>1. CASE actor' = [actor EXCEPT ![r].stage = FirstCall(actor[r].op), ![r].try = 3]
    <3> HIDE DEF FirstCall
    <3> QED BY <1>1, <1>2, <2>1, 3 \in 0..3 DEF TypeInv, Progress, Stages
  <2>2. CASE actor' = [actor EXCEPT ![r] = Answered(r, noclient, None)]
    BY <1>1, <2>2, ErrorsApart DEF TypeInv, Answered, Progress, Stages
  <2> QED
    BY <2>1, <2>2 DEF Health, Finished
<1>4. InOrder(r)' /\ WroteOnce(r)'
  BY <1>2, <1>3, ErrorsApart DEF InOrder, WroteOnce, ToSet
<1>5. /\ sessions' \in [SessionIds -> Sessions]
      /\ \A s \in SessionIds : AtHome(s)'
  BY <1>1, <1>2 DEF TypeInv, AtHome
<1> QED
  BY <1>1, <1>2, <1>3, <1>4, <1>5, HomeFrame

(* A token that runs out, and a client that loses its database, change no   *)
(* database that is selected.                                               *)
LEMMA LossHome ==
    ASSUME HomeInv, NEW s \in SessionIds, Expire(s) \/ Forget(s)
    PROVE  HomeInv'
<1>1. /\ UNCHANGED <<sharing, calm, written>> /\ TypeInv
      /\ \A x \in SessionIds : AtHome(x)
  BY DEF HomeInv, Expire, Forget, world
<1>2. /\ sessions' \in [SessionIds -> Sessions]
      /\ \A x \in SessionIds : /\ sessions'[x].strayed = sessions[x].strayed
                               /\ sessions'[x].on \in {sessions[x].on, None}
  <2>1. sessions \in [SessionIds -> Sessions] /\ sessions[s] \in Sessions
    BY <1>1 DEF TypeInv
  <2>2. CASE sessions' = [sessions EXCEPT ![s].token = "expired"]
    BY <2>1, <2>2 DEF Sessions
  <2>3. CASE sessions' = [sessions EXCEPT ![s].on = None]
    BY <2>1, <2>3 DEF Sessions
  <2> QED
    BY <2>2, <2>3 DEF Expire, Forget
<1>3. \A x \in SessionIds : AtHome(x)'
  BY <1>1, <1>2 DEF AtHome
<1>4. /\ actor' \in [Actors -> Progress]
      /\ \A a \in Actors :
           /\ actor'[a].stage = actor[a].stage /\ actor'[a].op = actor[a].op
           /\ actor'[a].via = actor[a].via /\ actor'[a].candidate = actor[a].candidate
           /\ actor'[a].failed = actor[a].failed /\ actor'[a].answer = actor[a].answer
           /\ actor'[a].from = actor[a].from
  <2>1. actor \in [Actors -> Progress]
    BY <1>1 DEF TypeInv
  <2>2. /\ DOMAIN actor' = Actors
        /\ \A a \in Actors : actor'[a] \in {actor[a], [actor[a] EXCEPT !.late = TRUE]}
        /\ actor' = [a \in Actors |-> actor'[a]]
    BY DEF Expire, Forget, Late
  <2>3. ASSUME NEW a \in Actors
        PROVE  /\ [actor[a] EXCEPT !.late = TRUE] \in Progress
               /\ LET p == [actor[a] EXCEPT !.late = TRUE] IN
                  /\ p.stage = actor[a].stage /\ p.op = actor[a].op
                  /\ p.via = actor[a].via /\ p.candidate = actor[a].candidate
                  /\ p.failed = actor[a].failed /\ p.answer = actor[a].answer
                  /\ p.from = actor[a].from
    BY <2>1 DEF Progress
  <2>4. \A a \in Actors : actor'[a] \in Progress
    BY <2>1, <2>2, <2>3
  <2>5. actor' \in [Actors -> Progress]
    BY <2>2, <2>4
  <2>6. ASSUME NEW a \in Actors
        PROVE  /\ actor'[a].stage = actor[a].stage /\ actor'[a].op = actor[a].op
               /\ actor'[a].via = actor[a].via /\ actor'[a].candidate = actor[a].candidate
               /\ actor'[a].failed = actor[a].failed /\ actor'[a].answer = actor[a].answer
               /\ actor'[a].from = actor[a].from
    BY <2>2, <2>3
  <2> QED
    BY <2>5, <2>6
<1>5. TypeInv'
  BY <1>1, <1>2, <1>4 DEF TypeInv, Actors
<1>6. \A a \in Actors : SessionOf(a)' = SessionOf(a) /\ SessionOf(a) \in SessionIds
  BY <1>1, <1>4, SessionsApart DEF SessionOf
<1>7. \A a \in Actors : InOrder(a)'
  BY <1>2, <1>4, <1>6 DEF HomeInv, InOrder
<1>8. ASSUME NEW r \in Requests
      PROVE  WroteOnce(r)'
  <2>1. WroteOnce(r) /\ r \in Actors
    BY DEF HomeInv, Actors
  <2> QED
    BY <1>1, <1>2, <1>4, <1>6, <2>1 DEF WroteOnce
<1> QED
  BY <1>3, <1>5, <1>7, <1>8 DEF HomeInv

(* Every step keeps writes and databases as they should be.                 *)
LEMMA HomeStep == HomeInv /\ [Next]_vars => HomeInv'
<1> SUFFICES ASSUME HomeInv, [Next]_vars
             PROVE  HomeInv'
  OBVIOUS
<1>1. CASE \E r \in Requests : \E op \in Ops : Begin(r, op)
  BY <1>1, BeginHome
<1>2. CASE Refresh
  BY <1>2, RefreshHome
<1>3. CASE \E r \in Requests : Select(r) \/ QueryStep(r) \/ Connect(r) \/ Health(r)
  BY <1>3, SelectHome, QueryHome, ConnectHome, HealthHome
<1>4. CASE \E a \in Actors : SignIn(a) \/ Use(a)
  BY <1>4, SignInHome, UseHome
<1>5. CASE \E s \in SessionIds : Expire(s) \/ Forget(s)
  BY <1>5, LossHome
<1>6. CASE UNCHANGED vars
  <2> USE <1>6 DEF vars
  <2>1. TypeInv'
    BY DEF HomeInv, TypeInv
  <2>2. \A s \in SessionIds : AtHome(s)'
    BY DEF HomeInv, AtHome
  <2>3. \A a \in Actors : InOrder(a)'
    BY DEF HomeInv, InOrder, SessionOf
  <2>4. \A r \in Requests : WroteOnce(r)'
    BY DEF HomeInv, WroteOnce, SessionOf
  <2> QED
    BY <2>1, <2>2, <2>3, <2>4 DEF HomeInv
<1> QED
  BY <1>1, <1>2, <1>3, <1>4, <1>5, <1>6 DEF Next

(* Connections are at home unless they strayed: for any number of requests, *)
(* any list of candidates, and all the faults.                              *)
THEOREM HomeInvariant == Spec => []HomeInv
<1> QED
  BY HomeInit, HomeStep, PTL DEF Spec

(* A request that is repeated after a new sign-in writes its row once, and  *)
(* to the home database unless its client strayed.                          *)
THEOREM WritesOnceAtHomeHolds == Spec => []WritesOnceAtHome
<1>1. HomeInv => WritesOnceAtHome
  <2> SUFFICES ASSUME HomeInv, NEW r \in Requests
               PROVE  /\ Len(written[r]) <= 1
                      /\ actor[r].stage = "done" /\ actor[r].answer = "ok"
                            /\ actor[r].op.writes => Len(written[r]) = 1
                      /\ \A db \in ToSet(written[r]) \union ({actor[r].from} \ {None}) :
                           db = Home \/ sessions[SessionOf(r)].strayed
    BY DEF WritesOnceAtHome
  <2>1. WroteOnce(r)
    BY DEF HomeInv
  <2>2. CASE actor[r].stage = "done"
    BY <2>1, <2>2 DEF WroteOnce
  <2>3. CASE actor[r].stage # "done"
    BY <2>1, <2>3 DEF WroteOnce, ToSet
  <2> QED
    BY <2>2, <2>3
<1> QED
  BY <1>1, HomeInvariant, PTL
-----------------------------------------------------------------------------
(* What the step of one actor leaves alone: the sessions of the others keep *)
(* a database and a good token.                                             *)
LEMMA CalmFrame ==
    ASSUME TypeInv, CalmInv, calm, NEW a \in Actors,
           UNCHANGED <<world, calm>>,
           \A b \in Actors \ {a} : actor'[b] = actor[b],
           \A s \in SessionIds : s # <<a, "own">> /\ s # <<a, "new">> =>
               /\ sessions[s].on # None => sessions'[s].on # None
               /\ sessions[s].token = "good" => sessions'[s].token = "good",
           a \in Requests => Earned(a)'
    PROVE  CalmInv'
<1>1. UNCHANGED <<sharing, accepted, calm>>
  BY DEF world
<1>2. ASSUME NEW r \in Requests \ {a}
      PROVE  Earned(r)'
  <2>1. r \in Actors \ {a} /\ actor'[r] = actor[r] /\ Earned(r)
    BY DEF Actors, CalmInv
  <2>2. SessionOf(r)' = SessionOf(r)
    BY <1>1, <2>1 DEF SessionOf
  <2>3. /\ sessions[SessionOf(r)].on # None => sessions'[SessionOf(r)].on # None
        /\ sessions[SessionOf(r)].token = "good" => sessions'[SessionOf(r)].token = "good"
    BY <2>1, SessionsApart
  <2> QED
    BY <2>1, <2>2, <2>3 DEF Earned, Fresh, Whole
<1> QED
  BY <1>1, <1>2 DEF CalmInv

(* While the server is well it is reached, and no answer is lost.           *)
LEMMA NoFaultWhenCalm == \A f : calm => ~Fault(f)
  BY DEF Fault

(* A well server accepts the user of the environment.                       *)
LEMMA CalmInit == Init => CalmInv
<1> SUFFICES ASSUME Init, calm
             PROVE  CalmInv
  BY DEF CalmInv
<1>2. \A r \in Requests : actor[r].stage = "idle" /\ actor[r].op = list_notifications
  BY DEF Init, Actors, Idle
<1>3. \A r \in Requests : Earned(r)
  <2>1. list_notifications.again = "never" /\ list_notifications.fresh = FALSE
    BY DEF list_notifications, Plain, Wrapped
  <2> QED
    BY <1>2, <2>1 DEF Earned, Persistent
<1> QED
  BY <1>3 DEF CalmInv, Init

(* A request begins with a client that has a good token and a database or   *)
(* lost them: it has signed in nowhere yet.                                 *)
LEMMA BeginCalm ==
    ASSUME HomeInv, CalmInv, calm, NEW r \in Requests, NEW op \in Ops, Begin(r, op)
    PROVE  CalmInv'
<1>1. r \in Actors /\ Idle \in Progress /\ Idle.via = "own" /\ TypeInv
  BY ProgressFields DEF Actors, HomeInv
<1> DEFINE p == [Idle EXCEPT !.op = op, !.try = 1,
                    !.stage = IF op.fresh THEN "connect" ELSE FirstCall(op)]
<1>2. /\ actor' = [actor EXCEPT ![r] = p] /\ actor \in [Actors -> Progress]
      /\ UNCHANGED <<world, calm, sharing>>
  BY <1>1 DEF Begin, TypeInv, world
<1>3. /\ p.op = op /\ p.try = 1 /\ p.via = "own"
      /\ IF op.fresh THEN p.stage = "connect" ELSE p.stage \in {"select", "query"}
  <2> HIDE DEF Idle
  <2> QED BY <1>1 DEF Progress, FirstCall
<1> HIDE DEF p
<1>4. actor'[r] = p /\ \A b \in Actors \ {r} : actor'[b] = actor[b]
  BY <1>1, <1>2
<1>5. /\ sessions \in [SessionIds -> Sessions] /\ State \in SessionIds
      /\ <<r, "own">> \in SessionIds /\ <<r, "new">> \in SessionIds
      /\ State # <<r, "own">> /\ State # <<r, "new">>
  BY <1>1, SessionsApart DEF TypeInv
<1>6. \A s \in SessionIds : s # <<r, "own">> /\ s # <<r, "new">>
                              => sessions'[s] = sessions[s]
  BY <1>5 DEF Begin
<1>9. Earned(r)'
  BY <1>3, <1>4 DEF Earned, Persistent
<1> QED
  BY <1>1, <1>2, <1>4, <1>6, <1>9, CalmFrame

(* The background task asks for nothing.                                    *)
LEMMA RefreshCalm ==
    ASSUME HomeInv, CalmInv, calm, Refresh
    PROVE  CalmInv'
<1>1. /\ Refresher \in Actors /\ Refresher \notin Requests /\ TypeInv
      /\ UNCHANGED <<world, calm, sessions>>
  BY ConnectionAssumption DEF Actors, HomeInv, Refresh, world
<1>2. \A b \in Actors \ {Refresher} : actor'[b] = actor[b]
  BY <1>1 DEF Refresh, TypeInv
<1> QED
  BY <1>1, <1>2, CalmFrame

(* A refusal is answered by a sign-in, unless the client lost its token or  *)
(* database since one; or it never had one and the operation gives up.      *)
LEMMA AfterwardsCalm ==
    ASSUME HomeInv, CalmInv, calm, NEW r \in Requests,
           NEW error \in {unauthorized, uninitialised}, Afterwards(r, error),
           actor[r].stage \in {"select", "query"},
           ~Whole(SessionOf(r)),
           UNCHANGED <<world, calm, sessions>>
    PROVE  CalmInv'
<1>1. r \in Actors /\ actor[r].op \in Ops /\ TypeInv /\ Earned(r) /\ error \in Errors
  BY ProgressFields, ErrorsApart DEF Actors, HomeInv, CalmInv
<1>2. /\ \A b \in Actors \ {r} : actor'[b] = actor[b]
      /\ actor'[r].op = actor[r].op /\ actor'[r].via = actor[r].via
      /\ actor'[r].late = actor[r].late /\ actor'[r].try = actor[r].try
      /\ \/ /\ actor'[r].stage = "done" /\ actor'[r].answer = error
            /\ error \in actor[r].op.retries /\ actor[r].op.again # "never"
                 => actor[r].try # 1
         \/ /\ actor'[r].stage = "signin" /\ actor'[r].candidate = 1
            /\ actor[r].op.again # "never"
         \/ /\ actor'[r].stage = "connect"
            /\ actor[r].op.again = "reconnect"
  BY <1>1, AfterwardsShape
<1>3. SessionOf(r)' = SessionOf(r)
  BY <1>2 DEF SessionOf, world
<1>4. /\ actor[r].op.again # "never" => unauthorized \in actor[r].op.retries
      /\ actor[r].op.fresh => actor[r].op.again = "never"
  BY <1>1, OpsShape
<1>5. /\ Persistent(actor[r].op) /\ actor[r].try # 1 => actor[r].late
      /\ actor[r].op.fresh => actor[r].try # 1
  BY <1>1 DEF Earned, Fresh
<1>6. Earned(r)'
  <2>1. CASE actor'[r].stage = "done"
    <3>1. Persistent(actor[r].op) => Excused(actor'[r])
      BY <1>2, <1>4, <1>5, <2>1, ErrorsApart DEF Excused, Persistent
    <3> QED
      BY <1>2, <2>1, <3>1 DEF Earned, Persistent
  <2>2. CASE actor'[r].stage \in {"signin", "connect"}
    BY <1>2, <1>3, <1>4, <1>5, <2>2 DEF Earned, Persistent
  <2> QED
    BY <1>2, <2>1, <2>2
<1> QED
  BY <1>1, <1>2, <1>6, CalmFrame

(* create_board selects a database or signs in again.                       *)
LEMMA SelectCalm ==
    ASSUME HomeInv, CalmInv, calm, NEW r \in Requests, Select(r)
    PROVE  CalmInv'
<1>1. r \in Actors /\ actor[r] \in Progress /\ TypeInv /\ Earned(r)
  BY ProgressFields DEF Actors, HomeInv, CalmInv
<1>2. /\ UNCHANGED <<world, calm, sharing>> /\ actor[r].stage = "select"
      /\ sessions \in [SessionIds -> Sessions] /\ SessionOf(r) \in SessionIds
  BY <1>1, SessionsApart DEF Select, world, TypeInv
<1>3. CASE /\ sessions[SessionOf(r)].token = "good"
           /\ sessions' = [sessions EXCEPT ![SessionOf(r)].on = Home]
           /\ actor' = [actor EXCEPT ![r].stage = "query"]
  <2>1. /\ \A s \in SessionIds : s # SessionOf(r) => sessions'[s] = sessions[s]
        /\ sessions'[SessionOf(r)].on = Home
        /\ sessions'[SessionOf(r)].token = "good"
    BY <1>2, <1>3 DEF Sessions
  <2>2. /\ \A b \in Actors \ {r} : actor'[b] = actor[b]
        /\ actor'[r].stage = "query" /\ actor'[r].op = actor[r].op
        /\ actor'[r].via = actor[r].via /\ actor'[r].try = actor[r].try
    BY <1>1, <1>3 DEF TypeInv, Progress
  <2>3. SessionOf(r)' = SessionOf(r)
    BY <1>2, <2>2 DEF SessionOf
  <2>4. Earned(r)'
    BY <1>1, <1>2, <2>1, <2>2, <2>3, CandidateOrder DEF Earned, Fresh, Whole
  <2>5. \A s \in SessionIds :
               /\ sessions[s].on # None => sessions'[s].on # None
               /\ sessions[s].token = "good" => sessions'[s].token = "good"
    BY <2>1, CandidateOrder
  <2> QED
    BY <1>1, <1>2, <2>2, <2>4, <2>5, CalmFrame
<1>4. CASE /\ sessions[SessionOf(r)].token # "good"
           /\ Afterwards(r, unauthorized) /\ UNCHANGED sessions
  BY <1>2, <1>4, AfterwardsCalm DEF Whole
<1> QED
  BY <1>3, <1>4, NoFaultWhenCalm DEF Select

(* The query is refused only for its token or its database.                 *)
LEMMA QueryCalm ==
    ASSUME HomeInv, CalmInv, calm, NEW r \in Requests, QueryStep(r)
    PROVE  CalmInv'
<1>1. r \in Actors /\ actor[r] \in Progress /\ TypeInv /\ Earned(r)
  BY ProgressFields DEF Actors, HomeInv, CalmInv
<1>2. UNCHANGED <<world, calm, sharing, sessions>> /\ actor[r].stage = "query"
  BY DEF QueryStep, world
<1>3. CASE Finished(r, "ok", sessions[SessionOf(r)].on)
  <2>1. /\ \A b \in Actors \ {r} : actor'[b] = actor[b]
        /\ actor'[r].stage = "done" /\ actor'[r].op = actor[r].op
        /\ actor'[r].answer = "ok"
    BY <1>1, <1>3 DEF TypeInv, Progress, Finished, Answered
  <2>2. Earned(r)'
    BY <2>1, ErrorsApart DEF Earned
  <2> QED
    BY <1>1, <1>2, <2>1, <2>2, CalmFrame
<1>4. CASE Refusal(r) # None /\ Afterwards(r, Refusal(r))
  <2>1. Refusal(r) \in {unauthorized, uninitialised} /\ ~Whole(SessionOf(r))
    BY <1>4 DEF Refusal, Whole
  <2> QED
    BY <1>2, <1>4, <2>1, AfterwardsCalm
<1> QED
  BY <1>3, <1>4, NoFaultWhenCalm DEF QueryStep

(* A candidate fails only because its token was lost after the sign-in.     *)
LEMMA NextCandidateCalm ==
    ASSUME HomeInv, CalmInv, calm, NEW a \in Actors, NextCandidate(a),
           actor[a].stage \in {"signin", "use"},
           a \in Requests => actor[a].late,
           UNCHANGED <<world, calm>>
    PROVE  CalmInv'
<1>1. TypeInv /\ actor[a] \in Progress /\ actor[a].op \in Ops
  BY ProgressFields DEF HomeInv
<1>2. /\ \A b \in Actors \ {a} : actor'[b] = actor[b]
      /\ \A s \in SessionIds :
           /\ sessions'[s].token = sessions[s].token
           /\ sessions'[s].on = sessions[s].on
  BY <1>1, NextCandidateShape
<1>3. ASSUME a \in Requests
      PROVE  Earned(a)'
  <2>1. /\ Earned(a) /\ a # Refresher /\ actor[a].late
        /\ SessionOf(a) \in SessionIds /\ actor[a].via \in {"own", "new"}
    BY <1>1, <1>3, SessionsApart, ConnectionAssumption DEF CalmInv, Progress
  <2>2. /\ Persistent(actor[a].op)
        /\ actor[a].op.fresh => actor[a].via = "new"
    BY <2>1 DEF Earned
  <2>3. CASE actor'[a] = [actor[a] EXCEPT !.stage = "signin",
                                    !.failed = @ \union {actor[a].candidate},
                                    !.candidate = @ + 1]
    <3>1. /\ actor'[a].stage = "signin" /\ actor'[a].op = actor[a].op
          /\ actor'[a].via = actor[a].via /\ actor'[a].late = actor[a].late
      BY <1>1, <2>3 DEF Progress
    <3>2. SessionOf(a)' = SessionOf(a)
      BY <3>1 DEF SessionOf, world
    <3> QED
      BY <1>2, <2>1, <2>2, <3>1, <3>2 DEF Earned
  <2>4. CASE actor'[a] = AfterReauth(a, FALSE)
    <3>1. /\ actor'[a].op = actor[a].op /\ actor'[a].via = actor[a].via
          /\ actor'[a].late = actor[a].late
          /\ actor'[a].stage \in {"done", "connect", "select", "query"}
          /\ actor'[a].stage \in {"select", "query"} => actor[a].via = "own"
      BY <1>1, <2>1, <2>4, ReauthShape
    <3>2. SessionOf(a)' = SessionOf(a)
      BY <3>1 DEF SessionOf, world
    <3> QED
      BY <1>2, <2>1, <2>2, <3>1, <3>2 DEF Earned, Fresh, Excused
  <2> QED
    BY <1>1, <2>3, <2>4, NextCandidateShape
<1> QED
  BY <1>1, <1>2, <1>3, CalmFrame

(* The first candidate always signs in.                                     *)
LEMMA SignInCalm ==
    ASSUME HomeInv, CalmInv, calm, NEW a \in Actors, SignIn(a)
    PROVE  CalmInv'
<1>1. TypeInv /\ actor[a] \in Progress
  BY ProgressFields DEF HomeInv
<1>2. /\ UNCHANGED <<world, calm, sharing>> /\ actor[a].stage = "signin"
      /\ sessions \in [SessionIds -> Sessions] /\ SessionOf(a) \in SessionIds
  BY <1>1, SessionsApart DEF SignIn, world, TypeInv
<1>3. CASE /\ sessions' = [sessions EXCEPT ![SessionOf(a)].token = "good"]
           /\ actor' = [actor EXCEPT ![a].stage = "use", ![a].late = FALSE]
  <2>1. \A s \in SessionIds :
           /\ s # SessionOf(a) => sessions'[s] = sessions[s]
           /\ sessions'[s].on = sessions[s].on
           /\ sessions'[SessionOf(a)].token = "good"
    BY <1>2, <1>3 DEF Sessions
  <2>2. /\ \A b \in Actors \ {a} : actor'[b] = actor[b]
        /\ actor'[a].stage = "use" /\ actor'[a].op = actor[a].op
        /\ actor'[a].via = actor[a].via
    BY <1>1, <1>3 DEF TypeInv, Progress
  <2>3. SessionOf(a)' = SessionOf(a)
    BY <1>2, <2>2 DEF SessionOf
  <2>4. a \in Requests => Earned(a)'
    BY <1>2, <2>1, <2>2, <2>3 DEF CalmInv, Earned, Fresh
  <2>5. \A s \in SessionIds :
           /\ sessions[s].on # None => sessions'[s].on # None
           /\ sessions[s].token = "good" => sessions'[s].token = "good"
    BY <2>1
  <2> QED
    BY <1>1, <1>2, <2>2, <2>4, <2>5, CalmFrame
<1>4. CASE Candidates[actor[a].candidate].user \notin accepted /\ NextCandidate(a)
  <2>1. actor[a].candidate # 1
    BY <1>4 DEF CalmInv
  <2>2. a \in Requests => actor[a].late
    BY <1>2, <2>1 DEF CalmInv, Earned
  <2> QED
    BY <1>2, <1>4, <2>2, NextCandidateCalm
<1> QED
  BY <1>3, <1>4, NoFaultWhenCalm DEF SignIn

(* Signing in ends with a database, and a token that is good or expired     *)
(* once more.                                                               *)
LEMMA UseCalm ==
    ASSUME HomeInv, CalmInv, calm, NEW a \in Actors, Use(a)
    PROVE  CalmInv'
<1> DEFINE db == Candidates[actor[a].candidate].db
<1>1. TypeInv /\ actor[a] \in Progress
  BY ProgressFields DEF HomeInv
<1>2. /\ UNCHANGED <<world, calm, sharing>> /\ actor[a].stage = "use"
      /\ sessions \in [SessionIds -> Sessions] /\ SessionOf(a) \in SessionIds
      /\ db # None
  BY <1>1, SessionsApart, CandidateOrder DEF Use, world, TypeInv, Progress
<1>3. a \in Requests =>
         /\ Earned(a) /\ a # Refresher /\ Persistent(actor[a].op)
         /\ actor[a].op.fresh => actor[a].via = "new"
         /\ sessions[SessionOf(a)].token = "good" \/ actor[a].late
  BY <1>2, ConnectionAssumption DEF CalmInv, Earned, Fresh
<1>4. CASE /\ sessions[SessionOf(a)].token = "good"
           /\ sessions' = [sessions EXCEPT ![SessionOf(a)].on = db]
           /\ actor' = [actor EXCEPT ![a] = AfterReauth(a, TRUE)]
  <2> HIDE DEF db
  <2>1. /\ \A s \in SessionIds : s # SessionOf(a) => sessions'[s] = sessions[s]
        /\ sessions'[SessionOf(a)].on = db
        /\ sessions'[SessionOf(a)].token = "good"
    BY <1>2, <1>4 DEF Sessions
  <2>2. /\ \A b \in Actors \ {a} : actor'[b] = actor[b]
        /\ actor'[a] = AfterReauth(a, TRUE)
    BY <1>1, <1>4 DEF TypeInv
  <2>3. ASSUME a \in Requests
        PROVE  Earned(a)'
    <3>1. /\ actor'[a].op = actor[a].op /\ actor'[a].via = actor[a].via
          /\ actor'[a].late = actor[a].late
          /\ actor'[a].stage \in {"health", "connect", "select", "query"}
          /\ actor'[a].stage \in {"select", "query"} =>
               actor[a].via = "own" /\ actor'[a].try = 2
      BY <1>1, <1>3, <2>2, <2>3, ReauthShape
    <3>2. SessionOf(a)' = SessionOf(a)
      BY <1>2, <3>1 DEF SessionOf
    <3> QED
      BY <1>2, <1>3, <2>1, <2>3, <3>1, <3>2 DEF Earned, Fresh, Whole
  <2>4. \A s \in SessionIds :
           /\ sessions[s].on # None => sessions'[s].on # None
           /\ sessions[s].token = "good" => sessions'[s].token = "good"
    BY <1>2, <2>1
  <2> QED
    BY <1>1, <1>2, <2>2, <2>3, <2>4, CalmFrame
<1>5. CASE sessions[SessionOf(a)].token # "good" /\ NextCandidate(a)
  BY <1>2, <1>3, <1>5, NextCandidateCalm
<1> QED
  BY <1>4, <1>5, NoFaultWhenCalm DEF Use

(* A new client has yet to sign in.                                         *)
LEMMA ConnectCalm ==
    ASSUME HomeInv, CalmInv, calm, NEW r \in Requests, Connect(r)
    PROVE  CalmInv'
<1>1. r \in Actors /\ actor[r] \in Progress /\ TypeInv /\ Earned(r)
  BY ProgressFields DEF Actors, HomeInv, CalmInv
<1>2. /\ UNCHANGED <<world, calm>> /\ actor[r].stage = "connect"
      /\ sessions' = [sessions EXCEPT ![<<r, "new">>] = NoSession]
      /\ actor' = [actor EXCEPT ![r].stage = "signin", ![r].via = "new",
                                ![r].candidate = 1, ![r].failed = {},
                                ![r].late = FALSE]
  BY NoFaultWhenCalm DEF Connect, world
<1>3. \A s \in SessionIds : s # <<r, "new">> => sessions'[s] = sessions[s]
  BY <1>1, <1>2 DEF TypeInv
<1>4. /\ \A b \in Actors \ {r} : actor'[b] = actor[b]
      /\ actor'[r].stage = "signin" /\ actor'[r].op = actor[r].op
      /\ actor'[r].via = "new" /\ actor'[r].candidate = 1
  BY <1>1, <1>2 DEF TypeInv, Progress
<1>5. Earned(r)'
  BY <1>1, <1>2, <1>4 DEF Earned
<1> QED
  BY <1>1, <1>2, <1>3, <1>4, <1>5, CalmFrame

(* The health query fails only if the token expired after the sign-in.      *)
LEMMA HealthCalm ==
    ASSUME HomeInv, CalmInv, calm, NEW r \in Requests, Health(r)
    PROVE  CalmInv'
<1>1. /\ r \in Actors /\ actor[r] \in Progress /\ TypeInv /\ Earned(r)
      /\ FirstCall(actor[r].op) \in {"select", "query"}
  BY ProgressFields DEF Actors, HomeInv, CalmInv
<1>2. /\ UNCHANGED <<world, calm, sharing, sessions>> /\ actor[r].stage = "health"
  BY DEF Health, world
<1>3. Persistent(actor[r].op) /\ Fresh(r)
  BY <1>1, <1>2 DEF Earned
<1>4. CASE /\ Refusal(r) = None
           /\ actor' = [actor EXCEPT ![r].stage = FirstCall(actor[r].op), ![r].try = 3]
  <2>1. /\ \A b \in Actors \ {r} : actor'[b] = actor[b]
        /\ actor'[r].stage \in {"select", "query"} /\ actor'[r].op = actor[r].op
        /\ actor'[r].via = actor[r].via /\ actor'[r].try = 3
        /\ actor'[r].late = actor[r].late
    <3> HIDE DEF FirstCall
    <3> QED BY <1>1, <1>4 DEF TypeInv, Progress
  <2>2. SessionOf(r)' = SessionOf(r)
    BY <1>2, <2>1 DEF SessionOf
  <2>3. Earned(r)'
    BY <1>2, <1>3, <2>1, <2>2 DEF Earned, Fresh, Whole
  <2> QED
    BY <1>1, <1>2, <2>1, <2>3, CalmFrame
<1>5. CASE Refusal(r) # None /\ Finished(r, noclient, None)
  <2>1. actor[r].late
    BY <1>3, <1>5 DEF Refusal, Fresh, Whole
  <2>2. actor' = [actor EXCEPT ![r] = Answered(r, noclient, None)]
    BY <1>5 DEF Finished
  <2>3. /\ \A b \in Actors \ {r} : actor'[b] = actor[b]
        /\ actor'[r].stage = "done" /\ actor'[r].op = actor[r].op
        /\ actor'[r].late = actor[r].late
    BY <1>1, <2>2, ErrorsApart DEF TypeInv, Progress, Answered
  <2>4. Earned(r)'
    BY <1>3, <2>1, <2>3 DEF Earned, Excused
  <2> QED
    BY <1>1, <1>2, <2>3, <2>4, CalmFrame
<1> QED
  BY <1>4, <1>5, NoFaultWhenCalm DEF Health

(* A loss is late for every actor that uses the client; a database that is  *)
(* lost between a sign-in and the selection is selected all the same.       *)
LEMMA LossCalm ==
    ASSUME HomeInv, CalmInv, calm, NEW s \in SessionIds, Expire(s) \/ Forget(s)
    PROVE  CalmInv'
<1>1. TypeInv /\ UNCHANGED <<world, calm, sharing, accepted>>
  BY DEF HomeInv, Expire, Forget, world
<1>2. /\ \A x \in SessionIds : x # s => sessions'[x] = sessions[x]
      /\ Forget(s) => \A x \in SessionIds : sessions'[x].token = sessions[x].token
  BY <1>1 DEF Expire, Forget, TypeInv, Sessions
<1>3. ASSUME NEW r \in Requests
      PROVE  Earned(r)'
  <2>1. r \in Actors /\ actor[r] \in Progress /\ SessionOf(r) \in SessionIds /\ Earned(r)
    BY <1>1, ProgressFields, SessionsApart DEF Actors, CalmInv
  <2>2. PICK resting \in {{"idle", "done"}, {"idle", "done", "use"}} :
          /\ actor'[r] = IF SessionOf(r) = s /\ actor[r].stage \notin resting
                         THEN [actor[r] EXCEPT !.late = TRUE] ELSE actor[r]
          /\ Forget(s) \/ resting = {"idle", "done"}
    BY <2>1 DEF Expire, Forget, Late
  <2>3. /\ actor'[r].stage = actor[r].stage /\ actor'[r].op = actor[r].op
        /\ actor'[r].via = actor[r].via /\ actor'[r].candidate = actor[r].candidate
        /\ actor'[r].answer = actor[r].answer /\ actor'[r].try = actor[r].try
        /\ actor[r].late => actor'[r].late
        /\ SessionOf(r) = s /\ actor[r].stage \notin resting => actor'[r].late
    BY <2>1, <2>2 DEF Progress
  <2>4. SessionOf(r)' = SessionOf(r)
    BY <1>1, <2>3 DEF SessionOf
  <2>5. actor[r].stage \notin {"idle", "done", "use"} /\ Fresh(r) => Fresh(r)'
    BY <1>2, <2>1, <2>2, <2>3, <2>4 DEF Fresh, Whole
  <2>6. actor[r].stage = "use" /\ (sessions[SessionOf(r)].token = "good" \/ actor[r].late)
          => sessions'[SessionOf(r)'].token = "good" \/ actor'[r].late
    BY <1>2, <2>1, <2>2, <2>3, <2>4
  <2>7. Excused(actor[r]) => Excused(actor'[r])
    BY <2>3 DEF Excused
  <2> QED
    BY <2>1, <2>3, <2>4, <2>5, <2>6, <2>7 DEF Earned
<1> QED
  BY <1>1, <1>3 DEF CalmInv

(* While the server is well every step keeps failures earned.               *)
LEMMA CalmStep == HomeInv /\ CalmInv /\ [Next]_vars => CalmInv'
<1> SUFFICES ASSUME HomeInv, CalmInv, [Next]_vars
             PROVE  CalmInv'
  OBVIOUS
<1>1. calm' = calm
  BY DEF Next, vars, world, Begin, Refresh, Select, QueryStep, Connect, Health, SignIn, Use,
         Expire, Forget
<1>2. CASE ~calm
  BY <1>1, <1>2 DEF CalmInv
<1>3. CASE calm
  <2>1. CASE \E r \in Requests : \E op \in Ops : Begin(r, op)
    BY <1>3, <2>1, BeginCalm
  <2>2. CASE Refresh
    BY <1>3, <2>2, RefreshCalm
  <2>3. CASE \E r \in Requests : Select(r) \/ QueryStep(r) \/ Connect(r) \/ Health(r)
    BY <1>3, <2>3, SelectCalm, QueryCalm, ConnectCalm, HealthCalm
  <2>4. CASE \E a \in Actors : SignIn(a) \/ Use(a)
    BY <1>3, <2>4, SignInCalm, UseCalm
  <2>5. CASE \E s \in SessionIds : Expire(s) \/ Forget(s)
    BY <1>3, <2>5, LossCalm
  <2>6. CASE UNCHANGED vars
    BY <1>3, <2>6 DEF vars, CalmInv, Earned, Fresh, Whole, SessionOf
  <2> QED
    BY <2>1, <2>2, <2>3, <2>4, <2>5, <2>6 DEF Next
<1> QED
  BY <1>2, <1>3

(* While the server is well and accepts the user of the environment, an     *)
(* operation that signs in again fails only if its client lost its token or *)
(* its database after the last sign-in, or had no database when it began    *)
(* and the operation signs in for refused tokens alone.                     *)
THEOREM FailuresAreEarnedHolds == Spec => []FailuresAreEarned
<1>1. CalmInv => FailuresAreEarned
  BY DEF CalmInv, Earned, Excused, Persistent, FailuresAreEarned
<1> QED
  BY <1>1, CalmInit, HomeInvariant, CalmStep, PTL DEF Spec
=============================================================================
