----------------------------- MODULE Connection -----------------------------
(***************************************************************************)
(* The connection to SurrealDB (surreal.rs): the process keeps one client  *)
(* that is signed in and has a namespace and database selected; requests   *)
(* use clones of it, a background task signs a clone in again every half   *)
(* hour, and operations that meet an expired token sign in again, repeat   *)
(* their query, and at the last resort build a new client.                 *)
(*                                                                         *)
(* The client library is external: its clones either share one session or  *)
(* each take a copy of it ("sharing"), and both are checked.               *)
(***************************************************************************)
EXTENDS Naturals, Sequences, FiniteSets, SequencesExt

CONSTANTS
    Requests,     \* tasks that serve requests
    Refresher,    \* the background task of bin/api.rs
    Candidates,   \* what reauth_from_env tries: [user, db], without repetitions
    Home,         \* the namespace and database of the environment
    Sharings,     \* subset of {"shared", "cloned"}
    Faults,       \* subset of {"down", "lost", "forgotten"}
    MaxActs,      \* bound: requests, refreshes and expiries in a behaviour
    MaxFaults     \* bound: faults in a behaviour

None == "none"
Users == {Candidates[i].user : i \in DOMAIN Candidates}
Databases == {Candidates[i].db : i \in DOMAIN Candidates}
HomeCandidates == {i \in DOMAIN Candidates : Candidates[i].db = Home}
Actors == Requests \union {Refresher}

(* The user and the database of the environment come first, then root on    *)
(* that database, then root on two others, each pair once: the candidates   *)
(* for the home database precede the others.                                *)
ASSUME ConnectionAssumption ==
    /\ Refresher \notin Requests
    /\ Candidates \in Seq([user : Users, db : Databases])
    /\ Candidates # <<>>
    /\ Candidates[1].db = Home
    /\ \A i, j \in DOMAIN Candidates :
          i < j /\ Candidates[j].db = Home => Candidates[i].db = Home
    /\ None \notin Databases
    /\ Sharings \subseteq {"shared", "cloned"}
    /\ MaxActs \in Nat /\ MaxFaults \in Nat

(***************************************************************************)
(* The operations: whether one writes a row; whether it selects the home   *)
(* database first; whether it starts with a new client; which errors it    *)
(* answers by signing in again; and what it does after that:               *)
(*   "reconnect"  repeats its query, and at such an error again builds a   *)
(*                new client and repeats it there;                         *)
(*   "either"     repeats its query if it could sign in, otherwise builds  *)
(*                a new client and repeats it there;                       *)
(*   "retry"      repeats its query;                                       *)
(*   "never"      nothing: it does not sign in again.                      *)
(***************************************************************************)
Wrapped(writes, errors) ==
    [writes |-> writes, selects |-> FALSE, fresh |-> FALSE,
     retries |-> errors, again |-> "reconnect"]

unauthorized == "unauthorized"
uninitialised == "uninitialised"
noclient == "no client"   \* no new client can be had
Errors == {unauthorized, uninitialised, noclient, "down", "lost"}

Plain(writes) == [Wrapped(writes, {}) EXCEPT !.again = "never"]

create_board == [Wrapped(TRUE, {unauthorized, uninitialised}) EXCEPT !.selects = TRUE]
create_topic == Wrapped(TRUE, {unauthorized, uninitialised})
create_post_in_topic == Wrapped(TRUE, {unauthorized, uninitialised})
create_verification_challenge == Wrapped(TRUE, {unauthorized})
list_boards == Wrapped(FALSE, {unauthorized})
list_topics == Wrapped(FALSE, {unauthorized})
get_topic == Wrapped(FALSE, {unauthorized})
list_posts_for_topic == Wrapped(FALSE, {unauthorized})
list_posts == Wrapped(FALSE, {unauthorized})
list_users == Wrapped(FALSE, {unauthorized})
list_admins == Wrapped(FALSE, {unauthorized})
get_board_permissions == Wrapped(FALSE, {unauthorized})
points_leaderboard == Wrapped(FALSE, {unauthorized})
get_points_balance == Wrapped(FALSE, {unauthorized})
list_recent_points_events == Wrapped(FALSE, {unauthorized})
list_members == Wrapped(FALSE, {unauthorized})
list_board_access == Wrapped(FALSE, {unauthorized})
list_ban_rules == Wrapped(FALSE, {unauthorized})
personal_message_labels == [Wrapped(FALSE, {unauthorized}) EXCEPT !.again = "either"]
personal_message_page == [Wrapped(FALSE, {unauthorized}) EXCEPT !.again = "either"]
personal_message_page_counts == personal_message_page
load_user_admin_row_by_record_id == [Wrapped(FALSE, {unauthorized}) EXCEPT !.again = "retry"]
create_notification == Plain(TRUE)
list_notifications == Plain(FALSE)
create_attachment_meta == Plain(TRUE)
list_attachments_for_user == Plain(FALSE)
create_post == Plain(TRUE)
create_demo_post == Plain(TRUE)
create_surreal_board == [Plain(TRUE) EXCEPT !.fresh = TRUE, !.selects = TRUE]

Ops == {create_board, create_topic, create_post_in_topic, create_verification_challenge,
        list_boards, list_topics, get_topic, list_posts_for_topic, list_posts, list_users,
        list_admins, get_board_permissions, points_leaderboard, list_members,
        list_board_access, list_ban_rules, get_points_balance, list_recent_points_events,
        personal_message_labels, personal_message_page, personal_message_page_counts,
        load_user_admin_row_by_record_id, create_notification, list_notifications,
        create_attachment_meta, list_attachments_for_user, create_post, create_demo_post,
        create_surreal_board}

VARIABLES
    sharing,   \* whether the clones of a client share its session
    calm,      \* the server is reached, and accepts the user of the environment
    accepted,  \* users whom the server lets sign in
    sessions,  \* of the client of the process, and per actor of its clone and of
               \* the client it built: [token, on, strayed]
    actor,     \* per actor: what it does, and how far it is
    written,   \* per request: the databases its present operation wrote a row to
    acts, faults

vars == <<sharing, calm, accepted, sessions, actor, written, acts, faults>>
world == <<sharing, calm, accepted>>

(* A session's token is "none", "good" or "expired"; "on" is the database    *)
(* selected; "strayed" is a history: a sign-in failed at every home candidate. *)
NoSession == [token |-> "none", on |-> None, strayed |-> FALSE]
Idle == [stage |-> "idle", op |-> list_notifications, try |-> 0, via |-> "own",
         candidate |-> 1, failed |-> {}, late |-> FALSE, answer |-> None, from |-> None]
State == <<Refresher, "state">>
SessionIds == {State} \union (Actors \X {"own", "new"})

(* The session behind the client that an actor uses now. *)
SessionOf(a) ==
    IF sharing = "shared" /\ actor[a].via = "own" THEN State ELSE <<a, actor[a].via>>

Fault(f) == f \in Faults /\ ~calm /\ faults < MaxFaults /\ faults' = faults + 1
NoFault == UNCHANGED faults

(* The process starts with connect_from_env(), or not at all. *)
Init ==
    /\ sharing \in Sharings
    /\ calm \in BOOLEAN
    /\ accepted \in SUBSET Users
    /\ calm => Candidates[1].user \in accepted
    /\ \E strayed \in IF calm THEN {FALSE} ELSE BOOLEAN :
         \E on \in IF strayed THEN Databases ELSE {Home} :
           LET first == [token |-> "good", on |-> on, strayed |-> strayed]
           IN sessions = [s \in SessionIds |->
                IF s = State \/ (sharing = "cloned" /\ s = <<Refresher, "own">>)
                THEN first ELSE NoSession]
    /\ actor = [a \in Actors |-> Idle]
    /\ written = [r \in Requests |-> <<>>]
    /\ acts = 0
    /\ faults = 0

(* What an actor does before each of its queries. *)
FirstCall(op) == IF op.selects THEN "select" ELSE "query"
Answered(a, answer, from) ==
    [actor[a] EXCEPT !.stage = "done", !.answer = answer, !.from = from,
                     !.late = @ /\ answer \in Errors]
Finished(a, answer, from) == actor' = [actor EXCEPT ![a] = Answered(a, answer, from)]

(* A request arrives: the state of the server is cloned for it. *)
Begin(r, op) ==
    /\ actor[r].stage \in {"idle", "done"}
    /\ acts < MaxActs /\ acts' = acts + 1
    /\ actor' = [actor EXCEPT ![r] = [Idle EXCEPT
           !.op = op, !.try = 1, !.stage = IF op.fresh THEN "connect" ELSE FirstCall(op)]]
    /\ sessions' = [sessions EXCEPT
           ![<<r, "own">>] = IF sharing = "cloned" THEN sessions[State] ELSE NoSession,
           ![<<r, "new">>] = NoSession]
    /\ written' = [written EXCEPT ![r] = <<>>]
    /\ UNCHANGED <<world, faults>>

(* The background task starts a round. *)
Refresh ==
    /\ actor[Refresher].stage \in {"idle", "done"}
    /\ acts < MaxActs /\ acts' = acts + 1
    /\ actor' = [actor EXCEPT ![Refresher] = [Idle EXCEPT !.stage = "signin"]]
    /\ UNCHANGED <<world, sessions, written, faults>>

(* The error of a query: sign in again, build a new client, or give up.    *)
\* Mutant of Retriable: every error counts, a lost answer too.
EveryError(op, error) == op.retries # {}
Retriable(op, error) == error \in op.retries
Afterwards(a, error) ==
    LET op == actor[a].op
        signs == Retriable(op, error) /\ op.again # "never" /\ actor[a].try = 1
        connects == Retriable(op, error) /\ op.again = "reconnect" /\ actor[a].try = 2
    IN actor' = [actor EXCEPT ![a] =
         CASE signs -> [@ EXCEPT !.stage = "signin", !.candidate = 1, !.failed = {}]
           [] connects -> [@ EXCEPT !.stage = "connect"]
           [] OTHER -> Answered(a, error, None)]

(* The server refuses a call: what it answers. *)
Refusal(a) ==
    LET s == sessions[SessionOf(a)]
    IN CASE s.token # "good" -> unauthorized
         [] s.on = None -> uninitialised
         [] OTHER -> None

(* use_ns and use_db at the head of surreal::create_board. *)
Select(r) ==
    /\ actor[r].stage = "select"
    /\ \/ sessions[SessionOf(r)].token = "good" /\ NoFault
          /\ sessions' = [sessions EXCEPT ![SessionOf(r)].on = Home]
          /\ actor' = [actor EXCEPT ![r].stage = "query"]
       \/ sessions[SessionOf(r)].token # "good" /\ NoFault
          /\ Afterwards(r, unauthorized) /\ UNCHANGED sessions
       \/ Fault("down") /\ Afterwards(r, "down") /\ UNCHANGED sessions
    /\ UNCHANGED <<world, written, acts>>

(* The query itself; a row may be written though its answer is lost. *)
QueryStep(r) ==
    LET on == sessions[SessionOf(r)].on
        Effect == written' = [written EXCEPT ![r] =
                      IF actor[r].op.writes THEN Append(@, on) ELSE @]
    IN
    /\ actor[r].stage = "query"
    /\ \/ Refusal(r) = None /\ NoFault /\ Effect /\ Finished(r, "ok", on)
       \/ Refusal(r) = None /\ Fault("lost") /\ Effect /\ Afterwards(r, "lost")
       \/ Refusal(r) # None /\ NoFault /\ Afterwards(r, Refusal(r)) /\ UNCHANGED written
       \/ Fault("down") /\ Afterwards(r, "down") /\ UNCHANGED written
    /\ UNCHANGED <<world, sessions, acts>>

(* What follows reauth_from_env, once it signed in or failed.              *)
AfterReauth(a, signed) ==
    IF a = Refresher
    THEN Idle
    ELSE IF actor[a].via = "new"
    THEN IF signed THEN [actor[a] EXCEPT !.stage = "health"]
                   ELSE [actor[a] EXCEPT !.stage = "done", !.answer = noclient]
    ELSE IF actor[a].op.again = "either" /\ ~signed
    THEN [actor[a] EXCEPT !.stage = "connect", !.try = 2]
    ELSE [actor[a] EXCEPT !.stage = FirstCall(actor[a].op), !.try = 2]

(* One candidate of reauth_from_env fails: the next one, or none is left.  *)
NextCandidate(a) ==
    LET failed == actor[a].failed \union {actor[a].candidate}
        rest == actor[a].candidate < Len(Candidates)
    IN /\ actor' = [actor EXCEPT ![a] =
             IF rest THEN [actor[a] EXCEPT !.stage = "signin", !.failed = failed,
                                           !.candidate = @ + 1]
                     ELSE AfterReauth(a, FALSE)]
       /\ sessions' = [sessions EXCEPT ![SessionOf(a)].strayed =
             @ \/ HomeCandidates \subseteq failed]

(* signin of the client, or else a token from /signin and authenticate.    *)
SignIn(a) ==
    LET c == Candidates[actor[a].candidate] IN
    /\ actor[a].stage = "signin"
    /\ \/ c.user \in accepted /\ NoFault
          /\ sessions' = [sessions EXCEPT ![SessionOf(a)].token = "good"]
          /\ actor' = [actor EXCEPT ![a].stage = "use", ![a].late = FALSE]
       \/ c.user \notin accepted /\ NoFault /\ NextCandidate(a)
       \/ Fault("down") /\ NextCandidate(a)
    /\ UNCHANGED <<world, written, acts>>

(* use_ns and use_db of a candidate that signed in.                        *)
Use(a) ==
    LET c == Candidates[actor[a].candidate] IN
    /\ actor[a].stage = "use"
    /\ \/ sessions[SessionOf(a)].token = "good" /\ NoFault
          /\ sessions' = [sessions EXCEPT ![SessionOf(a)].on = c.db]
          /\ actor' = [actor EXCEPT ![a] = AfterReauth(a, TRUE)]
       \/ sessions[SessionOf(a)].token # "good" /\ NoFault /\ NextCandidate(a)
       \/ Fault("down") /\ NextCandidate(a)
    /\ UNCHANGED <<world, written, acts>>

\* Mutant of Connect: the new client does not sign in.
Unsigned(r) ==
    /\ actor[r].stage = "connect"
    /\ NoFault
    /\ sessions' = [sessions EXCEPT ![<<r, "new">>] = NoSession]
    /\ actor' = [actor EXCEPT ![r].stage = "health", ![r].via = "new", ![r].late = FALSE]
    /\ UNCHANGED <<world, written, acts>>

(* connect_from_env: a new client, which then signs in.                    *)
Connect(r) ==
    /\ actor[r].stage = "connect"
    /\ \/ NoFault
          /\ sessions' = [sessions EXCEPT ![<<r, "new">>] = NoSession]
          /\ actor' = [actor EXCEPT ![r].stage = "signin", ![r].via = "new",
                                     ![r].candidate = 1, ![r].failed = {},
                                     ![r].late = FALSE]
       \/ Fault("down") /\ Finished(r, noclient, None) /\ UNCHANGED sessions
    /\ UNCHANGED <<world, written, acts>>

(* The health query of connect_from_env; if it is answered, the operation   *)
(* calls once more, with the new client.                                    *)
Health(r) ==
    /\ actor[r].stage = "health"
    /\ \/ Refusal(r) = None /\ NoFault
          /\ actor' = [actor EXCEPT ![r].stage = FirstCall(actor[r].op), ![r].try = 3]
       \/ Refusal(r) # None /\ NoFault /\ Finished(r, noclient, None)
       \/ Fault("down") /\ Finished(r, noclient, None)
    /\ UNCHANGED <<world, sessions, written, acts>>

(* The actors that use session s and hear of it if it is lost: those who    *)
(* are about to select a database do not miss the one they had.             *)
Late(s, resting) == [a \in Actors |->
    IF SessionOf(a) = s /\ actor[a].stage \notin resting
    THEN [actor[a] EXCEPT !.late = TRUE] ELSE actor[a]]

(* The token of a session runs out.                                        *)
Expire(s) ==
    /\ sessions[s].token = "good"
    /\ acts < MaxActs /\ acts' = acts + 1
    /\ sessions' = [sessions EXCEPT ![s].token = "expired"]
    /\ actor' = Late(s, {"idle", "done"})
    /\ UNCHANGED <<world, written, faults>>

(* A client loses its namespace and database ("Connection uninitialised"), *)
(* which also happens while the server is well (surreal.rs:518-520).       *)
Forget(s) ==
    /\ sessions[s].token # "none" /\ sessions[s].on # None
    /\ "forgotten" \in Faults /\ faults < MaxFaults /\ faults' = faults + 1
    /\ sessions' = [sessions EXCEPT ![s].on = None]
    /\ actor' = Late(s, {"idle", "done", "use"})
    /\ UNCHANGED <<world, written, acts>>

Next ==
    \/ \E r \in Requests : \E op \in Ops : Begin(r, op)
    \/ Refresh
    \/ \E r \in Requests : Select(r) \/ QueryStep(r) \/ Connect(r) \/ Health(r)
    \/ \E a \in Actors : SignIn(a) \/ Use(a)
    \/ \E s \in SessionIds : Expire(s) \/ Forget(s)

Spec == Init /\ [][Next]_vars
-----------------------------------------------------------------------------
(* A request that is repeated after a new sign-in writes its row once: at   *)
(* most once whatever its answers were, exactly once if it was answered ok. *)
(* What it wrote or answered came from the home database, unless a sign-in  *)
(* of its client had failed at every candidate of that database, whose last *)
(* resort are two others (surreal.rs, reauth_from_env).                     *)
WritesOnceAtHome ==
    \A r \in Requests :
        /\ Len(written[r]) <= 1
        /\ actor[r].stage = "done" /\ actor[r].answer = "ok" /\ actor[r].op.writes
             => Len(written[r]) = 1
        /\ \A db \in ToSet(written[r]) \union ({actor[r].from} \ {None}) :
             db = Home \/ sessions[SessionOf(r)].strayed

(* While the server is reached and accepts the user of the environment, an  *)
(* operation that signs in again fails only if the token or the database of *)
(* its client was lost after its last sign-in; or if its client had no      *)
(* database when it began and it signs in again for refused tokens alone,   *)
(* as all do but the three that write boards, topics and posts. These three *)
(* get over any loss that comes before their last sign-in, by whatever      *)
(* round of errors.                                                         *)
FailuresAreEarned ==
    \A r \in Requests :
        calm /\ actor[r].stage = "done" /\ actor[r].answer \in Errors
             /\ (actor[r].op.again # "never" \/ actor[r].op.fresh)
          => \/ actor[r].late
             \/ /\ actor[r].answer = uninitialised
                /\ uninitialised \notin actor[r].op.retries /\ actor[r].try = 1
=============================================================================
