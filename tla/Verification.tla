---------------------------- MODULE Verification ----------------------------
(***************************************************************************)
(* The verification challenge of the agent API (src/agent/verification.rs, *)
(* POST /agent/v1/verify).  A topic or a reply that an agent wants to      *)
(* publish is stored in a challenge; the submission that answers it        *)
(* correctly publishes it.  Every `await` of submit_verification is a step *)
(* of its own: other requests, the clock, a disconnecting client, a        *)
(* failing database and a crash of the server come between any two.        *)
(*                                                                         *)
(* A request waits for the lock of its challenge ("lock"), loads the row   *)
(* ("load"), judges it ("decide", "judge"), and then either records a      *)
(* failure ("saveChallenge", "loadStreak", "saveStreak", "saveBan") or     *)
(* publishes ("preflight", "consume", "drop", "createTopic" or             *)
(* "lookupTopic", "createPost", "loadClear", "saveClear").                 *)
(***************************************************************************)
EXTENDS Naturals, FiniteSets

CONSTANTS
  Requests,      \* calls of POST /agent/v1/verify; each submits once
  Codes,         \* verification codes
  Subjects,      \* agent subjects (claims.sub)
  Bannable,      \* subjects derive_ban_affects finds a ban condition for
  MaxAttempts,   \* VERIFICATION_MAX_ATTEMPTS
  BanThreshold,  \* failures in a row that ban (10 in the code)
  Backend,       \* "surreal" (SurrealService) or "memory" (InMemoryService)
  Faults,        \* what may go wrong, see FaultKinds
  None           \* no request, no subject

(***************************************************************************)
(* disconnect: the client goes away, the server drops the handler's future *)
(*             while the blocking database job it waits for runs on.       *)
(* crash:      the server process dies; the database keeps its rows.       *)
(* refused:    a database call fails without effect.                       *)
(* answerLost: a database call takes effect and then reports an error.     *)
(* swallowed:  an UPSERT statement fails inside a query that is reported   *)
(*             Ok: save_verification_* and save_ban_rule never look at the *)
(*             response.                                                   *)
(***************************************************************************)
FaultKinds == {"disconnect", "crash", "refused", "answerLost", "swallowed"}

ASSUME VerificationAssumption ==
  /\ MaxAttempts \in Nat \ {0}
  /\ BanThreshold \in Nat \ {0}
  /\ Bannable \subseteq Subjects
  /\ Faults \subseteq FaultKinds
  /\ None \notin Requests \cup Subjects

VARIABLES
  challenge,  \* the rows of agent_verification_challenges
  past,       \* past[c]: the challenge's expires_at is not after the clock
  holder,     \* holder[c]: the request that holds the lock of c, or None
  pc,         \* the step each request is at
  req,        \* the arguments of each request
  copy,       \* the request's copy of the challenge row
  late,       \* whether the instant taken for consume is past expires_at
  seen,       \* the consecutive_failures a request has read
  reply,      \* what the client was told; "gone" once it is disconnected
  streak,     \* agent_verification_failures.consecutive_failures
  banned,     \* subjects named by an automatic ban rule
  topics,     \* topics created from each challenge
  posts       \* posts created from each challenge

vars == <<challenge, past, holder, pc, req, copy, late, seen, reply, streak,
          banned, topics, posts>>
store == <<challenge, streak, banned, topics, posts>>
local == <<req, copy, late, seen>>
-----------------------------------------------------------------------------
Kinds == {"topic", "reply"}
Statuses == {"absent", "pending", "verified", "expired", "failed"}

\* A code without a row has no attempts, a row that takes answers has one left.
VerificationChallengeRecord ==
  {row \in [status: Statuses, attempts: 0..MaxAttempts,
            owner: Subjects \cup {None}, kind: Kinds] :
     /\ row.status = "absent" => row.attempts = 0
     /\ row.status = "pending" => row.attempts < MaxAttempts}

Absent == [status |-> "absent", attempts |-> 0, owner |-> None, kind |-> "topic"]

NoArgs == [code |-> None, subject |-> None, right |-> FALSE]
VerifyRequest == [code: Codes, subject: Subjects, right: BOOLEAN]

\* The steps that end in a database write, in the order of the code.
WriteSteps == {"saveChallenge", "saveStreak", "saveBan", "consume",
               "createTopic", "createPost", "saveClear"}
Steps == WriteSteps \cup
         {"idle", "lock", "load", "decide", "judge", "loadStreak", "preflight", "drop",
          "lookupTopic", "loadClear", "done"}

\* The writes a spawn_blocking job makes: they outlive the handler's future.
JobSteps == WriteSteps \ {"createTopic", "createPost"}

\* 200, 400, 410, 409, 403, 404, the errors of preflight, the errors of the
\* publishing queries, 500.
Replies == {"none", "ok", "wrong", "expired", "conflict", "forbidden",
            "notFound", "refused", "unpublished", "error", "gone"}

Code(r) == req[r].code
Subject(r) == req[r].subject

Init ==
  /\ challenge = [c \in Codes |-> Absent]
  /\ past = [c \in Codes |-> FALSE]
  /\ holder = [c \in Codes |-> None]
  /\ pc = [r \in Requests |-> "idle"]
  /\ req = [r \in Requests |-> NoArgs]
  /\ copy = [r \in Requests |-> Absent]
  /\ late = [r \in Requests |-> FALSE]
  /\ seen = [r \in Requests |-> 0]
  /\ reply = [r \in Requests |-> "none"]
  /\ streak = [s \in Subjects |-> 0]
  /\ banned = {}
  /\ topics = [c \in Codes |-> 0]
  /\ posts = [c \in Codes |-> 0]
-----------------------------------------------------------------------------
(* How a step ends. *)

\* Drop of ChallengeLockGuard: what r holds becomes free.
Released(r) == [c \in Codes |-> IF holder[c] = r THEN None ELSE holder[c]]

\* Mutant of Answer: an early return that leaves the lock taken.
AnswerKeepsLock(r, what) ==
  /\ pc' = [pc EXCEPT ![r] = "done"]
  /\ reply' = [reply EXCEPT ![r] = IF @ = "gone" THEN @ ELSE what]
  /\ UNCHANGED holder

\* submit_verification returns: the guard is dropped with its frame.
Answer(r, what) ==
  /\ pc' = [pc EXCEPT ![r] = "done"]
  /\ reply' = [reply EXCEPT ![r] = IF @ = "gone" THEN @ ELSE what]
  /\ holder' = Released(r)

\* The awaited call is over and the future goes on, if it still exists.
Continue(r, step) ==
  /\ pc' = [pc EXCEPT ![r] = IF reply[r] = "gone" THEN "done" ELSE step]
  /\ UNCHANGED <<reply, holder>>

\* How a database call can end, and what that means for its effect and for
\* the result its caller sees.
Outcomes == {"done"} \cup (Faults \cap {"refused", "answerLost"})
SaveOutcomes == Outcomes \cup (Faults \cap {"swallowed"})
Applied(o) == o \in {"done", "answerLost"}
Reported(o) == o \in {"done", "swallowed"}

\* A database read fails: the request ends with the error `what`.
ReadFails(r, what) ==
  /\ "refused" \in Faults
  /\ Answer(r, what)
  /\ UNCHANGED <<store, past, local>>
-----------------------------------------------------------------------------
(* Around submit_verification. *)

\* issue_challenge stores a pending challenge under a fresh code.
IssueChallenge(c, s, k) ==
  /\ challenge[c].status = "absent"
  /\ challenge' = [challenge EXCEPT ![c] =
       [status |-> "pending", attempts |-> 0, owner |-> s, kind |-> k]]
  /\ UNCHANGED <<past, holder, pc, local, reply, streak, banned, topics, posts>>

\* The five minutes of a challenge are over.
TimePasses(c) ==
  /\ challenge[c].status # "absent"
  /\ ~past[c]
  /\ past' = [past EXCEPT ![c] = TRUE]
  /\ UNCHANGED <<store, holder, pc, local, reply>>

\* A request reaches submit_verification and asks for the challenge's lock.
Submit(r, c, s, right) ==
  /\ pc[r] = "idle"
  /\ pc' = [pc EXCEPT ![r] = "lock"]
  /\ req' = [req EXCEPT ![r] = [code |-> c, subject |-> s, right |-> right]]
  /\ UNCHANGED <<store, past, holder, copy, late, seen, reply>>

\* Mutant of Acquire: no lock around load, judge and save.
AcquireUnguarded(r) ==
  /\ pc[r] = "lock"
  /\ holder' = [holder EXCEPT ![Code(r)] = r]
  /\ pc' = [pc EXCEPT ![r] = "load"]
  /\ UNCHANGED <<store, past, local, reply>>

\* acquire_challenge_lock returns; module ChallengeLocks has the registry.
Acquire(r) ==
  /\ pc[r] = "lock"
  /\ holder[Code(r)] = None
  /\ holder' = [holder EXCEPT ![Code(r)] = r]
  /\ pc' = [pc EXCEPT ![r] = "load"]
  /\ UNCHANGED <<store, past, local, reply>>

\* The client goes away: the future and its guard are dropped.  A job that is
\* under way stays; a query the client library was sending may or may not.
Disconnect(r) ==
  /\ "disconnect" \in Faults
  /\ pc[r] \notin {"idle", "done"}
  /\ reply[r] # "gone"
  /\ reply' = [reply EXCEPT ![r] = "gone"]
  /\ holder' = Released(r)
  /\ \/ pc[r] \in WriteSteps /\ UNCHANGED pc
     \/ pc[r] \notin JobSteps /\ pc' = [pc EXCEPT ![r] = "done"]
  /\ UNCHANGED <<store, past, local>>

\* The process dies with its requests, locks and jobs.
Crash ==
  /\ "crash" \in Faults
  /\ \E r \in Requests : pc[r] \notin {"idle", "done"}
  /\ pc' = [r \in Requests |-> IF pc[r] = "idle" THEN "idle" ELSE "done"]
  /\ reply' = [r \in Requests |->
                 IF pc[r] \in {"idle", "done"} THEN reply[r] ELSE "gone"]
  /\ holder' = [c \in Codes |-> None]
  /\ UNCHANGED <<store, past, local>>
-----------------------------------------------------------------------------
(* Loading and judging the challenge. *)

Load(r) ==
  /\ pc[r] = "load"
  /\ \/ /\ copy' = [copy EXCEPT ![r] = challenge[Code(r)]]
        /\ Continue(r, "decide")
        /\ UNCHANGED <<store, past, req, late, seen>>
     \/ ReadFails(r, "error")

\* Mutant of RecordFailedAttempt: one attempt too many.
RecordFailedAttemptLate(row) ==
  IF row.status # "pending" THEN row
  ELSE [row EXCEPT !.attempts = @ + 1,
                   !.status = IF row.attempts >= MaxAttempts THEN "failed" ELSE @]

\* record_failed_attempt.
RecordFailedAttempt(row) ==
  IF row.status # "pending" THEN row
  ELSE [row EXCEPT !.attempts = @ + 1,
                   !.status = IF row.attempts + 1 >= MaxAttempts
                              THEN "failed" ELSE @]

\* Mutant of Decide: the owner is not compared.
DecideAnyone(r) ==
  LET row == copy[r] IN
  /\ pc[r] = "decide"
  /\ \/ row.status = "absent" /\ Answer(r, "notFound") /\ UNCHANGED copy
     \/ /\ row.status = "pending" /\ past[Code(r)]
        /\ copy' = [copy EXCEPT ![r].status = "expired"]
        /\ Continue(r, "saveChallenge")
     \/ /\ row.status # "absent" /\ ~(row.status = "pending" /\ past[Code(r)])
        /\ Continue(r, "judge") /\ UNCHANGED copy
  /\ UNCHANGED <<store, past, req, late, seen>>

\* Mutant of Decide: any row whose time is over is marked as expired.
DecideExpiresAny(r) ==
  LET row == copy[r] IN
  /\ pc[r] = "decide"
  /\ \/ row.status = "absent" /\ Answer(r, "notFound") /\ UNCHANGED copy
     \/ /\ row.status # "absent" /\ row.owner # Subject(r)
        /\ Answer(r, "forbidden") /\ UNCHANGED copy
     \/ /\ row.owner = Subject(r) /\ row.status # "absent" /\ past[Code(r)]
        /\ copy' = [copy EXCEPT ![r].status = "expired"]
        /\ Continue(r, "saveChallenge")
     \/ /\ row.owner = Subject(r) /\ row.status # "absent" /\ ~past[Code(r)]
        /\ Continue(r, "judge") /\ UNCHANGED copy
  /\ UNCHANGED <<store, past, req, late, seen>>

\* load_challenge's 404, ensure_challenge_owner and the test of
\* expire_challenge_if_needed.
Decide(r) ==
  LET row == copy[r] IN
  /\ pc[r] = "decide"
  /\ \/ row.status = "absent" /\ Answer(r, "notFound") /\ UNCHANGED copy
     \/ /\ row.status # "absent" /\ row.owner # Subject(r)
        /\ Answer(r, "forbidden") /\ UNCHANGED copy
     \/ /\ row.owner = Subject(r) /\ row.status = "pending" /\ past[Code(r)]
        /\ copy' = [copy EXCEPT ![r].status = "expired"]
        /\ Continue(r, "saveChallenge")
     \/ /\ row.owner = Subject(r) /\ row.status # "absent"
        /\ ~(row.status = "pending" /\ past[Code(r)])
        /\ Continue(r, "judge") /\ UNCHANGED copy
  /\ UNCHANGED <<store, past, req, late, seen>>

\* ensure_challenge_is_active reads the clock again; then the answer is
\* compared.
Judge(r) ==
  LET row == copy[r]
      expired == past[Code(r)] \/ row.status = "expired" IN
  /\ pc[r] = "judge"
  /\ \/ expired /\ Answer(r, "expired") /\ UNCHANGED copy
     \/ /\ ~expired /\ row.status # "pending"
        /\ Answer(r, "conflict") /\ UNCHANGED copy
     \/ /\ ~expired /\ row.status = "pending" /\ req[r].right
        /\ Continue(r, "preflight") /\ UNCHANGED copy
     \/ /\ ~expired /\ row.status = "pending" /\ ~req[r].right
        /\ copy' = [copy EXCEPT ![r] = RecordFailedAttempt(row)]
        /\ Continue(r, "saveChallenge")
  /\ UNCHANGED <<store, past, req, late, seen>>
-----------------------------------------------------------------------------
(* The failing submission. *)

\* Mutant of SaveChallenge: the lock is given back before the failure counts.
SaveChallengeUnlocks(r) ==
  /\ pc[r] = "saveChallenge"
  /\ \E o \in SaveOutcomes :
       /\ challenge' = IF Applied(o)
                       THEN [challenge EXCEPT ![Code(r)] = copy[r]]
                       ELSE challenge
       /\ \/ ~Reported(o) /\ Answer(r, "error")
          \/ /\ Reported(o) /\ UNCHANGED reply
             /\ pc' = [pc EXCEPT ![r] = IF reply[r] = "gone" THEN "done" ELSE "loadStreak"]
             /\ holder' = Released(r)
  /\ UNCHANGED <<streak, banned, topics, posts, past, local>>

\* save_verification_challenge writes the whole row back, whatever the table
\* holds by now.
SaveChallenge(r) ==
  /\ pc[r] = "saveChallenge"
  /\ \E o \in SaveOutcomes :
       /\ challenge' = IF Applied(o)
                       THEN [challenge EXCEPT ![Code(r)] = copy[r]]
                       ELSE challenge
       /\ IF Reported(o) THEN Continue(r, "loadStreak") ELSE Answer(r, "error")
  /\ UNCHANGED <<streak, banned, topics, posts, past, local>>

LoadStreak(r) ==
  /\ pc[r] = "loadStreak"
  /\ \/ /\ seen' = [seen EXCEPT ![r] = streak[Subject(r)]]
        /\ Continue(r, "saveStreak")
        /\ UNCHANGED <<store, past, req, copy, late>>
     \/ ReadFails(r, "error")

\* The error submit_verification returns once the failure is on record.
FailureReply(r) == IF copy[r].status = "expired" THEN "expired" ELSE "wrong"

\* Mutant of SaveStreak: the ban comes one failure early.
SaveStreakEager(r) ==
  LET count == seen[r] + 1 IN
  /\ pc[r] = "saveStreak"
  /\ streak' = [streak EXCEPT ![Subject(r)] = count]
  /\ \/ count + 1 < BanThreshold /\ Answer(r, FailureReply(r))
     \/ /\ count + 1 >= BanThreshold
        /\ IF Subject(r) \in Bannable THEN Continue(r, "saveBan")
                                      ELSE Answer(r, "error")
  /\ UNCHANGED <<challenge, banned, topics, posts, past, local>>

\* record_failure_streak_and_maybe_ban up to the ban: the count that was read
\* goes back incremented; from BanThreshold on, auto_ban_rule is asked for a
\* rule and fails for a subject it has no condition for.
SaveStreak(r) ==
  LET count == seen[r] + 1 IN
  /\ pc[r] = "saveStreak"
  /\ \E o \in SaveOutcomes :
       /\ streak' = IF Applied(o) THEN [streak EXCEPT ![Subject(r)] = count]
                                  ELSE streak
       /\ \/ ~Reported(o) /\ Answer(r, "error")
          \/ /\ Reported(o) /\ count < BanThreshold
             /\ Answer(r, FailureReply(r))
          \/ /\ Reported(o) /\ count >= BanThreshold
             /\ IF Subject(r) \in Bannable THEN Continue(r, "saveBan")
                                           ELSE Answer(r, "error")
  /\ UNCHANGED <<challenge, banned, topics, posts, past, local>>

SaveBan(r) ==
  /\ pc[r] = "saveBan"
  /\ \E o \in SaveOutcomes :
       /\ banned' = IF Applied(o) THEN banned \cup {Subject(r)} ELSE banned
       /\ Answer(r, IF Reported(o) THEN FailureReply(r) ELSE "error")
  /\ UNCHANGED <<challenge, streak, topics, posts, past, local>>
-----------------------------------------------------------------------------
(* The submission that publishes. *)

\* Mutant of Preflight: the lock is given back before consume.
PreflightUnlocks(r) ==
  /\ pc[r] = "preflight"
  /\ late' = [late EXCEPT ![r] = past[Code(r)]]
  /\ pc' = [pc EXCEPT ![r] = IF reply[r] = "gone" THEN "done" ELSE "consume"]
  /\ holder' = Released(r)
  /\ UNCHANGED <<store, past, req, copy, seen, reply>>

\* authorize_verified_action: scope, topic and board access as they are now.
\* The instant consume compares with expires_at is taken when it returns.
Preflight(r) ==
  /\ pc[r] = "preflight"
  /\ \/ /\ late' = [late EXCEPT ![r] = past[Code(r)]]
        /\ Continue(r, "consume")
        /\ UNCHANGED <<store, past, req, copy, seen>>
     \/ /\ Answer(r, "refused")
        /\ UNCHANGED <<store, past, local>>

Consumable(r) == challenge[Code(r)].status = "pending" /\ ~late[r]

\* Mutant of ConsumedRow: the status of the row is not written.
ConsumedRowForgotten(r) == challenge[Code(r)]

\* The row a consume leaves: verified if it is still pending and in time.
\* The in-memory store also marks a pending row it finds too late.
ConsumedRow(r) ==
  LET row == challenge[Code(r)] IN
  IF Consumable(r) THEN [row EXCEPT !.status = "verified"]
  ELSE IF Backend = "memory" /\ row.status = "pending"
       THEN [row EXCEPT !.status = "expired"]
       ELSE row

\* consume_pending_verification_challenge: one conditional UPDATE; None is
\* answered with 409.
Consume(r) ==
  /\ pc[r] = "consume"
  /\ \E o \in Outcomes :
       /\ challenge' = IF Applied(o)
                       THEN [challenge EXCEPT ![Code(r)] = ConsumedRow(r)]
                       ELSE challenge
       /\ \/ ~Reported(o) /\ Answer(r, "error") /\ UNCHANGED copy
          \/ /\ Reported(o) /\ ~Consumable(r)
             /\ Answer(r, "conflict") /\ UNCHANGED copy
          \/ /\ Reported(o) /\ Consumable(r)
             /\ copy' = [copy EXCEPT ![r] = ConsumedRow(r)]
             /\ Continue(r, "drop")
  /\ UNCHANGED <<streak, banned, topics, posts, past, req, late, seen>>

\* drop(challenge_lock), then execute_verified_action by kind.
DropLock(r) ==
  /\ pc[r] = "drop"
  /\ holder' = Released(r)
  /\ pc' = [pc EXCEPT ![r] =
              IF copy[r].kind = "topic" THEN "createTopic" ELSE "lookupTopic"]
  /\ UNCHANGED <<store, past, local, reply>>

\* Mutant of CreateTopic: the first post is forgotten.
CreateTopicOnly(r) ==
  /\ pc[r] = "createTopic"
  /\ topics' = [topics EXCEPT ![Code(r)] = @ + 1]
  /\ Continue(r, "loadClear")
  /\ UNCHANGED <<challenge, streak, banned, posts, past, local>>

\* create_topic_now, first half: the topic.
CreateTopic(r) ==
  /\ pc[r] = "createTopic"
  /\ \E o \in Outcomes :
       /\ topics' = IF Applied(o) THEN [topics EXCEPT ![Code(r)] = @ + 1]
                                  ELSE topics
       /\ IF Reported(o) THEN Continue(r, "createPost")
                         ELSE Answer(r, "unpublished")
  /\ UNCHANGED <<challenge, streak, banned, posts, past, local>>

\* The reply's topic is read again: topics are never deleted or moved, so
\* only the query can fail.
LookupTopic(r) ==
  /\ pc[r] = "lookupTopic"
  /\ \/ Continue(r, "createPost") /\ UNCHANGED <<store, past, local>>
     \/ ReadFails(r, "unpublished")

\* Mutant of CreatePost: a failed query is logged and the request goes on.
CreatePostLenient(r) ==
  /\ pc[r] = "createPost"
  /\ \E o \in Outcomes :
       posts' = IF Applied(o) THEN [posts EXCEPT ![Code(r)] = @ + 1] ELSE posts
  /\ Continue(r, "loadClear")
  /\ UNCHANGED <<challenge, streak, banned, topics, past, local>>

\* create_topic_now, second half, and create_reply_now: the post.
CreatePost(r) ==
  /\ pc[r] = "createPost"
  /\ \E o \in Outcomes :
       /\ posts' = IF Applied(o) THEN [posts EXCEPT ![Code(r)] = @ + 1]
                                 ELSE posts
       /\ IF Reported(o) THEN Continue(r, "loadClear")
                         ELSE Answer(r, "unpublished")
  /\ UNCHANGED <<challenge, streak, banned, topics, past, local>>

\* clear_failure_streak reads the row, overwrites its count with 0 and writes
\* it back; its errors are only logged.
LoadClear(r) ==
  /\ pc[r] = "loadClear"
  /\ \/ Continue(r, "saveClear") /\ UNCHANGED <<store, past, local>>
     \/ ReadFails(r, "ok")

SaveClear(r) ==
  /\ pc[r] = "saveClear"
  /\ \E o \in SaveOutcomes :
       streak' = IF Applied(o) THEN [streak EXCEPT ![Subject(r)] = 0]
                               ELSE streak
  /\ Answer(r, "ok")
  /\ UNCHANGED <<challenge, banned, topics, posts, past, local>>
-----------------------------------------------------------------------------
\* The steps the server takes by itself once it has the lock.
ServerStep(r) ==
  \/ Load(r) \/ Decide(r) \/ Judge(r)
  \/ SaveChallenge(r) \/ LoadStreak(r) \/ SaveStreak(r) \/ SaveBan(r)
  \/ Preflight(r) \/ Consume(r) \/ DropLock(r)
  \/ CreateTopic(r) \/ LookupTopic(r) \/ CreatePost(r)
  \/ LoadClear(r) \/ SaveClear(r)

Next ==
  \/ \E c \in Codes, s \in Subjects, k \in Kinds : IssueChallenge(c, s, k)
  \/ \E c \in Codes : TimePasses(c)
  \/ \E r \in Requests, c \in Codes, s \in Subjects, right \in BOOLEAN :
       Submit(r, c, s, right)
  \/ \E r \in Requests : Acquire(r) \/ Disconnect(r) \/ ServerStep(r)
  \/ Crash

Spec == Init /\ [][Next]_vars

\* The promise that the code does not keep (run replay_after_disconnect): a
\* blocking job is awaited by the request that started it, and by its lock.
\* Clients may go away at any other time.
JobsAwaited == \A r \in Requests : reply[r] = "gone" => pc[r] \notin JobSteps

AwaitedSpec == Init /\ [][Next /\ JobsAwaited']_vars

\* The runtime keeps polling every request and the database answers, with a
\* result or an error.  Weak fairness of Acquire is enough for the finitely
\* many requests of an instance; ChallengeLocks has the queue of the lock.
\* Clients, clock and faults promise nothing.
Fairness == \A r \in Requests : WF_vars(Acquire(r) \/ ServerStep(r))

FairSpec == Spec /\ Fairness
-----------------------------------------------------------------------------
(* Properties. *)

\* Every variable has its type; in particular record_failed_attempt never
\* takes attempt_count past max_attempts.
TypeOK ==
  /\ challenge \in [Codes -> VerificationChallengeRecord]
  /\ past \in [Codes -> BOOLEAN]
  /\ holder \in [Codes -> Requests \cup {None}]
  /\ pc \in [Requests -> Steps]
  /\ req \in [Requests -> VerifyRequest \cup {NoArgs}]
  /\ copy \in [Requests -> VerificationChallengeRecord]
  /\ late \in [Requests -> BOOLEAN]
  /\ seen \in [Requests -> Nat]
  /\ reply \in [Requests -> Replies]
  /\ streak \in [Subjects -> Nat]
  /\ banned \subseteq Subjects
  /\ topics \in [Codes -> Nat]
  /\ posts \in [Codes -> Nat]

\* The inductive invariant behind SinglePublish while jobs are awaited.
\* Between Acquire and DropLock the lock is held and the copy of the row is
\* the row (a row may be issued after it was found absent); a challenge that
\* is pending has no content; one that is verified is in the hands of at most
\* one request, and has no more content than that request has made.
Critical == {"load", "decide", "judge", "saveChallenge", "loadStreak",
             "saveStreak", "saveBan", "preflight", "consume", "drop"}
Publishing == {"drop", "createTopic", "lookupTopic", "createPost"}

ArgsInv == \A r \in Requests : pc[r] # "idle" => req[r] \in VerifyRequest

\* What a client leaves behind is a query on its way at most.
GoneInv ==
  \A r \in Requests : reply[r] = "gone" => pc[r] \in {"createTopic", "createPost", "done"}

LockInv == \A r \in Requests : pc[r] \in Critical => holder[Code(r)] = r

CopyInv == \A r \in Requests :
  LET row == challenge[Code(r)] IN
  /\ pc[r] = "decide" => copy[r] = row \/ copy[r].status = "absent"
  /\ pc[r] \in {"judge", "preflight", "consume"} =>
       copy[r] = row /\ row.status # "absent" /\ row.owner = Subject(r)
  /\ pc[r] \in {"preflight", "consume"} => row.status = "pending"
  /\ pc[r] = "saveChallenge" =>
       /\ row.status = "pending"
       /\ copy[r] \in {RecordFailedAttempt(row), [row EXCEPT !.status = "expired"]}

PublishInv == \A r \in Requests :
  LET c == Code(r) IN
  pc[r] \in Publishing =>
    /\ challenge[c].status = "verified" /\ posts[c] = 0
    /\ pc[r] # "createPost" => topics[c] = 0
    /\ \A q \in Requests \ {r} : pc[q] \in Publishing => Code(q) # c

\* However many submissions answer a challenge, it publishes its content at
\* most once (consume_pending_challenge and the lock of submit_verification).
SinglePublish == \A c \in Codes : topics[c] <= 1 /\ posts[c] <= 1

\* Content exists only for a challenge that is on record as verified, so no
\* later submission can find the challenge of published content open.
PublishedIsVerified ==
  \A c \in Codes :
    topics[c] > 0 \/ posts[c] > 0 => challenge[c].status = "verified"

ChallengeInv ==
  /\ TypeOK /\ ArgsInv /\ GoneInv /\ LockInv /\ CopyInv /\ PublishInv
  /\ PublishedIsVerified /\ SinglePublish

\* A 200 is the truth: the content is there, the caller owned the challenge
\* and answered it, and no other caller got a 200 for the same code.
HonestReplies ==
  \A r \in Requests : reply[r] = "ok" =>
    LET c == Code(r) IN
    /\ posts[c] = 1 /\ (challenge[c].kind = "topic" => topics[c] = 1)
    /\ challenge[c].owner = Subject(r) /\ req[r].right
    /\ \A q \in Requests \ {r} : ~(reply[q] = "ok" /\ Code(q) = c)

\* Every 400 of a code is on record as an attempt, and the challenge is failed
\* once the attempts are used up: nobody guesses more than MaxAttempts times.
GuessesCounted ==
  \A c \in Codes :
    /\ Cardinality({r \in Requests : reply[r] = "wrong" /\ Code(r) = c})
         <= challenge[c].attempts
    /\ challenge[c].attempts = MaxAttempts => challenge[c].status = "failed"

\* A challenge that has been verified, failed or expired stays what it is, no
\* attempt is taken back and nobody else becomes the owner, whatever copies
\* of the row are still being written back by save_verification_challenge.
TerminalIsFinal ==
  [][\A c \in Codes :
       LET old == challenge[c]  new == challenge'[c] IN
       /\ old.status \in {"verified", "failed", "expired"} => new = old
       /\ new.attempts >= old.attempts
       /\ old.status # "absent" => new.owner = old.owner /\ new.kind = old.kind
    ]_challenge

\* A challenge becomes verified only by a submission of its owner that carried
\* the right answer and reached consume before expires_at, and only from
\* pending, even while clients disconnect and stale rows are written.
OnlyOwnerVerifies ==
  [][\A c \in Codes :
       challenge[c].status # "verified" /\ challenge'[c].status = "verified" =>
         /\ challenge[c].status = "pending"
         /\ \E r \in Requests :
              /\ pc[r] = "consume" /\ Code(r) = c /\ ~late[r]
              /\ req[r].right /\ Subject(r) = challenge[c].owner
    ]_challenge

\* The submissions of s that got past the checks and answered wrongly or came
\* late.
Blamed(s) ==
  {r \in Requests : /\ Subject(r) = s
                    /\ pc[r] \notin {"idle", "lock", "load", "decide", "judge"}
                    /\ copy[r].owner = s
                    /\ ~req[r].right \/ copy[r].status = "expired"}

\* Nobody is banned, and nobody's streak grows, by more than the agent's own
\* failures: lost updates of the streak only ever forget failures.
BanEarned ==
  \A s \in Subjects :
    /\ streak[s] <= Cardinality(Blamed(s))
    /\ s \in banned => Cardinality(Blamed(s)) >= BanThreshold

\* No submission of s has found its challenge verified or verified it.
Unverified(s) == \A r \in Requests : Subject(r) = s => copy[r].status # "verified"

OneChallenge(s) ==
  \A q, r \in Requests : Subject(q) = s /\ Subject(r) = s => Code(q) = Code(r)

Counts(s) ==
  Cardinality({r \in Requests : Subject(r) = s /\ reply[r] = "wrong"}) <= streak[s]

\* "each failure increments the streak" (design document), as far as the lock
\* of a challenge makes it so (record_failure_streak_and_maybe_ban): as long as
\* none of an agent's submissions is verified, the streak has counted every 400
\* given to an agent who answers one challenge.  Submissions to two challenges
\* overwrite each other's counts.
FailuresCounted ==
  \A s \in Subjects : Unverified(s) /\ OneChallenge(s) => Counts(s)

\* Every submission comes to an end, whatever faults occur: no lock is left
\* behind by an error, a crash or a client that went away.
EveryRequestEnds == \A r \in Requests : pc[r] = "lock" ~> pc[r] = "done"

\* A verified challenge gets its content, unless the submission that had the
\* right answer was told of an error or went away.
VerifiedIsPublished ==
  \A c \in Codes :
    challenge[c].status = "verified" ~>
      \/ posts[c] = 1
      \/ \E r \in Requests :
           /\ Code(r) = c /\ req[r].right
           /\ reply[r] \in {"error", "unpublished", "gone"}
-----------------------------------------------------------------------------
\* What a challenge promises, whoever answers it (module SingleUse).
Promise == INSTANCE SingleUse WITH
  status <- [c \in Codes |-> challenge[c].status],
  attempts <- [c \in Codes |-> challenge[c].attempts]

\* The submissions together behave like one challenge that is used once.
KeepsPromise == Promise!Spec

\* What the locks promise (module KeyedMutex), and with it submit_verification:
\* whatever fails or goes away, none gets the lock of a challenge from another
\* who still has it.
Mutex == INSTANCE KeyedMutex

UsesMutex == Mutex!Spec
=============================================================================
