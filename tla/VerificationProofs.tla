------------------------- MODULE VerificationProofs -------------------------
(* Proofs about the verification challenge, for any requests, codes,        *)
(* subjects and bounds.                                                     *)
EXTENDS Verification, FiniteSetTheorems, TLAPS

\* record_failed_attempt takes a row that has an attempt left to a row of the
\* table, and to one that takes no more answers when it was the last attempt.
LEMMA RecordFailedAttemptType ==
  ASSUME NEW row \in VerificationChallengeRecord
  PROVE  RecordFailedAttempt(row) \in VerificationChallengeRecord
  <1> USE VerificationAssumption DEF VerificationChallengeRecord, Statuses
  <1>1. CASE row.status # "pending"
    BY <1>1 DEF RecordFailedAttempt
  <1>2. CASE row.status = "pending" /\ row.attempts + 1 >= MaxAttempts
    <2>1. RecordFailedAttempt(row) =
            [row EXCEPT !.attempts = row.attempts + 1, !.status = "failed"]
      BY <1>2 DEF RecordFailedAttempt
    <2>2. row.attempts + 1 \in 0..MaxAttempts
      BY <1>2
    <2>3. QED
      BY <2>1, <2>2
  <1>3. CASE row.status = "pending" /\ ~(row.attempts + 1 >= MaxAttempts)
    <2>1. RecordFailedAttempt(row) = [row EXCEPT !.attempts = row.attempts + 1]
      BY <1>3 DEF RecordFailedAttempt
    <2>2. row.attempts + 1 \in 0..MaxAttempts /\ row.attempts + 1 < MaxAttempts
      BY <1>3
    <2>3. QED
      BY <1>3, <2>1, <2>2
  <1>4. QED
    BY <1>1, <1>2, <1>3

LEMMA NewRowType ==
  ASSUME NEW s \in Subjects, NEW k \in Kinds
  PROVE  [status |-> "pending", attempts |-> 0, owner |-> s, kind |-> k]
           \in VerificationChallengeRecord
  BY VerificationAssumption DEF VerificationChallengeRecord, Statuses

LEMMA ChangedStatusType ==
  ASSUME NEW row \in VerificationChallengeRecord,
         NEW status \in {"expired", "verified"}
  PROVE  [row EXCEPT !.status = status] \in VerificationChallengeRecord
  BY DEF VerificationChallengeRecord, Statuses

LEMMA AbsentType == Absent \in VerificationChallengeRecord
  BY VerificationAssumption DEF VerificationChallengeRecord, Statuses, Absent, Kinds

-----------------------------------------------------------------------------
\* Every step keeps the types, whatever faults occur.
LEMMA TypeStep == TypeOK /\ ArgsInv /\ [Next]_vars => TypeOK' /\ ArgsInv'
  <1> SUFFICES ASSUME TypeOK, ArgsInv, [Next]_vars PROVE TypeOK' /\ ArgsInv'
    OBVIOUS
  <1> USE VerificationAssumption
      DEF TypeOK, ArgsInv, store, local, Code, Subject
  <1>r. \A r \in Requests : pc[r] # "idle" =>
          Code(r) \in Codes /\ Subject(r) \in Subjects /\ req[r].right \in BOOLEAN
    BY DEF VerifyRequest
  <1>a. ASSUME NEW r \in Requests, NEW what \in Replies, Answer(r, what)
        PROVE  /\ pc' \in [Requests -> Steps] /\ reply' \in [Requests -> Replies]
               /\ holder' \in [Codes -> Requests \cup {None}]
               /\ \A q \in Requests : pc'[q] # "idle" => q = r \/ pc[q] # "idle"
    BY <1>a DEF Answer, Released, Steps
  <1>b. ASSUME NEW r \in Requests, NEW step \in Steps, Continue(r, step)
        PROVE  /\ pc' \in [Requests -> Steps] /\ reply' \in [Requests -> Replies]
               /\ holder' \in [Codes -> Requests \cup {None}]
               /\ \A q \in Requests : pc'[q] # "idle" => q = r \/ pc[q] # "idle"
    BY <1>b DEF Continue, Steps
  <1>1. ASSUME NEW c \in Codes, NEW s \in Subjects, NEW k \in Kinds,
               IssueChallenge(c, s, k)
        PROVE  TypeOK' /\ ArgsInv'
    BY <1>1, NewRowType DEF IssueChallenge
  <1>2. ASSUME NEW c \in Codes, TimePasses(c)
        PROVE  TypeOK' /\ ArgsInv'
    BY <1>2 DEF TimePasses
  <1>3. ASSUME NEW r \in Requests, NEW c \in Codes, NEW s \in Subjects,
               NEW right \in BOOLEAN, Submit(r, c, s, right)
        PROVE  TypeOK' /\ ArgsInv'
    BY <1>3 DEF Submit, Steps, VerifyRequest
  <1>4. ASSUME NEW r \in Requests, Acquire(r)
        PROVE  TypeOK' /\ ArgsInv'
    BY <1>4 DEF Acquire, Steps
  <1>5. ASSUME NEW r \in Requests, Disconnect(r)
        PROVE  TypeOK' /\ ArgsInv'
    BY <1>5 DEF Disconnect, Released, Steps, Replies
  <1>6. ASSUME Crash
        PROVE  TypeOK' /\ ArgsInv'
    BY <1>6 DEF Crash, Steps, Replies
  <1>7. ASSUME NEW r \in Requests, Load(r)
        PROVE  TypeOK' /\ ArgsInv'
    BY <1>7, <1>a, <1>b, <1>r DEF Load, ReadFails, Steps, Replies
  <1>8. ASSUME NEW r \in Requests, Decide(r)
        PROVE  TypeOK' /\ ArgsInv'
    <2>1. copy' \in [Requests -> VerificationChallengeRecord]
      <3>1. \/ copy' = copy
            \/ copy' = [copy EXCEPT ![r] = [copy[r] EXCEPT !.status = "expired"]]
        BY <1>8 DEF Decide
      <3>2. [copy[r] EXCEPT !.status = "expired"] \in VerificationChallengeRecord
        BY ChangedStatusType
      <3>3. QED
        BY <3>1, <3>2
    <2>2. \/ \E what \in Replies : Answer(r, what)
          \/ \E step \in Steps : Continue(r, step)
      BY <1>8 DEF Decide, Steps, WriteSteps, Replies
    <2>3. QED
      BY <1>8, <2>1, <2>2, <1>a, <1>b, <1>r DEF Decide
  <1>9. ASSUME NEW r \in Requests, Judge(r)
        PROVE  TypeOK' /\ ArgsInv'
    <2>1. copy' \in [Requests -> VerificationChallengeRecord]
      BY <1>9, RecordFailedAttemptType DEF Judge
    <2>2. \/ \E what \in Replies : Answer(r, what)
          \/ \E step \in Steps : Continue(r, step)
      BY <1>9 DEF Judge, Steps, WriteSteps, Replies
    <2>3. QED
      BY <1>9, <2>1, <2>2, <1>a, <1>b, <1>r DEF Judge
  <1>10. ASSUME NEW r \in Requests, SaveChallenge(r)
         PROVE  TypeOK' /\ ArgsInv'
    BY <1>10, <1>a, <1>b, <1>r DEF SaveChallenge, Steps, Replies, WriteSteps
  <1>11. ASSUME NEW r \in Requests, LoadStreak(r)
         PROVE  TypeOK' /\ ArgsInv'
    BY <1>11, <1>a, <1>b, <1>r DEF LoadStreak, ReadFails, Steps, WriteSteps, Replies
  <1>12. ASSUME NEW r \in Requests, SaveStreak(r)
         PROVE  TypeOK' /\ ArgsInv'
    BY <1>12, <1>a, <1>b, <1>r DEF SaveStreak, FailureReply, Steps, WriteSteps, Replies
  <1>13. ASSUME NEW r \in Requests, SaveBan(r)
         PROVE  TypeOK' /\ ArgsInv'
    BY <1>13, <1>a, <1>r DEF SaveBan, FailureReply, Steps, Replies
  <1>14. ASSUME NEW r \in Requests, Preflight(r)
         PROVE  TypeOK' /\ ArgsInv'
    BY <1>14, <1>a, <1>b, <1>r DEF Preflight, Steps, WriteSteps, Replies
  <1>15. ASSUME NEW r \in Requests, Consume(r)
         PROVE  TypeOK' /\ ArgsInv'
    <2>1. ConsumedRow(r) \in VerificationChallengeRecord
      BY <1>15, <1>r, ChangedStatusType DEF Consume, ConsumedRow
    <2>2. challenge' \in [Codes -> VerificationChallengeRecord]
      <3>1. challenge' = challenge \/ challenge' = [challenge EXCEPT ![Code(r)] = ConsumedRow(r)]
        BY <1>15 DEF Consume
      <3>2. QED
        BY <2>1, <3>1
    <2>3. copy' \in [Requests -> VerificationChallengeRecord]
      <3>1. copy' = copy \/ copy' = [copy EXCEPT ![r] = ConsumedRow(r)]
        BY <1>15 DEF Consume
      <3>2. QED
        BY <2>1, <3>1
    <2>4. \/ \E what \in Replies : Answer(r, what)
          \/ \E step \in Steps : Continue(r, step)
      BY <1>15 DEF Consume, Steps, Replies
    <2>5. QED
      BY <1>15, <2>2, <2>3, <2>4, <1>a, <1>b, <1>r DEF Consume
  <1>16. ASSUME NEW r \in Requests, DropLock(r)
         PROVE  TypeOK' /\ ArgsInv'
    BY <1>16 DEF DropLock, Released, Steps, WriteSteps
  <1>17. ASSUME NEW r \in Requests, CreateTopic(r)
         PROVE  TypeOK' /\ ArgsInv'
    BY <1>17, <1>a, <1>b, <1>r DEF CreateTopic, Steps, WriteSteps, Replies
  <1>18. ASSUME NEW r \in Requests, LookupTopic(r)
         PROVE  TypeOK' /\ ArgsInv'
    BY <1>18, <1>a, <1>b, <1>r DEF LookupTopic, ReadFails, Steps, WriteSteps, Replies
  <1>19. ASSUME NEW r \in Requests, CreatePost(r)
         PROVE  TypeOK' /\ ArgsInv'
    BY <1>19, <1>a, <1>b, <1>r DEF CreatePost, Steps, Replies
  <1>20. ASSUME NEW r \in Requests, LoadClear(r)
         PROVE  TypeOK' /\ ArgsInv'
    BY <1>20, <1>a, <1>b, <1>r DEF LoadClear, ReadFails, Steps, WriteSteps, Replies
  <1>21. ASSUME NEW r \in Requests, SaveClear(r)
         PROVE  TypeOK' /\ ArgsInv'
    BY <1>21, <1>a, <1>r DEF SaveClear, Replies
  <1>22. CASE UNCHANGED vars
    BY <1>22 DEF vars
  <1>23. QED
    BY <1>1, <1>2, <1>3, <1>4, <1>5, <1>6, <1>7, <1>8, <1>9, <1>10, <1>11, <1>12,
       <1>13, <1>14, <1>15, <1>16, <1>17, <1>18, <1>19, <1>20, <1>21, <1>22
       DEF Next, ServerStep

\* Every reachable state has the types, whatever faults occur: in particular
\* no row and no copy of one ever takes more than MaxAttempts answers.
THEOREM TypesHold == Spec => [](TypeOK /\ ArgsInv)
  <1>1. Init => TypeOK /\ ArgsInv
    BY VerificationAssumption, AbsentType
       DEF Init, TypeOK, ArgsInv, NoArgs, Steps, Replies
  <1>2. QED
    BY <1>1, TypeStep, PTL DEF Spec
-----------------------------------------------------------------------------
(* While jobs are awaited, the lock makes load, judge and save of a         *)
(* challenge one step, and consume passes it on to a single publisher.  No  *)
(* fault matters otherwise: a client that goes away before or after its     *)
(* job, a refused or half-reported write, a crash, a lost statement all     *)
(* leave ChallengeInv.                                                      *)

\* Awaiting the jobs only rules behaviours out.
LEMMA AwaitedSpecIsSpec == AwaitedSpec => Spec
  <1>1. [Next /\ JobsAwaited']_vars => [Next]_vars
    OBVIOUS
  <1>2. QED
    BY <1>1, PTL DEF AwaitedSpec, Spec

\* The end of a request keeps the lock discipline.
LEMMA AnswerKeeps ==
  ASSUME ChallengeInv, NEW r \in Requests, NEW what \in Replies \ {"gone"},
         Answer(r, what), req' = req, pc[r] # "done"
  PROVE  pc' = [pc EXCEPT ![r] = "done"] /\ LockInv' /\ GoneInv'
  <1> USE DEF ChallengeInv, TypeOK, Answer
  <1>1. pc' = [pc EXCEPT ![r] = "done"]
    OBVIOUS
  <1>2. LockInv'
    BY DEF LockInv, Critical, Code, Released, ArgsInv, VerifyRequest, Steps
  <1>3. GoneInv'
    BY DEF GoneInv
  <1>4. QED
    BY <1>1, <1>2, <1>3

\* So does every step of a request that goes on; only one whose query is on
\* its way may have lost its client.
LEMMA ContinueKeeps ==
  ASSUME ChallengeInv, NEW r \in Requests, NEW step \in Steps,
         Continue(r, step), req' = req, pc[r] \notin {"createTopic", "createPost", "done"},
         pc[r] \in Critical \/ step \notin Critical
  PROVE  pc' = [pc EXCEPT ![r] = step] /\ LockInv' /\ GoneInv'
  <1> USE DEF ChallengeInv, TypeOK, Continue
  <1>1. pc' = [pc EXCEPT ![r] = step]
    BY DEF GoneInv
  <1>2. LockInv'
    BY <1>1 DEF LockInv, Critical, Code
  <1>3. GoneInv'
    BY <1>1 DEF GoneInv
  <1>4. QED
    BY <1>1, <1>2, <1>3

\* The query of a client that is gone is the last step of its request.
LEMMA QueryKeeps ==
  ASSUME ChallengeInv, NEW r \in Requests, NEW step \in Steps \ Critical,
         Continue(r, step), req' = req, pc[r] \in {"createTopic", "createPost"}
  PROVE  /\ pc' \in {[pc EXCEPT ![r] = step], [pc EXCEPT ![r] = "done"]}
         /\ LockInv' /\ GoneInv'
  <1> USE DEF ChallengeInv, TypeOK, Continue
  <1>1. PICK next \in {step, "done"} :
          pc' = [pc EXCEPT ![r] = next] /\ (reply[r] = "gone" => next = "done")
    OBVIOUS
  <1>2. LockInv'
    BY <1>1 DEF LockInv, Critical, Code
  <1>3. GoneInv'
    BY <1>1 DEF GoneInv
  <1>4. QED
    BY <1>1, <1>2, <1>3

\* What the copies and the content have to do with the rows.
Data == CopyInv /\ PublishInv /\ PublishedIsVerified /\ SinglePublish

\* A step that neither writes a row nor creates content keeps it, unless it
\* brings its request to a step Data speaks of.
Bound == {"decide", "judge", "saveChallenge", "preflight", "consume"} \cup Publishing

LEMMA QuietKeeps ==
  ASSUME ChallengeInv, NEW r \in Requests, NEW step \in Steps \ Bound,
         pc' = [pc EXCEPT ![r] = step],
         \A q \in Requests \ {r} : copy'[q] = copy[q],
         UNCHANGED <<challenge, req, topics, posts>>
  PROVE  Data'
  <1> USE DEF ChallengeInv, TypeOK, Bound, Publishing, Code, Subject
  <1>1. CopyInv'
    <2>1. pc'[r] \notin Bound
      OBVIOUS
    <2>2. \A q \in Requests \ {r} :
            pc'[q] = pc[q] /\ copy'[q] = copy[q] /\ Code(q)' = Code(q)
      OBVIOUS
    <2>3. QED
      BY <2>1, <2>2 DEF CopyInv
  <1>2. PublishInv'
    BY DEF PublishInv
  <1>3. PublishedIsVerified' /\ SinglePublish'
    BY DEF PublishedIsVerified, SinglePublish
  <1>4. QED
    BY <1>1, <1>2, <1>3 DEF Data

LEMMA ChallengeStep ==
  ASSUME ChallengeInv, [Next /\ JobsAwaited']_vars
  PROVE  ChallengeInv'
  <1> SUFFICES LockInv' /\ GoneInv' /\ Data'
    BY TypeStep DEF ChallengeInv, Data
  <1> USE DEF ChallengeInv, store, local, Replies, Steps, WriteSteps, Critical
  <1>1. ASSUME NEW c \in Codes, NEW s \in Subjects, NEW k \in Kinds,
               IssueChallenge(c, s, k)
        PROVE  LockInv' /\ GoneInv' /\ Data'
    <2> USE <1>1 DEF IssueChallenge, TypeOK
    <2>1. LockInv' /\ GoneInv'
      BY DEF LockInv, GoneInv, Code
    <2>2. CopyInv'
      BY DEF CopyInv, Code, Subject, ArgsInv, VerifyRequest
    <2>3. PublishInv'
      BY DEF PublishInv, Publishing, Code, ArgsInv, VerifyRequest
    <2>4. PublishedIsVerified' /\ SinglePublish'
      BY DEF PublishedIsVerified, SinglePublish
    <2>5. QED
      BY <2>1, <2>2, <2>3, <2>4 DEF Data
  <1>2. ASSUME NEW c \in Codes, TimePasses(c)
        PROVE  LockInv' /\ GoneInv' /\ Data'
    BY <1>2 DEF TimePasses, LockInv, GoneInv, Data, CopyInv, PublishInv,
                PublishedIsVerified, SinglePublish, Code, Subject
  <1>3. ASSUME NEW r \in Requests, NEW c \in Codes, NEW s \in Subjects,
               NEW right \in BOOLEAN, Submit(r, c, s, right)
        PROVE  LockInv' /\ GoneInv' /\ Data'
    <2> USE <1>3 DEF Submit, TypeOK
    <2>1. LockInv' /\ GoneInv'
      BY DEF LockInv, GoneInv, Code
    <2>2. CopyInv'
      BY DEF CopyInv, Code, Subject
    <2>3. PublishInv'
      BY DEF PublishInv, Publishing, Code
    <2>4. PublishedIsVerified' /\ SinglePublish'
      BY DEF PublishedIsVerified, SinglePublish
    <2>5. QED
      BY <2>1, <2>2, <2>3, <2>4 DEF Data
  <1>4. ASSUME NEW r \in Requests, Acquire(r)
        PROVE  LockInv' /\ GoneInv' /\ Data'
    <2>1. LockInv' /\ GoneInv'
      BY <1>4, VerificationAssumption
         DEF Acquire, TypeOK, LockInv, GoneInv, Code, ArgsInv, VerifyRequest
    <2>2. Data'
      BY <1>4, QuietKeeps DEF Acquire, Bound, Publishing
    <2>3. QED
      BY <2>1, <2>2
  <1>5. ASSUME NEW r \in Requests, Disconnect(r), JobsAwaited'
        PROVE  LockInv' /\ GoneInv' /\ Data'
    <2>1. /\ reply' = [reply EXCEPT ![r] = "gone"] /\ holder' = Released(r)
          /\ UNCHANGED <<challenge, copy, req, topics, posts>>
      BY <1>5 DEF Disconnect
    <2>2. \/ pc' = [pc EXCEPT ![r] = "done"]
          \/ pc' = pc /\ pc[r] \in {"createTopic", "createPost"}
      <3>1. CASE pc' = pc /\ pc[r] \in WriteSteps
        <4>1. pc[r] \notin JobSteps
          BY <1>5, <2>1, <3>1 DEF JobsAwaited, TypeOK
        <4>2. QED
          BY <3>1, <4>1 DEF JobSteps
      <3>2. QED
        BY <1>5, <3>1 DEF Disconnect
    <2>3. LockInv' /\ GoneInv'
      BY <1>5, <2>1, <2>2
      DEF LockInv, GoneInv, TypeOK, Code, Released, ArgsInv, VerifyRequest
    <2>4. CASE pc' = pc
      BY <2>1, <2>3, <2>4 DEF Data, CopyInv, PublishInv, PublishedIsVerified, SinglePublish,
        Code, Subject
    <2>5. CASE pc' = [pc EXCEPT ![r] = "done"]
      BY <2>1, <2>3, <2>5, QuietKeeps DEF Bound, Publishing
    <2>6. QED
      BY <2>2, <2>4, <2>5
  <1>6. ASSUME Crash
        PROVE  LockInv' /\ GoneInv' /\ Data'
    BY <1>6 DEF Crash, TypeOK, LockInv, GoneInv, Data, CopyInv, PublishInv, Publishing,
                PublishedIsVerified, SinglePublish, Code, Subject
  <1>7. ASSUME NEW r \in Requests, Load(r)
        PROVE  LockInv' /\ GoneInv' /\ Data'
    <2>1. CASE ReadFails(r, "error")
      BY <1>7, <2>1, AnswerKeeps, QuietKeeps
         DEF Load, ReadFails, Bound, Publishing
    <2>2. CASE ~ReadFails(r, "error")
      <3>1. /\ copy' = [copy EXCEPT ![r] = challenge[Code(r)]]
            /\ UNCHANGED <<challenge, req, topics, posts>>
        BY <1>7, <2>2 DEF Load
      <3>2. pc' = [pc EXCEPT ![r] = "decide"] /\ LockInv' /\ GoneInv'
        BY <1>7, <2>2, ContinueKeeps DEF Load
      <3>3. CopyInv'
        BY <3>1, <3>2 DEF CopyInv, TypeOK, Code, Subject, RecordFailedAttempt
      <3>4. PublishInv' /\ PublishedIsVerified' /\ SinglePublish'
        BY <3>1, <3>2 DEF PublishInv, Publishing, PublishedIsVerified, SinglePublish, TypeOK, Code
      <3>5. QED
        BY <3>2, <3>3, <3>4 DEF Data
    <2>3. QED
      BY <2>1, <2>2
  <1>8. ASSUME NEW r \in Requests, Decide(r)
        PROVE  LockInv' /\ GoneInv' /\ Data'
    <2>1. ASSUME NEW what \in Replies \ {"gone"}, Answer(r, what), UNCHANGED copy
          PROVE  LockInv' /\ GoneInv' /\ Data'
      BY <1>8, <2>1, AnswerKeeps, QuietKeeps DEF Decide, Bound, Publishing
    <2>2. ASSUME NEW step \in {"saveChallenge", "judge"}, Continue(r, step),
                 \/ /\ step = "judge" /\ UNCHANGED copy
                    /\ copy[r].owner = Subject(r) /\ copy[r].status # "absent"
                 \/ /\ step = "saveChallenge" /\ copy[r].status = "pending"
                    /\ copy' = [copy EXCEPT ![r].status = "expired"]
          PROVE  LockInv' /\ GoneInv' /\ Data'
      <3>1. pc' = [pc EXCEPT ![r] = step] /\ LockInv' /\ GoneInv'
        BY <1>8, <2>2, ContinueKeeps DEF Decide
      <3>2. copy[r] = challenge[Code(r)]
        BY <1>8, <2>2 DEF Decide, CopyInv
      <3>3. CopyInv'
        BY <1>8, <2>2, <3>1, <3>2 DEF Decide, CopyInv, TypeOK, Code, Subject
      <3>4. PublishInv' /\ PublishedIsVerified' /\ SinglePublish'
        BY <1>8, <2>2, <3>1 DEF Decide, PublishInv, Publishing, PublishedIsVerified,
                              SinglePublish, TypeOK, Code
      <3>5. QED
        BY <3>1, <3>3, <3>4 DEF Data
    <2>3. QED
      BY <1>8, <2>1, <2>2 DEF Decide
  <1>9. ASSUME NEW r \in Requests, Judge(r)
        PROVE  LockInv' /\ GoneInv' /\ Data'
    <2>1. ASSUME NEW what \in Replies \ {"gone"}, Answer(r, what), UNCHANGED copy
          PROVE  LockInv' /\ GoneInv' /\ Data'
      BY <1>9, <2>1, AnswerKeeps, QuietKeeps DEF Judge, Bound, Publishing
    <2>2. ASSUME NEW step \in {"saveChallenge", "preflight"}, Continue(r, step),
                 copy[r].status = "pending",
                 \/ step = "preflight" /\ UNCHANGED copy
                 \/ /\ step = "saveChallenge"
                    /\ copy' = [copy EXCEPT ![r] = RecordFailedAttempt(copy[r])]
          PROVE  LockInv' /\ GoneInv' /\ Data'
      <3>1. pc' = [pc EXCEPT ![r] = step] /\ LockInv' /\ GoneInv'
        BY <1>9, <2>2, ContinueKeeps DEF Judge
      <3>2. copy[r] = challenge[Code(r)]
        BY <1>9 DEF Judge, CopyInv
      <3>3. CopyInv'
        BY <1>9, <2>2, <3>1, <3>2 DEF Judge, CopyInv, TypeOK, Code, Subject
      <3>4. PublishInv' /\ PublishedIsVerified' /\ SinglePublish'
        BY <1>9, <2>2, <3>1 DEF Judge, PublishInv, Publishing, PublishedIsVerified,
                              SinglePublish, TypeOK, Code
      <3>5. QED
        BY <3>1, <3>3, <3>4 DEF Data
    <2>3. QED
      BY <1>9, <2>1, <2>2 DEF Judge
  <1>10. ASSUME NEW r \in Requests, SaveChallenge(r)
         PROVE  LockInv' /\ GoneInv' /\ Data'
    <2>1. PICK step \in {"loadStreak", "done"} :
            pc' = [pc EXCEPT ![r] = step] /\ LockInv' /\ GoneInv'
      BY <1>10, AnswerKeeps, ContinueKeeps DEF SaveChallenge
    <2>2. CASE challenge' = challenge
      BY <1>10, <2>1, <2>2, QuietKeeps DEF SaveChallenge, Bound, Publishing
    <2>3. CASE challenge' = [challenge EXCEPT ![Code(r)] = copy[r]]
      <3>1. \A q \in Requests \ {r} : Code(q) = Code(r) => pc[q] \notin Critical
        BY <1>10 DEF SaveChallenge, LockInv
      <3>2. challenge[Code(r)].status = "pending" /\ Code(r) \in Codes
        BY <1>10 DEF SaveChallenge, CopyInv, ArgsInv, VerifyRequest, Code
      <3>3. CopyInv'
        BY <1>10, <2>1, <2>3, <3>1, <3>2 DEF SaveChallenge, CopyInv, TypeOK, Code, Subject
      <3>4. PublishInv' /\ PublishedIsVerified' /\ SinglePublish'
        BY <1>10, <2>1, <2>3, <3>2
           DEF SaveChallenge, PublishInv, Publishing, PublishedIsVerified, SinglePublish,
               TypeOK, Code
      <3>5. QED
        BY <2>1, <3>3, <3>4 DEF Data
    <2>4. QED
      BY <1>10, <2>2, <2>3 DEF SaveChallenge
  <1>11. ASSUME NEW r \in Requests, LoadStreak(r)
         PROVE  LockInv' /\ GoneInv' /\ Data'
    BY <1>11, AnswerKeeps, ContinueKeeps, QuietKeeps
       DEF LoadStreak, ReadFails, Bound, Publishing
  <1>12. ASSUME NEW r \in Requests, SaveStreak(r)
         PROVE  LockInv' /\ GoneInv' /\ Data'
    BY <1>12, AnswerKeeps, ContinueKeeps, QuietKeeps
       DEF SaveStreak, FailureReply, Bound, Publishing
  <1>13. ASSUME NEW r \in Requests, SaveBan(r)
         PROVE  LockInv' /\ GoneInv' /\ Data'
    BY <1>13, AnswerKeeps, ContinueKeeps, QuietKeeps
       DEF SaveBan, FailureReply, Bound, Publishing
  <1>14. ASSUME NEW r \in Requests, Preflight(r)
         PROVE  LockInv' /\ GoneInv' /\ Data'
    <2>1. CASE Answer(r, "refused")
      BY <1>14, <2>1, AnswerKeeps, QuietKeeps DEF Preflight, Bound, Publishing
    <2>2. CASE Continue(r, "consume")
      <3>1. pc' = [pc EXCEPT ![r] = "consume"] /\ LockInv' /\ GoneInv'
        BY <1>14, <2>2, ContinueKeeps DEF Preflight
      <3>2. CopyInv'
        BY <1>14, <3>1 DEF Preflight, CopyInv, TypeOK, Code, Subject
      <3>3. PublishInv' /\ PublishedIsVerified' /\ SinglePublish'
        BY <1>14, <3>1 DEF Preflight, PublishInv, Publishing, PublishedIsVerified,
                          SinglePublish, TypeOK, Code
      <3>4. QED
        BY <3>1, <3>2, <3>3 DEF Data
    <2>3. QED
      BY <1>14, <2>1, <2>2 DEF Preflight
  <1>15. ASSUME NEW r \in Requests, Consume(r)
         PROVE  LockInv' /\ GoneInv' /\ Data'
    <2> DEFINE c == Code(r)
    <2>1. PICK step \in {"drop", "done"} :
            /\ pc' = [pc EXCEPT ![r] = step] /\ LockInv' /\ GoneInv'
            /\ step = "drop" => challenge' = [challenge EXCEPT ![c] = ConsumedRow(r)]
                                /\ Consumable(r)
      BY <1>15, AnswerKeeps, ContinueKeeps DEF Consume, Applied, Reported, Outcomes
    <2>2. c \in Codes /\ challenge[c].status = "pending"
      BY <1>15 DEF Consume, CopyInv, ArgsInv, VerifyRequest, Code
    <2>3. /\ topics[c] = 0 /\ posts[c] = 0
          /\ \A q \in Requests : pc[q] \in Publishing => Code(q) # c
      BY <2>2 DEF PublishedIsVerified, PublishInv, TypeOK
    <2>4. CASE challenge' = challenge
      <3>1. step = "done"
        <4> SUFFICES ASSUME step = "drop" PROVE FALSE
          OBVIOUS
        <4>1. ConsumedRow(r) = [challenge[c] EXCEPT !.status = "verified"]
          BY <2>1 DEF ConsumedRow
        <4>2. challenge[c] \in VerificationChallengeRecord
          BY <2>2 DEF TypeOK
        <4>3. ConsumedRow(r).status = "verified" /\ challenge'[c] = ConsumedRow(r)
          BY <2>1, <2>2, <4>1, <4>2 DEF VerificationChallengeRecord, TypeOK
        <4>4. QED
          BY <2>2, <2>4, <4>3
      <3>2. \A q \in Requests \ {r} : copy'[q] = copy[q]
        BY <1>15 DEF Consume, TypeOK
      <3>3. QED
        BY <1>15, <2>1, <2>4, <3>1, <3>2, QuietKeeps DEF Consume, Bound, Publishing
    <2>5. CASE challenge' = [challenge EXCEPT ![c] = ConsumedRow(r)]
      <3>1. \A q \in Requests \ {r} : Code(q) = c => pc[q] \notin Critical
        BY <1>15 DEF Consume, LockInv
      <3>2. CopyInv'
        BY <1>15, <2>1, <2>5, <3>1 DEF Consume, CopyInv, TypeOK, Code, Subject
      <3>3. PublishInv'
        <4>1. \A q \in Requests : pc'[q] \in Publishing =>
                (q = r /\ step = "drop") \/ (pc[q] \in Publishing /\ Code(q) # c)
          BY <2>1, <2>3 DEF Publishing, TypeOK
        <4>2. step = "drop" => challenge'[c].status = "verified"
          <5>1. challenge[c] \in VerificationChallengeRecord
            BY <2>2 DEF TypeOK
          <5>2. QED
            BY <2>1, <2>2, <5>1 DEF ConsumedRow, VerificationChallengeRecord, TypeOK
        <4>3. \A q \in Requests : Code(q) # c => challenge'[Code(q)] = challenge[Code(q)]
          BY <2>2, <2>5 DEF TypeOK
        <4>4. UNCHANGED <<topics, posts, req>> /\ pc' = [pc EXCEPT ![r] = step]
          BY <1>15, <2>1 DEF Consume
        <4>5. ASSUME NEW q \in Requests, pc'[q] \in Publishing
              PROVE  /\ challenge'[Code(q)].status = "verified" /\ posts[Code(q)] = 0
                     /\ pc'[q] # "createPost" => topics[Code(q)] = 0
                     /\ \A p \in Requests \ {q} :
                          pc'[p] \in Publishing => Code(p) # Code(q)
          <5>1. CASE q = r /\ step = "drop"
            BY <2>3, <4>1, <4>2, <4>5, <5>1
          <5>2. CASE pc[q] \in Publishing /\ Code(q) # c
            BY <2>3, <4>1, <4>3, <4>4, <4>5, <5>2 DEF PublishInv, TypeOK, Publishing
          <5>3. QED
            BY <4>1, <4>5, <5>1, <5>2
        <4>6. QED
          BY <4>4, <4>5 DEF PublishInv, Code
      <3>4. PublishedIsVerified' /\ SinglePublish'
        BY <1>15, <2>2, <2>3, <2>5
           DEF Consume, PublishedIsVerified, SinglePublish, TypeOK, Code
      <3>5. QED
        BY <2>1, <3>2, <3>3, <3>4 DEF Data
    <2>6. QED
      BY <1>15, <2>4, <2>5 DEF Consume
  <1>16. ASSUME NEW r \in Requests, DropLock(r)
         PROVE  LockInv' /\ GoneInv' /\ Data'
    <2> USE <1>16 DEF DropLock, TypeOK
    <2>1. LockInv' /\ GoneInv'
      BY DEF LockInv, GoneInv, Code, Released, ArgsInv, VerifyRequest
    <2>2. CopyInv'
      BY DEF CopyInv, Code, Subject
    <2>3. PublishInv'
      BY DEF PublishInv, Publishing, Code
    <2>4. PublishedIsVerified' /\ SinglePublish'
      BY DEF PublishedIsVerified, SinglePublish
    <2>5. QED
      BY <2>1, <2>2, <2>3, <2>4 DEF Data
  <1>17. ASSUME NEW r \in Requests, CreateTopic(r)
         PROVE  LockInv' /\ GoneInv' /\ Data'
    <2>1. PICK step \in {"createPost", "done"} :
            pc' = [pc EXCEPT ![r] = step] /\ LockInv' /\ GoneInv'
      BY <1>17, AnswerKeeps, QueryKeeps DEF CreateTopic
    <2>2. topics' = topics \/ topics' = [topics EXCEPT ![Code(r)] = @ + 1]
      BY <1>17 DEF CreateTopic
    <2>3. /\ Code(r) \in Codes /\ challenge[Code(r)].status = "verified"
          /\ topics[Code(r)] = 0 /\ posts[Code(r)] = 0
      BY <1>17 DEF CreateTopic, PublishInv, Publishing, ArgsInv, VerifyRequest, Code
    <2>4. CopyInv'
      BY <1>17, <2>1 DEF CreateTopic, CopyInv, TypeOK, Code, Subject
    <2>5. PublishInv'
      BY <1>17, <2>1, <2>2, <2>3 DEF CreateTopic, PublishInv, Publishing, TypeOK, Code
    <2>6. PublishedIsVerified' /\ SinglePublish'
      BY <1>17, <2>2, <2>3 DEF CreateTopic, PublishedIsVerified, SinglePublish, TypeOK
    <2>7. QED
      BY <2>1, <2>4, <2>5, <2>6 DEF Data
  <1>18. ASSUME NEW r \in Requests, LookupTopic(r)
         PROVE  LockInv' /\ GoneInv' /\ Data'
    <2>1. CASE ReadFails(r, "unpublished")
      BY <1>18, <2>1, AnswerKeeps, QuietKeeps DEF LookupTopic, ReadFails, Bound, Publishing
    <2>2. CASE Continue(r, "createPost") /\ UNCHANGED <<store, past, local>>
      <3>1. pc' = [pc EXCEPT ![r] = "createPost"] /\ LockInv' /\ GoneInv'
        BY <1>18, <2>2, ContinueKeeps DEF LookupTopic
      <3>2. CopyInv'
        BY <1>18, <2>2, <3>1 DEF CopyInv, TypeOK, Code, Subject
      <3>3. PublishInv' /\ PublishedIsVerified' /\ SinglePublish'
        BY <1>18, <2>2, <3>1 DEF LookupTopic, PublishInv, Publishing, PublishedIsVerified,
                          SinglePublish, TypeOK, Code
      <3>4. QED
        BY <3>1, <3>2, <3>3 DEF Data
    <2>3. QED
      BY <1>18, <2>1, <2>2 DEF LookupTopic
  <1>19. ASSUME NEW r \in Requests, CreatePost(r)
         PROVE  LockInv' /\ GoneInv' /\ Data'
    <2>1. PICK step \in {"loadClear", "done"} :
            pc' = [pc EXCEPT ![r] = step] /\ LockInv' /\ GoneInv'
      BY <1>19, AnswerKeeps, QueryKeeps DEF CreatePost
    <2>2. posts' = posts \/ posts' = [posts EXCEPT ![Code(r)] = @ + 1]
      BY <1>19 DEF CreatePost
    <2>3. /\ Code(r) \in Codes /\ challenge[Code(r)].status = "verified"
          /\ posts[Code(r)] = 0 /\ posts[Code(r)] = 0
      BY <1>19 DEF CreatePost, PublishInv, Publishing, ArgsInv, VerifyRequest, Code
    <2>4. CopyInv'
      BY <1>19, <2>1 DEF CreatePost, CopyInv, TypeOK, Code, Subject
    <2>5. PublishInv'
      BY <1>19, <2>1, <2>2, <2>3 DEF CreatePost, PublishInv, Publishing, TypeOK, Code
    <2>6. PublishedIsVerified' /\ SinglePublish'
      BY <1>19, <2>2, <2>3 DEF CreatePost, PublishedIsVerified, SinglePublish, TypeOK
    <2>7. QED
      BY <2>1, <2>4, <2>5, <2>6 DEF Data
  <1>20. ASSUME NEW r \in Requests, LoadClear(r)
         PROVE  LockInv' /\ GoneInv' /\ Data'
    BY <1>20, AnswerKeeps, ContinueKeeps, QuietKeeps
       DEF LoadClear, ReadFails, Bound, Publishing
  <1>21. ASSUME NEW r \in Requests, SaveClear(r)
         PROVE  LockInv' /\ GoneInv' /\ Data'
    BY <1>21, AnswerKeeps, ContinueKeeps, QuietKeeps
       DEF SaveClear, Bound, Publishing
  <1>22. CASE UNCHANGED vars
    BY <1>22 DEF vars, LockInv, GoneInv, Data, CopyInv, PublishInv, PublishedIsVerified,
                 SinglePublish, Code, Subject
  <1>23. QED
    BY <1>1, <1>2, <1>3, <1>4, <1>5, <1>6, <1>7, <1>8, <1>9, <1>10, <1>11, <1>12,
       <1>13, <1>14, <1>15, <1>16, <1>17, <1>18, <1>19, <1>20, <1>21, <1>22
       DEF Next, ServerStep

\* While jobs are awaited, the lock and the copies are what the code assumes
\* of them in every reachable state, whatever fails and whoever goes away.
THEOREM ChallengeInvariant == AwaitedSpec => []ChallengeInv
  <1>1. Init => ChallengeInv
    <2>1. Init => TypeOK /\ ArgsInv
      BY VerificationAssumption, AbsentType
         DEF Init, TypeOK, ArgsInv, NoArgs, Steps, Replies
    <2>2. Init => GoneInv /\ LockInv /\ CopyInv /\ PublishInv
      BY DEF Init, GoneInv, LockInv, Critical, CopyInv, PublishInv, Publishing
    <2>3. Init => PublishedIsVerified /\ SinglePublish
      BY DEF Init, PublishedIsVerified, SinglePublish
    <2>4. QED
      BY <2>1, <2>2, <2>3 DEF ChallengeInv
  <1>2. ChallengeInv /\ [Next /\ JobsAwaited']_vars => ChallengeInv'
    BY ChallengeStep
  <1>3. QED
    BY <1>1, <1>2, PTL DEF AwaitedSpec

\* However many requests answer a challenge, whatever database calls fail or
\* crashes happen and whichever clients go away, it publishes at most one topic
\* and one post, as long as no job is left alone.
THEOREM SinglePublishHolds == AwaitedSpec => []SinglePublish
  <1>1. ChallengeInv => SinglePublish
    BY DEF ChallengeInv
  <1>2. QED
    BY <1>1, ChallengeInvariant, PTL

\* Under the same assumption, content exists only for verified challenges.
THEOREM PublishedIsVerifiedHolds == AwaitedSpec => []PublishedIsVerified
  <1>1. ChallengeInv => PublishedIsVerified
    BY DEF ChallengeInv
  <1>2. QED
    BY <1>1, ChallengeInvariant, PTL

-----------------------------------------------------------------------------
(* The rows only move along the life of a challenge.                        *)

\* One row a step may write, given the row it replaces.
Successors(row) ==
  IF row.status = "absent"
  THEN {new \in VerificationChallengeRecord : new.status = "pending" /\ new.attempts = 0}
  ELSE {RecordFailedAttempt(row), [row EXCEPT !.status = "expired"],
        [row EXCEPT !.status = "verified"]}

Writes(c, row) ==
  /\ challenge[c].status \in {"absent", "pending"}
  /\ row \in Successors(challenge[c])
  /\ challenge' = [challenge EXCEPT ![c] = row]
  /\ UNCHANGED <<topics, posts>>

\* Every step leaves all rows alone or takes one open row to a successor, and
\* a step that creates content creates the first of a verified challenge.
LEMMA RowStep ==
  ASSUME ChallengeInv, [Next]_vars
  PROVE  \/ UNCHANGED <<challenge, topics, posts>>
         \/ \E c \in Codes : \E row \in VerificationChallengeRecord : Writes(c, row)
         \/ /\ UNCHANGED challenge
            /\ \E c \in Codes :
                 /\ challenge[c].status = "verified" /\ posts[c] = 0
                 /\ \/ /\ topics[c] = 0 /\ topics' = [topics EXCEPT ![c] = 1]
                       /\ UNCHANGED posts
                    \/ posts' = [posts EXCEPT ![c] = 1] /\ UNCHANGED topics
  <1> USE DEF ChallengeInv, TypeOK, store
  <1>1. ASSUME NEW c \in Codes, NEW s \in Subjects, NEW k \in Kinds,
               IssueChallenge(c, s, k)
        PROVE  \E row \in VerificationChallengeRecord : Writes(c, row)
    <2> DEFINE row == [status |-> "pending", attempts |-> 0, owner |-> s, kind |-> k]
    <2>1. row \in VerificationChallengeRecord
      BY NewRowType
    <2>2. row \in Successors(challenge[c])
      BY <1>1, <2>1 DEF IssueChallenge, Successors
    <2>3. Writes(c, row)
      BY <1>1, <2>2 DEF IssueChallenge, Writes
    <2>4. QED
      BY <2>1, <2>3
  <1>2. ASSUME NEW r \in Requests, SaveChallenge(r)
        PROVE  UNCHANGED <<challenge, topics, posts>> \/ \E row \in VerificationChallengeRecord : Writes(Code(r), row)
    <2>1. /\ challenge[Code(r)].status = "pending"
          /\ copy[r] \in Successors(challenge[Code(r)])
      BY <1>2 DEF SaveChallenge, CopyInv, Successors
    <2>2. \/ UNCHANGED <<challenge, topics, posts>>
          \/ Writes(Code(r), copy[r])
      BY <1>2, <2>1 DEF SaveChallenge, Writes
    <2>3. QED
      BY <2>2
  <1>3. ASSUME NEW r \in Requests, Consume(r)
        PROVE  UNCHANGED <<challenge, topics, posts>> \/ \E row \in VerificationChallengeRecord : Writes(Code(r), row)
    <2>1. challenge[Code(r)].status = "pending"
      BY <1>3 DEF Consume, CopyInv
    <2>2. \/ ConsumedRow(r) = challenge[Code(r)]
          \/ ConsumedRow(r) \in Successors(challenge[Code(r)])
      BY <2>1 DEF ConsumedRow, Successors
    <2>3. \/ challenge' = challenge
          \/ challenge' = [challenge EXCEPT ![Code(r)] = ConsumedRow(r)]
      BY <1>3 DEF Consume
    <2>4. UNCHANGED <<topics, posts>>
      BY <1>3 DEF Consume
    <2>5. CASE ConsumedRow(r) = challenge[Code(r)]
      <3>1. challenge' = challenge
        BY <2>3, <2>5
      <3>2. QED
        BY <2>4, <3>1
    <2>6. CASE ConsumedRow(r) \in Successors(challenge[Code(r)])
      <3>1. ConsumedRow(r) \in VerificationChallengeRecord
        <4>1. Code(r) \in Codes
          BY <1>3 DEF Consume, ArgsInv, VerifyRequest, Code
        <4>2. QED
          BY <4>1, ChangedStatusType DEF ConsumedRow
      <3>2. \/ UNCHANGED <<challenge, topics, posts>>
            \/ Writes(Code(r), ConsumedRow(r))
        BY <2>1, <2>3, <2>4, <2>6 DEF Writes
      <3>3. QED
        BY <3>1, <3>2
    <2>7. QED
      BY <2>2, <2>5, <2>6
  <1>4. ASSUME NEW r \in Requests, CreateTopic(r)
        PROVE  /\ UNCHANGED <<challenge, posts>>
               /\ challenge[Code(r)].status = "verified"
               /\ topics[Code(r)] = 0 /\ posts[Code(r)] = 0
               /\ topics' = topics \/ topics' = [topics EXCEPT ![Code(r)] = 1]
    <2>1. /\ challenge[Code(r)].status = "verified"
          /\ topics[Code(r)] = 0 /\ posts[Code(r)] = 0
      BY <1>4 DEF CreateTopic, PublishInv, Publishing
    <2>2. /\ UNCHANGED <<challenge, posts>>
          /\ \/ topics' = topics
             \/ topics' = [topics EXCEPT ![Code(r)] = topics[Code(r)] + 1]
      BY <1>4 DEF CreateTopic
    <2>3. QED
      BY <2>1, <2>2
  <1>5. ASSUME NEW r \in Requests, CreatePost(r)
        PROVE  /\ UNCHANGED <<challenge, topics>>
               /\ challenge[Code(r)].status = "verified" /\ posts[Code(r)] = 0
               /\ posts' = posts \/ posts' = [posts EXCEPT ![Code(r)] = 1]
    <2>1. challenge[Code(r)].status = "verified" /\ posts[Code(r)] = 0
      BY <1>5 DEF CreatePost, PublishInv, Publishing
    <2>2. /\ UNCHANGED <<challenge, topics>>
          /\ \/ posts' = posts
             \/ posts' = [posts EXCEPT ![Code(r)] = posts[Code(r)] + 1]
      BY <1>5 DEF CreatePost
    <2>3. QED
      BY <2>1, <2>2
  <1>6. \A r \in Requests : pc[r] # "idle" => Code(r) \in Codes
    BY DEF ArgsInv, VerifyRequest, Code
  <1>7. ASSUME NEW r \in Requests, ServerStep(r), ~SaveChallenge(r), ~Consume(r),
               ~CreateTopic(r), ~CreatePost(r)
        PROVE  UNCHANGED <<challenge, topics, posts>>
    BY <1>7 DEF ServerStep, Load, Decide, Judge, LoadStreak, SaveStreak, SaveBan, Preflight,
                DropLock, LookupTopic, LoadClear, SaveClear, ReadFails
  <1>8. ASSUME \/ \E c \in Codes : TimePasses(c)
               \/ \E r \in Requests, c \in Codes, s \in Subjects, right \in BOOLEAN :
                    Submit(r, c, s, right)
               \/ \E r \in Requests : Acquire(r) \/ Disconnect(r)
               \/ Crash
               \/ UNCHANGED vars
        PROVE  UNCHANGED <<challenge, topics, posts>>
    BY <1>8 DEF TimePasses, Submit, Acquire, Disconnect, Crash, vars
  <1>9. \A r \in Requests :
          SaveChallenge(r) \/ Consume(r) \/ CreateTopic(r) \/ CreatePost(r) => Code(r) \in Codes
    BY <1>6 DEF SaveChallenge, Consume, CreateTopic, CreatePost
  <1>10. CASE \E r \in Requests : SaveChallenge(r) \/ Consume(r)
    BY <1>2, <1>3, <1>9, <1>10
  <1>11. CASE \E r \in Requests : CreateTopic(r) \/ CreatePost(r)
    <2>1. PICK r \in Requests : CreateTopic(r) \/ CreatePost(r)
      BY <1>11
    <2>2. Code(r) \in Codes
      BY <1>9, <2>1
    <2>3. QED
      BY <1>4, <1>5, <2>1, <2>2
  <1>12. CASE \E c \in Codes, s \in Subjects, k \in Kinds : IssueChallenge(c, s, k)
    BY <1>1, <1>12
  <1>13. QED
    BY <1>7, <1>8, <1>10, <1>11, <1>12 DEF Next

\* While jobs are awaited, a challenge that has ended stays as it is and no
\* attempt is ever taken back.
THEOREM TerminalIsFinalHolds == AwaitedSpec => TerminalIsFinal
  <1> DEFINE Final(c) ==
        LET old == challenge[c]  new == challenge'[c] IN
        /\ old.status \in {"verified", "failed", "expired"} => new = old
        /\ new.attempts >= old.attempts
        /\ old.status # "absent" => new.owner = old.owner /\ new.kind = old.kind
  <1>1. ASSUME ChallengeInv, [Next]_vars
        PROVE  [\A c \in Codes : Final(c)]_challenge
    <2> SUFFICES ASSUME NEW d \in Codes, challenge' # challenge PROVE Final(d)
      OBVIOUS
    <2>1. challenge[d] \in VerificationChallengeRecord
      BY <1>1 DEF ChallengeInv, TypeOK
    <2>2. challenge[d].attempts \in Nat
      BY <2>1 DEF VerificationChallengeRecord
    <2>3. CASE challenge'[d] = challenge[d]
      BY <2>2, <2>3
    <2>4. CASE challenge'[d] # challenge[d]
      <3>1. PICK c \in Codes, row \in VerificationChallengeRecord : Writes(c, row)
        BY <1>1, RowStep
      <3>2. d = c /\ challenge'[d] = row
        BY <1>1, <2>4, <3>1 DEF Writes, ChallengeInv, TypeOK
      <3>3. CASE challenge[d].status = "absent"
        BY <2>1, <3>1, <3>2, <3>3 DEF Writes, Successors, VerificationChallengeRecord
      <3>4. CASE challenge[d].status = "pending"
        <4>1. \/ row = RecordFailedAttempt(challenge[d])
              \/ \E status \in Statuses : row = [challenge[d] EXCEPT !.status = status]
          BY <3>1, <3>2, <3>4 DEF Writes, Successors, Statuses
        <4>2. /\ row.owner = challenge[d].owner /\ row.kind = challenge[d].kind
              /\ row.attempts >= challenge[d].attempts
          <5>1. CASE row = RecordFailedAttempt(challenge[d])
            BY <2>1, <2>2, <5>1 DEF RecordFailedAttempt, VerificationChallengeRecord
          <5>2. CASE \E status \in Statuses : row = [challenge[d] EXCEPT !.status = status]
            BY <2>1, <2>2, <5>2 DEF VerificationChallengeRecord
          <5>3. QED
            BY <4>1, <5>1, <5>2
        <4>3. QED
          BY <3>2, <3>4, <4>2
      <3>5. QED
        BY <3>1, <3>2, <3>3, <3>4 DEF Writes
    <2>5. QED
      BY <2>3, <2>4
  <1>2. QED
    BY <1>1, ChallengeInvariant, AwaitedSpecIsSpec, PTL DEF Spec, TerminalIsFinal

-----------------------------------------------------------------------------
(* The refinement of SingleUse.                                             *)

Status == [c \in Codes |-> challenge[c].status]
Attempts == [c \in Codes |-> challenge[c].attempts]

\* Writing one row changes the status and the attempts of its code alone.
LEMMA WrittenRow ==
  ASSUME TypeOK, NEW c \in Codes, NEW row \in VerificationChallengeRecord,
         challenge' = [challenge EXCEPT ![c] = row]
  PROVE  /\ Status' = [Status EXCEPT ![c] = row.status]
         /\ Attempts' = [Attempts EXCEPT ![c] = row.attempts]
  BY DEF TypeOK, Status, Attempts

\* Every write is one of the abstract challenge's own steps.
LEMMA WriteRefines ==
  ASSUME ChallengeInv, NEW c \in Codes, NEW row \in VerificationChallengeRecord,
         Writes(c, row)
  PROVE  Promise!Next
  <1> USE DEF ChallengeInv
  <1> DEFINE old == challenge[c]
  <1>1. old \in VerificationChallengeRecord
    BY DEF TypeOK
  <1>2. /\ Status' = [Status EXCEPT ![c] = row.status]
        /\ Attempts' = [Attempts EXCEPT ![c] = row.attempts]
        /\ Status[c] = old.status /\ Attempts[c] = old.attempts
        /\ UNCHANGED <<topics, posts>>
    BY WrittenRow DEF Writes, Status, Attempts
  <1>3. row.attempts = old.attempts => UNCHANGED Attempts
    BY <1>2 DEF Attempts
  <1>4. CASE old.status = "absent"
    <2>1. row.status = "pending" /\ row.attempts = old.attempts
      BY <1>1, <1>4 DEF Writes, Successors, VerificationChallengeRecord
    <2>2. Promise!Issue(c)
      BY <1>2, <1>3, <1>4, <2>1 DEF Promise!Issue, Promise!Become, Status, Attempts
    <2>3. QED
      BY <2>2 DEF Promise!Next
  <1>5. CASE old.status = "pending" /\ row = [old EXCEPT !.status = "expired"]
    <2>1. row.status = "expired" /\ row.attempts = old.attempts
      BY <1>1, <1>5 DEF VerificationChallengeRecord
    <2>2. Promise!Expire(c)
      BY <1>2, <1>3, <1>5, <2>1 DEF Promise!Expire, Promise!Become, Status, Attempts
    <2>3. QED
      BY <2>2 DEF Promise!Next
  <1>6. CASE old.status = "pending" /\ row = [old EXCEPT !.status = "verified"]
    <2>1. row.status = "verified" /\ row.attempts = old.attempts
      BY <1>1, <1>6 DEF VerificationChallengeRecord
    <2>2. Promise!Verify(c)
      BY <1>2, <1>3, <1>6, <2>1 DEF Promise!Verify, Promise!Become, Status, Attempts
    <2>3. QED
      BY <2>2 DEF Promise!Next
  <1>7. CASE old.status = "pending" /\ row = RecordFailedAttempt(old)
    <2>1. old.attempts \in Nat /\ old.attempts < MaxAttempts /\ MaxAttempts \in Nat
      BY <1>1, <1>7, VerificationAssumption DEF VerificationChallengeRecord
    <2>2. /\ row.attempts = old.attempts + 1
          /\ row.status = IF old.attempts + 1 >= MaxAttempts THEN "failed" ELSE "pending"
      BY <1>1, <1>7 DEF RecordFailedAttempt, VerificationChallengeRecord
    <2>3. row.status = IF old.attempts + 1 = MaxAttempts THEN "failed" ELSE "pending"
      BY <2>1, <2>2
    <2>4. Promise!GuessWrong(c)
      BY <1>2, <1>7, <2>1, <2>2, <2>3
         DEF Promise!GuessWrong, Promise!Become, Status, Attempts
    <2>5. QED
      BY <2>4 DEF Promise!Next
  <1>8. QED
    BY <1>4, <1>5, <1>6, <1>7 DEF Writes, Successors

\* While jobs are awaited, the requests, the lock, the copies and the failing
\* calls together behave like one challenge that is used once.
THEOREM KeepsPromiseHolds == AwaitedSpec => KeepsPromise
  <1>1. Init => Promise!Init
    BY DEF Init, Promise!Init, Absent
  <1>2. ChallengeInv /\ [Next]_vars => [Promise!Next]_(Promise!vars)
    <2> SUFFICES ASSUME ChallengeInv, [Next]_vars
                 PROVE  Promise!Next \/ UNCHANGED Promise!vars
      OBVIOUS
    <2>1. CASE UNCHANGED <<challenge, topics, posts>>
      BY <2>1 DEF Promise!vars
    <2>2. CASE \E c \in Codes : \E row \in VerificationChallengeRecord : Writes(c, row)
      BY <2>2, WriteRefines
    <2>3. ASSUME UNCHANGED challenge,
                 NEW c \in Codes, challenge[c].status = "verified", posts[c] = 0,
                 \/ /\ topics[c] = 0 /\ topics' = [topics EXCEPT ![c] = 1]
                    /\ UNCHANGED posts
                 \/ posts' = [posts EXCEPT ![c] = 1] /\ UNCHANGED topics
          PROVE  Promise!Next
      <3>1. Promise!OpenTopic(c) \/ Promise!Publish(c)
        BY <2>3 DEF Promise!OpenTopic, Promise!Publish
      <3>2. QED
        BY <3>1 DEF Promise!Next
    <2>4. QED
      BY <2>1, <2>2, <2>3, RowStep
  <1>3. QED
    BY <1>1, <1>2, ChallengeInvariant, AwaitedSpecIsSpec, PTL
       DEF Spec, KeepsPromise, Promise!Spec
-----------------------------------------------------------------------------
(* What holds whatever faults occur, clients that disconnect included.       *)

Failing == {"saveChallenge", "loadStreak", "saveStreak", "saveBan"}
Winning == {"preflight", "consume"} \cup Publishing \cup {"loadClear", "saveClear"}

\* What a request knows of its challenge and of its own way so far.  The owner
\* and the kind in its copy are the ones in the table even when the rest of the
\* copy is stale.
Known(r) ==
  /\ copy[r].status # "absent" =>
       LET row == challenge[Code(r)] IN
       row.status # "absent" /\ row.owner = copy[r].owner /\ row.kind = copy[r].kind
  /\ pc[r] = "idle" => copy[r].status = "absent"
  /\ pc[r] \in {"judge"} \cup Failing \cup Winning =>
       copy[r].status # "absent" /\ copy[r].owner = Subject(r)
  /\ pc[r] \in Failing => ~req[r].right \/ copy[r].status = "expired"
  /\ pc[r] = "saveChallenge" => copy[r].status \in {"pending", "failed", "expired"}
  /\ pc[r] \in Winning => req[r].right
  /\ pc[r] \in {"preflight", "consume"} => copy[r].status = "pending"
  /\ reply[r] \notin {"none", "gone"} => pc[r] = "done"

KnownInv == \A r \in Requests : Known(r)

\* A step of the server on behalf of r leaves the other requests alone.
Alone(r) ==
  \A q \in Requests \ {r} :
    pc'[q] = pc[q] /\ copy'[q] = copy[q] /\ seen'[q] = seen[q] /\ reply'[q] = reply[q]

LEMMA ServerStepAlone ==
  ASSUME TypeOK, NEW r \in Requests, ServerStep(r)
  PROVE  Alone(r) /\ req' = req
  <1> USE DEF Alone, TypeOK, local, store
  <1>1. (\E what : Answer(r, what)) \/ (\E step : Continue(r, step)) \/ DropLock(r)
    <2>1. CASE Load(r) \/ Decide(r) \/ Judge(r) \/ LoadStreak(r)
      BY <2>1 DEF Load, Decide, Judge, LoadStreak, ReadFails
    <2>2. CASE SaveChallenge(r) \/ SaveStreak(r) \/ SaveBan(r) \/ SaveClear(r)
      BY <2>2 DEF SaveChallenge, SaveStreak, SaveBan, SaveClear
    <2>3. CASE Preflight(r) \/ Consume(r) \/ CreateTopic(r) \/ CreatePost(r)
      BY <2>3 DEF Preflight, Consume, CreateTopic, CreatePost
    <2>4. CASE LookupTopic(r) \/ LoadClear(r)
      BY <2>4 DEF LookupTopic, LoadClear, ReadFails
    <2>5. QED
      BY <2>1, <2>2, <2>3, <2>4 DEF ServerStep
  <1>2. \A q \in Requests \ {r} : pc'[q] = pc[q] /\ reply'[q] = reply[q]
    BY <1>1 DEF Answer, Continue, DropLock
  <1>3. /\ req' = req
        /\ copy' = copy \/ \E row : copy' = [copy EXCEPT ![r] = row]
        /\ seen' = seen \/ \E n : seen' = [seen EXCEPT ![r] = n]
    <2>1. CASE Load(r)
      BY <2>1 DEF Load, ReadFails
    <2>2. CASE Decide(r)
      BY <2>2 DEF Decide
    <2>3. CASE Judge(r)
      BY <2>3 DEF Judge
    <2>4. CASE Consume(r)
      BY <2>4 DEF Consume
    <2>5. CASE LoadStreak(r)
      BY <2>5 DEF LoadStreak, ReadFails
    <2>6. CASE SaveChallenge(r) \/ SaveStreak(r) \/ SaveBan(r) \/ SaveClear(r)
      BY <2>6 DEF SaveChallenge, SaveStreak, SaveBan, SaveClear
    <2>7. CASE Preflight(r) \/ DropLock(r) \/ CreateTopic(r) \/ CreatePost(r)
      BY <2>7 DEF Preflight, DropLock, CreateTopic, CreatePost
    <2>8. CASE LookupTopic(r) \/ LoadClear(r)
      BY <2>8 DEF LookupTopic, LoadClear, ReadFails
    <2>9. QED
      BY <2>1, <2>2, <2>3, <2>4, <2>5, <2>6, <2>7, <2>8 DEF ServerStep
  <1>4. QED
    BY <1>2, <1>3

\* How a step of the server ends; only the returns speak to the client.
LEMMA ServerStepEnds ==
  ASSUME NEW r \in Requests, ServerStep(r)
  PROVE  /\ pc[r] \notin {"idle", "lock", "done"}
         /\ \/ \E what \in Replies \ {"none", "gone"} : Answer(r, what)
            \/ \E step \in Steps : Continue(r, step)
            \/ DropLock(r)
  <1> USE DEF Steps, WriteSteps, Replies
  <1>1. CASE Load(r) \/ Decide(r) \/ Judge(r)
    BY <1>1 DEF Load, Decide, Judge, ReadFails
  <1>2. CASE SaveChallenge(r) \/ LoadStreak(r) \/ SaveStreak(r) \/ SaveBan(r)
    BY <1>2 DEF SaveChallenge, LoadStreak, SaveStreak, SaveBan, ReadFails, FailureReply
  <1>3. CASE Preflight(r) \/ Consume(r) \/ DropLock(r)
    BY <1>3 DEF Preflight, Consume, DropLock
  <1>4. CASE CreateTopic(r) \/ LookupTopic(r) \/ CreatePost(r)
    BY <1>4 DEF CreateTopic, LookupTopic, CreatePost, ReadFails
  <1>5. CASE LoadClear(r) \/ SaveClear(r)
    BY <1>5 DEF LoadClear, SaveClear, ReadFails
  <1>6. QED
    BY <1>1, <1>2, <1>3, <1>4, <1>5 DEF ServerStep

\* The rows are written in three places.
LEMMA RowWrites ==
  ASSUME TypeOK, ArgsInv, [Next]_vars, NEW c \in Codes
  PROVE  \/ challenge'[c] = challenge[c]
         \/ challenge[c].status = "absent" /\ challenge'[c].status = "pending"
         \/ \E r \in Requests :
              /\ Code(r) = c
              /\ \/ SaveChallenge(r) /\ challenge'[c] = copy[r]
                 \/ Consume(r) /\ challenge'[c] = ConsumedRow(r)
  <1> USE DEF store
  <1>1. CASE UNCHANGED challenge
    BY <1>1
  <1>2. ASSUME NEW d \in Codes, NEW s \in Subjects, NEW k \in Kinds, IssueChallenge(d, s, k)
        PROVE  \/ challenge'[c] = challenge[c]
               \/ challenge[c].status = "absent" /\ challenge'[c].status = "pending"
    BY <1>2 DEF IssueChallenge, TypeOK
  <1>3. ASSUME NEW r \in Requests, SaveChallenge(r)
        PROVE  \/ challenge'[c] = challenge[c]
               \/ Code(r) = c /\ challenge'[c] = copy[r]
    BY <1>3 DEF SaveChallenge, TypeOK
  <1>4. ASSUME NEW r \in Requests, Consume(r)
        PROVE  \/ challenge'[c] = challenge[c]
               \/ Code(r) = c /\ challenge'[c] = ConsumedRow(r)
    BY <1>4 DEF Consume, TypeOK
  <1>5. ASSUME NEW r \in Requests, ServerStep(r), ~SaveChallenge(r), ~Consume(r)
        PROVE  UNCHANGED challenge
    BY <1>5 DEF ServerStep, Load, Decide, Judge, LoadStreak, SaveStreak, SaveBan, Preflight,
                DropLock, CreateTopic, CreatePost, LookupTopic, LoadClear, SaveClear, ReadFails
  <1>6. ASSUME \/ \E d \in Codes : TimePasses(d)
               \/ \E r \in Requests, d \in Codes, s \in Subjects, right \in BOOLEAN :
                    Submit(r, d, s, right)
               \/ \E r \in Requests : Acquire(r) \/ Disconnect(r)
               \/ Crash
               \/ UNCHANGED vars
        PROVE  UNCHANGED challenge
    BY <1>6 DEF TimePasses, Submit, Acquire, Disconnect, Crash, vars
  <1>7. QED
    BY <1>1, <1>2, <1>3, <1>4, <1>5, <1>6 DEF Next

\* Nobody else becomes the owner of a challenge, however stale the copies are
\* that are written back.
LEMMA OwnersStay ==
  ASSUME TypeOK, ArgsInv, KnownInv, [Next]_vars, NEW c \in Codes,
         challenge[c].status # "absent"
  PROVE  /\ challenge'[c].status # "absent"
         /\ challenge'[c].owner = challenge[c].owner
         /\ challenge'[c].kind = challenge[c].kind
  <1>1. CASE challenge'[c] = challenge[c]
    BY <1>1
  <1>2. ASSUME NEW r \in Requests, Code(r) = c, SaveChallenge(r), challenge'[c] = copy[r]
        PROVE  /\ challenge'[c].status # "absent"
               /\ challenge'[c].owner = challenge[c].owner
               /\ challenge'[c].kind = challenge[c].kind
    BY <1>2 DEF SaveChallenge, KnownInv, Known, Failing
  <1>3. ASSUME NEW r \in Requests, Code(r) = c, challenge'[c] = ConsumedRow(r)
        PROVE  /\ challenge'[c].status # "absent"
               /\ challenge'[c].owner = challenge[c].owner
               /\ challenge'[c].kind = challenge[c].kind
    <2>1. challenge[c] \in VerificationChallengeRecord
      BY DEF TypeOK
    <2>2. QED
      BY <1>3, <2>1 DEF ConsumedRow, VerificationChallengeRecord
  <1>4. QED
    BY <1>1, <1>2, <1>3, RowWrites

\* A request keeps its knowledge when nothing happens to it, and when it ends.
LEMMA KnownStays ==
  ASSUME TypeOK, ArgsInv, KnownInv, [Next]_vars, NEW r \in Requests,
         copy'[r] = copy[r], req'[r] = req[r],
         \/ pc'[r] = pc[r] /\ reply'[r] \in {reply[r], "gone"}
         \/ pc[r] # "idle" /\ pc'[r] = "done"
         \/ pc[r] = "lock" /\ pc'[r] = "load" /\ reply'[r] = reply[r]
  PROVE  Known(r)'
  <1>1. Known(r)
    BY DEF KnownInv
  <1>2. copy[r].status # "absent" => Code(r) \in Codes
    BY <1>1 DEF Known, ArgsInv, VerifyRequest, Code
  <1>3. copy'[r].status # "absent" =>
          LET row == challenge'[Code(r)] IN
          row.status # "absent" /\ row.owner = copy'[r].owner /\ row.kind = copy'[r].kind
    BY <1>1, <1>2, OwnersStay DEF Known
  <1>4. Code(r)' = Code(r) /\ Subject(r)' = Subject(r)
    BY DEF Code, Subject
  <1>5. QED
    BY <1>1, <1>3, <1>4 DEF Known, Failing, Winning, Publishing

\* What a step of the server adds to the knowledge of its request.
LEMMA KnownGrows ==
  ASSUME TypeOK, ArgsInv, KnownInv, [Next]_vars, NEW r \in Requests, ServerStep(r)
  PROVE  Known(r)'
  <1> USE DEF TypeOK
  <1>1. /\ Known(r) /\ req' = req /\ Code(r)' = Code(r) /\ Subject(r)' = Subject(r)
        /\ Code(r) \in Codes /\ pc[r] \notin {"idle", "done"} /\ reply[r] \in {"none", "gone"}
    <2>1. pc[r] \notin {"idle", "done"}
      BY DEF ServerStep, Load, Decide, Judge, SaveChallenge, LoadStreak, SaveStreak, SaveBan,
        Preflight, Consume, DropLock, CreateTopic, LookupTopic, CreatePost, LoadClear, SaveClear
    <2>2. QED
      BY <2>1, ServerStepAlone DEF KnownInv, Known, ArgsInv, VerifyRequest, Code, Subject
  <1>2. ASSUME NEW what, Answer(r, what), UNCHANGED copy
        PROVE  Known(r)'
    BY <1>1, <1>2, KnownStays DEF Answer
  <1>3. ASSUME NEW step \in Steps, Continue(r, step), step \notin {"idle", "done"},
               UNCHANGED <<copy, challenge>>,
               step \in {"judge"} \cup Failing \cup Winning =>
                 copy[r].status # "absent" /\ copy[r].owner = Subject(r),
               step \in Failing => ~req[r].right \/ copy[r].status = "expired",
               step # "saveChallenge", step \in Winning => req[r].right,
               step \in {"preflight", "consume"} => copy[r].status = "pending"
        PROVE  Known(r)'
    BY <1>1, <1>3 DEF Continue, Known, Failing, Winning, Publishing
  <1>4. CASE Load(r)
    <2>1. CASE ReadFails(r, "error")
      BY <1>2, <2>1 DEF ReadFails, local
    <2>2. CASE copy' = [copy EXCEPT ![r] = challenge[Code(r)]] /\ Continue(r, "decide")
      BY <1>1, <1>4, <2>2 DEF Load, ReadFails, Continue, Known, store, Failing, Winning, Publishing
    <2>3. QED
      BY <1>4, <2>1, <2>2 DEF Load
  <1>5. CASE Decide(r)
    <2>1. CASE \E what : Answer(r, what) /\ UNCHANGED copy
      BY <1>2, <2>1
    <2>2. CASE /\ Continue(r, "judge") /\ UNCHANGED copy
               /\ copy[r].owner = Subject(r) /\ copy[r].status # "absent"
      BY <1>3, <1>5, <2>2 DEF Decide, store, Steps, Failing, Winning, Publishing
    <2>3. CASE /\ Continue(r, "saveChallenge") /\ copy[r].owner = Subject(r)
               /\ copy[r].status = "pending"
               /\ copy' = [copy EXCEPT ![r].status = "expired"]
      <3>1. copy[r] \in VerificationChallengeRecord /\ UNCHANGED challenge
        BY <1>5 DEF Decide, store
      <3>2. /\ copy'[r].status = "expired" /\ copy'[r].owner = copy[r].owner
            /\ copy'[r].kind = copy[r].kind
        BY <2>3, <3>1 DEF VerificationChallengeRecord
      <3>3. QED
        BY <1>1, <2>3, <3>1, <3>2 DEF Continue, Known, Failing, Winning, Publishing
    <2>4. QED
      BY <1>5, <2>1, <2>2, <2>3 DEF Decide
  <1>6. CASE Judge(r)
    <2>1. CASE \E what : Answer(r, what) /\ UNCHANGED copy
      BY <1>2, <2>1
    <2>2. copy[r].status # "absent" /\ copy[r].owner = Subject(r) /\ UNCHANGED challenge
      BY <1>1, <1>6 DEF Judge, Known, store
    <2>3. CASE /\ Continue(r, "preflight") /\ UNCHANGED copy
               /\ copy[r].status = "pending" /\ req[r].right
      BY <1>3, <2>2, <2>3 DEF Steps, WriteSteps, Failing
    <2>4. CASE /\ Continue(r, "saveChallenge") /\ copy[r].status = "pending" /\ ~req[r].right
               /\ copy' = [copy EXCEPT ![r] = RecordFailedAttempt(copy[r])]
      <3>1. copy[r] \in VerificationChallengeRecord
        OBVIOUS
      <3>2. /\ copy'[r].status \in {"pending", "failed"} /\ copy'[r].owner = copy[r].owner
            /\ copy'[r].kind = copy[r].kind
        BY <2>4, <3>1 DEF VerificationChallengeRecord, RecordFailedAttempt
      <3>3. QED
        BY <1>1, <2>2, <2>4, <3>2 DEF Continue, Known, Failing, Winning, Publishing
    <2>5. QED
      BY <1>6, <2>1, <2>3, <2>4 DEF Judge
  <1>7. CASE SaveChallenge(r) \/ LoadStreak(r) \/ SaveStreak(r) \/ SaveBan(r)
    <2>1. /\ copy[r].status # "absent" /\ copy[r].owner = Subject(r)
          /\ ~req[r].right \/ copy[r].status = "expired"
      BY <1>1, <1>7 DEF SaveChallenge, LoadStreak, SaveStreak, SaveBan, Known, Failing
    <2>2. /\ UNCHANGED copy
          /\ \/ \E what : Answer(r, what)
             \/ \E step \in {"loadStreak", "saveStreak", "saveBan"} : Continue(r, step)
      BY <1>7 DEF SaveChallenge, LoadStreak, SaveStreak, SaveBan, ReadFails, local
    <2>3. CASE \E what : Answer(r, what)
      BY <1>2, <2>2, <2>3
    <2>4. ASSUME NEW step \in {"loadStreak", "saveStreak", "saveBan"}, Continue(r, step)
          PROVE  Known(r)'
      <3>1. challenge'[Code(r)].status # "absent" /\ challenge'[Code(r)].owner = copy[r].owner
            /\ challenge'[Code(r)].kind = copy[r].kind
        BY <1>1, <2>1, OwnersStay DEF Known
      <3>2. QED
        BY <1>1, <2>1, <2>2, <2>4, <3>1 DEF Continue, Known, Failing, Winning, Publishing
    <2>5. QED
      BY <2>2, <2>3, <2>4
  <1>8. CASE Preflight(r)
    <2>1. CASE Answer(r, "refused") /\ UNCHANGED copy
      BY <1>2, <2>1
    <2>2. CASE Continue(r, "consume") /\ UNCHANGED copy
      BY <1>1, <1>3, <1>8, <2>2
      DEF Preflight, Known, store, Steps, WriteSteps, Winning, Failing
    <2>3. QED
      BY <1>8, <2>1, <2>2 DEF Preflight, local
  <1>9. CASE Consume(r)
    <2>1. CASE \E what : Answer(r, what) /\ UNCHANGED copy
      BY <1>2, <2>1
    <2>2. CASE /\ Continue(r, "drop") /\ copy' = [copy EXCEPT ![r] = ConsumedRow(r)]
      <3>1. /\ copy[r].status # "absent" /\ copy[r].owner = Subject(r) /\ req[r].right
        BY <1>1, <1>9 DEF Consume, Known, Winning
      <3>2. challenge[Code(r)] \in VerificationChallengeRecord
        BY <1>1
      <3>3. /\ ConsumedRow(r).owner = challenge[Code(r)].owner
            /\ ConsumedRow(r).kind = challenge[Code(r)].kind
            /\ ConsumedRow(r).status # "absent"
        BY <1>1, <3>1, <3>2 DEF ConsumedRow, VerificationChallengeRecord, Known
      <3>4. /\ challenge'[Code(r)].status # "absent"
            /\ challenge'[Code(r)].owner = challenge[Code(r)].owner
            /\ challenge'[Code(r)].kind = challenge[Code(r)].kind
        BY <1>1, <3>1, OwnersStay DEF Known
      <3>5. QED
        BY <1>1, <2>2, <3>1, <3>3, <3>4 DEF Continue, Known, Failing, Winning, Publishing
    <2>3. QED
      BY <1>9, <2>1, <2>2 DEF Consume
  <1>10. CASE DropLock(r)
    BY <1>1, <1>10 DEF DropLock, Known, store, local, Failing, Winning, Publishing
  <1>11. CASE \/ CreateTopic(r) \/ LookupTopic(r) \/ CreatePost(r) \/ LoadClear(r)
              \/ SaveClear(r)
    <2>1. /\ copy[r].status # "absent" /\ copy[r].owner = Subject(r) /\ req[r].right
      BY <1>1, <1>11 DEF CreateTopic, LookupTopic, CreatePost, LoadClear, SaveClear, Known,
        Winning, Publishing
    <2>2. /\ UNCHANGED <<copy, challenge>>
          /\ \/ \E what : Answer(r, what)
             \/ \E step \in {"createPost", "loadClear", "saveClear"} : Continue(r, step)
      BY <1>11 DEF CreateTopic, LookupTopic, CreatePost, LoadClear, SaveClear, ReadFails,
        local, store
    <2>3. QED
      BY <1>2, <1>3, <2>1, <2>2 DEF Steps, WriteSteps, Failing
  <1>12. QED
    BY <1>4, <1>5, <1>6, <1>7, <1>8, <1>9, <1>10, <1>11 DEF ServerStep

LEMMA KnownStep ==
  ASSUME TypeOK, ArgsInv, KnownInv, [Next]_vars
  PROVE  KnownInv'
  <1> USE DEF local
  <1>1. ASSUME NEW r \in Requests, ServerStep(r)
        PROVE  KnownInv'
    BY <1>1, ServerStepAlone, KnownGrows, KnownStays DEF KnownInv, Alone
  <1>2. ASSUME NEW r \in Requests, NEW c \in Codes, NEW s \in Subjects, NEW right \in BOOLEAN,
               Submit(r, c, s, right)
        PROVE  KnownInv'
    <2>1. \A q \in Requests \ {r} : Known(q)'
      BY <1>2, KnownStays DEF Submit, TypeOK
    <2>2. Known(r)'
      BY <1>2 DEF Submit, TypeOK, KnownInv, Known, Failing, Winning, Publishing
    <2>3. QED
      BY <2>1, <2>2 DEF KnownInv
  <1>3. CASE \/ \E c \in Codes, s \in Subjects, k \in Kinds : IssueChallenge(c, s, k)
             \/ \E c \in Codes : TimePasses(c)
             \/ UNCHANGED vars
    <2>1. UNCHANGED <<copy, req, pc, reply>>
      BY <1>3 DEF IssueChallenge, TimePasses, vars
    <2>2. QED
      BY <2>1, KnownStays DEF KnownInv
  <1>4. ASSUME NEW r \in Requests, Acquire(r)
        PROVE  KnownInv'
    BY <1>4, KnownStays DEF Acquire, KnownInv, TypeOK
  <1>5. ASSUME NEW r \in Requests, Disconnect(r)
        PROVE  KnownInv'
    BY <1>5, KnownStays DEF Disconnect, KnownInv, TypeOK
  <1>6. CASE Crash
    BY <1>6, KnownStays DEF Crash, KnownInv
  <1>7. QED
    BY <1>1, <1>2, <1>3, <1>4, <1>5, <1>6 DEF Next

\* What the requests know of their challenges, whatever faults occur.
THEOREM KnownInvariant == Spec => []KnownInv
  <1>1. Init => KnownInv
    BY DEF Init, KnownInv, Known, Absent, Failing, Winning, Publishing
  <1>2. QED
    BY <1>1, KnownStep, TypesHold, PTL DEF Spec

\* A challenge becomes verified only by a submission of its owner that carried
\* the right answer in time, even while clients disconnect and stale rows are
\* written back.
THEOREM OnlyOwnerVerifiesHolds == Spec => OnlyOwnerVerifies
  <1>1. ASSUME TypeOK, ArgsInv, KnownInv, [Next]_vars, NEW c \in Codes,
               challenge[c].status # "verified", challenge'[c].status = "verified"
        PROVE  /\ challenge[c].status = "pending"
               /\ \E r \in Requests :
                    /\ pc[r] = "consume" /\ Code(r) = c /\ ~late[r]
                    /\ req[r].right /\ Subject(r) = challenge[c].owner
    <2>1. ASSUME NEW r \in Requests, SaveChallenge(r)
          PROVE  copy[r].status # "verified"
      BY <1>1, <2>1 DEF SaveChallenge, KnownInv, Known
    <2>2. PICK r \in Requests : Code(r) = c /\ Consume(r) /\ challenge'[c] = ConsumedRow(r)
      BY <1>1, <2>1, RowWrites
    <2>3. challenge[c] \in VerificationChallengeRecord
      BY <1>1 DEF TypeOK
    <2>4. challenge[c].status = "pending" /\ ~late[r]
      BY <1>1, <2>2, <2>3 DEF ConsumedRow, Consumable, VerificationChallengeRecord
    <2>5. pc[r] = "consume" /\ req[r].right /\ Subject(r) = challenge[c].owner
      BY <1>1, <2>2 DEF Consume, KnownInv, Known, Winning
    <2>6. QED
      BY <2>2, <2>4, <2>5
  <1>2. TypeOK /\ ArgsInv /\ KnownInv /\ [Next]_vars =>
          [\A c \in Codes :
             challenge[c].status # "verified" /\ challenge'[c].status = "verified" =>
               /\ challenge[c].status = "pending"
               /\ \E r \in Requests :
                    /\ pc[r] = "consume" /\ Code(r) = c /\ ~late[r]
                    /\ req[r].right /\ Subject(r) = challenge[c].owner
          ]_challenge
    BY <1>1
  <1>3. QED
    BY <1>2, TypesHold, KnownInvariant, PTL DEF Spec, OnlyOwnerVerifies

-----------------------------------------------------------------------------
(* The streak.  A submission that is to blame stays to blame, and is counted *)
(* in the streak once it has been to saveStreak.                             *)

Unjudged == {"idle", "lock", "load", "decide", "judge"}
Uncounted == {"saveChallenge", "loadStreak", "saveStreak"}

Counted(s) == {r \in Blamed(s) : pc[r] \notin Uncounted}

BlameInv ==
  /\ IsFiniteSet({r \in Requests : pc[r] # "idle"})
  /\ \A s \in Subjects : streak[s] <= Cardinality(Counted(s))
  /\ \A r \in Requests :
       /\ pc[r] = "saveStreak" => seen[r] <= Cardinality(Counted(Subject(r)))
       /\ pc[r] = "saveBan" => Cardinality(Blamed(Subject(r))) >= BanThreshold
  /\ \A s \in banned : Cardinality(Blamed(s)) >= BanThreshold

\* Once judged, a request goes on, and its copy changes in consume alone.
LEMMA JudgedStays ==
  ASSUME TypeOK, ArgsInv, KnownInv, [Next]_vars, NEW r \in Requests, pc[r] \notin Unjudged
  PROVE  /\ pc'[r] \notin Unjudged /\ req'[r] = req[r]
         /\ pc[r] \notin Uncounted => pc'[r] \notin Uncounted
         /\ copy'[r] = copy[r] \/ pc[r] = "consume"
  <1> USE DEF TypeOK, Unjudged, Uncounted, local
  <1>1. ASSUME NEW q \in Requests, q # r, ServerStep(q)
        PROVE  UNCHANGED <<pc[r], req[r], copy[r]>>
    BY <1>1, ServerStepAlone DEF Alone
  <1>2. CASE SaveChallenge(r) \/ LoadStreak(r) \/ SaveStreak(r) \/ SaveBan(r)
    <2>1. /\ UNCHANGED <<req, copy>>
          /\ \/ \E what : Answer(r, what)
             \/ \E step \in {"loadStreak", "saveStreak", "saveBan"} :
                  Continue(r, step) /\ (step # "saveBan" => pc[r] \in Uncounted)
      BY <1>2 DEF SaveChallenge, LoadStreak, SaveStreak, SaveBan, ReadFails
    <2>2. QED
      BY <2>1 DEF Answer, Continue
  <1>3. CASE Preflight(r) \/ Consume(r) \/ DropLock(r)
    <2>1. /\ req' = req /\ (copy' = copy \/ pc[r] = "consume")
          /\ \/ \E what : Answer(r, what)
             \/ \E step \in {"consume", "drop"} : Continue(r, step)
             \/ DropLock(r)
      BY <1>3 DEF Preflight, Consume, DropLock
    <2>2. QED
      BY <2>1 DEF Answer, Continue, DropLock
  <1>4. CASE CreateTopic(r) \/ LookupTopic(r) \/ CreatePost(r) \/ LoadClear(r) \/ SaveClear(r)
    <2>1. /\ UNCHANGED <<req, copy>>
          /\ \/ \E what : Answer(r, what)
             \/ \E step \in {"createPost", "loadClear", "saveClear"} : Continue(r, step)
      BY <1>4 DEF CreateTopic, LookupTopic, CreatePost, LoadClear, SaveClear, ReadFails
    <2>2. QED
      BY <2>1 DEF Answer, Continue
  <1>5. ~Load(r) /\ ~Decide(r) /\ ~Judge(r)
    BY DEF Load, Decide, Judge
  <1>6. ASSUME NEW q \in Requests, NEW c \in Codes, NEW s \in Subjects,
               NEW right \in BOOLEAN, Submit(q, c, s, right)
        PROVE  UNCHANGED <<pc[r], req[r], copy[r]>>
    BY <1>6 DEF Submit
  <1>7. ASSUME NEW q \in Requests, Acquire(q)
        PROVE  UNCHANGED <<pc[r], req[r], copy[r]>>
    BY <1>7 DEF Acquire
  <1>8. ASSUME (\E q \in Requests : Disconnect(q)) \/ Crash
        PROVE  pc'[r] \in {pc[r], "done"} /\ UNCHANGED <<req[r], copy[r]>>
    BY <1>8 DEF Disconnect, Crash
  <1>9. CASE \/ \E c \in Codes, s \in Subjects, k \in Kinds : IssueChallenge(c, s, k)
             \/ \E c \in Codes : TimePasses(c)
             \/ UNCHANGED vars
    BY <1>9 DEF IssueChallenge, TimePasses, vars
  <1>10. ASSUME pc'[r] \in {pc[r], "done"}, UNCHANGED <<req[r], copy[r]>>
         PROVE  /\ pc'[r] \notin Unjudged /\ req'[r] = req[r]
                /\ pc[r] \notin Uncounted => pc'[r] \notin Uncounted
                /\ copy'[r] = copy[r] \/ pc[r] = "consume"
    BY <1>10
  <1>11. CASE ServerStep(r)
    BY <1>2, <1>3, <1>4, <1>5, <1>11 DEF ServerStep
  <1>12. QED
    BY <1>1, <1>6, <1>7, <1>8, <1>9, <1>10, <1>11 DEF Next

\* The requests that have begun remain finitely many.
LEMMA BegunIsFinite ==
  ASSUME TypeOK, [Next]_vars, IsFiniteSet({r \in Requests : pc[r] # "idle"})
  PROVE  IsFiniteSet({r \in Requests : pc'[r] # "idle"})
  <1> DEFINE Begun == {r \in Requests : pc[r] # "idle"}
  <1>1. \E r : {q \in Requests : pc'[q] # "idle"} \subseteq Begun \cup {r}
    <2>1. ASSUME NEW r \in Requests, ServerStep(r)
          PROVE  {q \in Requests : pc'[q] # "idle"} \subseteq Begun \cup {r}
      BY <2>1, ServerStepAlone DEF Alone
    <2>2. ASSUME NEW r \in Requests, Acquire(r) \/ Disconnect(r)
          PROVE  {q \in Requests : pc'[q] # "idle"} \subseteq Begun \cup {r}
      BY <2>2 DEF Acquire, Disconnect, TypeOK
    <2>3. ASSUME NEW r \in Requests, NEW c \in Codes, NEW s \in Subjects, NEW right \in BOOLEAN,
                 Submit(r, c, s, right)
          PROVE  {q \in Requests : pc'[q] # "idle"} \subseteq Begun \cup {r}
      BY <2>3 DEF Submit, TypeOK
    <2>4. CASE \/ \E c \in Codes, s \in Subjects, k \in Kinds : IssueChallenge(c, s, k)
               \/ \E c \in Codes : TimePasses(c)
               \/ Crash
               \/ UNCHANGED vars
      <3>1. {q \in Requests : pc'[q] # "idle"} \subseteq Begun
        BY <2>4 DEF IssueChallenge, TimePasses, Crash, vars
      <3>2. QED
        BY <3>1
    <2>5. QED
      BY <2>1, <2>2, <2>3, <2>4 DEF Next
  <1>2. QED
    BY <1>1, FS_AddElement, FS_Subset

\* Who is to blame stays so, and so does who has been counted.
LEMMA BlameGrows ==
  ASSUME TypeOK, ArgsInv, KnownInv, [Next]_vars, BlameInv, NEW s \in Subjects
  PROVE  /\ Counted(s) \subseteq Counted(s)' /\ IsFiniteSet(Counted(s)')
         /\ Cardinality(Counted(s)) \in Nat /\ Cardinality(Counted(s)') \in Nat
         /\ Cardinality(Blamed(s)) \in Nat /\ Cardinality(Blamed(s)') \in Nat
         /\ Cardinality(Counted(s)) <= Cardinality(Counted(s)')
         /\ Cardinality(Blamed(s)) <= Cardinality(Blamed(s)')
         /\ Cardinality(Counted(s)') <= Cardinality(Blamed(s)')
  <1>1. ASSUME NEW r \in Blamed(s)
        PROVE  r \in Blamed(s)' /\ (r \in Counted(s) => r \in Counted(s)')
    <2>1. /\ r \in Requests /\ Subject(r) = s /\ pc[r] \notin Unjudged
          /\ copy[r].owner = s /\ (~req[r].right \/ copy[r].status = "expired")
      BY <1>1 DEF Blamed, Unjudged
    <2>2. pc[r] # "consume"
      BY <2>1 DEF KnownInv, Known, Winning
    <2>3. /\ pc'[r] \notin Unjudged /\ req'[r] = req[r] /\ copy'[r] = copy[r]
          /\ pc[r] \notin Uncounted => pc'[r] \notin Uncounted
      BY <2>1, <2>2, JudgedStays
    <2>4. QED
      BY <2>1, <2>3 DEF Blamed, Counted, Subject, Unjudged
  <1>2. /\ Counted(s) \subseteq Counted(s)' /\ Blamed(s) \subseteq Blamed(s)'
        /\ Counted(s)' \subseteq Blamed(s)'
    BY <1>1 DEF Counted
  <1>3. IsFiniteSet(Blamed(s)')
    <2>1. Blamed(s)' \subseteq {r \in Requests : pc'[r] # "idle"}
      BY DEF Blamed
    <2>2. QED
      BY <2>1, BegunIsFinite, FS_Subset DEF BlameInv
  <1>4. IsFiniteSet(Blamed(s)) /\ IsFiniteSet(Counted(s)')
    BY <1>2, <1>3, FS_Subset
  <1>5. IsFiniteSet(Counted(s))
    BY <1>2, <1>4, FS_Subset
  <1>6. /\ Cardinality(Counted(s)) <= Cardinality(Counted(s)')
        /\ Cardinality(Blamed(s)) <= Cardinality(Blamed(s)')
        /\ Cardinality(Counted(s)') <= Cardinality(Blamed(s)')
    BY <1>2, <1>3, <1>4, FS_Subset
  <1>7. QED
    BY <1>2, <1>3, <1>4, <1>5, <1>6, FS_CardinalityType

\* Who writes the streak is counted from then on.
LEMMA WriterIsCounted ==
  ASSUME TypeOK, ArgsInv, KnownInv, BlameInv, NEW r \in Requests, SaveStreak(r),
         NEW s \in Subjects, Subject(r) = s
  PROVE  seen[r] + 1 <= Cardinality(Counted(s)')
  <1>1. pc[r] = "saveStreak" /\ seen[r] \in Nat
    BY DEF SaveStreak, TypeOK
  <1>2. [Next]_vars
    BY DEF Next, ServerStep
  <1>3. r \in Blamed(s) /\ r \notin Counted(s)
    BY <1>1 DEF KnownInv, Known, Failing, Blamed, Counted, Uncounted
  <1>4. r \in Counted(s)'
    <2>1. r \in Blamed(s)'
      <3>1. /\ pc'[r] \notin Unjudged /\ req'[r] = req[r] /\ copy'[r] = copy[r]
        BY <1>1, <1>2, JudgedStays DEF Unjudged
      <3>2. QED
        BY <1>3, <3>1 DEF Blamed, Subject, Unjudged
    <2>2. pc'[r] \in {"saveBan", "done"}
      BY DEF SaveStreak, Answer, Continue, TypeOK
    <2>3. QED
      BY <2>1, <2>2 DEF Counted, Uncounted
  <1>5. Counted(s) \cup {r} \subseteq Counted(s)' /\ IsFiniteSet(Counted(s)')
        /\ Cardinality(Counted(s)) \in Nat /\ Cardinality(Counted(s)') \in Nat
    BY <1>1, <1>2, <1>4, BlameGrows
  <1>6. IsFiniteSet(Counted(s))
    BY <1>5, FS_Subset
  <1>7. Cardinality(Counted(s) \cup {r}) = Cardinality(Counted(s)) + 1
    BY <1>3, <1>6, FS_AddElement
  <1>8. Cardinality(Counted(s)) + 1 <= Cardinality(Counted(s)')
    BY <1>5, <1>7, FS_Subset
  <1>9. seen[r] <= Cardinality(Counted(s))
    BY <1>1 DEF BlameInv
  <1>10. QED
    BY <1>1, <1>5, <1>8, <1>9

\* The streak of a subject is written in two places.
LEMMA StreakWrites ==
  ASSUME TypeOK, [Next]_vars, NEW s \in Subjects
  PROVE  \/ streak'[s] = streak[s]
         \/ \E r \in Requests : SaveStreak(r) /\ Subject(r) = s /\ streak'[s] = seen[r] + 1
         \/ \E r \in Requests : SaveClear(r) /\ Subject(r) = s /\ streak'[s] = 0
  <1> USE DEF TypeOK
  <1>1. ASSUME NEW r \in Requests, ServerStep(r), ~SaveStreak(r), ~SaveClear(r)
        PROVE  UNCHANGED streak
    BY <1>1 DEF ServerStep, Load, Decide, Judge, SaveChallenge, LoadStreak, SaveBan, Preflight,
      Consume, DropLock, CreateTopic, LookupTopic, CreatePost, LoadClear, ReadFails, store
  <1>2. ASSUME NEW r \in Requests, SaveClear(r)
        PROVE  streak'[s] = streak[s] \/ (Subject(r) = s /\ streak'[s] = 0)
    BY <1>2 DEF SaveClear
  <1>3. ASSUME NEW r \in Requests, SaveStreak(r)
        PROVE  streak'[s] = streak[s] \/ (Subject(r) = s /\ streak'[s] = seen[r] + 1)
    BY <1>3 DEF SaveStreak
  <1>4. CASE ~\E r \in Requests : ServerStep(r)
    BY <1>4 DEF Next, IssueChallenge, TimePasses, Submit, Acquire, Disconnect, Crash, vars, store
  <1>5. QED
    BY <1>1, <1>2, <1>3, <1>4

\* A request comes to saveStreak with the count it has just read.
LEMMA SeenStep ==
  ASSUME TypeOK, [Next]_vars, NEW r \in Requests, pc'[r] = "saveStreak"
  PROVE  \/ pc[r] = "saveStreak" /\ seen'[r] = seen[r]
         \/ pc[r] = "loadStreak" /\ seen'[r] = streak[Subject(r)]
  <1> USE DEF TypeOK
  <1>1. CASE ServerStep(r)
    BY <1>1 DEF ServerStep, Load, Decide, Judge, SaveChallenge, LoadStreak,
      SaveStreak, SaveBan, Preflight, Consume, DropLock, CreateTopic, LookupTopic,
      CreatePost, LoadClear, SaveClear, ReadFails, Answer, Continue
  <1>2. ASSUME NEW q \in Requests, q # r, ServerStep(q)
        PROVE  pc'[r] = pc[r] /\ seen'[r] = seen[r]
    BY <1>2, ServerStepAlone DEF Alone
  <1>3. CASE ~\E q \in Requests : ServerStep(q)
    BY <1>3 DEF Next, IssueChallenge, TimePasses, Submit, Acquire, Disconnect, Crash, vars, local
  <1>4. QED
    BY <1>1, <1>2, <1>3

LEMMA BlameStep ==
  ASSUME TypeOK, ArgsInv, KnownInv, BlameInv, [Next]_vars
  PROVE  BlameInv'
  <1> USE DEF TypeOK
  <1>1. IsFiniteSet({r \in Requests : pc[r] # "idle"})'
    BY BegunIsFinite DEF BlameInv
  <1>g. \A s \in Subjects :
          /\ Cardinality(Counted(s)) \in Nat /\ Cardinality(Counted(s)') \in Nat
          /\ Cardinality(Blamed(s)) \in Nat /\ Cardinality(Blamed(s)') \in Nat
          /\ Cardinality(Counted(s)) <= Cardinality(Counted(s)')
          /\ Cardinality(Blamed(s)) <= Cardinality(Blamed(s)')
          /\ Cardinality(Counted(s)') <= Cardinality(Blamed(s)')
    BY BlameGrows
  <1>w. \A r \in Requests, s \in Subjects : SaveStreak(r) /\ Subject(r) = s =>
          seen[r] + 1 <= Cardinality(Counted(s)')
    BY WriterIsCounted
  <1>u. \A r \in Requests : pc[r] # "idle" => Subject(r) \in Subjects
    BY DEF ArgsInv, VerifyRequest, Subject
  <1>2. ASSUME NEW s \in Subjects
        PROVE  streak'[s] <= Cardinality(Counted(s)')
    <2>1. \/ streak'[s] = streak[s] \/ streak'[s] = 0
          \/ \E r \in Requests : SaveStreak(r) /\ Subject(r) = s /\ streak'[s] = seen[r] + 1
      BY StreakWrites
    <2>2. streak[s] <= Cardinality(Counted(s)) /\ streak[s] \in Nat
      BY DEF BlameInv
    <2>3. CASE streak'[s] = streak[s] \/ streak'[s] = 0
      BY <2>2, <2>3, <1>g
    <2>4. QED
      BY <2>1, <2>3, <1>w
  <1>3. ASSUME NEW r \in Requests, pc'[r] = "saveStreak"
        PROVE  seen'[r] <= Cardinality(Counted(Subject(r))')
    <2>1. \/ pc[r] = "saveStreak" /\ seen'[r] = seen[r]
          \/ pc[r] = "loadStreak" /\ seen'[r] = streak[Subject(r)]
      BY <1>3, SeenStep
    <2>2. Subject(r)' = Subject(r) /\ Subject(r) \in Subjects
      BY <2>1, <1>u, JudgedStays DEF Subject, Unjudged
    <2>3. PICK s \in Subjects : Subject(r) = s
      BY <2>2
    <2>4. seen'[r] <= Cardinality(Counted(s)) /\ seen'[r] \in Nat
      BY <2>1, <2>3 DEF BlameInv
    <2>5. seen'[r] <= Cardinality(Counted(s)')
      BY <2>4, <1>g
    <2>6. QED
      BY <2>2, <2>3, <2>5
  <1>4. ASSUME NEW r \in Requests, pc'[r] = "saveBan"
        PROVE  Cardinality(Blamed(Subject(r))') >= BanThreshold
    <2>1. \/ pc[r] = "saveBan"
          \/ SaveStreak(r) /\ seen[r] + 1 >= BanThreshold
      <3>1. CASE ServerStep(r)
        BY <1>4, <3>1 DEF ServerStep, Load, Decide, Judge, SaveChallenge, LoadStreak,
          SaveStreak, SaveBan, Preflight, Consume, DropLock, CreateTopic, LookupTopic,
          CreatePost, LoadClear, SaveClear, ReadFails, Answer, Continue
      <3>2. ASSUME NEW q \in Requests, q # r, ServerStep(q)
            PROVE  pc'[r] = pc[r]
        BY <3>2, ServerStepAlone DEF Alone
      <3>3. CASE ~\E q \in Requests : ServerStep(q)
        BY <1>4, <3>3 DEF Next, IssueChallenge, TimePasses, Submit, Acquire, Disconnect,
          Crash, vars, local
      <3>4. QED
        BY <1>4, <3>1, <3>2, <3>3
    <2>2. pc[r] \in {"saveBan", "saveStreak"}
      BY <2>1 DEF SaveStreak
    <2>3. Subject(r)' = Subject(r) /\ Subject(r) \in Subjects
      BY <2>2, <1>u, JudgedStays DEF Subject, Unjudged
    <2>4. PICK s \in Subjects : Subject(r) = s
      BY <2>3
    <2>5. Cardinality(Blamed(s)') >= BanThreshold
      <3>1. CASE pc[r] = "saveBan"
        BY <2>4, <3>1, <1>g, VerificationAssumption DEF BlameInv
      <3>2. CASE SaveStreak(r) /\ seen[r] + 1 >= BanThreshold
        <4>1. seen[r] + 1 <= Cardinality(Counted(s)') /\ seen[r] \in Nat
          BY <2>4, <3>2, <1>w
        <4>2. QED
          BY <3>2, <4>1, <1>g, VerificationAssumption
      <3>3. QED
        BY <2>1, <3>1, <3>2
    <2>6. QED
      BY <2>3, <2>4, <2>5
  <1>5. ASSUME NEW s \in banned'
        PROVE  Cardinality(Blamed(s)') >= BanThreshold
    <2>1. \/ s \in banned
          \/ \E r \in Requests : pc[r] = "saveBan" /\ Subject(r) = s
      <3>1. ASSUME NEW r \in Requests, ServerStep(r), ~SaveBan(r)
            PROVE  UNCHANGED banned
        BY <3>1 DEF ServerStep, Load, Decide, Judge, SaveChallenge, LoadStreak, SaveStreak,
          Preflight, Consume, DropLock, CreateTopic, LookupTopic, CreatePost, LoadClear,
          SaveClear, ReadFails, store
      <3>2. CASE ~\E r \in Requests : ServerStep(r)
        BY <1>5, <3>2 DEF Next, IssueChallenge, TimePasses, Submit, Acquire, Disconnect,
          Crash, vars, store
      <3>3. QED
        BY <1>5, <3>1, <3>2 DEF SaveBan
    <2>2. s \in Subjects /\ Cardinality(Blamed(s)) >= BanThreshold
      BY <2>1, <1>u DEF BlameInv
    <2>3. QED
      BY <2>2, <1>g, VerificationAssumption
  <1>6. QED
    BY <1>1, <1>2, <1>3, <1>4, <1>5 DEF BlameInv

\* Nobody is banned, and nobody's streak grows, by more than his own failures,
\* whatever races and faults occur.
THEOREM BanEarnedHolds == Spec => []BanEarned
  <1>1. Init => BlameInv
    <2> SUFFICES ASSUME Init PROVE BlameInv
      OBVIOUS
    <2>1. {r \in Requests : pc[r] # "idle"} = {}
      BY DEF Init
    <2>2. \A s : Counted(s) = {}
      BY DEF Init, Counted, Blamed
    <2>3. QED
      BY <2>1, <2>2, FS_EmptySet DEF Init, BlameInv
  <1>2. TypeOK /\ BlameInv => BanEarned
    <2> SUFFICES ASSUME TypeOK, BlameInv, NEW s \in Subjects
                 PROVE  streak[s] <= Cardinality(Blamed(s))
      BY DEF BanEarned, BlameInv
    <2>1. /\ Counted(s) \subseteq Blamed(s)
          /\ Blamed(s) \subseteq {r \in Requests : pc[r] # "idle"}
      BY DEF Counted, Blamed
    <2>2. IsFiniteSet(Blamed(s))
      BY <2>1, FS_Subset DEF BlameInv
    <2>3. /\ IsFiniteSet(Counted(s)) /\ Cardinality(Counted(s)) <= Cardinality(Blamed(s))
      BY <2>1, <2>2, FS_Subset
    <2>4. Cardinality(Counted(s)) \in Nat /\ Cardinality(Blamed(s)) \in Nat
      BY <2>2, <2>3, FS_CardinalityType
    <2>5. QED
      BY <2>3, <2>4 DEF BlameInv, TypeOK
  <1>3. TypeOK /\ ArgsInv /\ KnownInv /\ BlameInv /\ [Next]_vars => BlameInv'
    BY BlameStep
  <1>4. QED
    BY <1>1, <1>2, <1>3, TypesHold, KnownInvariant, PTL DEF Spec

-----------------------------------------------------------------------------
(* What a 200 and a 400 are worth while jobs are awaited.                    *)

\* The content of the challenge is complete, and the client has been or will be
\* told so.
Rewarded(r) == pc[r] \in {"loadClear", "saveClear"} \/ reply[r] = "ok"

PathInv == \A r \in Requests : LET c == Code(r) IN
  /\ pc[r] = "createTopic" => challenge[c].kind = "topic"
  /\ pc[r] = "lookupTopic" => challenge[c].kind # "topic"
  /\ pc[r] = "createPost" /\ challenge[c].kind = "topic" => topics[c] = 1

\* Nobody else publishes or is rewarded for the same code.
Complete(r) == LET c == Code(r) IN
  /\ challenge[c].status = "verified"
  /\ posts[c] = 1 /\ (challenge[c].kind = "topic" => topics[c] = 1)
  /\ challenge[c].owner = Subject(r) /\ req[r].right
  /\ \A q \in Requests \ {r} : Rewarded(q) \/ pc[q] \in Publishing => Code(q) # c

RewardInv == \A r \in Requests : Rewarded(r) => Complete(r)

\* A verified row is not touched again, and content is created by a publisher.
LEMMA ContentStays ==
  ASSUME ChallengeInv, [Next]_vars, NEW c \in Codes,
         challenge[c].status = "verified"
  PROVE  /\ challenge'[c] = challenge[c]
         /\ (\A q \in Requests : CreateTopic(q) \/ CreatePost(q) => Code(q) # c) =>
              topics'[c] = topics[c] /\ posts'[c] = posts[c]
  <1> USE DEF store
  <1>1. challenge'[c] = challenge[c]
    <2>1. CASE UNCHANGED challenge
      BY <2>1
    <2>2. CASE \E d \in Codes : \E row \in VerificationChallengeRecord : Writes(d, row)
      BY <2>2 DEF Writes, ChallengeInv, TypeOK
    <2>3. QED
      BY <2>1, <2>2, RowStep
  <1>2. ASSUME \A q \in Requests : CreateTopic(q) \/ CreatePost(q) => Code(q) # c
        PROVE  topics'[c] = topics[c] /\ posts'[c] = posts[c]
    <2>1. ASSUME NEW r \in Requests, CreateTopic(r) \/ CreatePost(r)
          PROVE  topics'[c] = topics[c] /\ posts'[c] = posts[c]
      BY <1>2, <2>1 DEF CreateTopic, CreatePost, Publishing, ChallengeInv, TypeOK
    <2>2. ASSUME NEW r \in Requests, ServerStep(r), ~CreateTopic(r), ~CreatePost(r)
          PROVE  UNCHANGED <<topics, posts>>
      BY <2>2 DEF ServerStep, Load, Decide, Judge, SaveChallenge, LoadStreak, SaveStreak,
        SaveBan, Preflight, Consume, DropLock, LookupTopic, LoadClear, SaveClear, ReadFails
    <2>3. CASE ~\E r \in Requests : ServerStep(r)
      BY <2>3 DEF Next, IssueChallenge, TimePasses, Submit, Acquire, Disconnect, Crash, vars
    <2>4. QED
      BY <2>1, <2>2, <2>3
  <1>3. QED
    BY <1>1, <1>2

\* Where publishers and rewarded requests come from.
LEMMA PublisherStep ==
  ASSUME ChallengeInv, KnownInv, [Next]_vars, NEW r \in Requests
  PROVE  /\ pc'[r] \in Publishing => pc[r] \in Publishing \/ Consume(r)
         /\ Rewarded(r)' => Rewarded(r) \/ CreatePost(r)
         /\ pc'[r] \in Publishing \/ Rewarded(r)' =>
              /\ pc[r] # "idle" /\ req'[r] = req[r]
              /\ Consume(r) \/ copy'[r] = copy[r]
  <1> USE DEF ChallengeInv, TypeOK, Publishing, Rewarded, local
  <1>1. ASSUME NEW q \in Requests, q # r, ServerStep(q)
        PROVE  /\ UNCHANGED <<pc[r], reply[r], req, copy[r]>>
    BY <1>1, ServerStepAlone DEF Alone
  <1>i. pc[r] = "idle" => reply[r] # "ok"
    BY DEF KnownInv, Known
  <1>2. CASE \/ Load(r) \/ Decide(r) \/ Judge(r) \/ SaveChallenge(r) \/ LoadStreak(r)
             \/ SaveStreak(r) \/ SaveBan(r) \/ Preflight(r)
    <2>1. \/ \E what \in Replies \ {"ok"} : Answer(r, what)
          \/ \E step \in {"decide", "judge", "saveChallenge", "loadStreak", "saveStreak",
                          "saveBan", "preflight", "consume"} : Continue(r, step)
      <3>1. CASE Load(r) \/ Decide(r) \/ Judge(r)
        BY <3>1 DEF Load, Decide, Judge, ReadFails, Replies
      <3>2. CASE SaveChallenge(r) \/ LoadStreak(r) \/ SaveStreak(r) \/ SaveBan(r) \/ Preflight(r)
        BY <3>2 DEF SaveChallenge, LoadStreak, SaveStreak, SaveBan, FailureReply, Preflight,
          ReadFails, Replies
      <3>3. QED
        BY <1>2, <3>1, <3>2
    <2>2. reply[r] # "ok"
      BY <1>2 DEF KnownInv, Known, Load, Decide, Judge, SaveChallenge, LoadStreak,
        SaveStreak, SaveBan, Preflight
    <2>3. pc'[r] \notin Publishing /\ ~Rewarded(r)'
      BY <2>1, <2>2 DEF Answer, Continue
    <2>4. QED
      BY <2>3
  <1>3. CASE Consume(r)
    <2>1. pc'[r] \in Publishing => Consume(r)
      BY <1>3
    <2>2. pc[r] # "idle" /\ req' = req
      BY <1>3 DEF Consume
    <2>3. ~Rewarded(r)'
      BY <1>3 DEF Consume, Answer, Continue, KnownInv, Known
    <2>4. QED
      BY <1>3, <2>1, <2>2, <2>3
  <1>4. CASE DropLock(r) \/ CreateTopic(r) \/ LookupTopic(r)
    <2>1. pc[r] \in Publishing /\ req' = req /\ copy' = copy
      BY <1>4 DEF DropLock, CreateTopic, LookupTopic, ReadFails
    <2>2. ~Rewarded(r)'
      BY <1>4 DEF DropLock, CreateTopic, LookupTopic, ReadFails, Answer, Continue, KnownInv, Known
    <2>3. QED
      BY <2>1, <2>2
  <1>5. CASE CreatePost(r)
    BY <1>5 DEF CreatePost
  <1>6. CASE LoadClear(r) \/ SaveClear(r)
    <2>1. Rewarded(r) /\ pc[r] # "idle" /\ req' = req /\ copy' = copy
      BY <1>6 DEF LoadClear, SaveClear, ReadFails
    <2>2. pc'[r] \notin Publishing
      BY <1>6 DEF LoadClear, SaveClear, ReadFails, Answer, Continue
    <2>3. QED
      BY <2>1, <2>2
  <1>7. ASSUME NEW q \in Requests, NEW c \in Codes, NEW s \in Subjects,
               NEW right \in BOOLEAN, Submit(q, c, s, right)
        PROVE  UNCHANGED <<pc[r], reply[r], req[r], copy[r]>> \/ (pc'[r] = "lock" /\ ~Rewarded(r)')
    BY <1>7, <1>i DEF Submit
  <1>8. ASSUME NEW q \in Requests, Acquire(q)
        PROVE  UNCHANGED <<pc[r], reply[r], req[r], copy[r]>> \/ (pc'[r] = "load" /\ ~Rewarded(r)')
    BY <1>8 DEF Acquire, KnownInv, Known
  <1>9. ASSUME NEW q \in Requests, Disconnect(q)
        PROVE  /\ UNCHANGED <<req, copy>>
               /\ \/ UNCHANGED <<pc[r], reply[r]>>
                  \/ pc'[r] \in {pc[r], "done"} /\ reply'[r] = "gone" /\ pc[r] # "idle"
    BY <1>9 DEF Disconnect
  <1>10. CASE Crash
    BY <1>10, <1>i DEF Crash
  <1>11. CASE \/ \E c \in Codes, s \in Subjects, k \in Kinds : IssueChallenge(c, s, k)
              \/ \E c \in Codes : TimePasses(c)
              \/ UNCHANGED vars
    BY <1>11, <1>i DEF IssueChallenge, TimePasses, vars
  <1>12. CASE ServerStep(r)
    BY <1>2, <1>3, <1>4, <1>5, <1>6, <1>12 DEF ServerStep
  <1>13. ASSUME UNCHANGED <<pc[r], reply[r], req[r], copy[r]>>
         PROVE  /\ pc'[r] \in Publishing => pc[r] \in Publishing \/ Consume(r)
                /\ Rewarded(r)' => Rewarded(r) \/ CreatePost(r)
                /\ pc'[r] \in Publishing \/ Rewarded(r)' =>
                     /\ pc[r] # "idle" /\ req'[r] = req[r]
                     /\ Consume(r) \/ copy'[r] = copy[r]
    BY <1>13, <1>i
  <1>14. QED
    BY <1>1, <1>7, <1>8, <1>9, <1>10, <1>11, <1>12, <1>13 DEF Next

LEMMA PathStep ==
  ASSUME ChallengeInv, KnownInv, PathInv, [Next]_vars
  PROVE  PathInv'
  <1> DEFINE Half == {"createTopic", "lookupTopic", "createPost"}
             Right(r, c) ==
               /\ pc'[r] = "createTopic" => challenge[c].kind = "topic"
               /\ pc'[r] = "lookupTopic" => challenge[c].kind # "topic"
               /\ pc'[r] = "createPost" /\ challenge[c].kind = "topic" => topics'[c] = 1
  <1> USE DEF ChallengeInv, TypeOK, local, store
  <1> SUFFICES ASSUME NEW r \in Requests, pc'[r] \in Half
               PROVE  LET c == Code(r)' IN
                      /\ pc'[r] = "createTopic" => challenge'[c].kind = "topic"
                      /\ pc'[r] = "lookupTopic" => challenge'[c].kind # "topic"
                      /\ pc'[r] = "createPost" /\ challenge'[c].kind = "topic" => topics'[c] = 1
    BY DEF PathInv
  <1>c. ~Consume(r)
    BY DEF Consume, Answer, Continue
  <1>1. /\ pc[r] \in Publishing /\ req'[r] = req[r] /\ copy'[r] = copy[r] /\ Code(r)' = Code(r)
    BY <1>c, PublisherStep DEF Publishing, Code
  <1>2. PICK c \in Codes : Code(r) = c
    BY <1>1 DEF ArgsInv, VerifyRequest, Code, Publishing
  <1>3. /\ challenge[c].status = "verified" /\ topics[c] \in Nat
        /\ \A q \in Requests \ {r} : pc[q] \in Publishing => Code(q) # c
    BY <1>1, <1>2 DEF PublishInv
  <1>4. challenge'[c] = challenge[c]
    BY <1>3, ContentStays
  <1>5. CASE DropLock(r)
    <2>1. copy[r].kind = challenge[c].kind /\ pc'[r] \in {"createTopic", "lookupTopic"}
      BY <1>2, <1>5 DEF DropLock, KnownInv, Known, Winning, Publishing
    <2>2. Right(r, c)
      BY <1>5, <2>1 DEF DropLock
    <2>3. QED
      BY <1>1, <1>2, <1>4, <2>2
  <1>6. CASE CreateTopic(r)
    <2>1. pc'[r] = "createPost" /\ topics'[c] = topics[c] + 1
      BY <1>2, <1>6 DEF CreateTopic, Outcomes, Applied, Reported, Answer, Continue
    <2>2. topics[c] = 0
      BY <1>1, <1>2, <1>6 DEF CreateTopic, PublishInv
    <2>3. QED
      BY <1>1, <1>2, <1>4, <2>1, <2>2
  <1>7. CASE LookupTopic(r)
    <2>1. pc'[r] = "createPost" /\ challenge[c].kind # "topic"
      BY <1>2, <1>7 DEF LookupTopic, ReadFails, Answer, Continue, PathInv
    <2>2. QED
      BY <1>1, <1>2, <1>4, <2>1
  <1>8. CASE ~DropLock(r) /\ ~CreateTopic(r) /\ ~LookupTopic(r)
    <2>1. ~CreatePost(r)
      BY DEF CreatePost, Answer, Continue
    <2>2. ~ServerStep(r)
      <3>1. ~Load(r) /\ ~Decide(r) /\ ~Judge(r) /\ ~Preflight(r)
        BY <1>1 DEF Load, Decide, Judge, Preflight, Publishing
      <3>2. ~SaveChallenge(r) /\ ~LoadStreak(r) /\ ~SaveStreak(r) /\ ~SaveBan(r)
        BY <1>1 DEF SaveChallenge, LoadStreak, SaveStreak, SaveBan, Publishing
      <3>3. ~LoadClear(r) /\ ~SaveClear(r)
        BY <1>1 DEF LoadClear, SaveClear, Publishing
      <3>4. QED
        BY <1>8, <1>c, <2>1, <3>1, <3>2, <3>3 DEF ServerStep
    <2>3. pc'[r] = pc[r]
      <3>1. ASSUME NEW q \in Requests, ServerStep(q)
            PROVE  pc'[r] = pc[r]
        BY <2>2, <3>1, ServerStepAlone DEF Alone
      <3>2. CASE ~\E q \in Requests : ServerStep(q)
        BY <3>2 DEF Next, IssueChallenge, TimePasses, Submit, Acquire, Disconnect, Crash, vars
      <3>3. QED
        BY <3>1, <3>2
    <2>4. topics'[c] = topics[c]
      <3>1. \A q \in Requests : CreateTopic(q) \/ CreatePost(q) => Code(q) # c
        BY <1>3, <1>8, <2>1 DEF CreateTopic, CreatePost, Publishing
      <3>2. QED
        BY <1>3, <3>1, ContentStays
    <2>5. QED
      BY <1>1, <1>2, <1>4, <2>3, <2>4 DEF PathInv
  <1>9. QED
    BY <1>5, <1>6, <1>7, <1>8

LEMMA RewardStep ==
  ASSUME ChallengeInv, KnownInv, PathInv, RewardInv, [Next]_vars
  PROVE  RewardInv'
  <1> USE DEF ChallengeInv, TypeOK
  <1> SUFFICES ASSUME NEW r \in Requests, Rewarded(r)'
               PROVE  Complete(r)'
    BY DEF RewardInv
  <1>1. /\ Rewarded(r) \/ CreatePost(r)
        /\ pc[r] # "idle" /\ req'[r] = req[r] /\ Code(r)' = Code(r) /\ Subject(r)' = Subject(r)
    BY PublisherStep DEF Code, Subject
  <1>2. PICK c \in Codes : Code(r) = c
    BY <1>1 DEF ArgsInv, VerifyRequest, Code
  <1>3. /\ challenge[c].status = "verified" /\ challenge[c].owner = Subject(r) /\ req[r].right
        /\ \A q \in Requests \ {r} : Rewarded(q) \/ pc[q] \in Publishing => Code(q) # c
    <2>1. CASE Rewarded(r)
      BY <1>2, <2>1 DEF RewardInv, Complete
    <2>2. CASE CreatePost(r)
      <3>1. pc[r] \in Publishing
        BY <2>2 DEF CreatePost, Publishing
      <3>2. /\ challenge[c].status = "verified"
            /\ \A q \in Requests \ {r} : pc[q] \in Publishing => Code(q) # c
        BY <1>2, <3>1 DEF PublishInv
      <3>3. challenge[c].owner = Subject(r) /\ req[r].right
        BY <1>2, <3>1 DEF KnownInv, Known, Winning
      <3>4. \A q \in Requests \ {r} : Rewarded(q) => Code(q) # c
        BY <1>2, <3>1 DEF RewardInv, Complete
      <3>5. QED
        BY <3>2, <3>3, <3>4
    <2>3. QED
      BY <1>1, <2>1, <2>2
  <1>4. challenge'[c] = challenge[c]
    BY <1>3, ContentStays
  <1>5. posts'[c] = 1 /\ (challenge[c].kind = "topic" => topics'[c] = 1)
    <2>1. CASE Rewarded(r)
      <3>1. posts[c] = 1 /\ (challenge[c].kind = "topic" => topics[c] = 1)
            /\ pc[r] \notin Publishing
        BY <1>2, <2>1 DEF RewardInv, Complete, Rewarded, Publishing, KnownInv, Known
      <3>2. \A q \in Requests : CreateTopic(q) \/ CreatePost(q) => Code(q) # c
        BY <1>3, <3>1 DEF CreateTopic, CreatePost, Publishing
      <3>3. QED
        BY <1>3, <3>1, <3>2, ContentStays
    <2>2. CASE CreatePost(r) /\ ~Rewarded(r)
      <3>1. posts'[c] = posts[c] + 1 /\ UNCHANGED topics
        BY <1>2, <2>2
        DEF CreatePost, Outcomes, Applied, Reported, Answer, Continue, Rewarded, KnownInv, Known
      <3>2. posts[c] = 0 /\ (challenge[c].kind = "topic" => topics[c] = 1)
        BY <1>2, <2>2 DEF CreatePost, PublishInv, Publishing, PathInv
      <3>3. QED
        BY <3>1, <3>2
    <2>3. QED
      BY <1>1, <2>1, <2>2
  <1>6. ASSUME NEW q \in Requests \ {r}, Rewarded(q)' \/ pc'[q] \in Publishing
        PROVE  Code(q)' # c
    <2>1. /\ Rewarded(q) \/ pc[q] \in Publishing \/ Consume(q)
          /\ Code(q)' = Code(q)
      BY <1>6, PublisherStep DEF Code, CreatePost, Publishing
    <2>2. Consume(q) => challenge[Code(q)].status = "pending"
      BY DEF Consume, CopyInv
    <2>3. QED
      BY <1>3, <2>1, <2>2
  <1>7. QED
    BY <1>1, <1>2, <1>3, <1>4, <1>5, <1>6 DEF Complete

\* A 200 is the truth, however many requests answer a challenge, whatever fails
\* and whoever goes away, as long as no job is left alone.
THEOREM HonestRepliesHolds == AwaitedSpec => []HonestReplies
  <1>1. Init => PathInv /\ RewardInv
    BY DEF Init, PathInv, RewardInv, Rewarded
  <1>2. ChallengeInv /\ KnownInv /\ PathInv /\ RewardInv /\ [Next]_vars => PathInv' /\ RewardInv'
    BY PathStep, RewardStep
  <1>3. RewardInv => HonestReplies
    BY DEF RewardInv, Rewarded, Complete, HonestReplies
  <1>4. QED
    BY <1>1, <1>2, <1>3, ChallengeInvariant, KnownInvariant, AwaitedSpecIsSpec, PTL DEF Spec

-----------------------------------------------------------------------------
\* The requests whose wrong guess has been written into the row of c.
Guessers(c) ==
  {r \in Requests : /\ Code(r) = c
                    /\ \/ reply[r] = "wrong"
                       \/ /\ pc[r] \in {"loadStreak", "saveStreak", "saveBan"}
                          /\ copy[r].status # "expired"}

GuessInv == \A c \in Codes :
  /\ IsFiniteSet(Guessers(c))
  /\ Cardinality(Guessers(c)) <= challenge[c].attempts
  /\ challenge[c].attempts = MaxAttempts => challenge[c].status = "failed"

\* A guess comes with the write of its attempt.
LEMMA GuesserStep ==
  ASSUME "swallowed" \notin Faults, ChallengeInv, KnownInv, [Next]_vars, NEW c \in Codes, NEW r \in Requests,
         r \in Guessers(c)'
  PROVE  \/ r \in Guessers(c)
         \/ /\ SaveChallenge(r) /\ Code(r) = c
            /\ challenge'[c].attempts = challenge[c].attempts + 1
  <1> USE DEF ChallengeInv, TypeOK, local
  <1> DEFINE Blaming == {"loadStreak", "saveStreak", "saveBan"}
  <1>1. /\ Code(r)' = c
        /\ \/ reply'[r] = "wrong"
           \/ pc'[r] \in Blaming /\ copy'[r].status # "expired"
    BY DEF Guessers
  <1>2. CASE UNCHANGED <<pc[r], reply[r], req[r], copy[r]>>
    BY <1>1, <1>2 DEF Guessers, Code
  <1>3. ASSUME NEW q \in Requests, q # r, ServerStep(q)
        PROVE  UNCHANGED <<pc[r], reply[r], req[r], copy[r]>>
    BY <1>3, ServerStepAlone DEF Alone
  <1>4. ASSUME ServerStep(r), ~SaveChallenge(r), ~LoadStreak(r), ~SaveStreak(r), ~SaveBan(r)
        PROVE  FALSE
    <2>1. reply[r] # "wrong"
      BY <1>4 DEF ServerStep, Load, Decide, Judge, Preflight, Consume, DropLock, CreateTopic,
        LookupTopic, CreatePost, LoadClear, SaveClear, KnownInv, Known
    <2>2. \/ \E what \in Replies \ {"wrong"} : Answer(r, what)
          \/ \E step \in Steps \ Blaming : Continue(r, step)
          \/ DropLock(r)
      <3>1. CASE Load(r) \/ Decide(r) \/ Judge(r) \/ Preflight(r) \/ Consume(r)
        BY <3>1 DEF Load, Decide, Judge, Preflight, Consume, ReadFails, Replies, Steps, WriteSteps
      <3>2. CASE CreateTopic(r) \/ LookupTopic(r) \/ CreatePost(r) \/ LoadClear(r) \/ SaveClear(r)
        BY <3>2 DEF CreateTopic, LookupTopic, CreatePost, LoadClear, SaveClear, ReadFails,
          Replies, Steps, WriteSteps
      <3>3. QED
        BY <1>4, <3>1, <3>2 DEF ServerStep
    <2>3. QED
      BY <1>1, <2>1, <2>2 DEF Answer, Continue, DropLock
  <1>5. CASE LoadStreak(r) \/ SaveStreak(r) \/ SaveBan(r)
    <2>1. /\ pc[r] \in Blaming /\ UNCHANGED <<req, copy>> /\ reply[r] # "wrong"
      BY <1>5 DEF LoadStreak, SaveStreak, SaveBan, ReadFails, KnownInv, Known
    <2>2. reply'[r] = "wrong" => copy[r].status # "expired"
      BY <1>5, <2>1 DEF LoadStreak, SaveStreak, SaveBan, ReadFails, Answer, Continue, FailureReply
    <2>3. QED
      BY <1>1, <2>1, <2>2 DEF Guessers, Code
  <1>6. CASE SaveChallenge(r)
    <2>1. /\ UNCHANGED <<req, copy>> /\ pc[r] = "saveChallenge" /\ reply[r] # "wrong"
          /\ Code(r) = c
      BY <1>1, <1>6 DEF SaveChallenge, KnownInv, Known, Code
    <2>2. challenge' = [challenge EXCEPT ![Code(r)] = copy[r]] /\ copy[r].status # "expired"
      BY <1>1, <1>6, <2>1
      DEF SaveChallenge, SaveOutcomes, Outcomes, Applied, Reported, Answer, Continue
    <2>3. challenge[c] \in VerificationChallengeRecord /\ challenge[c].status = "pending"
      BY <2>1 DEF CopyInv
    <2>4. copy[r] = RecordFailedAttempt(challenge[c])
      BY <2>1, <2>2, <2>3 DEF CopyInv, VerificationChallengeRecord
    <2>5. challenge'[c].attempts = challenge[c].attempts + 1
      BY <2>1, <2>2, <2>3, <2>4 DEF RecordFailedAttempt, VerificationChallengeRecord
    <2>6. QED
      BY <1>6, <2>1, <2>5
  <1>7. ASSUME NEW q \in Requests, NEW d \in Codes, NEW s \in Subjects,
               NEW right \in BOOLEAN, Submit(q, d, s, right)
        PROVE  UNCHANGED <<pc[r], reply[r], req[r], copy[r]>>
    BY <1>1, <1>7 DEF Submit, KnownInv, Known
  <1>8. ASSUME NEW q \in Requests, Acquire(q)
        PROVE  UNCHANGED <<pc[r], reply[r], req[r], copy[r]>>
    BY <1>1, <1>8 DEF Acquire, KnownInv, Known
  <1>9. ASSUME NEW q \in Requests, Disconnect(q)
        PROVE  r \in Guessers(c)
    <2>1. /\ UNCHANGED <<req, copy>> /\ pc'[r] \in {pc[r], "done"}
          /\ reply'[r] \in {reply[r], "gone"}
      BY <1>9 DEF Disconnect
    <2>2. QED
      BY <1>1, <2>1 DEF Guessers, Code
  <1>10. CASE Crash
    <2>1. reply'[r] = "wrong" /\ pc[r] \in {"idle", "done"}
      BY <1>1, <1>10 DEF Crash
    <2>2. QED
      BY <1>1, <1>10, <2>1 DEF Crash, Guessers, Code
  <1>11. CASE \/ \E d \in Codes, s \in Subjects, k \in Kinds : IssueChallenge(d, s, k)
              \/ \E d \in Codes : TimePasses(d)
              \/ UNCHANGED vars
    BY <1>2, <1>11 DEF IssueChallenge, TimePasses, vars
  <1>12. QED
    BY <1>2, <1>3, <1>4, <1>5, <1>6, <1>7, <1>8, <1>9, <1>10, <1>11 DEF Next

\* Attempts are not taken back, and the last one fails the challenge.
LEMMA AttemptsGrow ==
  ASSUME ChallengeInv, [Next]_vars, NEW c \in Codes,
         challenge[c].attempts = MaxAttempts => challenge[c].status = "failed"
  PROVE  /\ challenge[c].attempts \in Nat /\ challenge'[c].attempts \in Nat
         /\ challenge'[c].attempts >= challenge[c].attempts
         /\ challenge'[c].attempts = MaxAttempts => challenge'[c].status = "failed"
  <1> DEFINE old == challenge[c]  new == challenge'[c]
  <1>1. old \in VerificationChallengeRecord /\ MaxAttempts \in Nat
    BY VerificationAssumption DEF ChallengeInv, TypeOK
  <1>2. CASE new = old
    BY <1>1, <1>2 DEF VerificationChallengeRecord
  <1>3. ASSUME NEW d \in Codes, NEW row \in VerificationChallengeRecord, Writes(d, row),
               new # old
        PROVE  /\ old.attempts \in Nat /\ new.attempts \in Nat
               /\ new.attempts >= old.attempts
               /\ new.attempts = MaxAttempts => new.status = "failed"
    <2>1. d = c /\ new = row
      BY <1>3 DEF Writes, ChallengeInv, TypeOK
    <2>2. CASE old.status = "absent"
      BY <1>1, <1>3, <2>1, <2>2, VerificationAssumption
      DEF Writes, Successors, VerificationChallengeRecord
    <2>3. CASE old.status = "pending"
      <3>1. \/ row = RecordFailedAttempt(old)
            \/ row = [old EXCEPT !.status = "expired"]
            \/ row = [old EXCEPT !.status = "verified"]
        BY <1>3, <2>1, <2>3 DEF Writes, Successors
      <3>2. old.attempts < MaxAttempts /\ old.attempts \in Nat
        BY <1>1, <2>3 DEF VerificationChallengeRecord
      <3>3. CASE row = RecordFailedAttempt(old)
        BY <1>1, <2>1, <2>3, <3>2, <3>3 DEF RecordFailedAttempt, VerificationChallengeRecord
      <3>4. CASE row.attempts = old.attempts
        BY <1>1, <2>1, <3>2, <3>4
      <3>5. QED
        BY <1>1, <3>1, <3>3, <3>4 DEF VerificationChallengeRecord
    <2>4. QED
      BY <1>3, <2>1, <2>2, <2>3 DEF Writes
  <1>4. CASE UNCHANGED challenge
    BY <1>2, <1>4
  <1>5. QED
    BY <1>2, <1>3, <1>4, RowStep

LEMMA GuessStep ==
  ASSUME "swallowed" \notin Faults, ChallengeInv, KnownInv, GuessInv, [Next]_vars
  PROVE  GuessInv'
  <1> SUFFICES ASSUME NEW c \in Codes
               PROVE  /\ IsFiniteSet(Guessers(c)')
                      /\ Cardinality(Guessers(c)') <= challenge'[c].attempts
                      /\ challenge'[c].attempts = MaxAttempts => challenge'[c].status = "failed"
    BY DEF GuessInv
  <1>1. /\ IsFiniteSet(Guessers(c)) /\ Cardinality(Guessers(c)) \in Nat
        /\ Cardinality(Guessers(c)) <= challenge[c].attempts
    BY FS_CardinalityType DEF GuessInv
  <1>2. /\ challenge[c].attempts \in Nat /\ challenge'[c].attempts \in Nat
        /\ challenge'[c].attempts >= challenge[c].attempts
        /\ challenge'[c].attempts = MaxAttempts => challenge'[c].status = "failed"
    BY AttemptsGrow DEF GuessInv
  <1>3. CASE Guessers(c)' \subseteq Guessers(c)
    <2>1. IsFiniteSet(Guessers(c)') /\ Cardinality(Guessers(c)') <= Cardinality(Guessers(c))
      BY <1>1, <1>3, FS_Subset
    <2>2. Cardinality(Guessers(c)') \in Nat
      BY <2>1, FS_CardinalityType
    <2>3. QED
      BY <1>1, <1>2, <2>1, <2>2
  <1>4. ASSUME NEW r \in Requests, SaveChallenge(r),
               challenge'[c].attempts = challenge[c].attempts + 1
        PROVE  /\ IsFiniteSet(Guessers(c)')
               /\ Cardinality(Guessers(c)') <= challenge'[c].attempts
    <2>1. Guessers(c)' \subseteq Guessers(c) \cup {r}
      <3>1. ServerStep(r)
        BY <1>4 DEF ServerStep
      <3>2. \A q \in Requests \ {r} : ~SaveChallenge(q)
        <4>1. pc'[r] # "saveChallenge" /\ pc[r] = "saveChallenge"
          BY <1>4 DEF SaveChallenge, Answer, Continue, ChallengeInv, TypeOK
        <4>2. QED
          BY <4>1, ServerStepAlone DEF ServerStep, Alone, ChallengeInv
      <3>3. QED
        BY <3>2, GuesserStep DEF Guessers
    <2>2. /\ IsFiniteSet(Guessers(c) \cup {r})
          /\ Cardinality(Guessers(c) \cup {r}) <= Cardinality(Guessers(c)) + 1
          /\ Cardinality(Guessers(c) \cup {r}) \in Nat
      <3>1. /\ IsFiniteSet(Guessers(c) \cup {r})
            /\ Cardinality(Guessers(c) \cup {r}) =
                 IF r \in Guessers(c) THEN Cardinality(Guessers(c))
                                      ELSE Cardinality(Guessers(c)) + 1
        BY <1>1, FS_AddElement
      <3>2. QED
        BY <1>1, <3>1
    <2>3. /\ IsFiniteSet(Guessers(c)')
          /\ Cardinality(Guessers(c)') <= Cardinality(Guessers(c) \cup {r})
      BY <2>1, <2>2, FS_Subset
    <2>4. Cardinality(Guessers(c)') \in Nat
      BY <2>3, FS_CardinalityType
    <2>5. QED
      BY <1>1, <1>2, <1>4, <2>2, <2>3, <2>4
  <1>5. \A r \in Guessers(c)' : r \in Requests
    BY DEF Guessers
  <1>6. QED
    BY <1>2, <1>3, <1>4, <1>5, GuesserStep

\* Nobody guesses more than MaxAttempts times, as long as no job is left alone
\* and no statement fails without being noticed.
THEOREM GuessesCountedHolds ==
  ASSUME "swallowed" \notin Faults
  PROVE  AwaitedSpec => []GuessesCounted
  <1>1. Init => GuessInv
    <2> SUFFICES ASSUME Init PROVE GuessInv
      OBVIOUS
    <2>1. \A c : Guessers(c) = {}
      BY DEF Init, Guessers
    <2>2. QED
      <3>1. \A c \in Codes : challenge[c].attempts = 0 /\ challenge[c].attempts # MaxAttempts
        BY VerificationAssumption DEF Init, Absent
      <3>2. QED
        BY <2>1, <3>1, FS_EmptySet DEF GuessInv
  <1>2. ChallengeInv /\ GuessInv => GuessesCounted
    <2> SUFFICES ASSUME ChallengeInv, GuessInv, NEW c \in Codes
                 PROVE  Cardinality({r \in Requests : reply[r] = "wrong" /\ Code(r) = c})
                          <= challenge[c].attempts
      BY DEF GuessesCounted, GuessInv
    <2> DEFINE W == {r \in Requests : reply[r] = "wrong" /\ Code(r) = c}
    <2>1. W \subseteq Guessers(c)
      BY DEF Guessers
    <2>2. /\ IsFiniteSet(W) /\ Cardinality(W) <= Cardinality(Guessers(c))
      BY <2>1, FS_Subset DEF GuessInv
    <2>3. Cardinality(W) \in Nat /\ Cardinality(Guessers(c)) \in Nat
      BY <2>2, FS_CardinalityType DEF GuessInv
    <2>4. challenge[c].attempts \in Nat
      BY DEF ChallengeInv, TypeOK, VerificationChallengeRecord
    <2>5. QED
      BY <2>2, <2>3, <2>4 DEF GuessInv
  <1>3. ChallengeInv /\ KnownInv /\ GuessInv /\ [Next]_vars => GuessInv'
    BY GuessStep
  <1>4. QED
    BY <1>1, <1>2, <1>3, ChallengeInvariant, KnownInvariant, AwaitedSpecIsSpec, PTL DEF Spec

-----------------------------------------------------------------------------
(* The streak of an agent who answers one challenge, while jobs are awaited. *)
(* The lock of the challenge covers the read and the write of the streak, so *)
(* what a submission has read is what it increments.                         *)

\* A request has no copy before it has loaded one, and a verified one from
\* consume on.
Copies ==
  \A r \in Requests :
    /\ pc[r] \in {"idle", "lock", "load"} => copy[r].status = "absent"
    /\ pc[r] = "idle" => Subject(r) = None
    /\ pc[r] \in Publishing \cup {"loadClear", "saveClear"} => copy[r].status = "verified"

\* The submissions of s whose wrong answer the streak has counted.
Wrong(s) ==
  {r \in Requests : /\ Subject(r) = s
                    /\ \/ reply[r] = "wrong"
                       \/ pc[r] = "saveBan" /\ copy[r].status # "expired"}

StreakInv ==
  \A s \in Subjects : Unverified(s) /\ OneChallenge(s) =>
    /\ IsFiniteSet(Wrong(s)) /\ Cardinality(Wrong(s)) <= streak[s]
    /\ \A r \in Requests : Subject(r) = s /\ pc[r] = "saveStreak" => seen[r] = streak[s]

\* The arguments of a request stay once it has begun.
LEMMA ArgsStay ==
  ASSUME TypeOK, [Next]_vars, NEW r \in Requests, pc[r] # "idle"
  PROVE  req'[r] = req[r]
  <1>1. ASSUME NEW q \in Requests, ServerStep(q)
        PROVE  req' = req
    BY <1>1, ServerStepAlone
  <1>2. CASE ~\E q \in Requests : ServerStep(q)
    BY <1>2 DEF Next, IssueChallenge, TimePasses, Submit, Acquire, Disconnect, Crash, vars,
      local, TypeOK
  <1>3. QED
    BY <1>1, <1>2

LEMMA CopiesStep ==
  ASSUME TypeOK, ArgsInv, KnownInv, Copies, [Next]_vars
  PROVE  Copies'
  <1> USE DEF TypeOK, Publishing, local
  <1> DEFINE Stages(r) ==
        /\ pc[r] \in {"idle", "lock", "load"} => copy[r].status = "absent"
        /\ pc[r] = "idle" => Subject(r) = None
        /\ pc[r] \in Publishing \cup {"loadClear", "saveClear"} =>
             copy[r].status = "verified"
  <1> SUFFICES ASSUME NEW r \in Requests PROVE Stages(r)'
    BY DEF Copies
  <1>1. Stages(r)
    BY DEF Copies
  <1>2. CASE ServerStep(r)
    <2> DEFINE Early == {"decide", "judge", "saveChallenge", "loadStreak", "saveStreak",
                         "saveBan", "preflight", "consume", "done"}
               Winners == Publishing \cup {"loadClear", "saveClear", "done"}
    <2>1. pc'[r] \in Early \/ (pc'[r] \in Winners /\ copy'[r].status = "verified")
      <3>1. CASE Load(r) \/ Decide(r) \/ Judge(r) \/ Preflight(r)
        <4>1. (\E what : Answer(r, what)) \/ (\E step \in Early : Continue(r, step))
          BY <3>1 DEF Load, Decide, Judge, Preflight, ReadFails
        <4>2. QED
          BY <4>1 DEF Answer, Continue
      <3>2. CASE SaveChallenge(r) \/ LoadStreak(r) \/ SaveStreak(r) \/ SaveBan(r)
        <4>1. (\E what : Answer(r, what)) \/ (\E step \in Early : Continue(r, step))
          BY <3>2 DEF SaveChallenge, LoadStreak, SaveStreak, SaveBan, ReadFails
        <4>2. QED
          BY <4>1 DEF Answer, Continue
      <3>3. CASE Consume(r)
        <4>1. CASE \E what : Answer(r, what)
          BY <4>1 DEF Answer
        <4>2. CASE Consumable(r) /\ copy' = [copy EXCEPT ![r] = ConsumedRow(r)]
                   /\ Continue(r, "drop")
          <5>1. Code(r) \in Codes
            BY <3>3 DEF Consume, ArgsInv, VerifyRequest, Code
          <5>2. copy'[r].status = "verified"
            BY <4>2, <5>1 DEF ConsumedRow, VerificationChallengeRecord
          <5>3. QED
            BY <4>2, <5>2 DEF Continue
        <4>3. QED
          BY <3>3, <4>1, <4>2 DEF Consume
      <3>4. CASE DropLock(r) \/ CreateTopic(r) \/ LookupTopic(r) \/ CreatePost(r)
                 \/ LoadClear(r) \/ SaveClear(r)
        <4>1. copy' = copy /\ copy[r].status = "verified"
          BY <1>1, <3>4
          DEF DropLock, CreateTopic, LookupTopic, CreatePost, LoadClear, SaveClear, ReadFails
        <4>2. \/ \E what : Answer(r, what)
              \/ \E step \in Winners : Continue(r, step)
              \/ DropLock(r)
          BY <3>4 DEF CreateTopic, LookupTopic, CreatePost, LoadClear, SaveClear, ReadFails
        <4>3. pc'[r] \in Winners
          BY <4>2 DEF Answer, Continue, DropLock
        <4>4. QED
          BY <4>1, <4>3
      <3>5. QED
        BY <1>2, <3>1, <3>2, <3>3, <3>4 DEF ServerStep
    <2>2. QED
      BY <2>1
  <1>3. ASSUME NEW q \in Requests, q # r, ServerStep(q)
        PROVE  Stages(r)'
    BY <1>1, <1>3, ServerStepAlone DEF Alone, Subject
  <1>4. ASSUME NEW q \in Requests, NEW c \in Codes, NEW s \in Subjects, NEW right \in BOOLEAN,
               Submit(q, c, s, right)
        PROVE  Stages(r)'
    BY <1>1, <1>4 DEF Submit, Subject
  <1>5. ASSUME NEW q \in Requests, Acquire(q)
        PROVE  Stages(r)'
    BY <1>1, <1>5 DEF Acquire, Subject
  <1>6. ASSUME NEW q \in Requests, Disconnect(q)
        PROVE  Stages(r)'
    <2>1. UNCHANGED <<req, copy>> /\ pc'[r] \in {pc[r], "done"}
      BY <1>6 DEF Disconnect
    <2>2. QED
      BY <1>1, <2>1 DEF Subject
  <1>7. CASE Crash
    BY <1>1, <1>7 DEF Crash, Subject
  <1>8. CASE \/ \E c \in Codes, s \in Subjects, k \in Kinds : IssueChallenge(c, s, k)
             \/ \E c \in Codes : TimePasses(c)
             \/ UNCHANGED vars
    BY <1>1, <1>8 DEF IssueChallenge, TimePasses, vars, Subject
  <1>9. QED
    BY <1>2, <1>3, <1>4, <1>5, <1>6, <1>7, <1>8 DEF Next

\* A copy that is verified stays so.
LEMMA VerifiedStays ==
  ASSUME TypeOK, ArgsInv, KnownInv, Copies, [Next]_vars, NEW r \in Requests,
         copy[r].status = "verified"
  PROVE  copy'[r].status = "verified"
  <1> USE DEF TypeOK, local
  <1>1. CASE pc[r] \in Unjudged
    <2>1. pc[r] \in {"decide", "judge"}
      BY <1>1 DEF Unjudged, Copies
    <2>2. ASSUME NEW q \in Requests, q # r, ServerStep(q)
          PROVE  copy'[r] = copy[r]
      BY <2>2, ServerStepAlone DEF Alone
    <2>3. CASE ServerStep(r)
      BY <2>1, <2>3 DEF ServerStep, Load, Decide, Judge, SaveChallenge, LoadStreak, SaveStreak,
        SaveBan, Preflight, Consume, DropLock, CreateTopic, LookupTopic, CreatePost,
        LoadClear, SaveClear
    <2>4. CASE ~\E q \in Requests : ServerStep(q)
      BY <2>4 DEF Next, IssueChallenge, TimePasses, Submit, Acquire, Disconnect, Crash, vars
    <2>5. QED
      BY <2>2, <2>3, <2>4
  <1>2. CASE pc[r] \notin Unjudged
    <2>1. pc[r] # "consume"
      BY DEF KnownInv, Known
    <2>2. QED
      BY <1>2, <2>1, JudgedStays
  <1>3. QED
    BY <1>1, <1>2

\* What FailuresCounted presumes of a subject held before as well.
LEMMA PresumedBefore ==
  ASSUME TypeOK, ArgsInv, KnownInv, Copies, [Next]_vars, NEW s \in Subjects,
         Unverified(s)', OneChallenge(s)'
  PROVE  /\ Unverified(s) /\ OneChallenge(s)
         /\ \A r \in Requests : Subject(r) = s => Subject(r)' = s
  <1>1. ASSUME NEW r \in Requests, Subject(r) = s
        PROVE  Subject(r)' = s /\ Code(r)' = Code(r)
    <2>1. pc[r] # "idle"
      BY <1>1, VerificationAssumption DEF Copies
    <2>2. QED
      BY <1>1, <2>1, ArgsStay DEF Subject, Code
  <1>2. Unverified(s)
    BY <1>1, VerifiedStays DEF Unverified
  <1>3. OneChallenge(s)
    BY <1>1 DEF OneChallenge
  <1>4. QED
    BY <1>1, <1>2, <1>3

\* A wrong answer is told of after it has been counted.
LEMMA WrongStep ==
  ASSUME "swallowed" \notin Faults, TypeOK, ArgsInv, KnownInv, [Next]_vars,
         NEW s \in Subjects, NEW r \in Requests, r \in Wrong(s)', Subject(r) = s
  PROVE  \/ r \in Wrong(s)
         \/ SaveStreak(r) /\ streak'[s] = seen[r] + 1
  <1> USE DEF TypeOK, local
  <1>1. \/ reply'[r] = "wrong"
        \/ pc'[r] = "saveBan" /\ copy'[r].status # "expired"
    BY DEF Wrong
  <1>2. CASE UNCHANGED <<pc[r], reply[r], copy[r]>>
    BY <1>1, <1>2 DEF Wrong
  <1>3. ASSUME NEW q \in Requests, q # r, ServerStep(q)
        PROVE  UNCHANGED <<pc[r], reply[r], copy[r]>>
    BY <1>3, ServerStepAlone DEF Alone
  <1>4. ASSUME ServerStep(r), ~SaveStreak(r), ~SaveBan(r)
        PROVE  FALSE
    <2>1. reply[r] # "wrong"
      BY <1>4, ServerStepEnds DEF KnownInv, Known
    <2>2. \/ \E what \in Replies \ {"wrong"} : Answer(r, what)
          \/ \E step \in Steps \ {"saveBan"} : Continue(r, step)
          \/ DropLock(r)
      <3>1. CASE Load(r) \/ Decide(r) \/ Judge(r) \/ Preflight(r) \/ Consume(r)
        BY <3>1 DEF Load, Decide, Judge, Preflight, Consume, ReadFails, Replies, Steps, WriteSteps
      <3>2. CASE CreateTopic(r) \/ LookupTopic(r) \/ CreatePost(r) \/ LoadClear(r) \/ SaveClear(r)
        BY <3>2 DEF CreateTopic, LookupTopic, CreatePost, LoadClear, SaveClear, ReadFails,
          Replies, Steps, WriteSteps
      <3>3. CASE SaveChallenge(r) \/ LoadStreak(r)
        BY <3>3 DEF SaveChallenge, LoadStreak, ReadFails, Replies, Steps, WriteSteps
      <3>4. QED
        BY <1>4, <3>1, <3>2, <3>3 DEF ServerStep
    <2>3. QED
      BY <1>1, <2>1, <2>2 DEF Answer, Continue, DropLock
  <1>5. CASE SaveStreak(r)
    <2>1. reply[r] # "wrong" /\ UNCHANGED copy
      BY <1>5 DEF SaveStreak, KnownInv, Known
    <2>2. PICK o \in SaveOutcomes :
            /\ streak' = IF Applied(o) THEN [streak EXCEPT ![s] = seen[r] + 1] ELSE streak
            /\ ~Reported(o) => Answer(r, "error")
      BY <1>5 DEF SaveStreak
    <2>3. Reported(o)
      BY <1>1, <2>1, <2>2 DEF Answer
    <2>4. o = "done"
      BY <2>3 DEF SaveOutcomes, Outcomes, Reported
    <2>5. QED
      BY <1>5, <2>2, <2>4 DEF Applied
  <1>6. CASE SaveBan(r)
    <2>1. /\ pc[r] = "saveBan" /\ reply[r] # "wrong" /\ UNCHANGED copy
          /\ Answer(r, "error") \/ Answer(r, FailureReply(r))
      BY <1>6 DEF SaveBan, KnownInv, Known
    <2>2. copy[r].status # "expired"
      BY <1>1, <2>1 DEF Answer, FailureReply
    <2>3. QED
      BY <2>1, <2>2 DEF Wrong
  <1>7. ASSUME NEW q \in Requests, NEW c \in Codes, NEW t \in Subjects,
               NEW right \in BOOLEAN, Submit(q, c, t, right)
        PROVE  UNCHANGED <<pc[r], reply[r], copy[r]>>
    BY <1>1, <1>7 DEF Submit, KnownInv, Known
  <1>8. ASSUME NEW q \in Requests, Acquire(q)
        PROVE  UNCHANGED <<pc[r], reply[r], copy[r]>>
    BY <1>1, <1>8 DEF Acquire, KnownInv, Known
  <1>9. ASSUME (\E q \in Requests : Disconnect(q)) \/ Crash
        PROVE  r \in Wrong(s)
    <2>1. /\ UNCHANGED copy /\ pc'[r] \in {pc[r], "idle", "done"}
          /\ reply'[r] \in {reply[r], "gone"}
      BY <1>9 DEF Disconnect, Crash
    <2>2. QED
      BY <1>1, <2>1 DEF Wrong
  <1>10. CASE \/ \E c \in Codes, t \in Subjects, k \in Kinds : IssueChallenge(c, t, k)
              \/ \E c \in Codes : TimePasses(c)
              \/ UNCHANGED vars
    BY <1>2, <1>10 DEF IssueChallenge, TimePasses, vars
  <1>11. QED
    BY <1>2, <1>3, <1>4, <1>5, <1>6, <1>7, <1>8, <1>9, <1>10 DEF Next

LEMMA StreakStep ==
  ASSUME "swallowed" \notin Faults, ChallengeInv, KnownInv, Copies, StreakInv, [Next]_vars
  PROVE  StreakInv'
  <1> USE DEF ChallengeInv
  <1> SUFFICES ASSUME NEW s \in Subjects, Unverified(s)', OneChallenge(s)'
               PROVE  /\ IsFiniteSet(Wrong(s)') /\ Cardinality(Wrong(s)') <= streak'[s]
                      /\ \A r \in Requests : Subject(r)' = s /\ pc'[r] = "saveStreak" =>
                           seen'[r] = streak'[s]
    BY DEF StreakInv
  <1>1. Unverified(s) /\ OneChallenge(s)
    BY PresumedBefore
  <1>2. /\ IsFiniteSet(Wrong(s)) /\ Cardinality(Wrong(s)) <= streak[s]
        /\ \A r \in Requests : Subject(r) = s /\ pc[r] = "saveStreak" => seen[r] = streak[s]
        /\ Cardinality(Wrong(s)) \in Nat /\ streak[s] \in Nat
    BY <1>1, FS_CardinalityType DEF StreakInv, TypeOK
  <1>3. ASSUME NEW r \in Requests, Subject(r)' = s, r \in Wrong(s)' \/ pc'[r] = "saveStreak"
        PROVE  Subject(r) = s
    <2>1. pc[r] # "idle"
      <3>1. CASE pc'[r] = "saveStreak"
        BY <3>1, SeenStep
      <3>2. CASE r \in Wrong(s)'
        <4>1. SUFFICES ASSUME pc[r] = "idle" PROVE FALSE
          OBVIOUS
        <4>2. reply'[r] \notin {"none", "gone"} \/ pc'[r] = "saveBan"
          BY <3>2 DEF Wrong
        <4>3. pc'[r] \in {"idle", "lock"}
          <5>1. ASSUME NEW q \in Requests, ServerStep(q)
                PROVE  pc'[r] = "idle"
            BY <4>1, <5>1, ServerStepAlone, ServerStepEnds DEF Alone
          <5>2. CASE ~\E q \in Requests : ServerStep(q)
            BY <4>1, <5>2 DEF Next, IssueChallenge, TimePasses, Submit, Acquire, Disconnect,
              Crash, vars, TypeOK
          <5>3. QED
            BY <5>1, <5>2
        <4>4. QED
          BY <4>2, <4>3, KnownStep DEF KnownInv, Known
      <3>3. QED
        BY <1>3, <3>1, <3>2
    <2>2. QED
      BY <1>3, <2>1, ArgsStay DEF Subject
  <1>4. ASSUME NEW w \in Requests, SaveStreak(w), Subject(w) = s, streak'[s] = seen[w] + 1
        PROVE  /\ IsFiniteSet(Wrong(s)') /\ Cardinality(Wrong(s)') <= streak'[s]
               /\ \A r \in Requests : Subject(r)' = s /\ pc'[r] = "saveStreak" =>
                    seen'[r] = streak'[s]
    <2>1. pc[w] = "saveStreak" /\ pc'[w] \in {"saveBan", "done"} /\ Alone(w)
      BY <1>4, ServerStepAlone DEF SaveStreak, ServerStep, Answer, Continue, TypeOK
    <2>2. streak'[s] = streak[s] + 1
      BY <1>2, <1>4, <2>1
    <2>3. Wrong(s)' \subseteq Wrong(s) \cup {w}
      <3>1. ASSUME NEW r \in Requests, r # w, SaveStreak(r)
            PROVE  FALSE
        BY <2>1, <3>1 DEF Alone, SaveStreak, Answer, Continue, TypeOK
      <3>2. \A r \in Wrong(s)' : r \in Requests /\ Subject(r)' = s
        BY DEF Wrong
      <3>3. QED
        BY <1>3, <3>1, <3>2, WrongStep
    <2>4. /\ IsFiniteSet(Wrong(s) \cup {w})
          /\ Cardinality(Wrong(s) \cup {w}) \in Nat
          /\ Cardinality(Wrong(s) \cup {w}) <= Cardinality(Wrong(s)) + 1
      <3>1. /\ IsFiniteSet(Wrong(s) \cup {w})
            /\ Cardinality(Wrong(s) \cup {w}) =
                 IF w \in Wrong(s) THEN Cardinality(Wrong(s)) ELSE Cardinality(Wrong(s)) + 1
        BY <1>2, FS_AddElement
      <3>2. QED
        BY <1>2, <3>1
    <2>5. /\ IsFiniteSet(Wrong(s)') /\ Cardinality(Wrong(s)') \in Nat
          /\ Cardinality(Wrong(s)') <= Cardinality(Wrong(s) \cup {w})
      BY <2>3, <2>4, FS_Subset, FS_CardinalityType
    <2>6. ASSUME NEW r \in Requests, Subject(r)' = s, pc'[r] = "saveStreak"
          PROVE  FALSE
      <3>1. r # w /\ pc[r] \in {"saveStreak", "loadStreak"} /\ Subject(r) = s
        BY <1>3, <2>1, <2>6, SeenStep
      <3>2. Code(r) = Code(w)
        BY <1>1, <1>4, <3>1 DEF OneChallenge
      <3>3. holder[Code(r)] = r /\ holder[Code(w)] = w
        BY <2>1, <3>1 DEF LockInv, Critical
      <3>4. QED
        BY <3>1, <3>2, <3>3
    <2>7. QED
      BY <1>2, <2>2, <2>4, <2>5, <2>6
  <1>5. CASE ~\E w \in Requests : SaveStreak(w) /\ Subject(w) = s /\ streak'[s] = seen[w] + 1
    <2>1. \A r \in Requests : SaveClear(r) => Subject(r) # s
      BY <1>1 DEF SaveClear, Copies, Unverified
    <2>2. streak'[s] = streak[s]
      BY <1>5, <2>1, StreakWrites
    <2>3. Wrong(s)' \subseteq Wrong(s)
      <3>1. \A r \in Wrong(s)' : r \in Requests /\ Subject(r)' = s
        BY DEF Wrong
      <3>2. QED
        BY <1>3, <1>5, <3>1, WrongStep
    <2>4. /\ IsFiniteSet(Wrong(s)') /\ Cardinality(Wrong(s)') \in Nat
          /\ Cardinality(Wrong(s)') <= Cardinality(Wrong(s))
      BY <1>2, <2>3, FS_Subset, FS_CardinalityType
    <2>5. ASSUME NEW r \in Requests, Subject(r)' = s, pc'[r] = "saveStreak"
          PROVE  seen'[r] = streak[s]
      BY <1>2, <1>3, <2>5, SeenStep
    <2>6. QED
      BY <1>2, <2>2, <2>4, <2>5
  <1>6. QED
    BY <1>4, <1>5

\* The streak has counted every 400 of an agent who answers one challenge,
\* however its submissions race, as long as no job is left alone and no
\* statement fails without being noticed.
THEOREM FailuresCountedHolds ==
  ASSUME "swallowed" \notin Faults
  PROVE  AwaitedSpec => []FailuresCounted
  <1>1. Init => Copies /\ StreakInv
    <2> SUFFICES ASSUME Init PROVE Copies /\ StreakInv
      OBVIOUS
    <2>1. Copies
      BY DEF Init, Copies, Absent, NoArgs, Subject, Publishing
    <2>2. \A s : Wrong(s) = {}
      BY DEF Init, Wrong
    <2>3. StreakInv
      BY <2>2, FS_EmptySet DEF Init, StreakInv
    <2>4. QED
      BY <2>1, <2>3
  <1>2. ChallengeInv /\ KnownInv /\ Copies /\ StreakInv /\ [Next]_vars => Copies' /\ StreakInv'
    BY CopiesStep, StreakStep DEF ChallengeInv
  <1>3. TypeOK /\ StreakInv => FailuresCounted
    <2> SUFFICES ASSUME TypeOK, StreakInv, NEW s \in Subjects, Unverified(s), OneChallenge(s)
                 PROVE  Counts(s)
      BY DEF FailuresCounted
    <2> DEFINE W == {r \in Requests : Subject(r) = s /\ reply[r] = "wrong"}
    <2>1. W \subseteq Wrong(s)
      BY DEF Wrong
    <2>2. /\ IsFiniteSet(Wrong(s)) /\ Cardinality(Wrong(s)) <= streak[s] /\ streak[s] \in Nat
      BY DEF StreakInv, TypeOK
    <2>3. /\ Cardinality(W) <= Cardinality(Wrong(s))
          /\ Cardinality(W) \in Nat /\ Cardinality(Wrong(s)) \in Nat
      BY <2>1, <2>2, FS_Subset, FS_CardinalityType
    <2>4. QED
      BY <2>2, <2>3 DEF Counts
  <1>4. QED
    BY <1>1, <1>2, <1>3, TypesHold, ChallengeInvariant, KnownInvariant, AwaitedSpecIsSpec, PTL
       DEF Spec

-----------------------------------------------------------------------------
(* The locks, whatever faults occur, and the servers nobody walks away from. *)

\* Whatever fails, crashes or goes away, the lock of a challenge is free in
\* between two requests that hold it: no step hands it over or takes it away.
THEOREM UsesMutexHolds == Spec => UsesMutex
  <1>1. Init => Mutex!Init
    BY DEF Init, Mutex!Init
  <1>2. ASSUME TypeOK, TypeOK', [Next]_vars, holder' # holder
        PROVE  Mutex!Next
    <2>1. holder' \in [Codes -> Requests \cup {None}]
      BY <1>2 DEF TypeOK
    <2>2. \/ \E r \in Requests : Acquire(r)
          \/ \E r \in Requests : holder' = Released(r)
          \/ holder' = [c \in Codes |-> None]
      <3>1. ASSUME NEW r \in Requests, ServerStep(r)
            PROVE  holder' = Released(r)
        BY <1>2, <3>1, ServerStepEnds DEF Answer, Continue, DropLock
      <3>2. CASE ~\E r \in Requests : ServerStep(r)
        BY <1>2, <3>2 DEF Next, IssueChallenge, TimePasses, Submit, Disconnect, Crash, vars
      <3>3. QED
        BY <3>1, <3>2
    <2>3. ASSUME NEW c \in Codes
          PROVE  holder'[c] = holder[c] \/ holder[c] = None \/ holder'[c] = None
      <3>1. ASSUME NEW r \in Requests, Acquire(r)
            PROVE  holder'[c] = holder[c] \/ holder[c] = None
        BY <1>2, <3>1 DEF Acquire, TypeOK
      <3>2. ASSUME NEW r \in Requests, holder' = Released(r)
            PROVE  holder'[c] = holder[c] \/ holder'[c] = None
        BY <3>2 DEF Released
      <3>3. QED
        BY <2>2, <3>1, <3>2
    <2>4. QED
      BY <2>1, <2>3 DEF Mutex!Next
  <1>3. TypeOK /\ TypeOK' /\ [Next]_vars => [Mutex!Next]_holder
    BY <1>2
  <1>4. QED
    BY <1>1, <1>3, TypesHold, PTL DEF Spec, UsesMutex, Mutex!Spec

\* Without clients that go away every job is awaited: what the theorems say of
\* AwaitedSpec holds of the program as long as no handler's future is dropped.
THEOREM PatientClientsAwait ==
  ASSUME "disconnect" \notin Faults
  PROVE  Spec => AwaitedSpec
  <1> DEFINE NoneGone == \A r \in Requests : reply[r] = "gone" => pc[r] = "done"
  <1>1. Init => NoneGone
    BY DEF Init
  <1>2. ASSUME TypeOK, NoneGone, [Next]_vars PROVE NoneGone'
    <2> SUFFICES ASSUME NEW r \in Requests, reply'[r] = "gone" PROVE pc'[r] = "done"
      OBVIOUS
    <2> USE <1>2
    <2>1. CASE ServerStep(r)
      BY <2>1, ServerStepEnds DEF Answer, Continue, DropLock, TypeOK
    <2>2. ASSUME NEW q \in Requests, q # r, ServerStep(q)
          PROVE  pc'[r] = "done"
      BY <2>2, ServerStepAlone DEF Alone
    <2>3. CASE ~\E q \in Requests : ServerStep(q)
      <3>1. CASE Crash
        BY <3>1 DEF Crash
      <3>2. CASE ~Crash
        BY <2>3, <3>2 DEF Next, IssueChallenge, TimePasses, Submit, Acquire, Disconnect,
          vars, TypeOK, local
      <3>3. QED
        BY <3>1, <3>2
    <2>4. QED
      BY <2>1, <2>2, <2>3
  <1>3. NoneGone' /\ [Next]_vars => [Next /\ JobsAwaited']_vars
    BY DEF JobsAwaited, JobSteps, WriteSteps
  <1>4. TypeOK /\ NoneGone /\ [Next]_vars => NoneGone'
    BY <1>2
  <1>5. QED
    BY <1>1, <1>3, <1>4, TypesHold, PTL DEF Spec, AwaitedSpec

=============================================================================
