----------------------------- MODULE SingleUse -----------------------------
(***************************************************************************)
(* What the verification challenge promises, without requests, locks or    *)
(* copies of rows: a challenge is issued once, is guessed at most          *)
(* MaxAttempts times, ends verified, failed or expired for good, and a     *)
(* verified one opens at most one topic and publishes at most one post.    *)
(***************************************************************************)
EXTENDS Naturals

CONSTANTS Codes, MaxAttempts

VARIABLES
  status,    \* status[c]: the status on record
  attempts,  \* attempts[c]: wrong answers on record
  topics,    \* topics[c]: topics created from the challenge
  posts      \* posts[c]: posts created from the challenge

vars == <<status, attempts, topics, posts>>

Init ==
  /\ status = [c \in Codes |-> "absent"]
  /\ attempts = [c \in Codes |-> 0]
  /\ topics = [c \in Codes |-> 0]
  /\ posts = [c \in Codes |-> 0]

Become(c, from, to) ==
  /\ status[c] = from
  /\ status' = [status EXCEPT ![c] = to]

Issue(c) == Become(c, "absent", "pending") /\ UNCHANGED <<attempts, topics, posts>>

GuessWrong(c) ==
  /\ attempts' = [attempts EXCEPT ![c] = @ + 1]
  /\ attempts[c] < MaxAttempts
  /\ Become(c, "pending",
            IF attempts[c] + 1 = MaxAttempts THEN "failed" ELSE "pending")
  /\ UNCHANGED <<topics, posts>>

Expire(c) == Become(c, "pending", "expired") /\ UNCHANGED <<attempts, topics, posts>>

Verify(c) == Become(c, "pending", "verified") /\ UNCHANGED <<attempts, topics, posts>>

OpenTopic(c) ==
  /\ status[c] = "verified" /\ topics[c] = 0 /\ posts[c] = 0
  /\ topics' = [topics EXCEPT ![c] = 1]
  /\ UNCHANGED <<status, attempts, posts>>

Publish(c) ==
  /\ status[c] = "verified" /\ posts[c] = 0
  /\ posts' = [posts EXCEPT ![c] = 1]
  /\ UNCHANGED <<status, attempts, topics>>

Next == \E c \in Codes :
  Issue(c) \/ GuessWrong(c) \/ Expire(c) \/ Verify(c) \/ OpenTopic(c) \/ Publish(c)

Spec == Init /\ [][Next]_vars
=============================================================================
