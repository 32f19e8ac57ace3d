------------------------ MODULE ClassicPostingProofs ------------------------
(***************************************************************************)
(* Proofs about ClassicPosting: no period sees twice the limit of calls,   *)
(* uploads are served as they were sent, the directory of attachments      *)
(* keeps to its limit, and drafts, topics, mentions and votes that members *)
(* saved are kept.                                                         *)
(***************************************************************************)
EXTENDS ClassicPosting, FiniteSetTheorems, NaturalsInduction, SequenceTheorems,
        WellFoundedInduction, TLAPS

(* The calls that were admitted for a key are in the order of time.         *)
InTime(calls, time) ==
  /\ \A i \in DOMAIN calls : calls[i] <= time
  /\ \A i, j \in DOMAIN calls : i <= j => calls[i] <= calls[j]

(* The first of the calls that a window counts.                             *)
First(calls, window) == Len(calls) - window.count + 1

(* The window counts the last calls that were admitted, and begins with the *)
(* first of them.                                                           *)
WindowCounts(calls, window, limit) ==
  /\ window.count <= limit /\ window.count <= Len(calls)
  /\ Len(calls) > 0 => window.count > 0 /\ window.start = calls[First(calls, window)]

(* A window that begins is later by its length than all but one limit of    *)
(* the calls before, and so is any call than the one two limits before.     *)
Apart(calls, window, limit) ==
  /\ \A j \in DOMAIN calls : j + limit <= First(calls, window)
                               => calls[j] + Window <= window.start
  /\ \A i, k \in DOMAIN calls : k = i + 2 * limit - 1 => calls[i] + Window <= calls[k]

RateInv ==
  /\ now \in Nat
  /\ limits \in [Keys -> [count : Nat, start : Nat]]
  /\ admitted \in [Keys -> Seq(Nat)]
  /\ \A key \in Keys :
       /\ InTime(admitted[key], now)
       /\ WindowCounts(admitted[key], limits[key], MaxCalls[key])
       /\ Apart(admitted[key], limits[key], MaxCalls[key])
-----------------------------------------------------------------------------
(* All that the whole system does to the limiter.                           *)
LEMMA LimiterSteps ==
  [Next]_vars => (\E key \in Keys : allow(key)) \/ Tick \/ UNCHANGED limiter
<1> SUFFICES ASSUME [Next]_vars
             PROVE  (\E key \in Keys : allow(key)) \/ Tick \/ UNCHANGED limiter
  OBVIOUS
<1>1. CASE UNCHANGED vars
  BY <1>1 DEF vars
<1>2. CASE UploadsNext(MessageIds)
  <2>1. CASE Api
    BY <2>1, UploadsAssumption DEF Api, upload_attachment, tell_attachment, Refused
  <2> QED
    BY <1>2, <2>1 DEF UploadsNext
<1>3. CASE UNCHANGED limiter
  BY <1>3
<1> QED
  BY <1>1, <1>2, <1>3 DEF Next

(* One more call, in the window or as the first of a new one.               *)
LEMMA OneMoreCall ==
  ASSUME NEW calls \in Seq(Nat), NEW window \in [count : Nat, start : Nat],
         NEW limit \in Nat \ {0}, NEW time \in Nat, NEW next \in [count : Nat, start : Nat],
         InTime(calls, time), WindowCounts(calls, window, limit), Apart(calls, window, limit),
         \/ /\ time - window.start >= Window \/ window.count = 0
            /\ next.count = 1 /\ next.start = time
         \/ /\ window.count < limit /\ window.count # 0
            /\ next.count = window.count + 1 /\ next.start = window.start
  PROVE  LET more == Append(calls, time) IN
         /\ more \in Seq(Nat)
         /\ InTime(more, time) /\ WindowCounts(more, next, limit) /\ Apart(more, next, limit)
<1> DEFINE n == Len(calls)
           count == window.count
           start == window.start
           first == n - count + 1
           more == Append(calls, time)
<1>1. /\ n \in Nat /\ DOMAIN calls = 1..n /\ count \in Nat /\ start \in Nat
      /\ Window \in Nat \ {0} /\ \A i \in 1..n : calls[i] \in Nat
  BY RateAssumption
<1>2. /\ more \in Seq(Nat) /\ Len(more) = n + 1 /\ DOMAIN more = 1..(n + 1)
      /\ more[n + 1] = time /\ \A i \in 1..n : more[i] = calls[i]
  BY <1>1
<1>3. \A i \in 1..n : calls[i] <= time
  BY <1>1 DEF InTime
<1>4. \A i, j \in 1..n : i <= j => calls[i] <= calls[j]
  BY <1>1 DEF InTime
<1>5. /\ count <= limit /\ count <= n
      /\ n > 0 => count > 0 /\ start = calls[first] /\ first \in 1..n
  BY <1>1 DEF WindowCounts, First
<1>6. /\ \A j \in 1..n : j + limit <= first => calls[j] + Window <= start
      /\ \A i, k \in 1..n : k = i + 2 * limit - 1 => calls[i] + Window <= calls[k]
  BY <1>1 DEF Apart, First
<1>7. \/ /\ time - start >= Window \/ count = 0
         /\ next.count = 1 /\ next.start = time
      \/ /\ count < limit /\ count # 0
         /\ next.count = count + 1 /\ next.start = start
  OBVIOUS
<1> HIDE DEF n, count, start, more
<1>8. InTime(more, time)
  <2>1. \A i \in 1..(n + 1) : more[i] <= time
    BY <1>1, <1>2, <1>3
  <2>2. ASSUME NEW i \in 1..(n + 1), NEW j \in 1..(n + 1), i <= j
        PROVE  more[i] <= more[j]
    <3>1. CASE j = n + 1
      BY <1>2, <2>1, <3>1
    <3>2. CASE j # n + 1
      <4>1. i \in 1..n /\ j \in 1..n
        BY <1>1, <2>2, <3>2
      <4> QED
        BY <1>2, <1>4, <2>2, <4>1
    <3> QED
      BY <3>1, <3>2
  <2> QED
    BY <1>2, <2>1, <2>2 DEF InTime
<1>9. /\ next.count <= limit /\ next.count <= n + 1
      /\ next.count > 0 /\ First(more, next) \in 1..(n + 1)
      /\ next.start = more[First(more, next)]
  <2>1. First(more, next) = (n + 1) - next.count + 1
    BY <1>2 DEF First
  <2>2. CASE next.count = 1 /\ next.start = time
    BY <1>1, <1>2, <2>1, <2>2
  <2>3. CASE count < limit /\ count # 0 /\ next.count = count + 1 /\ next.start = start
    <3>1. First(more, next) = first /\ n > 0
      BY <1>1, <1>5, <2>1, <2>3
    <3> QED
      BY <1>1, <1>2, <1>5, <2>3, <3>1
  <2> QED
    BY <1>7, <2>2, <2>3
<1>10. WindowCounts(more, next, limit)
  BY <1>2, <1>9 DEF WindowCounts
<1>11. ASSUME NEW j \in 1..(n + 1), j + limit <= First(more, next)
       PROVE  more[j] + Window <= next.start
  <2>1. First(more, next) = (n + 1) - next.count + 1
    BY <1>2 DEF First
  <2>2. CASE /\ time - start >= Window \/ count = 0
             /\ next.count = 1 /\ next.start = time
    <3>1. j <= n /\ j \in 1..n /\ n > 0
      BY <1>1, <1>11, <2>1, <2>2
    <3>2. j <= first /\ first \in 1..n /\ start = calls[first] /\ count # 0
      BY <1>1, <1>5, <1>11, <2>1, <2>2, <3>1
    <3>3. calls[j] <= start
      BY <1>4, <3>1, <3>2
    <3>4. more[j] = calls[j] /\ calls[j] \in Nat /\ start \in Nat
      BY <1>1, <1>2, <3>1
    <3>5. time - start >= Window /\ next.start = time /\ time \in Nat /\ Window \in Nat
      BY <1>1, <2>2, <3>2
    <3> QED
      BY <3>3, <3>4, <3>5
  <2>3. CASE count < limit /\ count # 0 /\ next.count = count + 1 /\ next.start = start
    <3>1. First(more, next) = first /\ j \in 1..n
      BY <1>1, <1>5, <1>11, <2>1, <2>3
    <3> QED
      BY <1>2, <1>6, <1>11, <2>3, <3>1
  <2> QED
    BY <1>7, <2>2, <2>3
<1>12. ASSUME NEW i \in 1..(n + 1), NEW k \in 1..(n + 1), k = i + 2 * limit - 1
       PROVE  more[i] + Window <= more[k]
  <2>1. CASE k \in 1..n
    BY <1>1, <1>2, <1>6, <1>12, <2>1
  <2>2. CASE k = n + 1
    <3>1. First(more, next) = (n + 1) - next.count + 1
      BY <1>2 DEF First
    <3>2. i + limit <= First(more, next)
      BY <1>1, <1>9, <1>12, <2>2, <3>1
    <3>3. more[i] + Window <= next.start
      BY <1>11, <3>2
    <3>4. next.start <= time
      BY <1>1, <1>3, <1>5, <1>7
    <3> QED
      BY <1>1, <1>2, <2>2, <3>3, <3>4
  <2> QED
    BY <1>1, <2>1, <2>2
<1>13. Apart(more, next, limit)
  BY <1>2, <1>11, <1>12 DEF Apart
<1> QED
  BY <1>2, <1>8, <1>10, <1>13 DEF more

(* A call that is admitted keeps the windows apart.                         *)
LEMMA AllowKeepsRate ==
  ASSUME RateInv, NEW key \in Keys, allow(key)
  PROVE  RateInv'
<1> DEFINE next == NextWindow(key)
           more == Append(admitted[key], now)
<1>1. /\ now \in Nat /\ now' = now /\ MaxCalls[key] \in Nat \ {0}
      /\ limits \in [Keys -> [count : Nat, start : Nat]]
      /\ admitted \in [Keys -> Seq(Nat)]
      /\ limits[key] \in [count : Nat, start : Nat] /\ admitted[key] \in Seq(Nat)
      /\ InTime(admitted[key], now)
      /\ WindowCounts(admitted[key], limits[key], MaxCalls[key])
      /\ Apart(admitted[key], limits[key], MaxCalls[key])
  BY RateAssumption DEF RateInv, allow
<1>2. /\ next \in [count : Nat, start : Nat]
      /\ \/ /\ now - limits[key].start >= Window \/ limits[key].count = 0
            /\ next.count = 1 /\ next.start = now
         \/ /\ limits[key].count < MaxCalls[key] /\ limits[key].count # 0
            /\ next.count = limits[key].count + 1 /\ next.start = limits[key].start
  <2>1. CASE IsOver(key) \/ limits[key].count = 0
    <3>1. next = [count |-> 1, start |-> now]
      BY <2>1 DEF NextWindow
    <3> QED
      BY <1>1, <2>1, <3>1 DEF IsOver
  <2>2. CASE ~(IsOver(key) \/ limits[key].count = 0)
    <3>1. next = [limits[key] EXCEPT !.count = limits[key].count + 1]
      BY <2>2 DEF NextWindow
    <3>2. limits[key].count < MaxCalls[key] /\ limits[key].count # 0
      BY <2>2 DEF allow
    <3> HIDE DEF next
    <3>3. \A w \in [count : Nat, start : Nat] :
            LET u == [w EXCEPT !.count = w.count + 1]
            IN  /\ u \in [count : Nat, start : Nat]
                /\ u.count = w.count + 1 /\ u.start = w.start
      OBVIOUS
    <3> QED
      BY <1>1, <3>1, <3>2, <3>3
  <2> QED
    BY <2>1, <2>2
<1>3. /\ limits' = [limits EXCEPT ![key] = next]
      /\ admitted' = [admitted EXCEPT ![key] = more]
  BY <1>1 DEF allow
<1> HIDE DEF next
<1>4. /\ more \in Seq(Nat) /\ InTime(more, now)
      /\ WindowCounts(more, next, MaxCalls[key]) /\ Apart(more, next, MaxCalls[key])
  BY <1>1, <1>2, OneMoreCall
<1> HIDE DEF more
<1>5. /\ limits' \in [Keys -> [count : Nat, start : Nat]] /\ limits'[key] = next
      /\ admitted' \in [Keys -> Seq(Nat)] /\ admitted'[key] = more
      /\ \A k \in Keys \ {key} : limits'[k] = limits[k] /\ admitted'[k] = admitted[k]
  BY <1>1, <1>2, <1>3, <1>4
<1>6. ASSUME NEW k \in Keys
      PROVE  /\ InTime(admitted'[k], now')
             /\ WindowCounts(admitted'[k], limits'[k], MaxCalls[k])
             /\ Apart(admitted'[k], limits'[k], MaxCalls[k])
  <2>1. CASE k = key
    BY <1>1, <1>4, <1>5, <2>1
  <2>2. CASE k # key
    BY <1>1, <1>5, <2>2 DEF RateInv
  <2> QED
    BY <2>1, <2>2
<1> QED
  BY <1>1, <1>5, <1>6 DEF RateInv

(* The windows are kept apart, for any limits and any length of a window.   *)
THEOREM RateInvariant == Spec => []RateInv
<1>1. Init => RateInv
  BY RateAssumption DEF Init, UploadsInit, LimiterInit, RateInv, InTime, WindowCounts,
                        Apart, First
<1>2. RateInv /\ [Next]_vars => RateInv'
  <2> SUFFICES ASSUME RateInv, [Next]_vars
               PROVE  RateInv'
    OBVIOUS
  <2>1. CASE \E key \in Keys : allow(key)
    BY <2>1, AllowKeepsRate
  <2>2. CASE Tick
    <3>1. /\ now \in Nat /\ now' = now + 1 /\ UNCHANGED <<limits, admitted>>
      BY <2>2 DEF Tick, RateInv
    <3>2. \A key \in Keys : InTime(admitted[key], now) => InTime(admitted[key], now + 1)
      BY <3>1 DEF RateInv, InTime
    <3> QED
      BY <3>1, <3>2 DEF RateInv
  <2>3. CASE UNCHANGED limiter
    BY <2>3 DEF limiter, RateInv
  <2> QED
    BY <2>1, <2>2, <2>3, LimiterSteps
<1> QED
  BY <1>1, <1>2, PTL DEF Spec

(* No period of the length of a window sees twice the limit of calls.       *)
THEOREM RateKeptHolds == Spec => []RateKept
<1>1. RateInv => RateKept
  <2> SUFFICES ASSUME RateInv, NEW key \in Keys, NEW t \in 0..MaxClock
               PROVE  Cardinality(Within(key, t)) <= 2 * MaxCalls[key] - 1
    BY DEF RateKept
  <2> DEFINE S == Within(key, t)
             calls == admitted[key]
             limit == MaxCalls[key]
  <2>1. /\ limit \in Nat \ {0} /\ Window \in Nat \ {0} /\ t \in Nat
        /\ calls \in Seq(Nat) /\ DOMAIN calls = 1..Len(calls) /\ Len(calls) \in Nat
    BY RateAssumption DEF RateInv
  <2>2. /\ S \subseteq 1..Len(calls)
        /\ \A i \in S : calls[i] \in Nat /\ t <= calls[i] /\ calls[i] < t + Window
    BY <2>1 DEF Within
  <2> HIDE DEF S
  <2>3. CASE S = {}
    BY <2>1, <2>3, FS_EmptySet DEF S
  <2>4. CASE S # {}
    <3>1. PICK i \in S : \A j \in S : i <= j
      <4>1. S \subseteq Nat
        BY <2>1, <2>2
      <4>2. PICK i \in S : \A j \in S : ~(<<j, i>> \in OpToRel(<, Nat))
        BY <2>4, <4>1, NatLessThanWellFounded, WFMin
      <4>3. ASSUME NEW j \in S
            PROVE  i <= j
        <5>1. i \in Nat /\ j \in Nat /\ ~(<<j, i>> \in OpToRel(<, Nat))
          BY <4>1, <4>2
        <5>2. ~(j < i)
          BY <5>1 DEF OpToRel
        <5>3. \A a, b \in Nat : ~(a < b) => b <= a
          OBVIOUS
        <5> QED
          BY <5>1, <5>2, <5>3
      <4> QED
        BY <4>3
    <3>2. /\ InTime(calls, now) /\ Apart(calls, limits[key], limit)
      BY DEF RateInv
    <3> HIDE DEF calls, limit
    <3>3. ASSUME NEW k \in S
          PROVE  k \in i..(i + 2 * limit - 2)
      <4> DEFINE far == i + 2 * limit - 1
      <4>1. i \in 1..Len(calls) /\ k \in 1..Len(calls) /\ i <= k /\ far \in Nat
        BY <2>1, <2>2, <3>1
      <4>2. SUFFICES ASSUME far <= k
                     PROVE  FALSE
        BY <2>1, <4>1
      <4>3. far \in 1..Len(calls)
        BY <2>1, <4>1, <4>2
      <4>4. /\ calls[i] + Window <= calls[far]
            /\ calls[far] <= calls[k]
        BY <2>1, <3>2, <4>1, <4>2, <4>3 DEF Apart, InTime
      <4> HIDE DEF far
      <4>5. calls[i] \in Nat /\ calls[far] \in Nat /\ calls[k] \in Nat
        BY <2>1, <4>1, <4>3
      <4>6. t <= calls[i] /\ calls[k] < t + Window
        BY <2>2
      <4> QED
        BY <2>1, <4>4, <4>5, <4>6
    <3> DEFINE last == i + 2 * limit - 2
    <3>4. i \in Nat /\ last \in Nat /\ i <= last /\ last - i + 1 = 2 * limit - 1
      BY <2>1, <2>2
    <3>5. /\ IsFiniteSet(i..last) /\ Cardinality(i..last) = 2 * limit - 1
      <4> HIDE DEF last
      <4>0. i \in Int /\ last \in Int
        BY <3>4
      <4>1. /\ IsFiniteSet(i..last)
            /\ Cardinality(i..last) = IF i > last THEN 0 ELSE last - i + 1
        BY <4>0, FS_Interval, Zenon
      <4> QED
        BY <3>4, <4>1
    <3>6. S \subseteq i..last
      BY <3>3
    <3> HIDE DEF last
    <3>7. Cardinality(S) <= Cardinality(i..last)
      BY <3>5, <3>6, FS_Subset
    <3> QED
      BY <3>5, <3>7 DEF S, limit
  <2> QED
    BY <2>3, <2>4
<1> QED
  BY <1>1, RateInvariant, PTL
-----------------------------------------------------------------------------
(* The requests, as far as attachments see them.                            *)

FileStages == {"idle", "look", "write", "orphan", "row", "attach", "link", "delete"}
PollStages == {"idle", "options", "votes"}
PostStages == {"idle", "post", "mention"}

(* A request is a record that tells its stage.                              *)
Staged(rq) == rq = [f \in DOMAIN rq |-> rq[f]] /\ "stage" \in DOMAIN rq

ReqInv == DOMAIN req = Requests /\ \A r \in Requests : Staged(req[r])

(* All but one request stay as they are.                                    *)
OneMoves(r) ==
  /\ DOMAIN req' = Requests /\ Staged(req'[r])
  /\ \A o \in Requests \ {r} : req'[o] = req[o]

(* One request moves, and has to do with one part before and after.         *)
Among(r, stages) ==
  OneMoves(r) /\ req[r].stage \in stages /\ req'[r].stage \in stages

(* A request that becomes something moves alone.                            *)
LEMMA BecomeMoves ==
  ASSUME ReqInv, NEW r \in Requests, NEW rq, Become(r, rq), Staged(rq)
  PROVE  OneMoves(r) /\ req'[r] = rq
BY DEF ReqInv, OneMoves, Become

(* A request that goes on with a list keeps its stage or is over.           *)
LEMMA OnwardMoves ==
  ASSUME ReqInv, NEW r \in Requests, Onward(r)
  PROVE  OneMoves(r) /\ req'[r].stage \in {req[r].stage, "idle"}
<1> DEFINE rest == [req[r] EXCEPT !.left = Tail(@)]
<1>1. Staged(req[r])
  BY DEF ReqInv
<1>2. Staged(rest) /\ rest.stage = req[r].stage
  BY <1>1 DEF Staged
<1>3. Staged(Idle) /\ Idle.stage = "idle"
  BY DEF Idle, Staged
<1> HIDE DEF rest
<1>4. CASE Become(r, Idle)
  BY <1>3, <1>4, BecomeMoves
<1>5. CASE Become(r, rest)
  BY <1>2, <1>5, BecomeMoves
<1>6. Become(r, Idle) \/ Become(r, rest)
  BY DEF Onward, rest, Become
<1> QED
  BY <1>4, <1>5, <1>6

(* Drafts, polls and posts do not touch attachments.                        *)
LEMMA DraftsAmong ==
  ASSUME ReqInv, DraftsNext
  PROVE  UNCHANGED req \/ \E r \in Requests : Among(r, PollStages)
<1>1. Staged(Idle) /\ Idle.stage = "idle" /\ "idle" \in PollStages
  BY DEF Idle, Staged, PollStages
<1>2. ASSUME NEW r \in Requests, create_poll(r)
      PROVE  Among(r, PollStages)
  <2> DEFINE rq == [stage |-> "options", poll |-> acts + 1, left |-> SetToSeq(Options)]
  <2>1. Become(r, rq) /\ req[r] = Idle
    BY <1>2 DEF create_poll, Start
  <2>2. Staged(rq) /\ rq.stage = "options"
    BY DEF Staged
  <2> HIDE DEF rq
  <2> QED
    BY <1>1, <2>1, <2>2, BecomeMoves DEF Among, PollStages
<1>3. ASSUME NEW r \in Requests, create_option(r)
      PROVE  Among(r, PollStages)
  <2>1. Onward(r) /\ req[r].stage = "options"
    BY <1>3 DEF create_option
  <2> QED
    BY <2>1, OnwardMoves DEF Among, PollStages
<1>4. ASSUME NEW r \in Requests, cast_vote(r)
      PROVE  Among(r, PollStages)
  <2>1. Onward(r) /\ req[r].stage = "votes"
    BY <1>4 DEF cast_vote
  <2> QED
    BY <2>1, OnwardMoves DEF Among, PollStages
<1>5. ASSUME NEW r \in Requests, PollFails(r)
      PROVE  Among(r, PollStages)
  <2>1. Become(r, Idle) /\ req[r].stage \in {"options", "votes"}
    BY <1>5 DEF PollFails
  <2> QED
    BY <1>1, <2>1, BecomeMoves DEF Among, PollStages
<1>6. ASSUME NEW r \in Requests, NEW id, NEW ballot, vote(r, id, ballot)
      PROVE  Among(r, PollStages)
  <2> DEFINE rq == [stage |-> "votes", poll |-> id, left |-> ballot, ballot |-> ballot]
  <2>1. Become(r, rq) /\ req[r] = Idle
    BY <1>6 DEF vote, Start
  <2>2. Staged(rq) /\ rq.stage = "votes"
    BY DEF Staged
  <2> HIDE DEF rq
  <2> QED
    BY <1>1, <2>1, <2>2, BecomeMoves DEF Among, PollStages
<1>7. \/ UNCHANGED req
      \/ \E r \in Requests : \/ create_poll(r) \/ create_option(r) \/ cast_vote(r) \/ PollFails(r)
                             \/ \E id \in alive, ballot \in Ballots : vote(r, id, ballot)
  <2>1. ASSUME NEW m, NEW id, NEW named, NEW outcome,
               \/ save_draft(m, named, id, outcome) \/ save_pm_draft(m, named, id, outcome)
               \/ delete_draft(m, id) \/ delete_pm_draft(m, id)
        PROVE  UNCHANGED req
    <3>1. ASSUME NEW kind, Save(kind, m, named, id, outcome)
          PROVE  UNCHANGED req
      BY <3>1 DEF Save
    <3>2. ASSUME NEW kind, Delete(kind, m, id)
          PROVE  UNCHANGED req
      BY <3>2 DEF Delete
    <3> QED
      BY <2>1, <3>1, <3>2 DEF save_draft, save_pm_draft, delete_draft, delete_pm_draft
  <2>2. ASSUME NEW id, NEW ballot, vote_in_memory(id, ballot) \/ remove_poll(id)
        PROVE  UNCHANGED req
    BY <2>2 DEF vote_in_memory, remove_poll
  <2>3. create_poll_in_memory => UNCHANGED req
    BY DEF create_poll_in_memory
  <2> QED
    BY <2>1, <2>2, <2>3 DEF DraftsNext
<1> QED
  BY <1>2, <1>3, <1>4, <1>5, <1>6, <1>7

(* Posts and their mentions do not either.                                  *)
LEMMA PostingAmong ==
  ASSUME ReqInv, PostingNext
  PROVE  \E r \in Requests : Among(r, PostStages)
<1>1. Staged(Idle) /\ Idle.stage \in PostStages
  BY DEF Idle, Staged, PostStages
<1>2. ASSUME NEW r \in Requests, NEW rq, Become(r, rq), Staged(rq), rq.stage \in PostStages,
             req[r].stage \in PostStages
      PROVE  Among(r, PostStages)
  BY <1>2, BecomeMoves DEF Among, PostStages
<1>3. ASSUME NEW stage \in {"post", "mention"}, NEW key, NEW body
      PROVE  Staged(Started(stage, key, body)) /\ Started(stage, key, body).stage = stage
  BY DEF Staged, Started
<1>4. ASSUME NEW r \in Requests, NEW key, NEW body, process_mentions(r, key, body),
             req[r].stage \in PostStages
      PROVE  Among(r, PostStages)
  BY <1>1, <1>2, <1>3, <1>4 DEF process_mentions, PostStages
<1>5. ASSUME NEW rq, Staged(rq), rq.stage = "mention", NEW x, NEW y
      PROVE  /\ Staged([rq EXCEPT !.removed = x, !.added = y])
             /\ [rq EXCEPT !.removed = x, !.added = y].stage = "mention"
             /\ Staged([rq EXCEPT !.removed = x]) /\ [rq EXCEPT !.removed = x].stage = "mention"
             /\ Staged([rq EXCEPT !.added = x]) /\ [rq EXCEPT !.added = x].stage = "mention"
             /\ Staged([rq EXCEPT !.at = x]) /\ [rq EXCEPT !.at = x].stage = "mention"
  BY <1>5 DEF Staged
<1>6. ASSUME NEW r \in Requests, NEW rq, Staged(rq), rq.stage = "mention", Goes(r, rq),
             req[r].stage \in PostStages
      PROVE  Among(r, PostStages)
  <2>1. Staged(Proceeds(rq)) /\ Proceeds(rq).stage \in PostStages
    <3>1. /\ Staged([rq EXCEPT !.at = "delete"]) /\ [rq EXCEPT !.at = "delete"].stage = "mention"
          /\ Staged([rq EXCEPT !.at = "insert"]) /\ [rq EXCEPT !.at = "insert"].stage = "mention"
      BY <1>5, <1>6
    <3>2. Proceeds(rq) \in {[rq EXCEPT !.at = "delete"], [rq EXCEPT !.at = "insert"], Idle}
      BY DEF Proceeds
    <3> QED
      BY <1>1, <3>1, <3>2 DEF PostStages
  <2> QED
    BY <1>2, <1>6, <2>1 DEF Goes
<1>7. ASSUME NEW r \in Requests, NEW board, NEW topic, NEW msg, NEW body,
             post_in_memory(r, board, topic, msg, body) \/ post2(r, board, topic, msg, body)
      PROVE  Among(r, PostStages)
  <2>1. CASE post_in_memory(r, board, topic, msg, body)
    <3>1. req[r].stage \in PostStages
      BY <1>1, <2>1 DEF post_in_memory
    <3>2. \E key : process_mentions(r, key, body)
      BY <2>1 DEF post_in_memory
    <3> QED
      BY <1>4, <3>1, <3>2
  <2>2. CASE post2(r, board, topic, msg, body)
    BY <1>1, <1>2, <1>3, <2>2 DEF post2, Start, PostStages
  <2> QED
    BY <1>7, <2>1, <2>2
<1>8. ASSUME NEW r \in Requests, persist_post(r)
      PROVE  Among(r, PostStages)
  BY <1>4, <1>8 DEF persist_post, PostStages
<1>9. ASSUME NEW r \in Requests, modify_mentions(r) \/ delete_mentions(r)
             \/ insert_mentions_in_memory(r) \/ insert_mentions(r) \/ MentionsMissed(r)
      PROVE  Among(r, PostStages)
  <2>1. req[r].stage = "mention" /\ Staged(req[r])
    BY <1>9 DEF ReqInv, modify_mentions, delete_mentions, insert_mentions_in_memory,
                insert_mentions, MentionsMissed
  <2>2. \E x, y : \/ Goes(r, [req[r] EXCEPT !.removed = x, !.added = y])
                  \/ Goes(r, [req[r] EXCEPT !.removed = x])
                  \/ Goes(r, [req[r] EXCEPT !.added = x])
    BY <1>9 DEF modify_mentions, delete_mentions, insert_mentions_in_memory, insert_mentions,
                MentionsMissed
  <2> QED
    BY <1>5, <1>6, <2>1, <2>2 DEF PostStages
<1>10. ASSUME NEW r \in Requests, PostFails(r)
       PROVE  Among(r, PostStages)
  BY <1>1, <1>2, <1>10 DEF PostFails, PostStages
<1> QED
  BY <1>7, <1>8, <1>9, <1>10 DEF PostingNext
-----------------------------------------------------------------------------
(* Uploads.                                                                 *)

Writing(r) == req[r].stage \in {"write", "orphan"} /\ req[r].file \notin crossed

(* An upload writes a file that there is not, and that nobody else is to    *)
(* write, its client there or gone; when it has, the file is as it was      *)
(* sent, and so it stays: unless two have found its name free.              *)
ServedInv ==
  /\ \A r \in Requests : Writing(r) => req[r].file \notin DOMAIN files
  /\ \A r, o \in Requests : Writing(r) /\ Writing(o) /\ req[r].file = req[o].file => r = o
  /\ \A r \in Requests : req[r].stage = "row" =>
       /\ req[r].file \in DOMAIN files
       /\ req[r].file \notin crossed => files[req[r].file] = req[r].n
  /\ \A t \in told : t.file \notin crossed => t.file \in DOMAIN files /\ files[t.file] = t.n
  /\ \A row \in metas : row.n # None => row.file \in DOMAIN files

(* A request that neither is to write nor has written disturbs nothing.     *)
LEMMA ServedFrame ==
  ASSUME ReqInv, ServedInv, UNCHANGED uploads,
         UNCHANGED req \/ \E r \in Requests :
           OneMoves(r) /\ req'[r].stage \notin {"write", "orphan", "row"}
  PROVE  ServedInv'
<1>1. UNCHANGED <<files, metas, told, crossed>>
  BY DEF uploads
<1>2. \A o \in Requests : req'[o] = req[o] \/ req'[o].stage \notin {"write", "orphan", "row"}
  BY DEF OneMoves
<1>3. \A o \in Requests : Writing(o)' => Writing(o) /\ req'[o] = req[o]
  BY <1>1, <1>2 DEF Writing
<1> QED
  BY <1>1, <1>2, <1>3 DEF ServedInv

(* A name is found that is free, or for which another looked too.           *)
LEMMA FindNameServed ==
  ASSUME ReqInv, ServedInv, NEW r \in Requests, FindName(r)
  PROVE  ServedInv' /\ OneMoves(r) /\ req'[r].stage = "write"
<1> DEFINE Finding(f) == [stage |-> "write", file |-> f, n |-> req[r].n]
<1>1. ASSUME NEW f
      PROVE  /\ Staged(Finding(f)) /\ Finding(f).stage = "write" /\ Finding(f).file = f
  BY DEF Staged
<1>2. PICK f : /\ Become(r, Finding(f))
               /\ \/ /\ f \notin DOMAIN files
                     /\ crossed' = IF \E o \in Requests : Writes(o, f)
                                   THEN crossed \union {f} ELSE crossed
                  \/ crossed' = crossed \union {f}
  <2>1. CASE \E f \in FreeNames(req[r].name) :
               /\ Become(r, Finding(f))
               /\ crossed' = IF \E o \in Requests : Writes(o, f)
                             THEN crossed \union {f} ELSE crossed
    <3>1. PICK f \in FreeNames(req[r].name) :
               /\ Become(r, Finding(f))
               /\ crossed' = IF \E o \in Requests : Writes(o, f)
                             THEN crossed \union {f} ELSE crossed
      BY <2>1
    <3>2. f \notin DOMAIN files
      <4>1. PICK n \in 0..MaxFiles : f = <<req[r].name, n>> /\ f \notin Taken(req[r].name)
        BY DEF FreeNames
      <4> QED
        BY <4>1 DEF Taken
    <3> QED
      BY <3>1, <3>2
  <2>2. CASE \E f \in Taken(req[r].name) :
               Become(r, Finding(f)) /\ crossed' = crossed \union {f}
    BY <2>2
  <2> QED
    BY <2>1, <2>2 DEF FindName
<1>3. OneMoves(r) /\ req'[r] = Finding(f)
  BY <1>1, <1>2, BecomeMoves
<1>4. UNCHANGED <<files, metas, told>> /\ crossed \subseteq crossed'
  BY <1>2 DEF FindName
<1>5. /\ \A o \in Requests \ {r} : req'[o] = req[o]
      /\ req'[r].stage = "write" /\ req'[r].file = f
  BY <1>1, <1>3 DEF OneMoves
<1>6. \A o \in Requests \ {r} : Writing(o)' => Writing(o)
  BY <1>4, <1>5 DEF Writing
<1>7. Writing(r)' => f \notin DOMAIN files
                     /\ \A o \in Requests : ~Writes(o, f)
  BY <1>2, <1>5 DEF Writing
<1>8. \A o, q \in Requests : Writing(o)' /\ Writing(q)' /\ req'[o].file = req'[q].file => o = q
  BY <1>5, <1>6, <1>7 DEF ServedInv, Writing, Writes
<1>9. \A o \in Requests : Writing(o)' => req'[o].file \notin DOMAIN files'
  BY <1>4, <1>5, <1>6, <1>7 DEF ServedInv
<1>10. \A o \in Requests : req'[o].stage = "row" =>
         /\ req'[o].file \in DOMAIN files'
         /\ req'[o].file \notin crossed' => files'[req'[o].file] = req'[o].n
  BY <1>4, <1>5 DEF ServedInv
<1>11. ServedInv'
  BY <1>4, <1>8, <1>9, <1>10 DEF ServedInv
<1> QED
  BY <1>3, <1>5, <1>11

(* The file is written, to its end or not.                                  *)
LEMMA WriteFileServed ==
  ASSUME ReqInv, ServedInv, NEW r \in Requests, WriteFile(r)
  PROVE  ServedInv' /\ OneMoves(r) /\ req'[r].stage \in {"row", "idle"}
<1> DEFINE f == req[r].file
<1>1. PICK n : /\ files' = [g \in DOMAIN files \union {f} |-> IF g = f THEN n ELSE files[g]]
               /\ \/ Become(r, Idle)
                  \/ n = req[r].n /\ Become(r, [req[r] EXCEPT !.stage = "row"])
  BY DEF WriteFile, Put
<1>2. /\ req[r].stage \in {"write", "orphan"} /\ Staged(req[r])
      /\ UNCHANGED <<metas, told, crossed>>
  BY DEF WriteFile, ReqInv
<1>3. /\ OneMoves(r)
      /\ \/ req'[r].stage = "idle"
         \/ /\ n = req[r].n /\ req'[r].stage = "row"
            /\ req'[r].file = f /\ req'[r].n = n
  <2>1. Staged(Idle) /\ Idle.stage = "idle"
    BY DEF Idle, Staged
  <2> DEFINE row == [req[r] EXCEPT !.stage = "row"]
  <2>2. Staged(row) /\ row.stage = "row" /\ row.file = req[r].file /\ row.n = req[r].n
    BY <1>2 DEF Staged
  <2> HIDE DEF row
  <2>3. Become(r, Idle) \/ (n = req[r].n /\ Become(r, row))
    BY <1>1 DEF row
  <2> QED
    BY <2>1, <2>2, <2>3, BecomeMoves
<1>4. \A o \in Requests \ {r} : req'[o] = req[o]
  BY <1>3 DEF OneMoves
<1>5. \A o \in Requests : Writing(o)' => o # r /\ Writing(o) /\ req'[o] = req[o]
  BY <1>2, <1>3, <1>4 DEF Writing
<1>6. \A o \in Requests : Writing(o)' => req[o].file # f
  BY <1>2, <1>5 DEF ServedInv, Writing
<1>7. /\ DOMAIN files' = DOMAIN files \union {f} /\ files'[f] = n
      /\ \A g \in DOMAIN files : g # f => files'[g] = files[g]
  BY <1>1
<1>8. f \in DOMAIN files => f \in crossed
  BY <1>2 DEF ServedInv, Writing
<1> HIDE DEF f
<1>9. \A o \in Requests : Writing(o)' => req'[o].file \notin DOMAIN files'
  BY <1>5, <1>6, <1>7 DEF ServedInv
<1>10. \A o, q \in Requests : Writing(o)' /\ Writing(q)' /\ req'[o].file = req'[q].file => o = q
  BY <1>5 DEF ServedInv
<1>11. \A o \in Requests : req'[o].stage = "row" =>
         /\ req'[o].file \in DOMAIN files'
         /\ req'[o].file \notin crossed' => files'[req'[o].file] = req'[o].n
  BY <1>2, <1>3, <1>4, <1>7, <1>8 DEF ServedInv
<1>12. /\ \A t \in told' : t.file \notin crossed' =>
            t.file \in DOMAIN files' /\ files'[t.file] = t.n
       /\ \A row \in metas' : row.n # None => row.file \in DOMAIN files'
  BY <1>2, <1>7, <1>8 DEF ServedInv
<1> QED
  BY <1>3, <1>9, <1>10, <1>11, <1>12 DEF ServedInv

(* The client of a write goes away; the write is to come as before.         *)
LEMMA LeavesServed ==
  ASSUME ReqInv, ServedInv, NEW r \in Requests, ClientLeaves(r)
  PROVE  ServedInv' /\ OneMoves(r) /\ req'[r].stage = "orphan"
<1> DEFINE gone == [req[r] EXCEPT !.stage = "orphan"]
<1>1. /\ Become(r, gone) /\ req[r].stage = "write" /\ Staged(req[r])
      /\ UNCHANGED <<files, metas, told, crossed>>
  BY DEF ClientLeaves, uploads, ReqInv
<1>2. Staged(gone) /\ gone.stage = "orphan" /\ gone.file = req[r].file
  BY <1>1 DEF Staged
<1> HIDE DEF gone
<1>3. OneMoves(r) /\ req'[r] = gone
  BY <1>1, <1>2, BecomeMoves
<1>4. \A o \in Requests :
         /\ req'[o].stage = "row" => req'[o] = req[o]
         /\ Writing(o)' => Writing(o) /\ req'[o].file = req[o].file
  BY <1>1, <1>2, <1>3 DEF OneMoves, Writing
<1> QED
  BY <1>1, <1>2, <1>3, <1>4 DEF ServedInv

(* The row is written, and the upload answered; or the request is over.     *)
LEMMA RowServed ==
  ASSUME ReqInv, ServedInv, NEW r \in Requests, RowIsWritten(r) \/ UploadFails(r)
  PROVE  ServedInv' /\ OneMoves(r) /\ req'[r].stage = "idle"
<1>1. Staged(Idle) /\ Idle.stage = "idle" /\ Become(r, Idle)
  BY DEF Idle, Staged, RowIsWritten, UploadFails
<1>2. OneMoves(r) /\ req'[r].stage = "idle"
  BY <1>1, BecomeMoves
<1>3. UNCHANGED <<files, crossed>>
  BY DEF RowIsWritten, UploadFails
<1>4. \A o \in Requests : req'[o] = req[o] \/ req'[o].stage = "idle"
  BY <1>2 DEF OneMoves
<1>5. \A o \in Requests : Writing(o)' => Writing(o) /\ req'[o] = req[o]
  BY <1>3, <1>4 DEF Writing
<1> DEFINE row == [file |-> req[r].file, n |-> req[r].n]
<1>6. /\ metas' = metas \/ (req[r].stage = "row" /\ metas' = metas \union {row})
      /\ told' = told \/ (req[r].stage = "row" /\ told' = told \union {row})
  BY DEF RowIsWritten, UploadFails, create_attachment_meta
<1>7. /\ \A t \in told' : t.file \notin crossed' =>
            t.file \in DOMAIN files' /\ files'[t.file] = t.n
      /\ \A x \in metas' : x.n # None => x.file \in DOMAIN files'
  BY <1>3, <1>6 DEF ServedInv
<1> QED
  BY <1>2, <1>3, <1>4, <1>5, <1>7 DEF ServedInv
-----------------------------------------------------------------------------
(* The directory of attachments.                                            *)

(* f sums the sizes s from the first number on.                             *)
SumOf(s, f) == f = [i \in 0..MaxFiles |-> IF i = 0 THEN 0 ELSE f[i - 1] + s[i]]

Total(s, n) == \E f : SumOf(s, f) /\ n = f[MaxFiles]

Sizes == [i \in 1..MaxFiles |-> SizeAt(i)]

(* What holds of 0, and of a number if of the one before, holds of all.     *)
LEMMA Upward ==
  ASSUME NEW T, T \subseteq 0..MaxFiles, 0 \notin T,
         \A i \in 1..MaxFiles : i - 1 \notin T => i \notin T
  PROVE  T = {}
<1>1. MaxFiles \in Nat /\ T \subseteq Nat
  BY UploadsAssumption
<1>2. SUFFICES ASSUME T # {}
               PROVE  FALSE
  OBVIOUS
<1>3. PICK i \in T : \A j \in T : ~(<<j, i>> \in OpToRel(<, Nat))
  BY <1>1, <1>2, NatLessThanWellFounded, WFMin
<1>4. i \in 1..MaxFiles /\ i - 1 < i /\ i - 1 \in Nat /\ i \in Nat
  BY <1>1
<1>5. <<i - 1, i>> \in OpToRel(<, Nat)
  BY <1>4 DEF OpToRel
<1> QED
  BY <1>3, <1>4, <1>5

(* Sums of sizes are numbers.                                               *)
LEMMA SumIsNat ==
  ASSUME NEW s \in [1..MaxFiles -> Nat], NEW f, SumOf(s, f)
  PROVE  f \in [0..MaxFiles -> Nat]
<1>1. MaxFiles \in Nat
  BY UploadsAssumption
<1>2. /\ f = [i \in 0..MaxFiles |-> f[i]] /\ f[0] = 0
      /\ \A i \in 1..MaxFiles : f[i] = f[i - 1] + s[i]
  BY <1>1 DEF SumOf
<1> DEFINE T == {i \in 0..MaxFiles : f[i] \notin Nat}
<1>3. ASSUME NEW i \in 1..MaxFiles, i - 1 \notin T
      PROVE  i \notin T
  <2>1. i - 1 \in 0..MaxFiles
    BY <1>1
  <2>2. f[i - 1] \in Nat /\ s[i] \in Nat
    BY <1>3, <2>1
  <2>3. f[i] = f[i - 1] + s[i]
    BY <1>2
  <2>4. f[i] \in Nat
    BY <2>2, <2>3
  <2> QED
    BY <2>4
<1>4. T \subseteq 0..MaxFiles /\ 0 \notin T
  BY <1>2
<1>5. T = {}
  <2> HIDE DEF T
  <2> QED
    BY <1>3, <1>4, Upward
<1> QED
  BY <1>2, <1>5

(* Nothing adds up to nothing.                                              *)
LEMMA SumOfNothing ==
  ASSUME NEW s \in [1..MaxFiles -> {0}]
  PROVE  Total(s, 0) /\ \A n : Total(s, n) => n = 0
<1>1. MaxFiles \in Nat
  BY UploadsAssumption
<1>2. Total(s, 0)
  <2> DEFINE f == [i \in 0..MaxFiles |-> 0]
             g == [i \in 0..MaxFiles |-> IF i = 0 THEN 0 ELSE f[i - 1] + s[i]]
  <2>1. ASSUME NEW i \in 0..MaxFiles
        PROVE  g[i] = 0
    <3>1. CASE i = 0
      BY <3>1
    <3>2. CASE i # 0
      <4>1. i - 1 \in 0..MaxFiles /\ i \in 1..MaxFiles
        BY <1>1, <3>2
      <4>2. f[i - 1] = 0 /\ s[i] = 0
        BY <4>1
      <4> QED
        BY <3>2, <4>2
    <3> QED
      BY <3>1, <3>2
  <2>2. f = g
    BY <2>1
  <2>3. f[MaxFiles] = 0
    BY <1>1
  <2> HIDE DEF f
  <2> QED
    BY <2>2, <2>3 DEF Total, SumOf
<1>3. ASSUME NEW f, SumOf(s, f)
      PROVE  f[MaxFiles] = 0
  <2>1. f[0] = 0 /\ \A i \in 1..MaxFiles : f[i] = f[i - 1] + 0
    BY <1>1, <1>3 DEF SumOf
  <2> DEFINE T == {i \in 0..MaxFiles : f[i] # 0}
  <2>2. ASSUME NEW i \in 1..MaxFiles, i - 1 \notin T
        PROVE  i \notin T
    <3>1. i - 1 \in 0..MaxFiles
      BY <1>1
    <3> QED
      BY <2>1, <2>2, <3>1
  <2>3. T \subseteq 0..MaxFiles /\ 0 \notin T
    BY <2>1
  <2>4. T = {}
    <3> HIDE DEF T
    <3> QED
      BY <2>2, <2>3, Upward
  <2> QED
    BY <1>1, <2>4
<1> QED
  BY <1>2, <1>3 DEF Total

(* A size that changes changes the sum by as much.                          *)
LEMMA TotalShifts ==
  ASSUME NEW s \in [1..MaxFiles -> Nat], NEW t \in [1..MaxFiles -> Nat],
         NEW k \in 1..MaxFiles, \A i \in 1..MaxFiles : i # k => t[i] = s[i]
  PROVE  /\ (\E n : Total(s, n)) => \E n : Total(t, n)
         /\ \A n : Total(t, n) =>
              \E m \in Nat : Total(s, m) /\ n \in Nat /\ n = m - s[k] + t[k]
<1>1. MaxFiles \in Nat /\ k \in Nat /\ s[k] \in Nat /\ t[k] \in Nat
  BY UploadsAssumption
<1>2. ASSUME NEW a \in [1..MaxFiles -> Nat], NEW b \in [1..MaxFiles -> Nat],
             \A i \in 1..MaxFiles : i # k => b[i] = a[i],
             NEW f, SumOf(a, f)
      PROVE  \E g : SumOf(b, g) /\ g[MaxFiles] = f[MaxFiles] - a[k] + b[k]
  <2> DEFINE g == [i \in 0..MaxFiles |-> IF i < k THEN f[i] ELSE f[i] - a[k] + b[k]]
  <2>1. f \in [0..MaxFiles -> Nat]
    BY <1>2, SumIsNat
  <2>a. f = [i \in 0..MaxFiles |-> IF i = 0 THEN 0 ELSE f[i - 1] + a[i]]
    BY <1>2 DEF SumOf
  <2>b. 0 \in 0..MaxFiles /\ \A i \in 1..MaxFiles : i \in 0..MaxFiles /\ i # 0
    BY <1>1
  <2>2. f[0] = 0 /\ \A i \in 1..MaxFiles : f[i] = f[i - 1] + a[i]
    BY <2>a, <2>b
  <2>3. ASSUME NEW i \in 0..MaxFiles
        PROVE  g[i] = IF i = 0 THEN 0 ELSE g[i - 1] + b[i]
    <3>1. CASE i = 0
      BY <1>1, <2>2, <3>1
    <3>2. CASE i # 0 /\ i < k
      <4>1. i \in 1..MaxFiles /\ i - 1 \in 0..MaxFiles /\ i - 1 < k
        BY <1>1, <3>2
      <4> QED
        BY <1>2, <2>2, <3>2, <4>1
    <3>3. CASE i = k
      <4>1. i \in 1..MaxFiles /\ i - 1 \in 0..MaxFiles /\ i - 1 < k
        BY <1>1, <3>3
      <4>2. g[i] = f[i - 1] + a[k] - a[k] + b[k] /\ g[i - 1] = f[i - 1]
        BY <1>1, <2>1, <2>2, <3>3, <4>1
      <4>3. f[i - 1] \in Nat /\ a[k] \in Nat /\ b[k] \in Nat
        BY <1>2, <2>1, <4>1
      <4> QED
        BY <1>1, <3>3, <4>2, <4>3
    <3>4. CASE i > k
      <4>1. i \in 1..MaxFiles /\ i - 1 \in 0..MaxFiles /\ ~(i - 1 < k) /\ ~(i < k)
        BY <1>1, <3>4
      <4>2. f[i] = f[i - 1] + a[i] /\ b[i] = a[i]
        BY <1>1, <1>2, <2>2, <3>4, <4>1
      <4>4. g[i] = f[i] - a[k] + b[k] /\ g[i - 1] = f[i - 1] - a[k] + b[k]
        BY <4>1
      <4>3. f[i - 1] \in Nat /\ a[k] \in Nat /\ b[k] \in Nat /\ a[i] \in Nat
        BY <1>2, <2>1, <4>1
      <4> HIDE DEF g
      <4>5. f[i] - a[k] + b[k] = (f[i - 1] - a[k] + b[k]) + b[i]
        BY <4>2, <4>3
      <4>6. i # 0
        BY <1>1, <3>4
      <4> QED
        BY <4>4, <4>5, <4>6
    <3> QED
      BY <1>1, <3>1, <3>2, <3>3, <3>4
  <2>4. g = [i \in 0..MaxFiles |-> IF i = 0 THEN 0 ELSE g[i - 1] + b[i]]
    <3> DEFINE h == [i \in 0..MaxFiles |-> IF i = 0 THEN 0 ELSE g[i - 1] + b[i]]
    <3>1. \A i \in 0..MaxFiles : g[i] = h[i]
      BY <2>3
    <3> QED
      BY <3>1
  <2>5. g[MaxFiles] = f[MaxFiles] - a[k] + b[k]
    BY <1>1
  <2> HIDE DEF g
  <2> QED
    BY <2>4, <2>5 DEF SumOf
<1>3. ASSUME NEW n, Total(s, n)
      PROVE  \E m : Total(t, m)
  <2>1. PICK f : SumOf(s, f)
    BY <1>3 DEF Total
  <2>2. PICK g : SumOf(t, g)
    BY <1>1, <1>2, <2>1
  <2> QED
    BY <2>2 DEF Total
<1>4. ASSUME NEW n, Total(t, n)
      PROVE  \E m \in Nat : Total(s, m) /\ n \in Nat /\ n = m - s[k] + t[k]
  <2>1. PICK g : SumOf(t, g) /\ n = g[MaxFiles]
    BY <1>4 DEF Total
  <2>2. PICK f : SumOf(s, f) /\ f[MaxFiles] = g[MaxFiles] - t[k] + s[k]
    BY <1>1, <1>2, <2>1
  <2>3. f[MaxFiles] \in Nat /\ g[MaxFiles] \in Nat
    <3>1. f \in [0..MaxFiles -> Nat]
      BY <2>2, SumIsNat
    <3>2. g \in [0..MaxFiles -> Nat]
      BY <1>1, <2>1, SumIsNat
    <3> QED
      BY <1>1, <3>1, <3>2
  <2>4. Total(s, f[MaxFiles])
    BY <2>2 DEF Total
  <2> QED
    BY <1>1, <2>1, <2>2, <2>3, <2>4
<1> QED
  BY <1>3, <1>4

(* What is stored is the sum of the sizes, if there is one.                 *)
LEMMA StoredIsTotal == (\E n : Total(Sizes, n)) => Total(Sizes, Stored)
<1> SUFFICES ASSUME NEW f, SumOf(Sizes, f)
             PROVE  Total(Sizes, Stored)
  BY DEF Total
<1> DEFINE sum[i \in 0..MaxFiles] == IF i = 0 THEN 0 ELSE sum[i - 1] + SizeAt(i)
<1>1. MaxFiles \in Nat
  BY UploadsAssumption
<1>2. \A g : SumOf(Sizes, g)
             <=> g = [i \in 0..MaxFiles |-> IF i = 0 THEN 0 ELSE g[i - 1] + SizeAt(i)]
  <2>1. \A i \in 0..MaxFiles : i # 0 => Sizes[i] = SizeAt(i)
    BY <1>1 DEF Sizes
  <2>2. ASSUME NEW g
        PROVE  [i \in 0..MaxFiles |-> IF i = 0 THEN 0 ELSE g[i - 1] + Sizes[i]]
               = [i \in 0..MaxFiles |-> IF i = 0 THEN 0 ELSE g[i - 1] + SizeAt(i)]
    BY <2>1
  <2> QED
    BY <2>2 DEF SumOf
<1>3. sum = [i \in 0..MaxFiles |-> IF i = 0 THEN 0 ELSE sum[i - 1] + SizeAt(i)]
  BY <1>2
<1>4. SumOf(Sizes, sum)
  BY <1>2, <1>3
<1>5. Stored = sum[MaxFiles]
  BY DEF Stored
<1> QED
  BY <1>4, <1>5 DEF Total

Attachment ==
  [stage : {"attach"}, at : {"usage", "store", "count"}, left : Seq(Nat \ {0}),
   dir_size : Nat, total_files : Nat, size : Nat]

(* What a request reckons with is not below what is stored, if no other     *)
(* attaches; and it has not passed the limit.                               *)
Reckons(r, total) ==
  LET rq == req[r] IN
  /\ rq.at = "store" => total <= rq.dir_size
  /\ rq.at = "count" => total <= rq.dir_size + rq.size /\ rq.dir_size + rq.size <= DirSizeBytes

(* The sum of the sizes of the attachments is within what is counted.       *)
InBounds(total) ==
  /\ total \in Nat /\ total <= dir_usage.size
  /\ ~overlapped => total <= DirSizeBytes /\ \A r \in Attaching : Reckons(r, total)

QuotaTypes ==
  /\ next_attach_id \in 1..(MaxFiles + 1)
  /\ DOMAIN attachments \subseteq 1..(next_attach_id - 1)
  /\ \A i \in DOMAIN attachments :
       "size" \in DOMAIN attachments[i] /\ attachments[i].size \in Nat
  /\ dir_usage.size \in Nat
  /\ \A r \in Attaching : req[r] \in Attachment /\ req[r].left # <<>>

QuotaInv ==
  /\ QuotaTypes
  /\ ~overlapped => \A r, o \in Attaching : r = o
  /\ \E n : Total(Sizes, n)
  /\ \A n : Total(Sizes, n) => InBounds(n)

(* The sizes are numbers.                                                   *)
LEMMA SizesAreNat ==
  ASSUME QuotaTypes
  PROVE  Sizes \in [1..MaxFiles -> Nat]
BY DEF QuotaTypes, Sizes, SizeAt

(* A step that leaves the directory alone, but for attachments that are     *)
(* removed or linked, by a request that does not attach.                    *)
LEMMA QuotaFrame ==
  ASSUME QuotaInv, ReqInv, UNCHANGED <<next_attach_id, dir_usage, overlapped>>,
         UNCHANGED req
           \/ \E r \in Requests : OneMoves(r) /\ req[r].stage # "attach"
                                  /\ req'[r].stage # "attach",
         \/ UNCHANGED attachments
         \/ \E i, m : /\ i \in DOMAIN attachments
                      /\ attachments' = [attachments EXCEPT ![i].message = m]
         \/ \E i : attachments' = [j \in DOMAIN attachments \ {i} |-> attachments[j]]
  PROVE  QuotaInv'
<1>1. Attaching' = Attaching /\ \A r \in Attaching : req'[r] = req[r]
  <2>1. CASE UNCHANGED req
    BY <2>1 DEF Attaching
  <2>2. ASSUME NEW r \in Requests, OneMoves(r), req[r].stage # "attach",
               req'[r].stage # "attach"
        PROVE  Attaching' = Attaching /\ \A o \in Attaching : req'[o] = req[o]
    BY <2>2 DEF Attaching, OneMoves
  <2> QED
    BY <2>1, <2>2
<1>2. /\ DOMAIN attachments' \subseteq DOMAIN attachments
      /\ \A i \in DOMAIN attachments' :
           /\ "size" \in DOMAIN attachments'[i] /\ attachments'[i].size = attachments[i].size
  <2>0. \A i \in DOMAIN attachments : "size" \in DOMAIN attachments[i]
    BY DEF QuotaInv, QuotaTypes
  <2>1. CASE UNCHANGED attachments
    BY <2>0, <2>1
  <2>2. ASSUME NEW i \in DOMAIN attachments, NEW m,
               attachments' = [attachments EXCEPT ![i].message = m]
        PROVE  /\ DOMAIN attachments' = DOMAIN attachments
               /\ \A j \in DOMAIN attachments :
                    /\ "size" \in DOMAIN attachments'[j]
                    /\ attachments'[j].size = attachments[j].size
    <3> DEFINE x == [attachments[i] EXCEPT !.message = m]
    <3>1. "size" \in DOMAIN x /\ x.size = attachments[i].size
      BY <2>0
    <3>2. attachments' = [attachments EXCEPT ![i] = x]
      BY <2>2
    <3> HIDE DEF x
    <3>3. \A j \in DOMAIN attachments : attachments'[j] = IF j = i THEN x ELSE attachments[j]
      BY <3>2
    <3> QED
      BY <2>0, <3>1, <3>2, <3>3
  <2>3. CASE \E i : attachments' = [j \in DOMAIN attachments \ {i} |-> attachments[j]]
    BY <2>0, <2>3
  <2> QED
    BY <2>1, <2>2, <2>3
<1>3. QuotaTypes'
  BY <1>1, <1>2 DEF QuotaInv, QuotaTypes
<1>4. \/ Sizes' = Sizes
      \/ \E k \in 1..MaxFiles : Sizes' = [Sizes EXCEPT ![k] = 0]
  <2>1. CASE DOMAIN attachments' = DOMAIN attachments
    BY <1>2, <2>1 DEF Sizes, SizeAt
  <2>2. CASE DOMAIN attachments' # DOMAIN attachments
    <3>1. PICK i : DOMAIN attachments' = DOMAIN attachments \ {i}
      BY <2>2
    <3>2. i \in DOMAIN attachments
      BY <2>2, <3>1
    <3>3. i \in 1..MaxFiles
      BY <3>2, UploadsAssumption DEF QuotaInv, QuotaTypes
    <3>4. \A j \in 1..MaxFiles : SizeAt(j)' = IF j = i THEN 0 ELSE SizeAt(j)
      BY <1>2, <3>1 DEF SizeAt
    <3>5. Sizes' = [Sizes EXCEPT ![i] = 0]
      BY <3>3, <3>4 DEF Sizes
    <3> QED
      BY <3>3, <3>5
  <2> QED
    BY <2>1, <2>2
<1>5. /\ \E n : Total(Sizes', n)
      /\ \A n : Total(Sizes', n) => \E m \in Nat : Total(Sizes, m) /\ n \in Nat /\ n <= m
  <2>0. Sizes \in [1..MaxFiles -> Nat]
    BY SizesAreNat DEF QuotaInv
  <2>1. CASE Sizes' = Sizes
    BY <2>1 DEF QuotaInv, InBounds
  <2>2. ASSUME NEW k \in 1..MaxFiles, Sizes' = [Sizes EXCEPT ![k] = 0]
        PROVE  /\ \E n : Total(Sizes', n)
               /\ \A n : Total(Sizes', n) =>
                    \E m \in Nat : Total(Sizes, m) /\ n \in Nat /\ n <= m
    <3>1. ASSUME NEW s, NEW t, s = Sizes, t = Sizes'
          PROVE  /\ (\E n : Total(s, n)) => \E n : Total(t, n)
                 /\ \A n : Total(t, n) =>
                      \E m \in Nat : Total(s, m) /\ n \in Nat /\ n = m - s[k] + 0
      <4>1. /\ s \in [1..MaxFiles -> Nat] /\ t \in [1..MaxFiles -> Nat] /\ t[k] = 0
            /\ \A i \in 1..MaxFiles : i # k => t[i] = s[i]
        BY <2>0, <2>2, <3>1
      <4>2. \A n : Total(t, n) =>
              \E m \in Nat : Total(s, m) /\ n \in Nat /\ n = m - s[k] + t[k]
        BY <4>1, TotalShifts, Zenon
      <4>3. (\E n : Total(s, n)) => \E n : Total(t, n)
        BY <4>1, TotalShifts, Zenon
      <4> QED
        BY <4>1, <4>2, <4>3
    <3>2. Sizes[k] \in Nat
      BY <2>0
    <3> HIDE DEF Sizes, Total
    <3> QED
      BY <3>1, <3>2 DEF QuotaInv
  <2> QED
    BY <1>4, <2>1, <2>2
<1>6. ASSUME NEW n, Total(Sizes', n)
      PROVE  InBounds(n)'
  <2>1. PICK m \in Nat : Total(Sizes, m) /\ n \in Nat /\ n <= m
    BY <1>5, <1>6
  <2>2. InBounds(m)
    BY <2>1 DEF QuotaInv
  <2>3. n <= dir_usage.size /\ (~overlapped => n <= DirSizeBytes)
    BY <2>1, <2>2, UploadsAssumption DEF InBounds, QuotaInv, QuotaTypes
  <2>4. ASSUME ~overlapped, NEW r \in Attaching
        PROVE  Reckons(r, n)'
    <3>1. Reckons(r, m) /\ req[r] \in Attachment /\ req'[r] = req[r]
      BY <1>1, <2>2, <2>4 DEF InBounds, QuotaInv, QuotaTypes
    <3>2. req[r].dir_size \in Nat /\ req[r].size \in Nat
      BY <3>1 DEF Attachment
    <3> QED
      BY <2>1, <3>1, <3>2, UploadsAssumption DEF Reckons
  <2> QED
    BY <1>1, <2>1, <2>3, <2>4 DEF InBounds
<1> QED
  BY <1>1, <1>3, <1>5, <1>6 DEF QuotaInv

(* A request that attaches goes on or is over, and may count more bytes.    *)
LEMMA AttachFrame ==
  ASSUME QuotaInv, NEW r \in Requests, OneMoves(r), req[r].stage = "attach",
         UNCHANGED <<attachments, next_attach_id, overlapped>>,
         dir_usage'.size \in Nat, dir_usage.size <= dir_usage'.size,
         req'[r].stage = "attach" =>
           /\ req'[r] \in Attachment /\ req'[r].left # <<>>
           /\ \A total \in Nat : Reckons(r, total) /\ total <= dir_usage.size => Reckons(r, total)'
  PROVE  QuotaInv'
<1>1. /\ Attaching' \subseteq Attaching /\ r \in Attaching
      /\ \A o \in Attaching' : o # r => req'[o] = req[o]
  BY DEF Attaching, OneMoves
<1>2. r \in Attaching' => /\ req'[r] \in Attachment /\ req'[r].left # <<>>
                          /\ \A total \in Nat : Reckons(r, total) /\ total <= dir_usage.size
                               => Reckons(r, total)'
  BY DEF Attaching
<1>3. QuotaTypes'
  BY <1>1, <1>2 DEF QuotaInv, QuotaTypes
<1>4. ~overlapped' => \A o, q \in Attaching' : o = q
  BY <1>1 DEF QuotaInv
<1>5. Sizes' = Sizes
  BY DEF Sizes, SizeAt
<1>6. ASSUME NEW n, Total(Sizes, n)
      PROVE  InBounds(n)'
  <2>1. InBounds(n) /\ dir_usage.size \in Nat
    BY <1>6 DEF QuotaInv, QuotaTypes
  <2>2. n \in Nat /\ n <= dir_usage.size /\ n <= dir_usage'.size
    BY <2>1 DEF InBounds
  <2>3. ASSUME ~overlapped, NEW o \in Attaching'
        PROVE  Reckons(o, n)'
    <3>1. CASE o = r
      BY <1>1, <1>2, <2>1, <2>2, <2>3, <3>1 DEF InBounds
    <3>2. CASE o # r
      BY <1>1, <2>1, <2>3, <3>2 DEF InBounds, Reckons
    <3> QED
      BY <3>1, <3>2
  <2> QED
    BY <2>1, <2>2, <2>3 DEF InBounds
<1> QED
  BY <1>3, <1>4, <1>5, <1>6 DEF QuotaInv

(* A request begins to attach.                                              *)
LEMMA ProcessQuota ==
  ASSUME ReqInv, QuotaInv, NEW r \in Requests, NEW sizes \in Batches,
         process_attachments(r, sizes)
  PROVE  QuotaInv' /\ OneMoves(r) /\ req'[r].stage = "attach"
<1> DEFINE rq == [stage |-> "attach", at |-> "usage", left |-> sizes, dir_size |-> 0,
                  total_files |-> 0, size |-> 0]
<1>1. /\ Become(r, rq) /\ Len(sizes) > 0 /\ req[r] = Idle
      /\ overlapped' = (overlapped \/ Attaching # {})
      /\ UNCHANGED <<attachments, next_attach_id, dir_usage>>
  BY DEF process_attachments, Start
<1>2. /\ Staged(rq) /\ rq.stage = "attach" /\ rq.at = "usage" /\ rq \in Attachment
      /\ rq.left # <<>>
  BY <1>1, UploadsAssumption DEF Staged, Attachment
<1> HIDE DEF rq
<1>3. OneMoves(r) /\ req'[r] = rq
  BY <1>1, <1>2, BecomeMoves
<1>4. /\ Attaching' = Attaching \union {r}
      /\ \A o \in Attaching : req'[o] = req[o]
  <2>1. r \notin Attaching
    BY <1>1 DEF Attaching, Idle
  <2> QED
    BY <1>2, <1>3, <2>1 DEF Attaching, OneMoves
<1>5. QuotaTypes'
  BY <1>1, <1>2, <1>3, <1>4 DEF QuotaInv, QuotaTypes
<1>6. ~overlapped' => ~overlapped /\ Attaching = {}
  BY <1>1
<1>7. Sizes' = Sizes
  BY <1>1 DEF Sizes, SizeAt
<1>8. ASSUME NEW n, Total(Sizes, n)
      PROVE  InBounds(n)'
  <2>1. InBounds(n)
    BY <1>8 DEF QuotaInv
  <2>2. Reckons(r, n)'
    BY <1>2, <1>3 DEF Reckons
  <2> QED
    BY <1>1, <1>4, <1>6, <2>1, <2>2 DEF InBounds
<1> QED
  BY <1>2, <1>3, <1>4, <1>5, <1>6, <1>7, <1>8 DEF QuotaInv

(* It reads the usage of the directory.                                     *)
LEMMA UsageQuota ==
  ASSUME ReqInv, QuotaInv, NEW r \in Requests, attachment_dir_usage(r)
  PROVE  QuotaInv' /\ OneMoves(r) /\ req'[r].stage = "attach"
<1> DEFINE rq == [req[r] EXCEPT !.at = "store", !.dir_size = dir_usage.size]
<1>1. /\ Become(r, rq) /\ req[r].stage = "attach"
      /\ UNCHANGED <<attachments, next_attach_id, dir_usage, overlapped>>
  BY DEF attachment_dir_usage, attached
<1>2. /\ Staged(req[r]) /\ req[r] \in Attachment /\ req[r].left # <<>> /\ dir_usage.size \in Nat
  BY <1>1 DEF ReqInv, QuotaInv, QuotaTypes, Attaching
<1>3. /\ Staged(rq) /\ rq.stage = "attach" /\ rq.at = "store" /\ rq \in Attachment
      /\ rq.left # <<>> /\ rq.dir_size = dir_usage.size
  BY <1>1, <1>2 DEF Staged, Attachment
<1> HIDE DEF rq
<1>4. OneMoves(r) /\ req'[r] = rq
  BY <1>1, <1>3, BecomeMoves
<1>5. \A total \in Nat : Reckons(r, total) /\ total <= dir_usage.size => Reckons(r, total)'
  BY <1>3, <1>4 DEF Reckons
<1>6. QuotaInv'
  BY <1>1, <1>2, <1>3, <1>4, <1>5, AttachFrame
<1> QED
  BY <1>3, <1>4, <1>6

(* It counts what it has stored again, and goes on to the next file.        *)
LEMMA UpdateQuota ==
  ASSUME ReqInv, QuotaInv, NEW r \in Requests, update_attachment_dir_usage(r)
  PROVE  QuotaInv' /\ OneMoves(r) /\ req'[r].stage \in {"attach", "idle"}
<1> DEFINE rq == [req[r] EXCEPT !.at = "store", !.left = Tail(@), !.dir_size = @ + req[r].size,
                                !.total_files = @ + 1]
<1>1. /\ req[r].stage = "attach" /\ req[r].at = "count"
      /\ dir_usage'.size = dir_usage.size + req[r].size
      /\ UNCHANGED <<attachments, next_attach_id, overlapped>>
      /\ Become(r, Idle) \/ (Len(req[r].left) # 1 /\ Become(r, rq))
  BY DEF update_attachment_dir_usage, Counted, Become
<1>2. /\ Staged(req[r]) /\ req[r] \in Attachment /\ req[r].left # <<>> /\ dir_usage.size \in Nat
  BY <1>1 DEF ReqInv, QuotaInv, QuotaTypes, Attaching
<1>3. /\ dir_usage'.size \in Nat /\ dir_usage.size <= dir_usage'.size
  BY <1>1, <1>2 DEF Attachment
<1>4. Staged(Idle) /\ Idle.stage = "idle"
  BY DEF Idle, Staged
<1>5. CASE Become(r, Idle)
  <2>1. OneMoves(r) /\ req'[r].stage = "idle"
    BY <1>4, <1>5, BecomeMoves
  <2> QED
    BY <1>1, <1>3, <2>1, AttachFrame
<1>6. CASE Len(req[r].left) # 1 /\ Become(r, rq)
  <2>1. /\ req[r].left \in Seq(Nat \ {0}) /\ req[r].dir_size \in Nat /\ req[r].size \in Nat
        /\ req[r].total_files \in Nat
    BY <1>2 DEF Attachment
  <2>2. Tail(req[r].left) \in Seq(Nat \ {0}) /\ Tail(req[r].left) # <<>>
    <3>1. ASSUME NEW S, NEW s \in Seq(S), s # <<>>, Len(s) # 1
          PROVE  Tail(s) \in Seq(S) /\ Tail(s) # <<>>
      <4>1. Len(s) \in Nat
        BY <3>1
      <4>2. Len(s) # 0
        BY <3>1, EmptySeq
      <4>3. Tail(s) \in Seq(S)
        BY <3>1
      <4>4. Len(Tail(s)) = Len(s) - 1
        BY <3>1
      <4>5. Len(<<>>) = 0
        OBVIOUS
      <4>6. Len(Tail(s)) # 0
        BY <3>1, <4>1, <4>2, <4>4
      <4>7. Tail(s) # <<>>
        BY <4>5, <4>6, Zenon
      <4> QED
        BY <4>3, <4>7
    <3> QED
      BY <1>2, <1>6, <2>1, <3>1
  <2>3. /\ Staged(rq) /\ rq.stage = "attach" /\ rq.at = "store" /\ rq \in Attachment
        /\ rq.left = Tail(req[r].left) /\ rq.dir_size = req[r].dir_size + req[r].size
    <3> DEFINE left == Tail(req[r].left)
               n == req[r].dir_size + req[r].size
               m == req[r].total_files + 1
               size == req[r].size
    <3>1. left \in Seq(Nat \ {0}) /\ n \in Nat /\ m \in Nat /\ size \in Nat
      <4>1. left \in Seq(Nat \ {0})
        BY <2>2, Zenon
      <4>2. n \in Nat /\ m \in Nat /\ size \in Nat
        BY <2>1
      <4> QED
        BY <4>1, <4>2, Zenon
    <3>2. rq = [req[r] EXCEPT !.at = "store", !.left = left, !.dir_size = n,
                              !.total_files = m]
      BY <1>2 DEF Attachment
    <3> HIDE DEF rq, left, n, m
    <3>3. rq = [stage |-> "attach", at |-> "store", left |-> left, dir_size |-> n,
                total_files |-> m, size |-> size]
      BY <1>1, <1>2, <3>2 DEF Attachment
    <3> HIDE DEF size
    <3>4. /\ Staged(rq) /\ rq.stage = "attach" /\ rq.at = "store"
          /\ rq \in Attachment /\ rq.left = left /\ rq.dir_size = n
      BY <3>1, <3>3 DEF Staged, Attachment
    <3> QED
      BY <3>4 DEF left, n
  <2> HIDE DEF rq
  <2>4. OneMoves(r) /\ req'[r] = rq
    BY <1>6, <2>3, BecomeMoves
  <2>5. \A total \in Nat : Reckons(r, total) /\ total <= dir_usage.size => Reckons(r, total)'
    BY <1>1, <2>3, <2>4 DEF Reckons
  <2>6. QuotaInv'
    BY <1>1, <1>3, <2>2, <2>3, <2>4, <2>5, AttachFrame
  <2> QED
    BY <2>3, <2>4, <2>6
<1> QED
  BY <1>1, <1>5, <1>6

(* When one size changes, so does the sum.                                  *)
LEMMA OneSizeChanges ==
  ASSUME QuotaTypes, QuotaTypes', NEW k \in 1..MaxFiles,
         \A i \in 1..MaxFiles : i # k => SizeAt(i)' = SizeAt(i)
  PROVE  /\ (\E n : Total(Sizes, n)) => \E n : Total(Sizes', n)
         /\ \A n : Total(Sizes', n) =>
              \E m \in Nat : Total(Sizes, m) /\ n \in Nat /\ n = m - SizeAt(k) + SizeAt(k)'
<1>1. Sizes \in [1..MaxFiles -> Nat]
  BY SizesAreNat
<1>2. Sizes' \in [1..MaxFiles -> Nat]
  BY DEF QuotaTypes, Sizes, SizeAt
<1>3. /\ \A i \in 1..MaxFiles : i # k => Sizes'[i] = Sizes[i]
      /\ Sizes[k] = SizeAt(k) /\ Sizes'[k] = SizeAt(k)'
  BY DEF Sizes
<1> HIDE DEF Sizes, SizeAt
<1>4. ASSUME NEW s, NEW t, s = Sizes, t = Sizes'
      PROVE  /\ (\E n : Total(s, n)) => \E n : Total(t, n)
             /\ \A n : Total(t, n) =>
                  \E m \in Nat : Total(s, m) /\ n \in Nat /\ n = m - s[k] + t[k]
  <2>1. /\ s \in [1..MaxFiles -> Nat] /\ t \in [1..MaxFiles -> Nat]
        /\ \A i \in 1..MaxFiles : i # k => t[i] = s[i]
    BY <1>1, <1>2, <1>3, <1>4
  <2> QED
    BY <2>1, TotalShifts, Zenon
<1> QED
  BY <1>3, <1>4

(* It stores the next file and counts it, or is refused.                    *)
LEMMA StoreQuota ==
  ASSUME ReqInv, QuotaInv, NEW r \in Requests, store_attachment(r)
  PROVE  QuotaInv' /\ OneMoves(r) /\ req'[r].stage \in {"attach", "idle"}
<1> DEFINE size == Head(req[r].left)
           rq == [req[r] EXCEPT !.at = "count", !.size = size]
<1>0. PICK k : k = next_attach_id
  OBVIOUS
<1>1. /\ req[r].stage = "attach" /\ req[r].at = "store" /\ UNCHANGED overlapped
      /\ \/ /\ Become(r, Idle) /\ UNCHANGED <<attachments, next_attach_id, dir_usage>>
         \/ /\ req[r].dir_size + size <= DirSizeBytes
            /\ k <= MaxFiles
            /\ attachments' = [i \in DOMAIN attachments \union {k} |->
                 IF i = k THEN [size |-> size, message |-> None] ELSE attachments[i]]
            /\ next_attach_id' = k + 1
            /\ dir_usage'.size = dir_usage.size + size
            /\ Become(r, rq)
  BY <1>0 DEF store_attachment, Put, enforce_dir_limit, Counted
<1>2. /\ Staged(req[r]) /\ req[r] \in Attachment /\ req[r].left # <<>> /\ dir_usage.size \in Nat
      /\ r \in Attaching
  BY <1>1 DEF ReqInv, QuotaInv, QuotaTypes, Attaching
<1>3. size \in Nat
  <2>1. ASSUME NEW S, NEW s \in Seq(S), s # <<>>
        PROVE  Head(s) \in S
    BY <2>1, HeadTailProperties
  <2>2. size \in Nat \ {0}
    BY <1>2, <2>1 DEF Attachment
  <2> QED
    BY <2>2
<1> HIDE DEF size
<1>4. CASE Become(r, Idle) /\ UNCHANGED <<attachments, next_attach_id, dir_usage>>
  <2>1. Staged(Idle) /\ Idle.stage = "idle"
    BY DEF Idle, Staged
  <2>2. OneMoves(r) /\ req'[r].stage = "idle"
    BY <1>4, <2>1, BecomeMoves
  <2>3. dir_usage'.size = dir_usage.size
    BY <1>4
  <2> QED
    BY <1>1, <1>2, <1>4, <2>2, <2>3, AttachFrame
<1>5. CASE /\ req[r].dir_size + size <= DirSizeBytes
           /\ k <= MaxFiles
           /\ attachments' = [i \in DOMAIN attachments \union {k} |->
                IF i = k THEN [size |-> size, message |-> None] ELSE attachments[i]]
           /\ next_attach_id' = k + 1
           /\ dir_usage'.size = dir_usage.size + size
           /\ Become(r, rq)
  <2>1. /\ Staged(rq) /\ rq.stage = "attach" /\ rq.at = "count" /\ rq \in Attachment
        /\ rq.left = req[r].left /\ rq.dir_size = req[r].dir_size /\ rq.size = size
    BY <1>1, <1>2, <1>3 DEF Staged, Attachment
  <2> HIDE DEF rq
  <2>2. OneMoves(r) /\ req'[r] = rq
    BY <1>5, <2>1, BecomeMoves
  <2>3. Attaching' = Attaching /\ \A o \in Attaching \ {r} : req'[o] = req[o]
    BY <1>2, <2>1, <2>2 DEF Attaching, OneMoves
  <2>4. k \in 1..MaxFiles /\ k \notin DOMAIN attachments
    BY <1>0, <1>5, UploadsAssumption DEF QuotaInv, QuotaTypes
  <2>5. /\ DOMAIN attachments' = DOMAIN attachments \union {k}
        /\ "size" \in DOMAIN attachments'[k] /\ attachments'[k].size = size
        /\ \A i \in DOMAIN attachments : attachments'[i] = attachments[i]
    BY <1>5, <2>4
  <2>6. QuotaTypes'
    <3>1. next_attach_id' \in 1..(MaxFiles + 1)
      BY <1>5, <2>4, UploadsAssumption
    <3>2. DOMAIN attachments' \subseteq 1..(next_attach_id' - 1)
      BY <1>0, <1>5, <2>4, <2>5, UploadsAssumption DEF QuotaInv, QuotaTypes
    <3>3. \A i \in DOMAIN attachments' :
            "size" \in DOMAIN attachments'[i] /\ attachments'[i].size \in Nat
      BY <1>3, <2>5 DEF QuotaInv, QuotaTypes
    <3>4. \A o \in Attaching' : req'[o] \in Attachment /\ req'[o].left # <<>>
      BY <1>2, <2>1, <2>2, <2>3 DEF QuotaInv, QuotaTypes
    <3>5. dir_usage'.size \in Nat
      BY <1>2, <1>3, <1>5
    <3> QED
      BY <3>1, <3>2, <3>3, <3>4, <3>5 DEF QuotaTypes
  <2>7. /\ SizeAt(k) = 0 /\ SizeAt(k)' = size
        /\ \A i \in 1..MaxFiles : i # k => SizeAt(i)' = SizeAt(i)
    BY <2>4, <2>5 DEF SizeAt
  <2>8. /\ \E n : Total(Sizes', n)
        /\ \A n : Total(Sizes', n) =>
             \E m \in Nat : Total(Sizes, m) /\ n \in Nat /\ n = m - SizeAt(k) + SizeAt(k)'
    BY <2>4, <2>6, <2>7, OneSizeChanges DEF QuotaInv
  <2>9. ASSUME NEW n, Total(Sizes', n)
        PROVE  InBounds(n)'
    <3>1. PICK m \in Nat : Total(Sizes, m) /\ n = m + size
      BY <1>3, <2>7, <2>8, <2>9
    <3>2. InBounds(m)
      BY <3>1 DEF QuotaInv
    <3>3. n \in Nat /\ n <= dir_usage'.size
      BY <1>2, <1>3, <1>5, <3>1, <3>2 DEF InBounds
    <3>4. ASSUME ~overlapped
          PROVE  n <= DirSizeBytes /\ \A o \in Attaching' : Reckons(o, n)'
      <4>1. m <= req[r].dir_size /\ req[r].dir_size \in Nat
        BY <1>1, <1>2, <3>2, <3>4 DEF InBounds, Reckons, Attachment
      <4>2. n <= req[r].dir_size + size /\ n <= DirSizeBytes
        BY <1>3, <1>5, <3>1, <4>1, UploadsAssumption
      <4>3. Attaching' = {r}
        BY <1>2, <2>3, <3>4 DEF QuotaInv
      <4>4. Reckons(r, n)'
        BY <1>5, <2>1, <2>2, <4>2 DEF Reckons
      <4> QED
        BY <4>2, <4>3, <4>4
    <3> QED
      BY <1>1, <3>3, <3>4 DEF InBounds
  <2>10. ~overlapped' => \A o, q \in Attaching' : o = q
    BY <1>1, <2>3 DEF QuotaInv
  <2>11. QuotaInv'
    BY <2>6, <2>8, <2>9, <2>10 DEF QuotaInv
  <2> QED
    BY <2>1, <2>2, <2>11
<1> QED
  BY <1>1, <1>4, <1>5
-----------------------------------------------------------------------------
(* Both kinds of files.                                                     *)

FilesInv == ReqInv /\ ServedInv /\ QuotaInv

(* The requests stay requests when one of them moves.                       *)
LEMMA ReqFrame ==
  ASSUME ReqInv, UNCHANGED req \/ \E r \in Requests : OneMoves(r)
  PROVE  ReqInv'
BY DEF ReqInv, OneMoves

(* In the beginning there are no files.                                     *)
LEMMA InitFiles ==
  ASSUME Init
  PROVE  FilesInv
<1>1. /\ files = <<>> /\ metas = {} /\ told = {} /\ crossed = {} /\ attachments = <<>>
      /\ next_attach_id = 1 /\ dir_usage = [size |-> 0, count |-> 0]
      /\ overlapped = FALSE /\ req = [r \in Requests |-> Idle]
  BY DEF Init, UploadsInit
<1>2. ReqInv /\ \A r \in Requests : req[r].stage = "idle"
  BY <1>1 DEF ReqInv, Idle, Staged
<1>3. ServedInv
  BY <1>1, <1>2 DEF ServedInv, Writing
<1>4. Attaching = {} /\ DOMAIN attachments = {}
  BY <1>1, <1>2 DEF Attaching
<1>5. QuotaTypes
  BY <1>1, <1>4, UploadsAssumption DEF QuotaTypes
<1>6. Sizes \in [1..MaxFiles -> {0}]
  BY <1>4 DEF Sizes, SizeAt
<1>7. Total(Sizes, 0) /\ \A n : Total(Sizes, n) => n = 0
  <2> HIDE DEF Sizes, Total
  <2> QED
    BY <1>6, SumOfNothing
<1>8. InBounds(0)
  BY <1>1, <1>4, UploadsAssumption DEF InBounds
<1>9. QuotaInv
  BY <1>4, <1>5, <1>7, <1>8 DEF QuotaInv
<1> QED
  BY <1>2, <1>3, <1>9 DEF FilesInv

(* A request that has not to do with files keeps what holds of them.        *)
LEMMA FilesFrame ==
  ASSUME FilesInv, UNCHANGED <<uploads, attached>>,
         UNCHANGED req \/ \E r \in Requests :
           OneMoves(r) /\ req[r].stage # "attach"
             /\ req'[r].stage \notin {"attach", "write", "orphan", "row"}
  PROVE  FilesInv'
<1>1. UNCHANGED <<attachments, next_attach_id, dir_usage, overlapped>>
  BY DEF attached
<1> QED
  BY <1>1, ReqFrame, ServedFrame, QuotaFrame DEF FilesInv

(* The steps of an upload through the API.                                  *)
LEMMA UploadKeepsFiles ==
  ASSUME FilesInv, NEW r \in Requests,
         FindName(r) \/ WriteFile(r) \/ RowIsWritten(r) \/ UploadFails(r) \/ ClientLeaves(r)
  PROVE  FilesInv'
<1>1. /\ req[r].stage \in {"look", "write", "orphan", "row"}
      /\ UNCHANGED <<attachments, next_attach_id, dir_usage, overlapped>>
  BY DEF FindName, WriteFile, RowIsWritten, UploadFails, ClientLeaves, attached
<1>2. ServedInv' /\ OneMoves(r) /\ req'[r].stage \in {"write", "orphan", "row", "idle"}
  BY FindNameServed, WriteFileServed, RowServed, LeavesServed DEF FilesInv
<1>3. QuotaInv'
  <2>1. req[r].stage # "attach" /\ req'[r].stage # "attach"
    BY <1>1, <1>2
  <2> QED
    BY <1>1, <1>2, <2>1, QuotaFrame DEF FilesInv
<1> QED
  BY <1>2, <1>3, ReqFrame DEF FilesInv

(* The steps of a request that attaches.                                    *)
LEMMA AttachKeepsFiles ==
  ASSUME FilesInv, NEW r \in Requests,
         \/ \E sizes \in Batches : process_attachments(r, sizes)
         \/ attachment_dir_usage(r) \/ store_attachment(r) \/ update_attachment_dir_usage(r)
  PROVE  FilesInv'
<1>1. UNCHANGED uploads
  BY DEF process_attachments, attachment_dir_usage, store_attachment,
         update_attachment_dir_usage
<1>2. QuotaInv' /\ OneMoves(r) /\ req'[r].stage \in {"attach", "idle"}
  BY ProcessQuota, UsageQuota, StoreQuota, UpdateQuota DEF FilesInv
<1>3. ServedInv'
  <2>1. req'[r].stage \notin {"write", "orphan", "row"}
    BY <1>2
  <2> QED
    BY <1>1, <1>2, <2>1, ServedFrame DEF FilesInv
<1> QED
  BY <1>2, <1>3, ReqFrame DEF FilesInv

(* A request that begins.                                                   *)
LEMMA StartMoves ==
  ASSUME ReqInv, NEW r \in Requests, NEW rq, Start(r, rq), Staged(rq)
  PROVE  OneMoves(r) /\ req'[r] = rq /\ req[r].stage = "idle"
<1>1. Become(r, rq) /\ req[r] = Idle
  BY DEF Start
<1> QED
  BY <1>1, BecomeMoves DEF Idle

(* The steps that link attachments to messages or delete them.              *)
LEMMA ListKeepsFiles ==
  ASSUME FilesInv, NEW r \in Requests,
         \/ \E ids, message : assign_attachments(r, ids, message)
         \/ \E ids : remove_attachments(r, ids)
         \/ req[r].stage = "link" /\ link_attachment_to_message(r)
         \/ req[r].stage = "delete" /\ delete_attachment(r)
  PROVE  FilesInv'
<1>1. ASSUME NEW ids, NEW message, assign_attachments(r, ids, message)
      PROVE  FilesInv'
  <2> DEFINE rq == [stage |-> "link", left |-> SetToSeq(ids), message |-> message]
  <2>1. Start(r, rq) /\ UNCHANGED <<uploads, attached>>
    BY <1>1 DEF assign_attachments
  <2>2. Staged(rq) /\ rq.stage = "link"
    BY DEF Staged
  <2> HIDE DEF rq
  <2>3. OneMoves(r) /\ req[r].stage = "idle" /\ req'[r].stage = "link"
    BY <2>1, <2>2, StartMoves DEF FilesInv
  <2> QED
    BY <2>1, <2>3, FilesFrame
<1>2. ASSUME NEW ids, remove_attachments(r, ids)
      PROVE  FilesInv'
  <2> DEFINE rq == [stage |-> "delete", left |-> SetToSeq(ids)]
  <2>1. Start(r, rq) /\ UNCHANGED <<uploads, attached>>
    BY <1>2 DEF remove_attachments
  <2>2. Staged(rq) /\ rq.stage = "delete"
    BY DEF Staged
  <2> HIDE DEF rq
  <2>3. OneMoves(r) /\ req[r].stage = "idle" /\ req'[r].stage = "delete"
    BY <2>1, <2>2, StartMoves DEF FilesInv
  <2> QED
    BY <2>1, <2>3, FilesFrame
<1>3. ASSUME \/ req[r].stage = "link" /\ link_attachment_to_message(r)
             \/ req[r].stage = "delete" /\ delete_attachment(r)
      PROVE  FilesInv'
  <2>1. /\ UNCHANGED uploads
        /\ UNCHANGED <<next_attach_id, dir_usage, overlapped>>
        /\ req[r].stage \in {"link", "delete"} /\ req[r].stage # "attach"
    BY <1>3 DEF link_attachment_to_message, delete_attachment
  <2>2. OneMoves(r) /\ req'[r].stage \in {"link", "delete", "idle"}
    <3>1. Staged(Idle) /\ Idle.stage = "idle"
      BY DEF Idle, Staged
    <3>2. CASE Onward(r)
      BY <2>1, <3>2, OnwardMoves DEF FilesInv
    <3>3. CASE Become(r, Idle)
      BY <3>1, <3>3, BecomeMoves DEF FilesInv
    <3> QED
      BY <1>3, <3>2, <3>3 DEF link_attachment_to_message, delete_attachment
  <2>3. \/ UNCHANGED attachments
        \/ \E i, m : /\ i \in DOMAIN attachments
                     /\ attachments' = [attachments EXCEPT ![i].message = m]
        \/ \E i : attachments' = [j \in DOMAIN attachments \ {i} |-> attachments[j]]
    BY <1>3 DEF link_attachment_to_message, delete_attachment
  <2>4. req'[r].stage # "attach" /\ req'[r].stage \notin {"write", "orphan", "row"}
    BY <2>2
  <2>5. QuotaInv'
    BY <2>1, <2>2, <2>3, <2>4, QuotaFrame DEF FilesInv
  <2>6. ServedInv'
    BY <2>1, <2>2, <2>4, ServedFrame DEF FilesInv
  <2> QED
    BY <2>2, <2>5, <2>6, ReqFrame DEF FilesInv
<1> QED
  BY <1>1, <1>2, <1>3

(* The other calls of the API.                                              *)
LEMMA ApiKeepsFiles ==
  ASSUME FilesInv, Api
  PROVE  FilesInv'
<1>1. ASSUME NEW r \in Requests, NEW name, upload_attachment(r, name)
      PROVE  FilesInv'
  <2> DEFINE rq == [stage |-> "look", name |-> name, n |-> acts + 1]
  <2>1. Start(r, rq) /\ UNCHANGED <<uploads, attached>>
    BY <1>1 DEF upload_attachment
  <2>2. Staged(rq) /\ rq.stage = "look"
    BY DEF Staged
  <2> HIDE DEF rq
  <2>3. OneMoves(r) /\ req[r].stage = "idle" /\ req'[r].stage = "look"
    BY <2>1, <2>2, StartMoves DEF FilesInv
  <2> QED
    BY <2>1, <2>3, FilesFrame
<1>2. ASSUME NEW name, tell_attachment(name)
      PROVE  FilesInv'
  <2>1. /\ metas' = metas \union {[file |-> <<name, 0>>, n |-> None]}
        /\ UNCHANGED <<files, told, crossed, attached, req>>
    BY <1>2 DEF tell_attachment, create_attachment_meta
  <2>2. ServedInv'
    BY <2>1 DEF FilesInv, ServedInv, Writing
  <2>3. UNCHANGED <<attachments, next_attach_id, dir_usage, overlapped>>
    BY <2>1 DEF attached
  <2> QED
    BY <2>1, <2>2, <2>3, ReqFrame, QuotaFrame DEF FilesInv
<1>3. CASE UNCHANGED <<uploads, attached, req>>
  BY <1>3, FilesFrame
<1> QED
  BY <1>1, <1>2, <1>3 DEF Api, Refused, delete_attachment_api

(* Requests, uploads and the directory are as FilesInv says, always.        *)
THEOREM FilesInvariant == Spec => []FilesInv
<1>1. FilesInv /\ [Next]_vars => FilesInv'
  <2> SUFFICES ASSUME FilesInv, [Next]_vars
               PROVE  FilesInv'
    OBVIOUS
  <2>1. CASE Api
    BY <2>1, ApiKeepsFiles
  <2>2. CASE Proceed(MessageIds)
    BY <2>2, UploadKeepsFiles, AttachKeepsFiles, ListKeepsFiles
       DEF Proceed, remove_message_attachments
  <2>3. CASE DraftsNext /\ UNCHANGED <<uploads, attached>>
    BY <2>3, DraftsAmong, FilesFrame DEF FilesInv, Among, PollStages
  <2>4. CASE PostingNext /\ UNCHANGED <<uploads, attached>>
    BY <2>4, PostingAmong, FilesFrame DEF FilesInv, Among, PostStages
  <2>5. CASE UNCHANGED vars
    BY <2>5, FilesFrame DEF vars
  <2> QED
    BY <2>1, <2>2, <2>3, <2>4, <2>5 DEF Next, UploadsNext
<1> QED
  BY <1>1, InitFiles, PTL DEF Spec

(* Uploads are served as they were sent, and the directory of attachments   *)
(* keeps to its limit (attachments.rs and api/attachment_routes.rs).        *)
THEOREM FilesKeptHolds == Spec => []FilesKept
<1>1. FilesInv => FilesKept
  <2> SUFFICES ASSUME FilesInv
               PROVE  FilesKept
    OBVIOUS
  <2>1. UploadsServed
    BY DEF FilesInv, ServedInv, UploadsServed, serve_upload
  <2>2. InBounds(Stored)
    BY StoredIsTotal DEF FilesInv, QuotaInv
  <2>3. QuotaKept
    BY <2>2 DEF InBounds, QuotaKept, FilesInv, QuotaInv, QuotaTypes
  <2> QED
    BY <2>1, <2>3 DEF FilesKept
<1> QED
  BY <1>1, FilesInvariant, PTL
-----------------------------------------------------------------------------
(* What members save: helpers.                                              *)

(* What is put into a function is there, and the rest stays.                *)
LEMMA PutFacts ==
  ASSUME NEW f, NEW x, NEW v
  PROVE  /\ DOMAIN Put(f, x, v) = DOMAIN f \cup {x} /\ Put(f, x, v)[x] = v
         /\ \A y \in DOMAIN f \ {x} : Put(f, x, v)[y] = f[y]
BY DEF Put

(* No step of uploads or posts moves to another store, and few count.       *)
LEMMA UploadsKeepStore ==
  ASSUME UploadsNext(MessageIds)
  PROVE  UNCHANGED store /\ acts' \in {acts, acts + 1}
<1>1. ASSUME NEW r, FindName(r) \/ WriteFile(r) \/ RowIsWritten(r) \/ UploadFails(r)
             \/ ClientLeaves(r) \/ attachment_dir_usage(r) \/ update_attachment_dir_usage(r)
             \/ store_attachment(r) \/ link_attachment_to_message(r) \/ delete_attachment(r)
      PROVE  UNCHANGED <<store, acts>>
  BY <1>1 DEF FindName, WriteFile, RowIsWritten, UploadFails, ClientLeaves,
              attachment_dir_usage, update_attachment_dir_usage, store_attachment, link_attachment_to_message,
              delete_attachment
<1>2. ASSUME NEW r, NEW x, NEW y, process_attachments(r, x) \/ assign_attachments(r, x, y)
             \/ remove_attachments(r, x) \/ upload_attachment(r, x) \/ tell_attachment(x)
             \/ delete_attachment_api
      PROVE  UNCHANGED store /\ acts' = acts + 1
  BY <1>2 DEF process_attachments, assign_attachments, remove_attachments, upload_attachment,
              tell_attachment, delete_attachment_api, Start, Act
<1>3. Proceed(MessageIds) => UNCHANGED store /\ acts' \in {acts, acts + 1}
  BY <1>1, <1>2 DEF Proceed, remove_message_attachments
<1>4. Api => UNCHANGED store /\ acts' \in {acts, acts + 1}
  BY <1>2 DEF Api, Refused
<1> QED
  BY <1>3, <1>4 DEF UploadsNext

LEMMA PostingKeepsStore ==
  ASSUME PostingNext
  PROVE  UNCHANGED store /\ acts' \in {acts, acts + 1}
<1>1. ASSUME NEW r, persist_post(r) \/ modify_mentions(r) \/ delete_mentions(r)
             \/ insert_mentions_in_memory(r) \/ insert_mentions(r) \/ MentionsMissed(r)
             \/ PostFails(r)
      PROVE  UNCHANGED <<store, acts>>
  BY <1>1 DEF persist_post, modify_mentions, delete_mentions, insert_mentions_in_memory,
              insert_mentions, MentionsMissed, PostFails
<1>2. ASSUME NEW r, NEW board, NEW topic, NEW msg, NEW body,
             post_in_memory(r, board, topic, msg, body) \/ post2(r, board, topic, msg, body)
      PROVE  UNCHANGED store /\ acts' = acts + 1
  BY <1>2 DEF post_in_memory, post2, Start, Act
<1> QED
  BY <1>1, <1>2 DEF PostingNext

(* Uploads and attachments do not touch polls and posts.                    *)
LEMMA UploadsAmong ==
  ASSUME FilesInv, UploadsNext(MessageIds)
  PROVE  UNCHANGED req \/ \E r \in Requests : Among(r, FileStages)
<1>1. Staged(Idle) /\ Idle.stage = "idle"
  BY DEF Idle, Staged
<1>2. ASSUME NEW r \in Requests,
             FindName(r) \/ WriteFile(r) \/ RowIsWritten(r) \/ UploadFails(r) \/ ClientLeaves(r)
      PROVE  Among(r, FileStages)
  <2>1. req[r].stage \in {"look", "write", "orphan", "row"}
    BY <1>2 DEF FindName, WriteFile, RowIsWritten, UploadFails, ClientLeaves
  <2>2. OneMoves(r) /\ req'[r].stage \in {"write", "orphan", "row", "idle"}
    BY <1>2, FindNameServed, WriteFileServed, RowServed, LeavesServed DEF FilesInv
  <2> QED
    BY <2>1, <2>2 DEF Among, FileStages
<1>3. ASSUME NEW r \in Requests,
             \/ \E sizes \in Batches : process_attachments(r, sizes)
             \/ attachment_dir_usage(r) \/ store_attachment(r) \/ update_attachment_dir_usage(r)
      PROVE  Among(r, FileStages)
  <2>1. req[r].stage \in {"idle", "attach"}
    BY <1>1, <1>3 DEF process_attachments, attachment_dir_usage, store_attachment,
                      update_attachment_dir_usage, Start
  <2>2. OneMoves(r) /\ req'[r].stage \in {"attach", "idle"}
    BY <1>3, ProcessQuota, UsageQuota, StoreQuota, UpdateQuota DEF FilesInv
  <2> QED
    BY <2>1, <2>2 DEF Among, FileStages
<1>4. ASSUME NEW r \in Requests, NEW rq, Start(r, rq), Staged(rq), rq.stage \in FileStages
      PROVE  Among(r, FileStages)
  <2>1. OneMoves(r) /\ req'[r] = rq /\ req[r].stage = "idle"
    BY <1>4, StartMoves DEF FilesInv
  <2> QED
    BY <1>4, <2>1 DEF Among, FileStages
<1>5. ASSUME NEW r \in Requests, NEW ids, NEW message,
             assign_attachments(r, ids, message) \/ remove_attachments(r, ids)
      PROVE  Among(r, FileStages)
  <2> DEFINE linked == [stage |-> "link", left |-> SetToSeq(ids), message |-> message]
             gone == [stage |-> "delete", left |-> SetToSeq(ids)]
  <2>1. Start(r, linked) \/ Start(r, gone)
    BY <1>5 DEF assign_attachments, remove_attachments
  <2>2. /\ Staged(linked) /\ linked.stage \in FileStages
        /\ Staged(gone) /\ gone.stage \in FileStages
    BY DEF Staged, FileStages
  <2> QED
    BY <1>4, <2>1, <2>2
<1>6. ASSUME NEW r \in Requests, \/ req[r].stage = "link" /\ link_attachment_to_message(r)
                                 \/ req[r].stage = "delete" /\ delete_attachment(r)
      PROVE  Among(r, FileStages)
  <2>1. req[r].stage \in {"link", "delete"} /\ (Onward(r) \/ Become(r, Idle))
    BY <1>6 DEF link_attachment_to_message, delete_attachment
  <2>2. OneMoves(r) /\ req'[r].stage \in {"link", "delete", "idle"}
    BY <1>1, <2>1, OnwardMoves, BecomeMoves DEF FilesInv
  <2> QED
    BY <2>1, <2>2 DEF Among, FileStages
<1>7. ASSUME Api
      PROVE  UNCHANGED req \/ \E r \in Requests : Among(r, FileStages)
  <2>1. ASSUME NEW r \in Requests, NEW name, upload_attachment(r, name)
        PROVE  Among(r, FileStages)
    <3> DEFINE rq == [stage |-> "look", name |-> name, n |-> acts + 1]
    <3>1. Start(r, rq)
      BY <2>1 DEF upload_attachment
    <3>2. Staged(rq) /\ rq.stage \in FileStages
      BY DEF Staged, FileStages
    <3> QED
      BY <1>4, <3>1, <3>2
  <2> QED
    BY <1>7, <2>1 DEF Api, tell_attachment, Refused, delete_attachment_api
<1> QED
  BY <1>2, <1>3, <1>5, <1>6, <1>7 DEF UploadsNext, Proceed, remove_message_attachments

(* A request that does not start or go on with a poll, or a post.           *)
LEMMA OtherStages ==
  /\ \A s \in FileStages \cup PollStages : s # "mention"
  /\ \A s \in FileStages \cup PostStages : s \notin {"options", "votes"}
BY DEF FileStages, PollStages, PostStages

-----------------------------------------------------------------------------
(* Drafts.                                                                  *)

(* Drafts that are kept have the slot of their author and a number that was *)
(* given to it before, and are as they were saved; unless they are lent.    *)
DraftInv ==
  /\ next_draft \in [Kinds -> Nat]
  /\ \A k \in kept : \E kind \in Kinds, id \in Nat :
       /\ k.slot = Slot(kind, k.draft.author, id)
       /\ k.slot \notin lent =>
            id < next_draft[kind] /\ k.slot \in DOMAIN drafts /\ drafts[k.slot] = k.draft
  /\ \A slot \in DOMAIN drafts :
       slot[1] = "pm" /\ store = "memory" => slot[2] = drafts[slot].author

(* A slot tells the kind and the number, and in memory the author of a      *)
(* draft of a personal message.                                             *)
LEMMA SlotTells ==
  ASSUME NEW kind, NEW m, NEW id
  PROVE  LET slot == Slot(kind, m, id) IN
         /\ slot[1] = kind /\ slot[3] = id
         /\ kind = "pm" /\ store = "memory" => slot[2] = m
BY DEF Slot

(* A draft that is saved.                                                   *)
LEMMA SaveKeepsDrafts ==
  ASSUME DraftInv, NEW kind \in Kinds, NEW m, NEW named \in BOOLEAN, NEW id \in Nat, NEW outcome,
         Save(kind, m, named, id, outcome)
  PROVE  DraftInv'
<1>1. PICK slot, draft :
        /\ slot = Slot(kind, m, id) /\ draft = [author |-> m, text |-> acts + 1]
        /\ drafts' = IF outcome \in {"refused", "unnoticed"} THEN drafts
                     ELSE Put(drafts, slot, draft)
        /\ next_draft' = IF named THEN next_draft ELSE Counter(kind, id)
        /\ kept' = IF outcome \in {"ok", "unnoticed"} THEN Saved(slot, draft, named) ELSE kept
        /\ lent' = IF \/ outcome \in {"lost", "unnoticed"}
                      \/ outcome = "ok" /\ named /\ ~HeldBy(slot, m)
                      \/ ~named /\ id # next_draft[kind]
                   THEN lent \cup {slot} ELSE lent
        /\ outcome \in {"ok", "refused", "lost", "unnoticed"} /\ store' = store
  BY DEF Save, save_draft_record, Outcomes
<1>2. slot[1] = kind /\ slot[3] = id /\ (kind = "pm" /\ store = "memory" => slot[2] = m)
  BY <1>1, SlotTells
<1>3. draft.author = m
  BY <1>1
<1>4. /\ DOMAIN Put(drafts, slot, draft) = DOMAIN drafts \cup {slot}
      /\ Put(drafts, slot, draft)[slot] = draft
      /\ \A y \in DOMAIN drafts \ {slot} : Put(drafts, slot, draft)[y] = drafts[y]
  BY DEF Put
<1>5. next_draft' \in [Kinds -> Nat] /\ \A j \in Kinds : next_draft[j] <= next_draft'[j]
  BY <1>1 DEF DraftInv, Counter
<1>6. ~named /\ id = next_draft[kind] => id < next_draft'[kind]
  BY <1>1 DEF DraftInv, Counter
<1>7. lent \subseteq lent' /\ \A s : s # slot /\ s \notin lent => s \notin lent'
  BY <1>1
<1>8. ASSUME NEW k \in kept',
             k # [slot |-> slot, draft |-> draft] \/ outcome \notin {"ok", "unnoticed"}
      PROVE  \E j \in Kinds, n \in Nat :
               /\ k.slot = Slot(j, k.draft.author, n)
               /\ k.slot \notin lent' =>
                    n < next_draft'[j] /\ k.slot \in DOMAIN drafts' /\ drafts'[k.slot] = k.draft
  <2>1. k \in kept /\ (outcome \in {"ok", "unnoticed"} /\ named => k.slot # slot)
    BY <1>1, <1>8 DEF Saved
  <2>2. PICK j \in Kinds, n \in Nat :
          /\ k.slot = Slot(j, k.draft.author, n)
          /\ k.slot \notin lent =>
               n < next_draft[j] /\ k.slot \in DOMAIN drafts /\ drafts[k.slot] = k.draft
    BY <2>1 DEF DraftInv
  <2>3. k.slot[1] = j /\ k.slot[3] = n
    BY <2>2, SlotTells
  <2>4. ASSUME k.slot \notin lent'
        PROVE  n < next_draft'[j] /\ k.slot \in DOMAIN drafts' /\ drafts'[k.slot] = k.draft
    <3>1. n < next_draft[j] /\ k.slot \in DOMAIN drafts /\ drafts[k.slot] = k.draft
      BY <1>7, <2>2, <2>4
    <3>2. n < next_draft'[j]
      <4>1. next_draft[j] \in Nat /\ next_draft'[j] \in Nat /\ next_draft[j] <= next_draft'[j]
        BY <1>5 DEF DraftInv
      <4> QED
        BY <3>1, <4>1
    <3>3. CASE outcome \in {"refused", "unnoticed"}
      BY <1>1, <3>1, <3>2, <3>3
    <3>4. CASE outcome \in {"ok", "lost"}
      <4>1. ASSUME k.slot = slot PROVE FALSE
        <5>1. outcome = "ok" /\ ~named /\ id = next_draft[kind]
          BY <1>1, <2>1, <2>4, <3>4, <4>1
        <5>2. j = kind /\ n = id
          BY <1>2, <2>3, <4>1
        <5> QED
          BY <3>1, <5>1, <5>2
      <4> QED
        BY <1>1, <1>4, <3>1, <3>2, <3>4, <4>1
    <3> QED
      BY <1>1, <3>3, <3>4
  <2> QED
    BY <2>2, <2>4
<1>9. ASSUME NEW k, k = [slot |-> slot, draft |-> draft], outcome \in {"ok", "unnoticed"}
      PROVE  \E j \in Kinds, n \in Nat :
               /\ k.slot = Slot(j, k.draft.author, n)
               /\ k.slot \notin lent' =>
                    n < next_draft'[j] /\ k.slot \in DOMAIN drafts' /\ drafts'[k.slot] = k.draft
  <2>1. k.slot = Slot(kind, k.draft.author, id)
    BY <1>1, <1>3, <1>9
  <2>2. slot \notin lent' =>
          /\ outcome = "ok"
          /\ k.slot \in DOMAIN drafts' /\ drafts'[k.slot] = k.draft
    BY <1>1, <1>4, <1>9
  <2>3. ASSUME slot \notin lent', named PROVE id < next_draft'[kind]
    <3>1. PICK old \in kept : old.slot = slot
      BY <1>1, <2>2, <2>3 DEF HeldBy
    <3>2. PICK j \in Kinds, n \in Nat :
            old.slot = Slot(j, old.draft.author, n) /\ (slot \notin lent => n < next_draft[j])
      BY <3>1 DEF DraftInv
    <3>3. j = kind /\ n = id
      BY <1>2, <3>1, <3>2, SlotTells
    <3> QED
      BY <1>1, <1>7, <2>3, <3>2, <3>3
  <2>4. slot \notin lent' => id < next_draft'[kind]
    BY <1>1, <1>6, <2>3
  <2> QED
    BY <1>9, <2>1, <2>2, <2>4
<1>10. ASSUME NEW s \in DOMAIN drafts', s[1] = "pm", store = "memory"
       PROVE  s[2] = drafts'[s].author
  <2>1. CASE s = slot /\ outcome \in {"ok", "lost"}
    BY <1>1, <1>2, <1>3, <1>4, <1>10, <2>1
  <2>2. CASE ~(s = slot /\ outcome \in {"ok", "lost"})
    BY <1>1, <1>4, <1>10, <2>2 DEF DraftInv
  <2> QED
    BY <2>1, <2>2
<1> QED
  <2>1. \A k \in kept' : \E j \in Kinds, n \in Nat :
               /\ k.slot = Slot(j, k.draft.author, n)
               /\ k.slot \notin lent' =>
                    n < next_draft'[j] /\ k.slot \in DOMAIN drafts' /\ drafts'[k.slot] = k.draft
    BY <1>8, <1>9
  <2>2. \A j, a, n : Slot(j, a, n)' = Slot(j, a, n)
    BY <1>1 DEF Slot
  <2> QED
    BY <1>1, <1>5, <1>10, <2>1, <2>2 DEF DraftInv

(* A draft that is deleted.                                                 *)
LEMMA DeleteKeepsDrafts ==
  ASSUME DraftInv, NEW kind, NEW m, NEW id, Delete(kind, m, id)
  PROVE  DraftInv'
<1>1. PICK slot :
        /\ slot = Slot(kind, m, id)
        /\ drafts' = IF store = "memory" THEN [s \in DOMAIN drafts \ {slot} |-> drafts[s]] ELSE drafts
        /\ kept' = {k \in kept : k.slot # slot}
        /\ UNCHANGED <<store, next_draft, lent>>
  BY DEF Delete
<1>2. \A j, a, n : Slot(j, a, n)' = Slot(j, a, n)
  BY <1>1 DEF Slot
<1>3. \A k \in kept' : k \in kept /\ k.slot # slot
  BY <1>1
<1>4. \A s \in DOMAIN drafts : s # slot => s \in DOMAIN drafts' /\ drafts'[s] = drafts[s]
  BY <1>1
<1>5. \A s \in DOMAIN drafts' : s \in DOMAIN drafts /\ drafts'[s] = drafts[s]
  BY <1>1
<1> QED
  BY <1>1, <1>2, <1>3, <1>4, <1>5 DEF DraftInv

(* All steps keep it, and it tells that drafts are kept.                    *)
LEMMA NextKeepsDrafts ==
  ASSUME DraftInv, [Next]_vars
  PROVE  DraftInv'
<1>1. ASSUME UNCHANGED <<store, drafting>>
      PROVE  DraftInv'
  <2>1. \A j, a, n : Slot(j, a, n)' = Slot(j, a, n)
    BY <1>1 DEF Slot
  <2> QED
    BY <1>1, <2>1 DEF drafting, DraftInv
<1>2. CASE DraftsNext
  <2>1. ASSUME NEW m, NEW id \in 1..MaxActs,
               \/ \E named \in BOOLEAN, outcome \in Outcomes :
                    save_draft(m, named, id, outcome) \/ save_pm_draft(m, named, id, outcome)
               \/ delete_draft(m, id) \/ delete_pm_draft(m, id)
        PROVE  DraftInv'
    <3>1. id \in Nat /\ "post" \in Kinds /\ "pm" \in Kinds
      BY UploadsAssumption DEF Kinds
    <3> QED
      BY <2>1, <3>1, SaveKeepsDrafts, DeleteKeepsDrafts
         DEF save_draft, save_pm_draft, delete_draft, delete_pm_draft
  <2>2. ASSUME NEW r, create_poll(r) \/ create_option(r) \/ cast_vote(r) \/ PollFails(r)
        PROVE  UNCHANGED <<store, drafting>>
    BY <2>2 DEF create_poll, create_option, cast_vote, PollFails
  <2>3. ASSUME NEW r, NEW id, NEW ballot, vote(r, id, ballot) \/ vote_in_memory(id, ballot)
        PROVE  UNCHANGED <<store, drafting>>
    BY <2>3 DEF vote, vote_in_memory
  <2>4. ASSUME NEW id, remove_poll(id) PROVE UNCHANGED <<store, drafting>>
    BY <2>4 DEF remove_poll
  <2>5. create_poll_in_memory => UNCHANGED <<store, drafting>>
    BY DEF create_poll_in_memory
  <2> QED
    BY <1>1, <1>2, <2>1, <2>2, <2>3, <2>4, <2>5 DEF DraftsNext
<1>3. CASE UploadsNext(MessageIds) /\ UNCHANGED drafting
  <2>1. UNCHANGED store
    BY <1>3, UploadsKeepStore
  <2> QED
    BY <1>1, <1>3, <2>1
<1>4. CASE PostingNext /\ UNCHANGED drafting
  <2>1. UNCHANGED store
    BY <1>4, PostingKeepsStore
  <2> QED
    BY <1>1, <1>4, <2>1
<1>5. CASE UNCHANGED vars
  BY <1>1, <1>5 DEF vars
<1> QED
  BY <1>2, <1>3, <1>4, <1>5 DEF Next

LEMMA DraftsAreKept ==
  ASSUME DraftInv
  PROVE  DraftsKept
<1> SUFFICES ASSUME NEW k \in kept, k.slot \notin lent
             PROVE  /\ k.slot \in DOMAIN drafts /\ drafts[k.slot] = k.draft
                    /\ store = "memory" => \A m \in Members :
                         IF k.slot[1] = "post" THEN read_draft(k.slot[3]) = {k.draft}
                         ELSE k.draft \in read_pm_draft(m, k.slot[3]) \cap list_pm_drafts(m)
                                <=> m = k.draft.author
  BY DEF DraftsKept
<1>1. PICK kind \in Kinds, id \in Nat : k.slot = Slot(kind, k.draft.author, id)
  BY DEF DraftInv
<1>2. k.slot \in DOMAIN drafts /\ drafts[k.slot] = k.draft
  BY DEF DraftInv
<1>3. k.slot[1] = kind /\ k.slot[3] = id
  BY <1>1, SlotTells
<1>4. ASSUME store = "memory", kind = "post"
      PROVE  read_draft(id) = {k.draft}
  <2>1. k.slot = Slot("post", Nobody, id)
    BY <1>1, <1>4 DEF Slot
  <2> QED
    BY <1>2, <1>4, <2>1 DEF read_draft, Readable
<1>5. ASSUME store = "memory", kind = "pm", NEW m
      PROVE  k.draft \in read_pm_draft(m, id) \cap list_pm_drafts(m) <=> m = k.draft.author
  <2>1. ASSUME m = k.draft.author
        PROVE  k.draft \in read_pm_draft(m, id) \cap list_pm_drafts(m)
    <3>1. k.slot = Slot("pm", m, id) /\ k.slot[1] = "pm" /\ k.slot[2] = m
      BY <1>1, <1>5, <2>1, SlotTells
    <3> QED
      BY <1>2, <1>5, <3>1 DEF read_pm_draft, list_pm_drafts, Readable
  <2>2. ASSUME k.draft \in list_pm_drafts(m)
        PROVE  m = k.draft.author
    <3>1. PICK slot \in DOMAIN drafts : slot[1] = "pm" /\ slot[2] = m /\ drafts[slot] = k.draft
      BY <1>5, <2>2 DEF list_pm_drafts, Readable
    <3> QED
      BY <1>5, <3>1 DEF DraftInv
  <2> QED
    BY <2>1, <2>2
<1> QED
  BY <1>2, <1>3, <1>4, <1>5 DEF Kinds
-----------------------------------------------------------------------------
(* Topics.                                                                  *)

(* A topic of the store in memory begins with one of its messages and ends  *)
(* with one, unless it is strange.                                          *)
Leads(t) ==
  /\ topics[t].last \in DOMAIN messages /\ messages[topics[t].last] = t
  /\ topics[t].first \in DOMAIN messages /\ messages[topics[t].first] = t
  /\ \A i \in DOMAIN messages : messages[i] = t => topics[t].first <= i

(* Topics and messages are numbered, and a message that is in no topic has  *)
(* made that strange.                                                       *)
TopicInv ==
  /\ \E n \in Nat : DOMAIN topics = 1..n
  /\ \E n \in Nat : DOMAIN messages = 1..n
  /\ \A t \in DOMAIN topics : topics[t] = [first |-> topics[t].first, last |-> topics[t].last]
  /\ \A i \in DOMAIN messages : messages[i] \in DOMAIN topics \cup strange
  /\ \A t \in DOMAIN topics \ strange : Leads(t)

(* The next number is that of no topic and no message.                      *)
LEMMA NextIsNew ==
  ASSUME NEW n \in Nat, NEW f, DOMAIN f = 1..n
  PROVE  Cardinality(DOMAIN f) + 1 = n + 1
<1>1. Cardinality(1..n) = n
  <2>1. \A a, b \in Int : a <= b => Cardinality(a..b) = b - a + 1
    BY FS_Interval
  <2>2. CASE n = 0
    BY <2>2, FS_EmptySet, 1..0 = {}
  <2>3. CASE n > 0
    BY <2>1, <2>3
  <2> QED
    BY <2>2, <2>3
<1> QED
  BY <1>1

(* A message is written.                                                    *)
LEMMA PostKeepsTopics ==
  ASSUME TopicInv, NEW topic, NEW msg, persist_post_in_memory(topic, msg)
  PROVE  TopicInv'
<1>1. PICK n \in Nat, k \in Nat : DOMAIN topics = 1..n /\ DOMAIN messages = 1..k
  BY DEF TopicInv
<1>2. NewTopic = n + 1 /\ NewMessage = k + 1
  BY <1>1, NextIsNew DEF NewTopic, NewMessage
<1>3. PICK t, i :
        /\ t = IF topic = NoNumber THEN NewTopic ELSE topic
        /\ i = IF msg = NoNumber THEN NewMessage ELSE msg
        /\ topics' = IF topic # NoNumber /\ topic \notin DOMAIN topics THEN topics
                     ELSE Put(topics, t, Led(t, i))
        /\ messages' = IF msg = NoNumber THEN Put(messages, i, t) ELSE messages
        /\ strange' = IF \/ t \notin DOMAIN topics /\ topic # NoNumber
                         \/ msg # NoNumber /\ ~(msg \in DOMAIN messages /\ messages[msg] = t)
                      THEN strange \cup {t} ELSE strange
  BY DEF persist_post_in_memory
<1>4. strange \subseteq strange' /\ strange' \subseteq strange \cup {t}
  BY <1>3
<1>5. /\ \E l \in Nat : DOMAIN messages' = 1..l
      /\ DOMAIN messages \subseteq DOMAIN messages'
      /\ \A j \in DOMAIN messages : messages'[j] = messages[j]
      /\ \A j \in DOMAIN messages' : j \notin DOMAIN messages => j = k + 1 /\ messages'[j] = t
  <2>1. CASE msg = NoNumber
    <3>1. messages' = Put(messages, k + 1, t)
      BY <1>2, <1>3, <2>1
    <3>2. DOMAIN messages' = 1..(k + 1)
      BY <1>1, <3>1 DEF Put
    <3>3. k + 1 \in Nat /\ \A j \in 1..k : j # k + 1 /\ j \in 1..(k + 1)
      OBVIOUS
    <3>4. \A j \in 1..(k + 1) : messages'[j] = IF j = k + 1 THEN t ELSE messages[j]
      BY <1>1, <3>1, <3>2 DEF Put
    <3> QED
      BY <1>1, <3>2, <3>3, <3>4
  <2>2. CASE msg # NoNumber
    BY <1>1, <1>3, <2>2
  <2> QED
    BY <2>1, <2>2
<1>6. /\ \E l \in Nat : DOMAIN topics' = 1..l
      /\ DOMAIN topics \subseteq DOMAIN topics' /\ DOMAIN topics' \subseteq DOMAIN topics \cup {t}
      /\ \A s \in DOMAIN topics : s # t => topics'[s] = topics[s]
  <2>1. CASE topic # NoNumber /\ topic \notin DOMAIN topics
    BY <1>1, <1>3, <2>1
  <2>2. CASE topic # NoNumber /\ topic \in DOMAIN topics
    <3>1. topics' = Put(topics, t, Led(t, i)) /\ t \in DOMAIN topics
      BY <1>3, <2>2
    <3> QED
      BY <1>1, <3>1 DEF Put
  <2>3. CASE topic = NoNumber
    <3>1. topics' = Put(topics, n + 1, Led(n + 1, i)) /\ t = n + 1
      BY <1>2, <1>3, <2>3
    <3>2. DOMAIN topics' = 1..(n + 1)
      BY <1>1, <3>1 DEF Put
    <3> QED
      BY <1>1, <3>1, <3>2 DEF Put
  <2> QED
    BY <2>1, <2>2, <2>3
<1>7. ASSUME t \in DOMAIN topics'
      PROVE  topics'[t] = [first |-> IF t \in DOMAIN topics THEN topics[t].first ELSE i, last |-> i]
  <2>1. topics' = Put(topics, t, Led(t, i))
    <3>1. CASE topic # NoNumber /\ topic \notin DOMAIN topics
      BY <1>3, <1>7, <3>1
    <3> QED
      BY <1>3, <3>1
  <2>2. topics'[t] = Led(t, i)
    BY <2>1 DEF Put
  <2>3. CASE t \in DOMAIN topics
    <3>1. PICK old : old = topics[t] /\ old = [first |-> old.first, last |-> old.last]
      BY <2>3 DEF TopicInv
    <3>2. Led(t, i) = [old EXCEPT !.last = i]
      BY <2>3, <3>1 DEF Led
    <3>3. Led(t, i) = [first |-> old.first, last |-> i]
      BY <3>1, <3>2
    <3> QED
      BY <2>2, <2>3, <3>1, <3>3
  <2>4. CASE t \notin DOMAIN topics
    <3>1. Led(t, i) = [[first |-> i, last |-> i] EXCEPT !.last = i]
      BY <2>4 DEF Led
    <3> QED
      BY <2>2, <2>4, <3>1
  <2> QED
    BY <2>3, <2>4
<1>8. \A s \in DOMAIN topics' : topics'[s] = [first |-> topics'[s].first, last |-> topics'[s].last]
  <2>1. ASSUME NEW s \in DOMAIN topics', s # t
        PROVE  topics'[s] = topics[s] /\ s \in DOMAIN topics
    BY <1>6, <2>1
  <2>2. ASSUME NEW rec, NEW a, NEW b, rec = [first |-> a, last |-> b]
        PROVE  rec = [first |-> rec.first, last |-> rec.last]
    BY <2>2
  <2> QED
    BY <1>7, <2>1, <2>2 DEF TopicInv
<1>9. \A j \in DOMAIN messages' : messages'[j] \in DOMAIN topics' \cup strange'
  <2>1. t \in DOMAIN topics' \cup strange'
    <3>1. CASE topic # NoNumber /\ topic \notin DOMAIN topics
      BY <1>3, <3>1
    <3>2. CASE ~(topic # NoNumber /\ topic \notin DOMAIN topics)
      BY <1>3, <3>2 DEF Put
    <3> QED
      BY <3>1, <3>2
  <2> QED
    BY <1>4, <1>5, <1>6, <2>1 DEF TopicInv
<1>10. ASSUME NEW s \in DOMAIN topics', s \notin strange', s # t
       PROVE  Leads(s)'
  <2>1. s \in DOMAIN topics /\ s \notin strange /\ topics'[s] = topics[s] /\ Leads(s)
    BY <1>4, <1>6, <1>10 DEF TopicInv
  <2> QED
    BY <1>5, <1>10, <2>1 DEF Leads
<1>11. ASSUME t \in DOMAIN topics', t \notin strange'
       PROVE  Leads(t)'
  <2>1. t \notin strange /\ (msg # NoNumber => msg \in DOMAIN messages /\ messages[msg] = t)
    BY <1>3, <1>11
  <2>2. i \in DOMAIN messages' /\ messages'[i] = t
    <3>1. CASE msg = NoNumber
      BY <1>3, <3>1 DEF Put
    <3>2. CASE msg # NoNumber
      BY <1>3, <1>5, <2>1, <3>2
    <3> QED
      BY <3>1, <3>2
  <2>3. topics'[t].last = i
    BY <1>7, <1>11
  <2>4. CASE t \in DOMAIN topics
    <3>1. topics'[t].first = topics[t].first /\ Leads(t)
      BY <1>7, <1>11, <2>1, <2>4 DEF TopicInv
    <3>2. topics[t].first \in 1..k
      BY <1>1, <3>1 DEF Leads
    <3>3. \A j \in DOMAIN messages' : messages'[j] = t => topics[t].first <= j
      BY <1>1, <1>5, <3>1, <3>2 DEF Leads
    <3> QED
      BY <1>5, <2>2, <2>3, <3>1, <3>3 DEF Leads
  <2>5. CASE t \notin DOMAIN topics
    <3>1. topics'[t].first = i
      BY <1>7, <1>11, <2>5
    <3>2. \A j \in DOMAIN messages : messages[j] # t
      BY <2>1, <2>5 DEF TopicInv
    <3>3. i = k + 1 /\ \A j \in DOMAIN messages' : messages'[j] = t => j = k + 1
      BY <1>2, <1>3, <1>5, <2>1, <3>2
    <3>4. \A j \in DOMAIN messages' : messages'[j] = t => i <= j
      BY <3>3
    <3> QED
      BY <2>2, <2>3, <3>1, <3>4 DEF Leads
  <2> QED
    BY <2>4, <2>5
<1> QED
  BY <1>5, <1>6, <1>8, <1>9, <1>10, <1>11 DEF TopicInv

(* Only posts of the store in memory write topics.                          *)
LEMMA NextKeepsTopics ==
  ASSUME store = "memory" => TopicInv, [Next]_vars, UNCHANGED store
  PROVE  store' = "memory" => TopicInv'
<1>1. CASE UNCHANGED <<topics, messages, strange>>
  BY <1>1 DEF TopicInv, Leads
<1>2. ASSUME NEW r, NEW board, NEW topic, NEW msg, NEW body,
             post_in_memory(r, board, topic, msg, body) \/ post2(r, board, topic, msg, body)
      PROVE  store' = "memory" => TopicInv'
  BY <1>1, <1>2, PostKeepsTopics DEF post_in_memory, post2, posting
<1>3. ASSUME NEW r, persist_post(r) \/ modify_mentions(r) \/ delete_mentions(r)
             \/ insert_mentions_in_memory(r) \/ insert_mentions(r) \/ MentionsMissed(r)
             \/ PostFails(r)
      PROVE  UNCHANGED <<topics, messages, strange>>
  BY <1>3 DEF persist_post, modify_mentions, delete_mentions, insert_mentions_in_memory,
              insert_mentions, MentionsMissed, PostFails
<1>4. UNCHANGED posting => UNCHANGED <<topics, messages, strange>>
  BY DEF posting
<1> QED
  BY <1>1, <1>2, <1>3, <1>4 DEF Next, PostingNext, vars

LEMMA TopicsDoLead ==
  ASSUME store = "memory" => TopicInv
  PROVE  TopicsLead
BY DEF TopicsLead, TopicInv, Leads
-----------------------------------------------------------------------------
(* Mentions.                                                                *)

(* A request that is saving mentions.                                       *)
Mention(key, body, at, removed, added) ==
  [stage |-> "mention", key |-> key, body |-> body, at |-> at, removed |-> removed,
   added |-> added]

IsMention(rq) ==
  /\ rq = Mention(rq.key, rq.body, rq.at, rq.removed, rq.added)
  /\ rq.at \in {"list", "delete", "insert"}

(* Whom rows tell that the message mentions them.                           *)
Told(rows, key) == {row.who : row \in {x \in rows : x.key = key}}

(* When what is to be removed and added will have been, the members whom    *)
(* the body mentions are told so, and in memory nobody else is.             *)
Saves(rq, known, memory) ==
  rq.at # "list" =>
    /\ rq.body \subseteq (known \ rq.removed) \cup rq.added
    /\ memory => rq.removed = known \ rq.body /\ rq.added = rq.body \ known
    /\ rq.at = "insert" => rq.removed = {}

(* Rows of one message are of different members.                            *)
RowsDiffer ==
  store = "memory" => \A x, y \in mentions :
    x.key \notin unsure /\ x.key = y.key /\ x.who = y.who => x = y

AsSaved(body, known, memory) == body \subseteq known /\ (memory => known \subseteq body)

MentionInv ==
  /\ \A r \in Requests : req[r].stage = "mention" => IsMention(req[r])
  /\ \A r, o \in Requests :
       req[r].stage = "mention" /\ req[r].key \notin unsure =>
         /\ Saves(req[r], Told(mentions, req[r].key), store = "memory")
         /\ req[o].stage = "mention" /\ req[o].key = req[r].key => o = r
  /\ \A key \in DOMAIN saved \ unsure :
       Mentioning(key) = {} => AsSaved(saved[key], Told(mentions, key), store = "memory")
  /\ RowsDiffer

(* Requests that move outside mentions.                                     *)
LEMMA MentionFrame ==
  ASSUME MentionInv, UNCHANGED <<store, mentions, saved, unsure>>,
         UNCHANGED req \/ \E r \in Requests :
           OneMoves(r) /\ req[r].stage # "mention" /\ req'[r].stage # "mention"
  PROVE  MentionInv'
<1>1. \A r \in Requests : /\ req'[r].stage = "mention" <=> req[r].stage = "mention"
                          /\ req[r].stage = "mention" => req'[r] = req[r]
  BY DEF OneMoves
<1>2. \A key : Mentioning(key)' = {} => Mentioning(key) = {}
  BY <1>1 DEF Mentioning
<1> QED
  BY <1>1, <1>2 DEF MentionInv, RowsDiffer

(* A post that is written begins to save its mentions, if it has any.       *)
LEMMA ProcessKeepsMentions ==
  ASSUME ReqInv, MentionInv, NEW r \in Requests, NEW key, NEW body,
         process_mentions(r, key, body), req[r].stage # "mention",
         UNCHANGED <<store, mentions, saved>>
  PROVE  MentionInv'
<1>1. CASE body = {}
  <2>1. Become(r, Idle) /\ Staged(Idle) /\ Idle.stage # "mention" /\ unsure' = unsure
    BY <1>1 DEF process_mentions, Idle, Staged
  <2>2. OneMoves(r) /\ req'[r].stage # "mention"
    BY <2>1, BecomeMoves
  <2> QED
    BY <2>1, <2>2, MentionFrame
<1>2. CASE body # {}
  <2> DEFINE rq == Started("mention", key, body)
  <2>1. /\ Become(r, rq) /\ Staged(rq) /\ rq.stage = "mention" /\ rq.key = key
        /\ rq.at = "list" /\ IsMention(rq)
        /\ unsure' = IF Mentioning(key) # {} THEN unsure \cup {key} ELSE unsure
    BY <1>2 DEF process_mentions, Staged, Started, IsMention, Mention
  <2> HIDE DEF rq
  <2>2. OneMoves(r) /\ req'[r] = rq
    BY <2>1, BecomeMoves
  <2>3. \A o \in Requests \ {r} : req'[o] = req[o]
    BY <2>2 DEF OneMoves
  <2>4. \A o \in Requests : req'[o].stage = "mention" => IsMention(req'[o])
    BY <2>1, <2>2, <2>3 DEF MentionInv
  <2>5. \A rows, memory : Saves(rq, rows, memory)
    BY <2>1 DEF Saves
  <2>6. \A o \in Requests : o # r /\ req[o].stage = "mention" /\ req[o].key = key => key \in unsure'
    BY <2>1 DEF Mentioning
  <2>7. unsure \subseteq unsure'
    BY <2>1
  <2>8. ASSUME NEW o \in Requests, NEW p \in Requests, req'[o].stage = "mention",
               req'[o].key \notin unsure'
        PROVE  /\ Saves(req'[o], Told(mentions', req'[o].key), store' = "memory")
               /\ req'[p].stage = "mention" /\ req'[p].key = req'[o].key => p = o
    <3>1. CASE o = r
      BY <2>1, <2>2, <2>3, <2>5, <2>6, <2>8, <3>1
    <3>2. CASE o # r
      <4>1. req'[o] = req[o] /\ req[o].key \notin unsure /\ req[o].key # key
        BY <2>1, <2>3, <2>6, <2>7, <2>8, <3>2
      <4>2. /\ Saves(req[o], Told(mentions, req[o].key), store = "memory")
            /\ p # r => (req'[p].stage = "mention" /\ req'[p].key = req'[o].key => p = o)
        BY <2>3, <2>8, <4>1 DEF MentionInv
      <4>3. p = r => req'[p].key = key
        BY <2>1, <2>2
      <4> QED
        BY <4>1, <4>2, <4>3
    <3> QED
      BY <3>1, <3>2
  <2>9. \A k : Mentioning(k)' = {} => Mentioning(k) = {}
    BY <2>1, <2>2, <2>3 DEF Mentioning
  <2>10. RowsDiffer'
    BY <2>7 DEF MentionInv, RowsDiffer
  <2> QED
    BY <2>4, <2>7, <2>8, <2>9, <2>10 DEF MentionInv
<1> QED
  BY <1>1, <1>2

(* A request that fails makes its message unsure.                           *)
LEMMA FailKeepsMentions ==
  ASSUME ReqInv, MentionInv, NEW r \in Requests, PostFails(r)
  PROVE  MentionInv'
<1>1. /\ Become(r, Idle) /\ Staged(Idle) /\ Idle.stage # "mention"
      /\ UNCHANGED <<store, mentions, saved>>
  BY DEF PostFails, Idle, Staged, noted
<1>2. OneMoves(r) /\ req'[r].stage # "mention"
  BY <1>1, BecomeMoves
<1>3. CASE req[r].stage # "mention"
  <2>1. unsure' = unsure
    BY <1>3 DEF PostFails
  <2> QED
    BY <1>1, <1>2, <1>3, <2>1, MentionFrame
<1>4. CASE req[r].stage = "mention"
  <2>1. unsure' = unsure \cup {req[r].key}
    BY <1>4 DEF PostFails
  <2>2. \A o \in Requests : req'[o].stage = "mention" => o # r /\ req'[o] = req[o]
    BY <1>2 DEF OneMoves
  <2>3. \A o \in Requests : o # r => req'[o] = req[o]
    BY <1>2 DEF OneMoves
  <2>4. \A k \in DOMAIN saved' \ unsure' : Mentioning(k)' = {} => Mentioning(k) = {}
    BY <2>1, <2>3 DEF Mentioning
  <2>5. RowsDiffer'
    BY <1>1, <2>1 DEF MentionInv, RowsDiffer
  <2>6. \A o, p \in Requests : req'[o].stage = "mention" /\ req'[o].key \notin unsure' =>
          /\ Saves(req'[o], Told(mentions', req'[o].key), store' = "memory")
          /\ req'[p].stage = "mention" /\ req'[p].key = req'[o].key => p = o
    BY <1>1, <2>1, <2>2 DEF MentionInv
  <2>7. \A o \in Requests : req'[o].stage = "mention" => IsMention(req'[o])
    BY <2>2 DEF MentionInv
  <2>8. \A k \in DOMAIN saved' \ unsure' : Mentioning(k)' = {} =>
          AsSaved(saved'[k], Told(mentions', k), store' = "memory")
    BY <1>1, <2>1, <2>4 DEF MentionInv
  <2> QED
    BY <2>5, <2>6, <2>7, <2>8 DEF MentionInv
<1> QED
  BY <1>3, <1>4

(* A request goes on with what is left to be done, or is over.              *)
LEMMA GoesOn ==
  ASSUME ReqInv, NEW r \in Requests, NEW rq, IsMention(rq), rq.stage = "mention", Goes(r, rq)
  PROVE  /\ OneMoves(r)
         /\ \/ /\ rq.removed = {} /\ rq.added = {} /\ req'[r].stage = "idle"
               /\ saved' = Put(saved, rq.key, rq.body)
            \/ /\ ~(rq.removed = {} /\ rq.added = {}) /\ saved' = saved
               /\ req'[r] = Mention(rq.key, rq.body, IF rq.removed # {} THEN "delete" ELSE "insert",
                                    rq.removed, rq.added)
<1>1. /\ [rq EXCEPT !.at = "delete"]
           = Mention(rq.key, rq.body, "delete", rq.removed, rq.added)
      /\ [rq EXCEPT !.at = "insert"]
           = Mention(rq.key, rq.body, "insert", rq.removed, rq.added)
  BY DEF IsMention, Mention
<1>2. \A key, body, at, removed, added :
        Staged(Mention(key, body, at, removed, added))
          /\ Mention(key, body, at, removed, added).stage = "mention"
  BY DEF Staged, Mention
<1>3. Staged(Idle) /\ Idle.stage = "idle"
  BY DEF Idle, Staged
<1>4. CASE rq.removed = {} /\ rq.added = {}
  <2>1. Proceeds(rq) = Idle
    BY <1>4 DEF Proceeds
  <2>2. Become(r, Idle) /\ saved' = Put(saved, rq.key, rq.body)
    BY <2>1 DEF Goes
  <2> QED
    BY <1>3, <1>4, <2>2, BecomeMoves
<1>5. CASE ~(rq.removed = {} /\ rq.added = {})
  <2> DEFINE at == IF rq.removed # {} THEN "delete" ELSE "insert"
             next == Mention(rq.key, rq.body, at, rq.removed, rq.added)
  <2>1. Proceeds(rq) = next
    BY <1>1, <1>5 DEF Proceeds
  <2>2. Staged(next) /\ next.stage = "mention"
    BY <1>2
  <2>3. next # Idle
    BY <1>3, <2>2
  <2>4. Become(r, next) /\ saved' = saved
    BY <2>1, <2>3 DEF Goes
  <2> QED
    BY <1>5, <2>2, <2>4, BecomeMoves
<1> QED
  BY <1>4, <1>5

(* A step of a request that saves mentions: the rows of other messages stay *)
(* as they are, and what the request will do fits the rows of its own.      *)
LEMMA GoesKeepsMentions ==
  ASSUME ReqInv, MentionInv, NEW r \in Requests, req[r].stage = "mention",
         NEW rq, IsMention(rq), rq.stage = "mention", rq.key = req[r].key, Goes(r, rq),
         UNCHANGED store, unsure \subseteq unsure', RowsDiffer',
         \A key : key # rq.key /\ key \notin unsure' => Told(mentions', key) = Told(mentions, key),
         rq.key \notin unsure' =>
           LET known == Told(mentions', rq.key) IN
           /\ rq.body \subseteq (known \ rq.removed) \cup rq.added
           /\ store = "memory" => rq.removed = known \ rq.body /\ rq.added = rq.body \ known
  PROVE  MentionInv'
<1>1. \A o \in Requests : o # r => req'[o] = req[o]
  BY GoesOn DEF OneMoves
<1>2. \A o \in Requests : o # r /\ req[o].stage = "mention" /\ req[o].key = rq.key => rq.key \in unsure
  BY DEF MentionInv
<1>3. \A o \in Requests : req[o].stage = "mention" => IsMention(req[o])
  BY DEF MentionInv
<1>4. CASE /\ rq.removed = {} /\ rq.added = {} /\ req'[r].stage = "idle"
           /\ saved' = Put(saved, rq.key, rq.body)
  <2>1. \A o \in Requests : req'[o].stage = "mention" => o # r /\ req'[o] = req[o]
    BY <1>1, <1>4
  <2>2. \A o, p \in Requests : req'[o].stage = "mention" /\ req'[o].key \notin unsure' =>
          /\ Saves(req'[o], Told(mentions', req'[o].key), store' = "memory")
          /\ req'[p].stage = "mention" /\ req'[p].key = req'[o].key => p = o
    BY <1>2, <2>1 DEF MentionInv
  <2>3. ASSUME NEW k \in DOMAIN saved' \ unsure', Mentioning(k)' = {}
        PROVE  AsSaved(saved'[k], Told(mentions', k), store' = "memory")
    <3>1. CASE k = rq.key
      <4>1. saved'[k] = rq.body
        BY <1>4, <3>1 DEF Put
      <4> QED
        BY <1>4, <2>3, <3>1, <4>1 DEF AsSaved
    <3>2. CASE k # rq.key
      <4>1. k \in DOMAIN saved \ unsure /\ saved'[k] = saved[k]
        BY <1>4, <2>3, <3>2 DEF Put
      <4>2. Mentioning(k) = {}
        BY <1>1, <2>3, <3>2 DEF Mentioning
      <4>3. AsSaved(saved[k], Told(mentions, k), store = "memory")
        BY <4>1, <4>2 DEF MentionInv
      <4>4. Told(mentions', k) = Told(mentions, k)
        BY <2>3, <3>2
      <4> QED
        BY <4>1, <4>3, <4>4
    <3> QED
      BY <3>1, <3>2
  <2>4. \A o \in Requests : req'[o].stage = "mention" => IsMention(req'[o])
    BY <1>3, <2>1
  <2> QED
    BY <2>2, <2>3, <2>4 DEF MentionInv
<1>5. CASE /\ ~(rq.removed = {} /\ rq.added = {}) /\ saved' = saved
           /\ req'[r] = Mention(rq.key, rq.body, IF rq.removed # {} THEN "delete" ELSE "insert",
                                rq.removed, rq.added)
  <2>1. /\ req'[r].stage = "mention" /\ req'[r].key = rq.key /\ req'[r].body = rq.body
        /\ req'[r].removed = rq.removed /\ req'[r].added = rq.added
        /\ req'[r].at = IF rq.removed # {} THEN "delete" ELSE "insert"
        /\ IsMention(req'[r])
    BY <1>5 DEF IsMention, Mention
  <2>2. rq.key \notin unsure' => Saves(req'[r], Told(mentions', rq.key), store' = "memory")
    BY <2>1 DEF Saves
  <2>3. ASSUME NEW o \in Requests, NEW p \in Requests, req'[o].stage = "mention",
               req'[o].key \notin unsure'
        PROVE  /\ Saves(req'[o], Told(mentions', req'[o].key), store' = "memory")
               /\ req'[p].stage = "mention" /\ req'[p].key = req'[o].key => p = o
    <3>1. CASE o = r
      BY <1>1, <1>2, <2>1, <2>2, <2>3, <3>1
    <3>2. CASE o # r
      <4>1. req'[o] = req[o] /\ req[o].key \notin unsure /\ req[o].key # rq.key
        BY <1>1, <1>2, <2>3, <3>2
      <4>2. /\ Saves(req[o], Told(mentions, req[o].key), store = "memory")
            /\ p # r => (req'[p].stage = "mention" /\ req'[p].key = req'[o].key => p = o)
        BY <1>1, <2>3, <4>1 DEF MentionInv
      <4>3. Told(mentions', req[o].key) = Told(mentions, req[o].key)
        BY <2>3, <4>1
      <4> QED
        BY <2>1, <4>1, <4>2, <4>3
    <3> QED
      BY <3>1, <3>2
  <2>4. ASSUME NEW k \in DOMAIN saved' \ unsure', Mentioning(k)' = {}
        PROVE  AsSaved(saved'[k], Told(mentions', k), store' = "memory")
    <3>1. k # rq.key
      BY <2>1, <2>4 DEF Mentioning
    <3>2. Mentioning(k) = {} /\ k \in DOMAIN saved \ unsure
      BY <1>1, <1>5, <2>4, <3>1 DEF Mentioning
    <3>3. AsSaved(saved[k], Told(mentions, k), store = "memory")
      BY <3>2 DEF MentionInv
    <3> QED
      BY <1>5, <2>4, <3>1, <3>3
  <2>5. \A o \in Requests : req'[o].stage = "mention" => IsMention(req'[o])
    BY <1>1, <1>3, <2>1
  <2> QED
    BY <2>3, <2>4, <2>5 DEF MentionInv
<1> QED
  BY <1>4, <1>5, GoesOn

(* What a request writes into its record.                                   *)
LEMMA MentionFields ==
  ASSUME NEW q, IsMention(q), NEW x, NEW y
  PROVE  /\ q.stage = "mention"
         /\ [q EXCEPT !.removed = x] = Mention(q.key, q.body, q.at, x, q.added)
         /\ [q EXCEPT !.added = y] = Mention(q.key, q.body, q.at, q.removed, y)
<1>1. PICK key, body, at, removed, added :
        /\ q = Mention(key, body, at, removed, added)
        /\ key = q.key /\ body = q.body /\ at = q.at /\ removed = q.removed /\ added = q.added
  BY DEF IsMention
<1>2. q.stage = "mention"
  BY <1>1 DEF Mention
<1>3. [q EXCEPT !.removed = x] = Mention(key, body, at, x, added)
  BY <1>1 DEF Mention
<1>4. [q EXCEPT !.added = y] = Mention(key, body, at, removed, y)
  BY <1>1 DEF Mention
<1> QED
  BY <1>1, <1>2, <1>3, <1>4

LEMMA MentionTells ==
  ASSUME NEW q, NEW key, NEW body, NEW at \in {"list", "delete", "insert"}, NEW x, NEW y,
         q = Mention(key, body, at, x, y)
  PROVE  /\ IsMention(q) /\ q.stage = "mention" /\ q.key = key /\ q.body = body
         /\ q.removed = x /\ q.added = y
BY DEF IsMention, Mention

(* It reads whom the message mentions already.                              *)
LEMMA ModifyKeepsMentions ==
  ASSUME ReqInv, MentionInv, NEW r \in Requests, modify_mentions(r)
  PROVE  MentionInv'
<1>1. PICK existing \in get_mentions_by_content(req[r].key) :
        Goes(r, [req[r] EXCEPT !.removed = existing \ req[r].body,
                               !.added = Added(req[r].body, existing)])
  BY DEF modify_mentions
<1>2. /\ req[r].stage = "mention" /\ IsMention(req[r]) /\ req[r].at = "list"
      /\ UNCHANGED <<store, mentions, unsure>>
  BY DEF modify_mentions, MentionInv, noted
<1> DEFINE rq == [req[r] EXCEPT !.removed = existing \ req[r].body,
                                !.added = Added(req[r].body, existing)]
<1>3. /\ IsMention(rq) /\ rq.stage = "mention" /\ rq.key = req[r].key /\ rq.body = req[r].body
      /\ rq.removed = existing \ rq.body /\ rq.added = rq.body \ existing
  <2>1. PICK key, body, at : /\ req[r] = Mention(key, body, at, req[r].removed, req[r].added)
                             /\ key = req[r].key /\ body = req[r].body /\ at = "list"
    BY <1>2 DEF IsMention
  <2>2. /\ rq = [f \in DOMAIN req[r] |-> rq[f]]
        /\ DOMAIN req[r] = {"stage", "key", "body", "at", "removed", "added"}
    BY <2>1 DEF Mention
  <2>3. /\ rq.stage = "mention" /\ rq.key = key /\ rq.body = body /\ rq.at = at
        /\ rq.removed = existing \ req[r].body /\ rq.added = Added(req[r].body, existing)
    BY <2>1 DEF Mention
  <2> HIDE DEF rq
  <2>4. rq = Mention(key, body, at, rq.removed, rq.added)
    BY <2>2, <2>3 DEF Mention
  <2> QED
    BY <2>1, <2>3, <2>4 DEF IsMention, Added
<1>4. /\ existing \in {Told(mentions, rq.key), {}}
      /\ store = "memory" => existing = Told(mentions, rq.key)
  BY <1>3 DEF get_mentions_by_content, Mentioned, Told
<1> HIDE DEF rq
<1>5. Goes(r, rq)
  BY <1>1 DEF rq
<1>6. RowsDiffer'
  BY <1>2 DEF MentionInv, RowsDiffer
<1>7. LET known == Told(mentions', rq.key) IN
      /\ rq.body \subseteq (known \ rq.removed) \cup rq.added
      /\ store = "memory" => rq.removed = known \ rq.body /\ rq.added = rq.body \ known
  BY <1>2, <1>3, <1>4
<1> QED
  BY <1>2, <1>3, <1>5, <1>6, <1>7, GoesKeepsMentions

(* It deletes the rows of those who are not mentioned any more.             *)
LEMMA DeleteKeepsMentions ==
  ASSUME ReqInv, MentionInv, NEW r \in Requests, delete_mentions(r)
  PROVE  MentionInv'
<1> DEFINE rq == [req[r] EXCEPT !.removed = {}]
<1>1. /\ req[r].stage = "mention" /\ IsMention(req[r]) /\ req[r].at = "delete"
      /\ UNCHANGED <<store, unsure>> /\ Goes(r, rq)
      /\ mentions' = {row \in mentions : ~(row.key = req[r].key /\ row.who \in req[r].removed)}
  BY DEF delete_mentions, MentionInv
<1>2. /\ IsMention(rq) /\ rq.stage = "mention" /\ rq.key = req[r].key /\ rq.body = req[r].body
      /\ rq.removed = {} /\ rq.added = req[r].added
  <2>1. /\ rq = Mention(req[r].key, req[r].body, req[r].at, {}, req[r].added)
        /\ req[r].at \in {"list", "delete", "insert"}
    BY <1>1, MentionFields
  <2> HIDE DEF rq
  <2> QED
    BY <2>1, MentionTells
<1> HIDE DEF rq
<1>3. \A key : key # rq.key => Told(mentions', key) = Told(mentions, key)
  BY <1>1, <1>2 DEF Told
<1>4. Told(mentions', rq.key) = Told(mentions, rq.key) \ req[r].removed
  BY <1>1, <1>2 DEF Told
<1>5. RowsDiffer'
  BY <1>1 DEF MentionInv, RowsDiffer
<1>6. ASSUME rq.key \notin unsure
      PROVE  LET known == Told(mentions', rq.key) IN
             /\ rq.body \subseteq (known \ rq.removed) \cup rq.added
             /\ store = "memory" => rq.removed = known \ rq.body /\ rq.added = rq.body \ known
  <2>1. Saves(req[r], Told(mentions, rq.key), store = "memory")
    BY <1>1, <1>2, <1>6 DEF MentionInv
  <2>2. LET known == Told(mentions, rq.key) IN
        /\ rq.body \subseteq (known \ req[r].removed) \cup rq.added
        /\ store = "memory" => req[r].removed = known \ rq.body /\ rq.added = rq.body \ known
    BY <1>1, <1>2, <2>1 DEF Saves
  <2> QED
    BY <1>2, <1>4, <2>2
<1> QED
  BY <1>1, <1>2, <1>3, <1>5, <1>6, GoesKeepsMentions

(* In memory it inserts the rows of all who are mentioned now.              *)
LEMMA InsertAllKeepsMentions ==
  ASSUME ReqInv, MentionInv, NEW r \in Requests, insert_mentions_in_memory(r)
  PROVE  MentionInv'
<1> DEFINE rq == [req[r] EXCEPT !.added = {}]
<1>1. PICK id :
        mentions' = mentions \cup {Row(id[who], req[r].key, who) : who \in req[r].added}
  BY DEF insert_mentions_in_memory
<1>2. /\ req[r].stage = "mention" /\ IsMention(req[r]) /\ req[r].at = "insert"
      /\ UNCHANGED <<store, unsure>> /\ Goes(r, rq) /\ store = "memory"
  BY DEF insert_mentions_in_memory, MentionInv
<1>3. /\ IsMention(rq) /\ rq.stage = "mention" /\ rq.key = req[r].key /\ rq.body = req[r].body
      /\ rq.removed = req[r].removed /\ rq.added = {}
  <2>1. /\ rq = Mention(req[r].key, req[r].body, req[r].at, req[r].removed, {})
        /\ req[r].at \in {"list", "delete", "insert"}
    BY <1>2, MentionFields
  <2> HIDE DEF rq
  <2> QED
    BY <2>1, MentionTells
<1> HIDE DEF rq
<1>4. \A n, k, m : Row(n, k, m).key = k /\ Row(n, k, m).who = m
  BY DEF Row
<1>5. \A row \in mentions' \ mentions : row.key = rq.key /\ row.who \in req[r].added
  BY <1>1, <1>3, <1>4
<1>6. mentions \subseteq mentions'
  BY <1>1
<1>7. \A m \in req[r].added : \E row \in mentions' : row.key = rq.key /\ row.who = m
  BY <1>1, <1>3, <1>4
<1>8. \A key : key # rq.key => Told(mentions', key) = Told(mentions, key)
  BY <1>5, <1>6 DEF Told
<1>9. Told(mentions', rq.key) = Told(mentions, rq.key) \cup req[r].added
  BY <1>5, <1>6, <1>7 DEF Told
<1>10. ASSUME rq.key \notin unsure
       PROVE  LET known == Told(mentions, rq.key) IN
              /\ req[r].removed = {} /\ req[r].added = rq.body \ known /\ {} = known \ rq.body
  <2>1. Saves(req[r], Told(mentions, rq.key), store = "memory")
    BY <1>2, <1>3, <1>10 DEF MentionInv
  <2> QED
    BY <1>2, <1>3, <2>1 DEF Saves
<1>11. ASSUME rq.key \notin unsure
       PROVE  LET known == Told(mentions', rq.key) IN
              /\ rq.body \subseteq (known \ rq.removed) \cup rq.added
              /\ store = "memory" => rq.removed = known \ rq.body /\ rq.added = rq.body \ known
  BY <1>3, <1>9, <1>10, <1>11
<1>12. RowsDiffer'
  <2> SUFFICES ASSUME NEW x \in mentions', NEW y \in mentions', x.key \notin unsure,
                      x.key = y.key, x.who = y.who
               PROVE  x = y
    BY <1>2 DEF RowsDiffer
  <2>1. CASE x \in mentions /\ y \in mentions
    BY <1>2, <2>1 DEF MentionInv, RowsDiffer
  <2>2. \A row \in mentions : row.key = rq.key => row.who \in Told(mentions, rq.key)
    BY DEF Told
  <2>3. CASE x \notin mentions \/ y \notin mentions
    <3>1. x.key = rq.key /\ x.who \in req[r].added
      BY <1>5, <2>3
    <3>2. x \notin mentions /\ y \notin mentions
      BY <1>10, <2>2, <3>1
    <3>3. \A row \in mentions' \ mentions : row = Row(id[row.who], req[r].key, row.who)
      BY <1>1, <1>4
    <3>4. x = Row(id[x.who], req[r].key, x.who) /\ y = Row(id[y.who], req[r].key, y.who)
      BY <3>2, <3>3
    <3> QED
      BY <3>4
  <2> QED
    BY <2>1, <2>3
<1> QED
  BY <1>2, <1>3, <1>8, <1>11, <1>12, GoesKeepsMentions

(* With SurrealDB it inserts one row, over those of the same number.        *)
LEMMA InsertKeepsMentions ==
  ASSUME ReqInv, MentionInv, NEW r \in Requests, insert_mentions(r)
  PROVE  MentionInv'
<1>1. PICK who, id, gone :
        /\ who \in req[r].added
        /\ gone = {row \in mentions : row.id = id}
        /\ mentions' = (mentions \ gone) \cup {Row(id, req[r].key, who)}
        /\ unsure' = unsure \cup {row.key : row \in gone}
        /\ Goes(r, [req[r] EXCEPT !.added = @ \ {who}])
  BY DEF insert_mentions
<1> DEFINE rq == [req[r] EXCEPT !.added = @ \ {who}]
<1>2. /\ req[r].stage = "mention" /\ IsMention(req[r]) /\ req[r].at = "insert"
      /\ UNCHANGED store /\ store = "surreal"
  BY DEF insert_mentions, MentionInv
<1>3. /\ IsMention(rq) /\ rq.stage = "mention" /\ rq.key = req[r].key /\ rq.body = req[r].body
      /\ rq.removed = req[r].removed /\ rq.added = req[r].added \ {who}
  <2>1. /\ rq = Mention(req[r].key, req[r].body, req[r].at, req[r].removed,
                        req[r].added \ {who})
        /\ req[r].at \in {"list", "delete", "insert"}
    BY <1>2, MentionFields
  <2> HIDE DEF rq
  <2> QED
    BY <2>1, MentionTells
<1>4. Goes(r, rq)
  BY <1>1
<1> HIDE DEF rq
<1>5. \A n, k, m : Row(n, k, m).key = k /\ Row(n, k, m).who = m
  BY DEF Row
<1>6. \A row \in mentions : row.key \notin unsure' => row \in mentions'
  BY <1>1
<1>7. \A row \in mentions' : row \in mentions \/ (row.key = rq.key /\ row.who = who)
  BY <1>1, <1>3, <1>5
<1>8. \E row \in mentions' : row.key = rq.key /\ row.who = who
  BY <1>1, <1>3, <1>5
<1>9. \A key : key # rq.key /\ key \notin unsure' => Told(mentions', key) = Told(mentions, key)
  BY <1>6, <1>7 DEF Told
<1>10. rq.key \notin unsure' => Told(mentions', rq.key) = Told(mentions, rq.key) \cup {who}
  BY <1>6, <1>7, <1>8 DEF Told
<1>11. ASSUME rq.key \notin unsure'
       PROVE  rq.body \subseteq (Told(mentions', rq.key) \ rq.removed) \cup rq.added
  <2>1. Saves(req[r], Told(mentions, rq.key), store = "memory")
    BY <1>1, <1>2, <1>3, <1>11 DEF MentionInv
  <2>2. /\ rq.body \subseteq (Told(mentions, rq.key) \ rq.removed) \cup req[r].added
        /\ rq.removed = {}
    BY <1>2, <1>3, <2>1 DEF Saves
  <2> QED
    BY <1>3, <1>10, <1>11, <2>2
<1>12. RowsDiffer' /\ unsure \subseteq unsure'
  BY <1>1, <1>2 DEF RowsDiffer
<1> QED
  BY <1>2, <1>3, <1>4, <1>9, <1>11, <1>12, GoesKeepsMentions

(* A statement that fails unnoticed makes the message unsure.               *)
LEMMA MissKeepsMentions ==
  ASSUME ReqInv, MentionInv, NEW r \in Requests, MentionsMissed(r)
  PROVE  MentionInv'
<1>1. /\ req[r].stage = "mention" /\ IsMention(req[r])
      /\ UNCHANGED <<store, mentions>> /\ unsure' = unsure \cup {req[r].key}
  BY DEF MentionsMissed, MentionInv, noted
<1>2. PICK rq : /\ Goes(r, rq) /\ IsMention(rq) /\ rq.stage = "mention" /\ rq.key = req[r].key
  <2>1. CASE req[r].at = "delete" /\ Goes(r, [req[r] EXCEPT !.removed = {}])
    <3>1. PICK rq : /\ rq = [req[r] EXCEPT !.removed = {}]
                    /\ rq = Mention(req[r].key, req[r].body, req[r].at, {}, req[r].added)
      BY <1>1, MentionFields
    <3>2. rq = Mention(req[r].key, req[r].body, req[r].at, {}, req[r].added)
      BY <3>1
    <3>3. req[r].at \in {"list", "delete", "insert"}
      BY <2>1
    <3>4. IsMention(rq) /\ rq.stage = "mention" /\ rq.key = req[r].key
      BY <3>2, <3>3, MentionTells
    <3>5. Goes(r, rq)
      BY <2>1, <3>1
    <3> QED
      BY <3>4, <3>5
  <2>2. CASE /\ req[r].at = "insert"
             /\ \E who \in req[r].added : Goes(r, [req[r] EXCEPT !.added = @ \ {who}])
    <3>1. PICK who \in req[r].added : Goes(r, [req[r] EXCEPT !.added = @ \ {who}])
      BY <2>2
    <3>2. PICK rq : /\ rq = [req[r] EXCEPT !.added = @ \ {who}]
                    /\ rq = Mention(req[r].key, req[r].body, req[r].at, req[r].removed,
                                    req[r].added \ {who})
      BY <1>1, MentionFields
    <3>3. rq = Mention(req[r].key, req[r].body, req[r].at, req[r].removed, req[r].added \ {who})
      BY <3>2
    <3>4. req[r].at \in {"list", "delete", "insert"}
      BY <2>2
    <3>5. IsMention(rq) /\ rq.stage = "mention" /\ rq.key = req[r].key
      BY <3>3, <3>4, MentionTells
    <3>6. Goes(r, rq)
      BY <3>1, <3>2
    <3> QED
      BY <3>5, <3>6
  <2> QED
    BY <2>1, <2>2 DEF MentionsMissed
<1>3. RowsDiffer' /\ rq.key \in unsure' /\ \A key : Told(mentions', key) = Told(mentions, key)
  BY <1>1, <1>2 DEF MentionInv, RowsDiffer
<1> QED
  BY <1>1, <1>2, <1>3, GoesKeepsMentions

(* All steps keep it, and it tells that mentions are kept.                  *)
LEMMA NextKeepsMentions ==
  ASSUME FilesInv, MentionInv, [Next]_vars, UNCHANGED store
  PROVE  MentionInv'
<1>1. ReqInv
  BY DEF FilesInv
<1>2. CASE UNCHANGED vars
  BY <1>2, MentionFrame DEF vars, posting, noted
<1>3. CASE UploadsNext(MessageIds) /\ UNCHANGED posting
  <2>1. UNCHANGED <<mentions, saved, unsure>>
    BY <1>3 DEF posting, noted
  <2> QED
    BY <1>3, <2>1, UploadsAmong, OtherStages, MentionFrame DEF Among
<1>4. CASE DraftsNext /\ UNCHANGED posting
  <2>1. UNCHANGED <<mentions, saved, unsure>>
    BY <1>4 DEF posting, noted
  <2> QED
    BY <1>1, <1>4, <2>1, DraftsAmong, OtherStages, MentionFrame DEF Among
<1>5. CASE PostingNext
  <2>1. Idle.stage # "mention"
    BY DEF Idle
  <2>2. ASSUME NEW r \in Requests, NEW board, NEW topic, NEW msg, NEW body,
               post_in_memory(r, board, topic, msg, body)
        PROVE  MentionInv'
    <3>1. UNCHANGED <<mentions, saved>> /\ req[r].stage # "mention"
      BY <2>1, <2>2 DEF post_in_memory, noted
    <3>2. PICK key : process_mentions(r, key, body)
      BY <2>2 DEF post_in_memory
    <3> QED
      BY <1>1, <3>1, <3>2, ProcessKeepsMentions
  <2>3. ASSUME NEW r \in Requests, NEW board, NEW topic, NEW msg, NEW body,
               post2(r, board, topic, msg, body)
        PROVE  MentionInv'
    <3> DEFINE rq == Started("post", msg, body)
    <3>1. UNCHANGED <<mentions, saved, unsure>> /\ Start(r, rq)
      BY <2>3 DEF post2, posting, noted
    <3>2. Staged(rq) /\ rq.stage = "post"
      BY DEF Staged, Started
    <3> HIDE DEF rq
    <3>3. OneMoves(r) /\ req'[r].stage = "post" /\ req[r].stage = "idle"
      BY <1>1, <3>1, <3>2, StartMoves
    <3> QED
      BY <3>1, <3>3, MentionFrame
  <2>4. ASSUME NEW r \in Requests, persist_post(r)
        PROVE  MentionInv'
    <3>1. UNCHANGED <<mentions, saved>> /\ req[r].stage # "mention"
      BY <2>4 DEF persist_post, noted
    <3>2. process_mentions(r, req[r].key, req[r].body)
      BY <2>4 DEF persist_post
    <3> QED
      BY <1>1, <3>1, <3>2, ProcessKeepsMentions
  <2> QED
    BY <1>1, <1>5, <2>2, <2>3, <2>4, ModifyKeepsMentions, DeleteKeepsMentions,
       InsertAllKeepsMentions, InsertKeepsMentions, MissKeepsMentions, FailKeepsMentions DEF PostingNext
<1> QED
  BY <1>2, <1>3, <1>4, <1>5 DEF Next

LEMMA MentionsAreKept ==
  ASSUME MentionInv
  PROVE  MentionsKept
<1> SUFFICES ASSUME NEW key \in DOMAIN saved \ unsure, Mentioning(key) = {}
             PROVE  /\ saved[key] \subseteq Mentioned(key)
                    /\ store = "memory" =>
                         /\ Mentioned(key) \subseteq saved[key]
                         /\ \A m \in saved[key] : Times(key, m) = 1
  BY DEF MentionsKept
<1>1. /\ saved[key] \subseteq Mentioned(key)
      /\ store = "memory" => Mentioned(key) \subseteq saved[key]
  BY DEF MentionInv, AsSaved, Mentioned, Told
<1>2. ASSUME store = "memory", NEW m \in saved[key]
      PROVE  Times(key, m) = 1
  <2>1. PICK row \in mentions : row.key = key /\ row.who = m
    BY <1>1 DEF Mentioned
  <2>2. \A x \in mentions : x.key = key /\ x.who = m => x = row
    BY <1>2, <2>1 DEF MentionInv, RowsDiffer
  <2>3. {x \in mentions : x.key = key /\ x.who = m} = {row}
    BY <2>1, <2>2
  <2>4. Cardinality({row}) = 1
    BY FS_Singleton
  <2> QED
    BY <2>3, <2>4 DEF Times
<1> QED
  BY <1>1, <1>2

-----------------------------------------------------------------------------
(* Polls.                                                                   *)

(* The choices of a ballot that are for an option.                          *)
VotesFor(ballot, o) == {n \in DOMAIN ballot : ballot[n] = o}

(* How many choices of a ballot a request has cast.                         *)
Done(rq) == Len(rq.ballot) - Len(rq.left)

(* The choices for an option of a poll that a request has left and has cast.*)
Left(rq, id, o) ==
  {n \in Nat : /\ rq.stage = "votes" /\ rq.poll = id
               /\ n \in VotesFor(rq.ballot, o) /\ n > Done(rq)}

Cast(rq, id, o) ==
  {n \in Nat : /\ rq.stage = "votes" /\ rq.poll = id
               /\ n \in VotesFor(rq.ballot, o) /\ n <= Done(rq)}

(* Those of all requests.                                                   *)
AllOf(f) == {t \in Requests \X Nat : t[2] \in f[t[1]]}

AllLeft(q, id, o) == AllOf([r \in Requests |-> Left(q[r], id, o)])

AllCast(q, id, o) == AllOf([r \in Requests |-> Cast(q[r], id, o)])

(* With the requests q, the votes c that were answered and those that are   *)
(* being cast are among the votes p of a poll and the x that were missed,   *)
(* and those of the poll with what is left are among the votes a that were  *)
(* asked for.                                                               *)
Balanced(q, id, o, c, p, x, a) ==
  /\ IsFiniteSet(AllLeft(q, id, o)) /\ IsFiniteSet(AllCast(q, id, o))
  /\ c + Cardinality(AllCast(q, id, o)) <= p + x
  /\ p + Cardinality(AllLeft(q, id, o)) <= a

(* A request that casts the votes of a ballot, one by one.                  *)
IsVote(rq) ==
  /\ {"stage", "poll", "left", "ballot"} \subseteq DOMAIN rq
  /\ rq.ballot \in Seq(Options) /\ rq.left \in Seq(Options) /\ rq.left # <<>>
  /\ Len(rq.left) <= Len(rq.ballot)
  /\ \A n \in 1..Len(rq.left) : rq.left[n] = rq.ballot[Done(rq) + n]

(* Options for which something was missed.                                  *)
Lacking(lost) == {o \in Options : lost[o] > 0}

(* A request that makes the options of a poll, one by one: those that are   *)
(* not left are there, or were missed.                                      *)
IsMaking(rq, votes, lost) ==
  /\ {"stage", "poll", "left"} \subseteq DOMAIN rq
  /\ rq.left \in Seq(Options) /\ rq.left # <<>>
  /\ votes = [o \in DOMAIN votes |-> 0]
  /\ DOMAIN votes \cup Lacking(lost) \cup {rq.left[n] : n \in 1..Len(rq.left)} = Options
  /\ DOMAIN votes \subseteq Options

(* The rows of the options of a poll, and the votes of one of them.         *)
IsRows(votes) == DOMAIN votes \subseteq Options /\ votes \in [DOMAIN votes -> Nat]

Votes(votes, o) == IF o \in DOMAIN votes THEN votes[o] ELSE 0

PollTypes ==
  /\ acts \in Nat
  /\ DOMAIN counted = DOMAIN asked /\ DOMAIN missed = DOMAIN asked
  /\ DOMAIN asked \subseteq 1..acts
  /\ \A id \in DOMAIN asked : /\ asked[id] \in [Options -> Nat] /\ counted[id] \in [Options -> Nat]
                             /\ missed[id] \in [Options -> Nat]
  /\ alive \subseteq DOMAIN asked
  /\ \A id \in alive :
       /\ id \in DOMAIN polls /\ IsRows(polls[id])
       /\ Options \subseteq DOMAIN polls[id] \cup Lacking(missed[id])
       /\ store = "memory" => DOMAIN polls[id] = Options

PollInv ==
  /\ PollTypes
  /\ \A r \in Requests :
       req[r].stage = "votes" => IsVote(req[r]) /\ req[r].poll \in DOMAIN asked
  /\ \A r \in Requests :
       req[r].stage = "options" =>
         /\ IsMaking(req[r], polls[req[r].poll], missed[req[r].poll]) /\ store = "surreal"
         /\ req[r].poll \in (DOMAIN asked \ alive) \cap DOMAIN polls
         /\ asked[req[r].poll] = NoVotes /\ counted[req[r].poll] = NoVotes
  /\ \A r, o \in Requests :
       /\ req[r].stage = "options" /\ req[o].stage \in {"options", "votes"}
       /\ req[o].poll = req[r].poll
       => o = r
  /\ \A id \in alive, o \in Options :
       Balanced(req, id, o, counted[id][o], Votes(polls[id], o), missed[id][o], asked[id][o])

(* One request has other choices.                                           *)
LEMMA OneSwaps ==
  ASSUME NEW f \in [Requests -> SUBSET Nat], NEW g \in [Requests -> SUBSET Nat],
         NEW r \in Requests, \A o \in Requests \ {r} : g[o] = f[o],
         IsFiniteSet(AllOf(f)), IsFiniteSet(g[r])
  PROVE  /\ IsFiniteSet(f[r]) /\ IsFiniteSet(AllOf(g))
         /\ Cardinality(AllOf(f)) \in Nat /\ Cardinality(AllOf(g)) \in Nat
         /\ Cardinality(f[r]) \in Nat /\ Cardinality(g[r]) \in Nat
         /\ Cardinality(AllOf(g)) = Cardinality(AllOf(f)) - Cardinality(f[r]) + Cardinality(g[r])
<1> DEFINE old == {r} \X f[r]
           new == {r} \X g[r]
           rest == AllOf(f) \ old
<1>1. old \subseteq AllOf(f) /\ new \subseteq AllOf(g)
  BY DEF AllOf
<1>2. AllOf(g) = rest \cup new /\ rest \cap new = {}
  BY DEF AllOf
<1>3. IsFiniteSet(old) /\ IsFiniteSet(rest)
  BY <1>1, FS_Subset
<1>4. IsFiniteSet(f[r])
  <2> DEFINE h == [n \in f[r] |-> <<r, n>>]
  <2>2. h \in Injection(f[r], old)
    BY DEF Injection, IsInjective
  <2> QED
    BY <1>3, <2>2, FS_Injection
<1>5. /\ IsFiniteSet({r}) /\ Cardinality({r}) = 1
      /\ Cardinality(f[r]) \in Nat /\ Cardinality(g[r]) \in Nat
  BY <1>4, FS_Singleton, FS_CardinalityType
<1>6. Cardinality(old) = Cardinality(f[r])
  <2>1. Cardinality(old) = Cardinality({r}) * Cardinality(f[r])
    BY <1>4, <1>5, FS_Product
  <2> QED
    BY <1>5, <2>1
<1>7. IsFiniteSet(new) /\ Cardinality(new) = Cardinality(g[r])
  <2>1. IsFiniteSet(new) /\ Cardinality(new) = Cardinality({r}) * Cardinality(g[r])
    BY <1>5, FS_Product
  <2> QED
    BY <1>5, <2>1
<1>8. Cardinality(rest) = Cardinality(AllOf(f)) - Cardinality(old)
  <2>1. AllOf(f) \cap old = old
    BY <1>1
  <2>2. Cardinality(rest) = Cardinality(AllOf(f)) - Cardinality(AllOf(f) \cap old)
    BY FS_Difference
  <2> QED
    BY <2>1, <2>2
<1> HIDE DEF old, new, rest
<1>9. IsFiniteSet(AllOf(g)) /\ Cardinality(AllOf(g)) = Cardinality(rest) + Cardinality(new)
  <2>1. /\ IsFiniteSet(rest \cup new)
        /\ Cardinality(rest \cup new)
             = Cardinality(rest) + Cardinality(new) - Cardinality(rest \cap new)
    BY <1>3, <1>7, FS_Union
  <2>2. Cardinality(rest \cap new) = 0
    BY <1>2, FS_EmptySet
  <2>3. Cardinality(rest) \in Nat /\ Cardinality(new) \in Nat
    BY <1>3, <1>7, FS_CardinalityType
  <2> QED
    BY <1>2, <2>1, <2>2, <2>3
<1>10. Cardinality(AllOf(f)) \in Nat /\ Cardinality(AllOf(g)) \in Nat
  BY <1>9, FS_CardinalityType
<1> QED
  BY <1>4, <1>5, <1>6, <1>7, <1>8, <1>9, <1>10

(* The balance of an option is kept by one request that moves.              *)
LEMMA BalanceMoves ==
  ASSUME NEW q, NEW next, NEW r \in Requests, \A o \in Requests \ {r} : next[o] = q[o],
         NEW id, NEW o, NEW c \in Nat, NEW p \in Nat, NEW x \in Nat, NEW a \in Nat,
         Balanced(q, id, o, c, p, x, a),
         NEW d \in Nat, NEW m \in Nat, NEW y \in Nat, NEW b \in Nat,
         IsFiniteSet(Left(next[r], id, o)), IsFiniteSet(Cast(next[r], id, o)),
         d + Cardinality(Cast(next[r], id, o)) - Cardinality(Cast(q[r], id, o)) <= m + y,
         m + Cardinality(Left(next[r], id, o)) - Cardinality(Left(q[r], id, o)) <= b
  PROVE  Balanced(next, id, o, c + d, p + m, x + y, a + b)
<1>1. /\ IsFiniteSet(AllLeft(next, id, o))
      /\ Cardinality(AllLeft(q, id, o)) \in Nat /\ Cardinality(AllLeft(next, id, o)) \in Nat
      /\ Cardinality(Left(q[r], id, o)) \in Nat /\ Cardinality(Left(next[r], id, o)) \in Nat
      /\ Cardinality(AllLeft(next, id, o))
           = Cardinality(AllLeft(q, id, o)) - Cardinality(Left(q[r], id, o))
               + Cardinality(Left(next[r], id, o))
  <2> DEFINE f == [s \in Requests |-> Left(q[s], id, o)]
             g == [s \in Requests |-> Left(next[s], id, o)]
  <2>1. /\ f \in [Requests -> SUBSET Nat] /\ g \in [Requests -> SUBSET Nat]
        /\ \A s \in Requests \ {r} : g[s] = f[s]
        /\ f[r] = Left(q[r], id, o) /\ g[r] = Left(next[r], id, o)
        /\ AllLeft(q, id, o) = AllOf(f) /\ AllLeft(next, id, o) = AllOf(g)
    BY DEF Left, AllLeft
  <2>2. IsFiniteSet(AllOf(f)) /\ IsFiniteSet(g[r])
    BY <2>1 DEF Balanced
  <2> HIDE DEF f, g
  <2> QED
    BY <2>1, <2>2, OneSwaps
<1>2. /\ IsFiniteSet(AllCast(next, id, o))
      /\ Cardinality(AllCast(q, id, o)) \in Nat /\ Cardinality(AllCast(next, id, o)) \in Nat
      /\ Cardinality(Cast(q[r], id, o)) \in Nat /\ Cardinality(Cast(next[r], id, o)) \in Nat
      /\ Cardinality(AllCast(next, id, o))
           = Cardinality(AllCast(q, id, o)) - Cardinality(Cast(q[r], id, o))
               + Cardinality(Cast(next[r], id, o))
  <2> DEFINE f == [s \in Requests |-> Cast(q[s], id, o)]
             g == [s \in Requests |-> Cast(next[s], id, o)]
  <2>1. /\ f \in [Requests -> SUBSET Nat] /\ g \in [Requests -> SUBSET Nat]
        /\ \A s \in Requests \ {r} : g[s] = f[s]
        /\ f[r] = Cast(q[r], id, o) /\ g[r] = Cast(next[r], id, o)
        /\ AllCast(q, id, o) = AllOf(f) /\ AllCast(next, id, o) = AllOf(g)
    BY DEF Cast, AllCast
  <2>2. IsFiniteSet(AllOf(f)) /\ IsFiniteSet(g[r])
    BY <2>1 DEF Balanced
  <2> HIDE DEF f, g
  <2> QED
    BY <2>1, <2>2, OneSwaps
<1> QED
  BY <1>1, <1>2 DEF Balanced

(* A request that does not vote has no choices.                             *)
LEMMA NoChoices ==
  ASSUME NEW rq, NEW id, NEW o, rq.stage # "votes" \/ rq.poll # id
  PROVE  /\ Left(rq, id, o) = {} /\ Cast(rq, id, o) = {}
         /\ IsFiniteSet(Left(rq, id, o)) /\ IsFiniteSet(Cast(rq, id, o))
         /\ Cardinality(Left(rq, id, o)) = 0 /\ Cardinality(Cast(rq, id, o)) = 0
<1>1. Left(rq, id, o) = {} /\ Cast(rq, id, o) = {}
  BY DEF Left, Cast
<1> QED
  BY <1>1, FS_EmptySet

(* A poll for which nobody votes is balanced without votes.                 *)
LEMMA NobodyVotes ==
  ASSUME NEW q, NEW id, NEW o, NEW x \in Nat,
         \A r \in Requests : q[r].stage # "votes" \/ q[r].poll # id
  PROVE  Balanced(q, id, o, 0, 0, x, 0)
<1>1. AllLeft(q, id, o) = {} /\ AllCast(q, id, o) = {}
  BY DEF AllLeft, AllCast, AllOf, Left, Cast
<1>2. IsFiniteSet({}) /\ Cardinality({}) = 0
  BY FS_EmptySet
<1> QED
  BY <1>1, <1>2 DEF Balanced

(* What is left of a ballot and what is cast are its choices.               *)
LEMMA ChoicesSplit ==
  ASSUME NEW rq, IsVote(rq), rq.stage = "votes", NEW o
  PROVE  LET left == Left(rq, rq.poll, o)
             cast == Cast(rq, rq.poll, o)
         IN /\ IsFiniteSet(left) /\ IsFiniteSet(cast)
            /\ Cardinality(left) \in Nat /\ Cardinality(cast) \in Nat
            /\ Cardinality(VotesFor(rq.ballot, o)) = Cardinality(left) + Cardinality(cast)
<1> DEFINE left == Left(rq, rq.poll, o)
           cast == Cast(rq, rq.poll, o)
<1>1. /\ Len(rq.ballot) \in Nat /\ Len(rq.left) \in Nat /\ Done(rq) \in Nat
      /\ DOMAIN rq.ballot = 1..Len(rq.ballot)
  BY DEF IsVote, Done
<1>2. left \subseteq 1..Len(rq.ballot) /\ cast \subseteq 1..Len(rq.ballot)
  BY <1>1 DEF Left, Cast, VotesFor
<1>3. VotesFor(rq.ballot, o) = left \cup cast /\ left \cap cast = {}
  BY <1>1 DEF Left, Cast, VotesFor
<1> HIDE DEF left, cast
<1>4. IsFiniteSet(1..Len(rq.ballot))
  BY <1>1, FS_Interval
<1>5. IsFiniteSet(left) /\ IsFiniteSet(cast)
  BY <1>2, <1>4, FS_Subset
<1>6. Cardinality(left) \in Nat /\ Cardinality(cast) \in Nat
  BY <1>5, FS_CardinalityType
<1>7. Cardinality(left \cup cast)
        = Cardinality(left) + Cardinality(cast) - Cardinality(left \cap cast)
  BY <1>5, FS_Union
<1>8. Cardinality(left \cap cast) = 0
  BY <1>3, FS_EmptySet
<1> QED
  BY <1>3, <1>5, <1>6, <1>7, <1>8 DEF left, cast

(* How many votes the first choice left gives to an option.                 *)
Gains(left, o) == IF Head(left) = o THEN 1 ELSE 0

(* Who has cast all but one choice has one left.                            *)
LEMMA HeadIsLeft ==
  ASSUME NEW rq, IsVote(rq), rq.stage = "votes", NEW o
  PROVE  /\ Gains(rq.left, o) <= Cardinality(Left(rq, rq.poll, o))
         /\ Len(rq.left) = 1 =>
              Cardinality(Left(rq, rq.poll, o)) = Gains(rq.left, o)
<1> DEFINE left == Left(rq, rq.poll, o)
           k == Done(rq) + 1
<1>1. /\ Len(rq.ballot) \in Nat /\ Len(rq.left) \in Nat /\ Len(rq.left) > 0 /\ Done(rq) \in Nat
      /\ DOMAIN rq.ballot = 1..Len(rq.ballot)
      /\ Done(rq) = Len(rq.ballot) - Len(rq.left) /\ Len(rq.left) <= Len(rq.ballot)
  BY DEF IsVote, Done
<1>2. /\ k \in DOMAIN rq.ballot /\ Head(rq.left) = rq.ballot[k]
      /\ k \in Nat /\ k > Done(rq)
  BY <1>1 DEF IsVote
<1> HIDE DEF k
<1>3. Head(rq.left) = o => k \in left
  BY <1>2 DEF Left, VotesFor
<1>4. Len(rq.left) = 1 => left = IF Head(rq.left) = o THEN {k} ELSE {}
  <2>1. Len(rq.left) = 1 => \A n \in DOMAIN rq.ballot : n > Done(rq) <=> n = k
    BY <1>1 DEF k
  <2> QED
    BY <1>2, <2>1 DEF Left, VotesFor
<1>5. IsFiniteSet(left) /\ Cardinality(left) \in Nat
  BY ChoicesSplit
<1> HIDE DEF left
<1>6. Cardinality({k}) = 1 /\ Cardinality({}) = 0
  BY FS_Singleton, FS_EmptySet
<1>7. Head(rq.left) = o => Cardinality(left) # 0
  BY <1>3, <1>5, FS_EmptySet
<1>8. Gains(rq.left, o) <= Cardinality(left)
  BY <1>5, <1>7 DEF Gains
<1>9. Len(rq.left) = 1 => Cardinality(left) = Gains(rq.left, o)
  BY <1>4, <1>6 DEF Gains
<1> QED
  BY <1>8, <1>9 DEF left

(* A choice is cast that was left.                                          *)
LEMMA ChoiceIsCast ==
  ASSUME NEW rq, IsVote(rq), rq.stage = "votes", Len(rq.left) # 1, NEW next,
         {"stage", "poll", "left", "ballot"} \subseteq DOMAIN next,
         next.stage = rq.stage, next.poll = rq.poll, next.ballot = rq.ballot,
         next.left = Tail(rq.left)
  PROVE  /\ IsVote(next)
         /\ \A o : /\ Cardinality(Left(next, rq.poll, o))
                        = Cardinality(Left(rq, rq.poll, o)) - Gains(rq.left, o)
                   /\ Cardinality(Cast(next, rq.poll, o))
                        = Cardinality(Cast(rq, rq.poll, o)) + Gains(rq.left, o)
<1> DEFINE k == Done(rq) + 1
<1>1. /\ Len(rq.ballot) \in Nat /\ Len(rq.left) \in Nat /\ Len(rq.left) > 0 /\ Done(rq) \in Nat
      /\ DOMAIN rq.ballot = 1..Len(rq.ballot)
      /\ Done(rq) = Len(rq.ballot) - Len(rq.left) /\ Len(rq.left) <= Len(rq.ballot)
  BY DEF IsVote, Done
<1>2. /\ next.left \in Seq(Options) /\ Len(next.left) = Len(rq.left) - 1 /\ next.left # <<>>
      /\ \A n \in 1..Len(next.left) : next.left[n] = rq.left[n + 1]
  <2>1. rq.left \in Seq(Options) /\ rq.left # <<>>
    BY DEF IsVote
  <2>2. /\ Tail(rq.left) \in Seq(Options) /\ Len(Tail(rq.left)) = Len(rq.left) - 1
        /\ \A n \in 1..Len(Tail(rq.left)) : Tail(rq.left)[n] = rq.left[n + 1]
    BY <2>1, HeadTailProperties
  <2>3. Len(Tail(rq.left)) # 0
    BY <1>1, <2>2
  <2>4. Tail(rq.left) # <<>>
    BY <2>2, <2>3, EmptySeq
  <2> QED
    BY <2>2, <2>4
<1>3. Done(next) = k
  <2>1. Done(next) = Len(rq.ballot) - Len(next.left)
    BY DEF Done
  <2> QED
    BY <1>1, <1>2, <2>1
<1>4. /\ k \in DOMAIN rq.ballot /\ Head(rq.left) = rq.ballot[k] /\ k \in Nat
      /\ k > Done(rq) /\ ~(k <= Done(rq))
      /\ \A n \in Nat : n > k <=> (n > Done(rq) /\ n # k)
      /\ \A n \in Nat : n <= k <=> (n <= Done(rq) \/ n = k)
  <2>1. k \in DOMAIN rq.ballot /\ Head(rq.left) = rq.ballot[k]
    BY <1>1 DEF IsVote
  <2>2. ASSUME NEW m \in Nat
        PROVE  /\ m + 1 \in Nat /\ m + 1 > m /\ ~(m + 1 <= m)
               /\ \A n \in Nat : n > m + 1 <=> (n > m /\ n # m + 1)
               /\ \A n \in Nat : n <= m + 1 <=> (n <= m \/ n = m + 1)
    OBVIOUS
  <2> QED
    BY <1>1, <2>1, <2>2
<1>5. IsVote(next)
  <2>1. \A n \in 1..Len(next.left) : next.left[n] = next.ballot[Done(next) + n]
    <3>1. TAKE n \in 1..Len(next.left)
    <3>2. n + 1 \in 1..Len(rq.left) /\ next.left[n] = rq.left[n + 1]
      BY <1>1, <1>2
    <3>3. rq.left[n + 1] = rq.ballot[Done(rq) + (n + 1)]
      BY <3>2 DEF IsVote
    <3>4. Done(rq) + (n + 1) = Done(next) + n
      <4>1. n \in Nat
        BY <1>1, <1>2
      <4>2. ASSUME NEW m \in Nat PROVE m + (n + 1) = (m + 1) + n
        BY <4>1
      <4> QED
        BY <1>1, <1>3, <4>2
    <3> QED
      BY <3>2, <3>3, <3>4
  <2> QED
    BY <1>1, <1>2, <2>1 DEF IsVote
<1>6. ASSUME NEW o
      PROVE  /\ Left(next, rq.poll, o) = Left(rq, rq.poll, o) \ {k}
             /\ Head(rq.left) = o <=> k \in Left(rq, rq.poll, o)
             /\ Cast(next, rq.poll, o)
                  = IF Head(rq.left) = o THEN Cast(rq, rq.poll, o) \cup {k} ELSE Cast(rq, rq.poll, o)
             /\ k \notin Cast(rq, rq.poll, o)
  <2> HIDE DEF k
  <2>1. Left(next, rq.poll, o) = Left(rq, rq.poll, o) \ {k}
    BY <1>3, <1>4 DEF Left, VotesFor
  <2>2. Head(rq.left) = o <=> k \in Left(rq, rq.poll, o)
    BY <1>4 DEF Left, VotesFor
  <2>3. Head(rq.left) = o <=> k \in Cast(next, rq.poll, o)
    BY <1>3, <1>4 DEF Cast, VotesFor
  <2>4. Cast(next, rq.poll, o) \ {k} = Cast(rq, rq.poll, o) /\ k \notin Cast(rq, rq.poll, o)
    BY <1>3, <1>4 DEF Cast, VotesFor
  <2> QED
    BY <2>1, <2>2, <2>3, <2>4
<1> HIDE DEF k
<1>7. ASSUME NEW o
      PROVE  /\ Cardinality(Left(next, rq.poll, o))
                  = Cardinality(Left(rq, rq.poll, o)) - Gains(rq.left, o)
             /\ Cardinality(Cast(next, rq.poll, o))
                  = Cardinality(Cast(rq, rq.poll, o)) + Gains(rq.left, o)
  <2>1. /\ IsFiniteSet(Left(rq, rq.poll, o)) /\ IsFiniteSet(Cast(rq, rq.poll, o))
        /\ Cardinality(Left(rq, rq.poll, o)) \in Nat /\ Cardinality(Cast(rq, rq.poll, o)) \in Nat
    BY ChoicesSplit
  <2>2. Cardinality(Left(rq, rq.poll, o) \ {k})
          = IF k \in Left(rq, rq.poll, o) THEN Cardinality(Left(rq, rq.poll, o)) - 1
            ELSE Cardinality(Left(rq, rq.poll, o))
    BY <2>1, FS_RemoveElement
  <2>3. Cardinality(Cast(rq, rq.poll, o) \cup {k})
          = IF k \in Cast(rq, rq.poll, o) THEN Cardinality(Cast(rq, rq.poll, o))
            ELSE Cardinality(Cast(rq, rq.poll, o)) + 1
    BY <2>1, FS_AddElement
  <2>4. CASE Head(rq.left) = o
    BY <1>6, <2>1, <2>2, <2>3, <2>4 DEF Gains
  <2>5. CASE Head(rq.left) # o
    <3>1. Gains(rq.left, o) = 0 /\ Cast(next, rq.poll, o) = Cast(rq, rq.poll, o)
      BY <1>6, <2>5 DEF Gains
    <3>2. Cardinality(Left(next, rq.poll, o)) = Cardinality(Left(rq, rq.poll, o))
      BY <1>6, <2>2, <2>5
    <3> QED
      BY <2>1, <3>1, <3>2
  <2> QED
    BY <2>4, <2>5
<1> QED
  BY <1>5, <1>7

(* Who begins to vote has all choices left.                                 *)
LEMMA BallotIsLeft ==
  ASSUME NEW ballot \in Seq(Options), ballot # <<>>, NEW id
  PROVE  LET rq == [stage |-> "votes", poll |-> id, left |-> ballot, ballot |-> ballot] IN
         /\ IsVote(rq)
         /\ \A o : /\ Cardinality(Left(rq, id, o)) = Cardinality(VotesFor(ballot, o))
                   /\ Cardinality(Cast(rq, id, o)) = 0
<1> DEFINE rq == [stage |-> "votes", poll |-> id, left |-> ballot, ballot |-> ballot]
<1>1. /\ rq.stage = "votes" /\ rq.poll = id /\ rq.left = ballot /\ rq.ballot = ballot
      /\ {"stage", "poll", "left", "ballot"} \subseteq DOMAIN rq
  OBVIOUS
<1> HIDE DEF rq
<1>2. Len(ballot) \in Nat /\ DOMAIN ballot = 1..Len(ballot) /\ Done(rq) = 0
  BY <1>1 DEF Done
<1>3. IsVote(rq)
  BY <1>1, <1>2 DEF IsVote
<1>4. ASSUME NEW o
      PROVE  Left(rq, id, o) = VotesFor(ballot, o) /\ Cast(rq, id, o) = {}
  BY <1>1, <1>2 DEF Left, Cast, VotesFor
<1> QED
  BY <1>3, <1>4, FS_EmptySet DEF rq

(* What a ballot adds to votes.                                             *)
LEMMA TallyAdds ==
  ASSUME NEW votes \in [Options -> Nat], NEW ballot \in Seq(Options)
  PROVE  /\ Tally(votes, ballot) \in [Options -> Nat]
         /\ \A o : Cardinality(VotesFor(ballot, o)) \in Nat
         /\ \A o \in Options : Tally(votes, ballot)[o] = votes[o] + Cardinality(VotesFor(ballot, o))
<1>1. ASSUME NEW o
      PROVE  Cardinality(VotesFor(ballot, o)) \in Nat
  <2>1. VotesFor(ballot, o) \subseteq 1..Len(ballot) /\ Len(ballot) \in Nat
    BY DEF VotesFor
  <2>2. IsFiniteSet(1..Len(ballot))
    BY <2>1, FS_Interval
  <2>3. IsFiniteSet(VotesFor(ballot, o))
    BY <2>1, <2>2, FS_Subset
  <2> QED
    BY <2>3, FS_CardinalityType
<1>2. Tally(votes, ballot) = [o \in Options |-> votes[o] + Cardinality(VotesFor(ballot, o))]
  BY DEF Tally, VotesFor
<1> QED
  BY <1>1, <1>2

(* And to the rows of options, of which some may be missing.                *)
LEMMA RowsAreTallied ==
  ASSUME NEW votes, IsRows(votes), NEW ballot \in Seq(Options)
  PROVE  /\ IsRows(Tally(votes, ballot)) /\ DOMAIN Tally(votes, ballot) = DOMAIN votes
         /\ \A o : /\ Cardinality(VotesFor(ballot, o)) \in Nat /\ Votes(votes, o) \in Nat
                   /\ Votes(Tally(votes, ballot), o)
                        = IF o \in DOMAIN votes
                          THEN Votes(votes, o) + Cardinality(VotesFor(ballot, o)) ELSE 0
<1>1. \A o : Cardinality(VotesFor(ballot, o)) \in Nat
  <2>1. [o \in Options |-> 0] \in [Options -> Nat]
    OBVIOUS
  <2> QED
    BY <2>1, TallyAdds
<1>2. Tally(votes, ballot) = [o \in DOMAIN votes |-> votes[o] + Cardinality(VotesFor(ballot, o))]
  BY DEF Tally, VotesFor
<1>3. DOMAIN votes \subseteq Options /\ \A o \in DOMAIN votes : votes[o] \in Nat
  BY DEF IsRows
<1>4. IsRows(Tally(votes, ballot))
  BY <1>1, <1>2, <1>3 DEF IsRows
<1> QED
  BY <1>1, <1>2, <1>3, <1>4 DEF Votes

LEMMA OneIsTallied ==
  ASSUME NEW left \in Seq(Options), left # <<>>, NEW o
  PROVE  /\ <<Head(left)>> \in Seq(Options)
         /\ Cardinality(VotesFor(<<Head(left)>>, o)) = Gains(left, o) /\ Gains(left, o) \in Nat
<1>1. Head(left) \in Options
  BY HeadTailProperties
<1>2. ASSUME NEW one, one = <<Head(left)>>
      PROVE  VotesFor(one, o) = IF Head(left) = o THEN {1} ELSE {}
  BY <1>2 DEF VotesFor
<1>3. Cardinality({1}) = 1 /\ Cardinality({}) = 0
  BY FS_Singleton, FS_EmptySet
<1>4. Cardinality(VotesFor(<<Head(left)>>, o)) = Gains(left, o)
  BY <1>2, <1>3 DEF Gains
<1> QED
  BY <1>1, <1>4 DEF Gains

(* The balance of an option, when requests move that do not vote.           *)
LEMMA BalanceStays ==
  ASSUME NEW q, NEW next, NEW r \in Requests, \A o \in Requests \ {r} : next[o] = q[o],
         NEW id, NEW o, NEW c \in Nat, NEW p \in Nat, NEW x \in Nat, NEW a \in Nat,
         Balanced(q, id, o, c, p, x, a),
         q[r].stage # "votes" \/ q[r].poll # id, next[r].stage # "votes" \/ next[r].poll # id
  PROVE  Balanced(next, id, o, c, p, x, a)
<1>1. /\ IsFiniteSet(Left(next[r], id, o)) /\ IsFiniteSet(Cast(next[r], id, o))
      /\ Cardinality(Left(next[r], id, o)) = 0 /\ Cardinality(Cast(next[r], id, o)) = 0
      /\ Cardinality(Left(q[r], id, o)) = 0 /\ Cardinality(Cast(q[r], id, o)) = 0
  BY NoChoices
<1>2. Balanced(next, id, o, c + 0, p + 0, x + 0, a + 0)
  <2>1. \A d, m, y, b \in Nat :
          /\ d + Cardinality(Cast(next[r], id, o)) - Cardinality(Cast(q[r], id, o)) <= m + y
          /\ m + Cardinality(Left(next[r], id, o)) - Cardinality(Left(q[r], id, o)) <= b
          => Balanced(next, id, o, c + d, p + m, x + y, a + b)
    BY <1>1, BalanceMoves
  <2>2. 0 \in Nat /\ 0 + 0 - 0 <= 0 /\ 0 + 0 - 0 <= 0 + 0
    OBVIOUS
  <2> QED
    BY <1>1, <2>1, <2>2
<1>3. c + 0 = c /\ p + 0 = p /\ x + 0 = x /\ a + 0 = a
  OBVIOUS
<1> QED
  BY <1>2, <1>3

(* Votes of an option are numbers.                                          *)
LEMMA VotesAreNumbers ==
  ASSUME NEW votes, IsRows(votes), NEW o
  PROVE  Votes(votes, o) \in Nat
BY DEF IsRows, Votes

(* A step of a request that does not vote in a poll leaves its balance.     *)
LEMMA OtherPollsBalance ==
  ASSUME PollInv, NEW r \in Requests, \A s \in Requests \ {r} : req'[s] = req[s],
         NEW id \in alive, NEW o \in Options,
         req[r].stage # "votes" \/ req[r].poll # id,
         req'[r].stage # "votes" \/ req'[r].poll # id
  PROVE  Balanced(req', id, o, counted[id][o], Votes(polls[id], o), missed[id][o], asked[id][o])
<1>1. PICK next : next = req'
  OBVIOUS
<1>2. PICK c \in Nat, p \in Nat, x \in Nat, a \in Nat :
        /\ c = counted[id][o] /\ p = Votes(polls[id], o) /\ x = missed[id][o] /\ a = asked[id][o]
        /\ Balanced(req, id, o, c, p, x, a)
  BY VotesAreNumbers DEF PollInv, PollTypes
<1>3. Balanced(next, id, o, c, p, x, a)
  BY <1>1, <1>2, BalanceStays
<1> QED
  BY <1>1, <1>2, <1>3

(* The balance of all options, when nobody votes and acts alone count.      *)
LEMMA PollsFrame ==
  ASSUME PollInv, UNCHANGED <<store, polling>>, acts' \in {acts, acts + 1},
         UNCHANGED req \/ \E r \in Requests :
           /\ OneMoves(r) /\ req[r].stage \notin {"options", "votes"}
           /\ req'[r].stage \notin {"options", "votes"}
  PROVE  PollInv'
<1>1. UNCHANGED <<polls, alive, asked, counted, missed>>
  BY DEF polling
<1>2. PollTypes'
  <2>1. acts' \in Nat /\ 1..acts \subseteq 1..acts'
    BY DEF PollInv, PollTypes
  <2> QED
    BY <1>1, <2>1 DEF PollInv, PollTypes
<1>3. \A r \in Requests : /\ req'[r].stage \in {"options", "votes"} => req'[r] = req[r]
  BY DEF OneMoves
<1>4. ASSUME NEW id \in alive, NEW o \in Options
      PROVE  Balanced(req', id, o, counted[id][o], Votes(polls[id], o), missed[id][o], asked[id][o])
  <2>1. Balanced(req, id, o, counted[id][o], Votes(polls[id], o), missed[id][o], asked[id][o])
    BY DEF PollInv
  <2>2. ASSUME NEW r \in Requests, OneMoves(r), req[r].stage # "votes", req'[r].stage # "votes"
        PROVE  Balanced(req', id, o, counted[id][o], Votes(polls[id], o), missed[id][o], asked[id][o])
    BY <2>2, OtherPollsBalance DEF OneMoves
  <2> QED
    BY <2>1, <2>2
<1>5. \A r \in Requests :
        req'[r].stage = "votes" => IsVote(req'[r]) /\ req'[r].poll \in DOMAIN asked'
  BY <1>1, <1>3 DEF PollInv
<1>6. \A r \in Requests :
        req'[r].stage = "options" =>
          /\ IsMaking(req'[r], polls'[req'[r].poll], missed'[req'[r].poll]) /\ store' = "surreal"
          /\ req'[r].poll \in (DOMAIN asked' \ alive') \cap DOMAIN polls'
          /\ asked'[req'[r].poll] = NoVotes /\ counted'[req'[r].poll] = NoVotes
  BY <1>1, <1>3 DEF PollInv
<1>7. \A r, o \in Requests :
        /\ req'[r].stage = "options" /\ req'[o].stage \in {"options", "votes"}
        /\ req'[o].poll = req'[r].poll
        => o = r
  BY <1>3 DEF PollInv
<1> QED
  BY <1>1, <1>2, <1>4, <1>5, <1>6, <1>7 DEF PollInv, NoVotes

(* A request that goes on with the choices of a ballot or with options.     *)
LEMMA OnwardTells ==
  ASSUME ReqInv, NEW r \in Requests, {"stage", "poll", "left"} \subseteq DOMAIN req[r], Onward(r)
  PROVE  /\ OneMoves(r)
         /\ Len(req[r].left) = 1 => req'[r].stage = "idle"
         /\ Len(req[r].left) # 1 =>
              /\ DOMAIN req'[r] = DOMAIN req[r] /\ req'[r].left = Tail(req[r].left)
              /\ \A f \in DOMAIN req[r] \ {"left"} : req'[r][f] = req[r][f]
<1> DEFINE rest == [req[r] EXCEPT !.left = Tail(@)]
<1>1. Staged(req[r])
  BY DEF ReqInv
<1>2. /\ Staged(rest) /\ DOMAIN rest = DOMAIN req[r] /\ rest.left = Tail(req[r].left)
      /\ \A f \in DOMAIN req[r] \ {"left"} : rest[f] = req[r][f]
  BY <1>1 DEF Staged
<1>3. Staged(Idle) /\ Idle.stage = "idle"
  BY DEF Idle, Staged
<1>4. Become(r, IF Len(req[r].left) = 1 THEN Idle ELSE rest)
  BY DEF Onward
<1> HIDE DEF rest
<1>5. CASE Len(req[r].left) = 1
  <2>1. Become(r, Idle)
    BY <1>4, <1>5
  <2> QED
    BY <1>3, <1>5, <2>1, BecomeMoves
<1>6. CASE Len(req[r].left) # 1
  <2>1. Become(r, rest)
    BY <1>4, <1>6
  <2>2. OneMoves(r) /\ req'[r] = rest
    BY <1>2, <2>1, BecomeMoves
  <2> QED
    BY <1>2, <1>6, <2>2
<1> QED
  BY <1>5, <1>6

(* In memory a poll is made at once.                                        *)
LEMMA CreateAllKeepsPolls ==
  ASSUME PollInv, create_poll_in_memory
  PROVE  PollInv'
<1>1. PICK n \in Nat :
        /\ n = acts + 1 /\ store = "memory" /\ UNCHANGED <<store, req>> /\ acts' = n
        /\ polls' = Put(polls, n, NoVotes) /\ alive' = alive \cup {n}
        /\ asked' = Put(asked, n, NoVotes) /\ counted' = Put(counted, n, NoVotes)
        /\ missed' = Put(missed, n, NoVotes)
  BY DEF create_poll_in_memory, Act, PollInv, PollTypes
<1>2. n \notin DOMAIN asked /\ n \in 1..n /\ 1..acts \subseteq 1..n
  BY <1>1 DEF PollInv, PollTypes
<1>3. /\ NoVotes \in [Options -> Nat] /\ IsRows(NoVotes) /\ DOMAIN NoVotes = Options
      /\ \A o \in Options : NoVotes[o] = 0 /\ Votes(NoVotes, o) = 0
  BY DEF NoVotes, IsRows, Votes
<1>4. /\ DOMAIN asked' = DOMAIN asked \cup {n} /\ asked'[n] = NoVotes
      /\ \A id \in DOMAIN asked : asked'[id] = asked[id]
      /\ DOMAIN counted' = DOMAIN counted \cup {n} /\ counted'[n] = NoVotes
      /\ \A id \in DOMAIN asked : counted'[id] = counted[id]
      /\ DOMAIN missed' = DOMAIN asked \cup {n} /\ missed'[n] = NoVotes
      /\ \A id \in DOMAIN asked : missed'[id] = missed[id]
      /\ DOMAIN polls' = DOMAIN polls \cup {n} /\ polls'[n] = NoVotes
      /\ \A id \in alive : polls'[id] = polls[id]
  BY <1>1, <1>2 DEF Put, PollInv, PollTypes
<1>5. PollTypes'
  BY <1>1, <1>2, <1>3, <1>4 DEF PollInv, PollTypes
<1>6. \A r \in Requests : /\ req'[r].stage = "votes" => req'[r].poll \in DOMAIN asked'
                          /\ req'[r].stage # "options"
  BY <1>1, <1>4 DEF PollInv
<1>7. ASSUME NEW id \in alive', NEW o \in Options
      PROVE  Balanced(req', id, o, counted'[id][o], Votes(polls'[id], o), missed'[id][o], asked'[id][o])
  <2>1. CASE id = n
    <3>1. \A r \in Requests : req[r].stage # "votes" \/ req[r].poll # n
      BY <1>2 DEF PollInv
    <3>2. Balanced(req, n, o, 0, 0, 0, 0)
      BY <3>1, NobodyVotes
    <3> QED
      BY <1>1, <1>3, <1>4, <2>1, <3>2
  <2>2. CASE id # n
    <3>1. id \in alive /\ id \in DOMAIN asked
      BY <1>1, <1>7, <2>2 DEF PollInv, PollTypes
    <3>2. Balanced(req, id, o, counted[id][o], Votes(polls[id], o), missed[id][o], asked[id][o])
      BY <3>1 DEF PollInv
    <3> QED
      BY <1>1, <1>4, <3>1, <3>2
  <2> QED
    BY <2>1, <2>2
<1> QED
  BY <1>1, <1>5, <1>6, <1>7 DEF PollInv

(* What SetToSeq lists of the options is all of them.                       *)
LEMMA OptionsAreListed ==
  LET list == SetToSeq(Options) IN
  list \in Seq(Options) /\ list # <<>> /\ {list[n] : n \in 1..Len(list)} = Options
<1> DEFINE n == Cardinality(Options)
           list == SetToSeq(Options)
<1>1. n \in Nat /\ ExistsBijection(1..n, Options)
  BY DraftsAssumption, FS_CardinalityType
<1>2. PICK f \in Bijection(1..n, Options) : TRUE
  BY <1>1 DEF ExistsBijection
<1>3. f \in [1..n -> Options] /\ IsInjective(f)
  BY DEF Bijection, Injection
<1>4. list \in [1..n -> Options] /\ IsInjective(list)
  BY <1>3 DEF SetToSeq
<1>5. IsFiniteSet(1..n) /\ Cardinality(1..n) = n
  <2>1. IsFiniteSet(1..n) /\ Cardinality(1..n) = IF 1 > n THEN 0 ELSE n - 1 + 1
    BY <1>1, FS_Interval
  <2> HIDE DEF n
  <2> QED
    BY <1>1, <2>1
<1>6. list \in Surjection(1..n, Options)
  <2>1. list \in Injection(1..n, Options) /\ Cardinality(1..n) = Cardinality(Options)
    BY <1>4, <1>5 DEF Injection
  <2> QED
    BY <2>1, DraftsAssumption, FS_Injection
<1> HIDE DEF list, n
<1>7. list \in Seq(Options) /\ Len(list) = n
  BY <1>1, <1>4
<1>8. {list[i] : i \in 1..Len(list)} = Options
  BY <1>6, <1>7 DEF Surjection
<1>9. list # <<>>
  BY <1>8, DraftsAssumption
<1> QED
  BY <1>7, <1>8, <1>9 DEF list

(* With SurrealDB its row is made first.                                    *)
LEMMA CreateKeepsPolls ==
  ASSUME ReqInv, PollInv, NEW r \in Requests, create_poll(r)
  PROVE  PollInv'
<1>1. PICK n, rq :
        /\ n \in Nat /\ n = acts + 1 /\ store = "surreal" /\ UNCHANGED <<store, alive>> /\ acts' = n
        /\ rq = [stage |-> "options", poll |-> n, left |-> SetToSeq(Options)] /\ Start(r, rq)
        /\ polls' = Put(polls, n, <<>>)
        /\ asked' = Put(asked, n, NoVotes) /\ counted' = Put(counted, n, NoVotes)
        /\ missed' = Put(missed, n, NoVotes)
  BY DEF create_poll, Start, Act, PollInv, PollTypes
<1>2. n \notin DOMAIN asked /\ n \in 1..n /\ 1..acts \subseteq 1..n
  BY <1>1 DEF PollInv, PollTypes
<1>3. NoVotes \in [Options -> Nat]
  BY DEF NoVotes
<1>4. /\ DOMAIN asked' = DOMAIN asked \cup {n} /\ asked'[n] = NoVotes
      /\ \A id \in DOMAIN asked : asked'[id] = asked[id]
      /\ DOMAIN counted' = DOMAIN counted \cup {n} /\ counted'[n] = NoVotes
      /\ \A id \in DOMAIN asked : counted'[id] = counted[id]
      /\ DOMAIN missed' = DOMAIN asked \cup {n} /\ missed'[n] = NoVotes
      /\ \A id \in DOMAIN asked : missed'[id] = missed[id]
      /\ DOMAIN polls' = DOMAIN polls \cup {n} /\ polls'[n] = <<>>
      /\ \A id \in DOMAIN polls \ {n} : polls'[id] = polls[id]
  BY <1>1, <1>2 DEF Put, PollInv, PollTypes
<1>5. alive \subseteq DOMAIN asked /\ n \notin alive
  BY <1>2 DEF PollInv, PollTypes
<1>6. PollTypes'
  <2>1. acts' \in Nat /\ DOMAIN counted' = DOMAIN asked' /\ DOMAIN missed' = DOMAIN asked'
    BY <1>1, <1>4 DEF PollInv, PollTypes
  <2>2. DOMAIN asked' \subseteq 1..acts'
    BY <1>1, <1>2, <1>4 DEF PollInv, PollTypes
  <2>3. \A id \in DOMAIN asked' :
          /\ asked'[id] \in [Options -> Nat] /\ counted'[id] \in [Options -> Nat]
          /\ missed'[id] \in [Options -> Nat]
    BY <1>3, <1>4 DEF PollInv, PollTypes
  <2>4. \A id \in alive :
          /\ id \in DOMAIN polls' /\ IsRows(polls'[id])
          /\ Options \subseteq DOMAIN polls'[id] \cup Lacking(missed'[id])
          /\ store' = "memory" => DOMAIN polls'[id] = Options
    <3> TAKE id \in alive
    <3>1. id \in DOMAIN asked /\ id \in DOMAIN polls \ {n}
      BY <1>2, <1>5 DEF PollInv, PollTypes
    <3> QED
      BY <1>1, <1>4, <3>1 DEF PollInv, PollTypes
  <2> QED
    BY <1>1, <1>4, <1>5, <2>1, <2>2, <2>3, <2>4 DEF PollTypes
<1>7. /\ Staged(rq) /\ rq.stage = "options" /\ rq.poll = n /\ rq.left = SetToSeq(Options)
      /\ {"stage", "poll", "left"} \subseteq DOMAIN rq
  BY <1>1 DEF Staged
<1>8. /\ req'[r] = rq /\ req[r].stage = "idle"
      /\ \A o \in Requests \ {r} : req'[o] = req[o]
  BY <1>1, <1>7, StartMoves DEF OneMoves
<1>9. IsMaking(rq, <<>>, NoVotes)
  <2>1. DOMAIN <<>> = {} /\ <<>> = [o \in DOMAIN <<>> |-> 0] /\ Lacking(NoVotes) = {}
    BY DEF Lacking, NoVotes
  <2> QED
    BY <1>7, <2>1, OptionsAreListed DEF IsMaking
<1>10. \A o \in Requests :
         req'[o].stage = "votes" => IsVote(req'[o]) /\ req'[o].poll \in DOMAIN asked'
  BY <1>4, <1>7, <1>8 DEF PollInv
<1>11. ASSUME NEW o \in Requests, req'[o].stage = "options"
       PROVE  /\ IsMaking(req'[o], polls'[req'[o].poll], missed'[req'[o].poll]) /\ store' = "surreal"
              /\ req'[o].poll \in (DOMAIN asked' \ alive') \cap DOMAIN polls'
              /\ asked'[req'[o].poll] = NoVotes /\ counted'[req'[o].poll] = NoVotes
  <2>1. CASE o = r
    BY <1>1, <1>4, <1>5, <1>7, <1>8, <1>9, <2>1
  <2>2. CASE o # r
    <3>1. req'[o] = req[o]
      BY <1>8, <2>2
    <3>2. /\ IsMaking(req[o], polls[req[o].poll], missed[req[o].poll])
          /\ req[o].poll \in (DOMAIN asked \ alive) \cap DOMAIN polls
          /\ asked[req[o].poll] = NoVotes /\ counted[req[o].poll] = NoVotes
      BY <1>11, <3>1 DEF PollInv
    <3> QED
      BY <1>1, <1>2, <1>4, <3>1, <3>2
  <2> QED
    BY <2>1, <2>2
<1>12. \A o, p \in Requests :
         /\ req'[o].stage = "options" /\ req'[p].stage \in {"options", "votes"}
         /\ req'[p].poll = req'[o].poll
         => p = o
  <2>1. \A o \in Requests : o # r /\ req'[o].stage \in {"options", "votes"} => req'[o].poll # n
    BY <1>2, <1>8 DEF PollInv
  <2> QED
    BY <1>7, <1>8, <2>1 DEF PollInv
<1>13. ASSUME NEW id \in alive', NEW o \in Options
       PROVE  Balanced(req', id, o, counted'[id][o], Votes(polls'[id], o), missed'[id][o], asked'[id][o])
  <2>1. id \in alive /\ id \in DOMAIN asked /\ id \in DOMAIN polls \ {n}
    BY <1>1, <1>5 DEF PollInv, PollTypes
  <2>2. Balanced(req', id, o, counted[id][o], Votes(polls[id], o), missed[id][o], asked[id][o])
    BY <1>7, <1>8, <2>1, OtherPollsBalance
  <2> QED
    BY <1>4, <2>1, <2>2
<1> QED
  BY <1>6, <1>10, <1>11, <1>12, <1>13 DEF PollInv, NoVotes

(* The row of an option is made.                                            *)
LEMMA OptionKeepsPolls ==
  ASSUME ReqInv, PollInv, NEW r \in Requests, create_option(r)
  PROVE  PollInv'
<1>1. PICK rq, id0, h :
        /\ rq = req[r] /\ rq.stage = "options" /\ id0 = rq.poll /\ h = Head(rq.left)
        /\ \/ /\ polls' = [polls EXCEPT ![id0] = Put(@, h, 0)]
              /\ missed' = missed
           \/ /\ missed' = [missed EXCEPT ![id0] = Tally(@, <<h>>)]
              /\ polls' = polls
        /\ alive' = IF Len(rq.left) = 1 THEN alive \cup {id0} ELSE alive
        /\ Onward(r) /\ UNCHANGED <<store, asked, counted, acts>>
  BY DEF create_option, Count
<1>2. /\ IsMaking(rq, polls[id0], missed[id0]) /\ store = "surreal"
      /\ id0 \in DOMAIN asked /\ id0 \notin alive /\ id0 \in DOMAIN polls
      /\ asked[id0] = NoVotes /\ counted[id0] = NoVotes
  BY <1>1 DEF PollInv
<1>3. /\ OneMoves(r)
      /\ Len(rq.left) = 1 => req'[r].stage = "idle"
      /\ Len(rq.left) # 1 =>
           /\ DOMAIN req'[r] = DOMAIN rq /\ req'[r].left = Tail(rq.left)
           /\ \A f \in DOMAIN rq \ {"left"} : req'[r][f] = rq[f]
  BY <1>1, <1>2, OnwardTells DEF IsMaking
<1>4. \A o \in Requests \ {r} : req'[o] = req[o]
  BY <1>3 DEF OneMoves
<1>5. \A o \in Requests \ {r} : req[o].stage \in {"options", "votes"} => req[o].poll # id0
  BY <1>1 DEF PollInv
<1>6. rq.left \in Seq(Options) /\ rq.left # <<>>
  BY <1>2 DEF IsMaking
<1>7. /\ h \in Options /\ Len(rq.left) \in Nat \ {0} /\ h = rq.left[1]
      /\ Tail(rq.left) \in Seq(Options) /\ Len(Tail(rq.left)) = Len(rq.left) - 1
      /\ \A n \in 1..Len(Tail(rq.left)) : Tail(rq.left)[n] = rq.left[n + 1]
  BY <1>1, <1>6, HeadTailProperties, EmptySeq
<1> DEFINE known == DOMAIN polls[id0] \cup Lacking(missed[id0])
           after == DOMAIN polls'[id0] \cup Lacking(missed'[id0])
<1>8. /\ DOMAIN polls' = DOMAIN polls
      /\ polls'[id0] \in {polls[id0], Put(polls[id0], h, 0)}
      /\ \A id \in DOMAIN polls \ {id0} : polls'[id] = polls[id]
      /\ DOMAIN missed' = DOMAIN missed /\ missed'[id0] \in [Options -> Nat]
      /\ \A id \in DOMAIN missed \ {id0} : missed'[id] = missed[id]
      /\ \/ polls'[id0] = Put(polls[id0], h, 0) /\ missed'[id0] = missed[id0]
         \/ /\ polls'[id0] = polls[id0] /\ Lacking(missed'[id0]) = Lacking(missed[id0]) \cup {h}
  <2>1. id0 \in DOMAIN missed /\ missed[id0] \in [Options -> Nat]
    BY <1>2 DEF PollInv, PollTypes
  <2>2. PICK one \in Seq(Options) :
          /\ one = <<h>>
          /\ \A o : /\ Gains(rq.left, o) \in Nat
                    /\ Cardinality(VotesFor(one, o)) = Gains(rq.left, o)
    <3>1. PICK left \in Seq(Options) : left = rq.left /\ left # <<>>
      BY <1>6
    <3> QED
      BY <1>1, <3>1, OneIsTallied
  <2>3. /\ Tally(missed[id0], one) \in [Options -> Nat]
        /\ \A o \in Options : Tally(missed[id0], one)[o] = missed[id0][o] + Gains(rq.left, o)
    BY <2>1, <2>2, TallyAdds
  <2>4. Lacking(Tally(missed[id0], one)) = Lacking(missed[id0]) \cup {h}
    <3>1. ASSUME NEW o \in Options
          PROVE  Tally(missed[id0], one)[o] > 0 <=> missed[id0][o] > 0 \/ o = h
      <4>1. missed[id0][o] \in Nat
        BY <2>1
      <4>2. Gains(rq.left, o) = IF o = h THEN 1 ELSE 0
        BY <1>1 DEF Gains
      <4> QED
        BY <2>3, <4>1, <4>2
    <3> QED
      BY <1>7, <3>1 DEF Lacking
  <2>5. CASE polls' = [polls EXCEPT ![id0] = Put(@, h, 0)] /\ missed' = missed
    BY <1>2, <2>1, <2>5
  <2>6. CASE missed' = [missed EXCEPT ![id0] = Tally(@, <<h>>)] /\ polls' = polls
    <3>1. missed'[id0] = Tally(missed[id0], one)
      BY <2>1, <2>2, <2>6
    <3> QED
      BY <2>1, <2>3, <2>4, <2>6, <3>1
  <2> QED
    BY <1>1, <2>5, <2>6
<1>9. /\ after = known \cup {h} /\ DOMAIN polls'[id0] \subseteq Options
      /\ polls'[id0] = [o \in DOMAIN polls'[id0] |-> 0]
  <2>1. PICK old : old = polls[id0] /\ old = [o \in DOMAIN old |-> 0] /\ DOMAIN old \subseteq Options
    BY <1>2 DEF IsMaking
  <2>2. Put(old, h, 0) = [o \in DOMAIN old \cup {h} |-> 0]
    BY <2>1 DEF Put
  <2> QED
    BY <1>7, <1>8, <2>1, <2>2
<1>10. Len(rq.left) = 1 => after = Options
  <2>1. ASSUME Len(rq.left) = 1
        PROVE  {rq.left[n] : n \in 1..Len(rq.left)} = {h}
    BY <1>7, <2>1
  <2> QED
    BY <1>2, <1>9, <2>1 DEF IsMaking
<1>11. Len(rq.left) # 1 => IsMaking(req'[r], polls'[id0], missed'[id0])
  <2> SUFFICES ASSUME Len(rq.left) # 1
               PROVE  IsMaking(req'[r], polls'[id0], missed'[id0])
    OBVIOUS
  <2>1. {"stage", "poll", "left"} \subseteq DOMAIN req'[r] /\ req'[r].left = Tail(rq.left)
    BY <1>2, <1>3 DEF IsMaking
  <2>2. Tail(rq.left) # <<>>
    <3>1. Len(Tail(rq.left)) # 0
      BY <1>7
    <3> QED
      BY <1>7, <3>1, EmptySeq
  <2>3. {rq.left[n] : n \in 1..Len(rq.left)}
          = {h} \cup {Tail(rq.left)[n] : n \in 1..Len(Tail(rq.left))}
    <3>1. ASSUME NEW n \in 1..Len(rq.left), n # 1
          PROVE  \E k \in 1..Len(Tail(rq.left)) : rq.left[n] = Tail(rq.left)[k]
      <4>1. n - 1 \in 1..Len(Tail(rq.left)) /\ n - 1 + 1 = n
        BY <1>7, <3>1
      <4> QED
        BY <1>7, <4>1
    <3>2. ASSUME NEW k \in 1..Len(Tail(rq.left))
          PROVE  \E n \in 1..Len(rq.left) : rq.left[n] = Tail(rq.left)[k]
      <4>1. k + 1 \in 1..Len(rq.left)
        BY <1>7, <3>2
      <4> QED
        BY <1>7, <4>1
    <3>3. 1 \in 1..Len(rq.left)
      BY <1>7
    <3>4. \A n \in 1..Len(rq.left) :
            rq.left[n] \in {h} \cup {Tail(rq.left)[k] : k \in 1..Len(Tail(rq.left))}
      <4> TAKE n \in 1..Len(rq.left)
      <4>1. CASE n = 1
        BY <1>7, <4>1
      <4>2. CASE n # 1
        BY <3>1, <4>2
      <4> QED
        BY <4>1, <4>2
    <3>5. h \in {rq.left[n] : n \in 1..Len(rq.left)}
      BY <1>7, <3>3
    <3>6. \A k \in 1..Len(Tail(rq.left)) : Tail(rq.left)[k] \in {rq.left[n] : n \in 1..Len(rq.left)}
      BY <3>2
    <3> QED
      BY <3>4, <3>5, <3>6
  <2>4. known \cup {rq.left[n] : n \in 1..Len(rq.left)} = Options
    BY <1>2 DEF IsMaking
  <2>5. after \cup {Tail(rq.left)[n] : n \in 1..Len(Tail(rq.left))} = Options
    BY <1>9, <2>3, <2>4
  <2> QED
    BY <1>7, <1>9, <2>1, <2>2, <2>5 DEF IsMaking
<1>12. Len(rq.left) # 1 => req'[r].stage = "options" /\ req'[r].poll = id0
  BY <1>1, <1>2, <1>3 DEF IsMaking
<1>13. PollTypes'
  <2>1. \A id \in alive : /\ id \in DOMAIN polls' /\ polls'[id] = polls[id]
                         /\ missed'[id] = missed[id]
    BY <1>2, <1>8 DEF PollInv, PollTypes
  <2>2. /\ Len(rq.left) = 1 => Options \subseteq after
        /\ IsRows(polls'[id0])
    BY <1>9, <1>10 DEF IsRows
  <2> QED
    BY <1>1, <1>2, <1>8, <2>1, <2>2 DEF PollInv, PollTypes
<1>14. \A o \in Requests :
         req'[o].stage = "votes" => IsVote(req'[o]) /\ req'[o].poll \in DOMAIN asked'
  BY <1>1, <1>3, <1>4, <1>12 DEF PollInv
<1>15. ASSUME NEW o \in Requests, req'[o].stage = "options"
       PROVE  /\ IsMaking(req'[o], polls'[req'[o].poll], missed'[req'[o].poll]) /\ store' = "surreal"
              /\ req'[o].poll \in (DOMAIN asked' \ alive') \cap DOMAIN polls'
              /\ asked'[req'[o].poll] = NoVotes /\ counted'[req'[o].poll] = NoVotes
  <2>1. CASE o = r
    BY <1>1, <1>2, <1>3, <1>8, <1>11, <1>12, <1>15, <2>1
  <2>2. CASE o # r
    <3>1. req'[o] = req[o] /\ req[o].poll # id0
      BY <1>4, <1>5, <1>15, <2>2
    <3>2. /\ IsMaking(req[o], polls[req[o].poll], missed[req[o].poll])
          /\ req[o].poll \in (DOMAIN asked \ alive) \cap DOMAIN polls
          /\ asked[req[o].poll] = NoVotes /\ counted[req[o].poll] = NoVotes
          /\ req[o].poll \in DOMAIN missed
      BY <1>15, <3>1 DEF PollInv, PollTypes
    <3> QED
      BY <1>1, <1>2, <1>8, <3>1, <3>2
  <2> QED
    BY <2>1, <2>2
<1>16. \A o, p \in Requests :
         /\ req'[o].stage = "options" /\ req'[p].stage \in {"options", "votes"}
         /\ req'[p].poll = req'[o].poll
         => p = o
  BY <1>3, <1>4, <1>5, <1>12 DEF PollInv
<1>17. ASSUME NEW id \in alive', NEW o \in Options
       PROVE  Balanced(req', id, o, counted'[id][o], Votes(polls'[id], o), missed'[id][o], asked'[id][o])
  <2>1. CASE id = id0
    <3>1. Len(rq.left) = 1
      BY <1>1, <1>2, <1>17, <2>1
    <3>2. \A s \in Requests : req'[s].stage # "votes" \/ req'[s].poll # id0
      BY <1>3, <1>4, <1>5, <3>1
    <3>3. Balanced(req', id0, o, 0, 0, missed'[id0][o], 0)
      BY <1>8, <3>2, NobodyVotes
    <3>4. Votes(polls'[id0], o) = 0
      BY <1>9 DEF Votes
    <3>5. NoVotes[o] = 0
      BY DEF NoVotes
    <3> QED
      BY <1>1, <1>2, <2>1, <3>3, <3>4, <3>5
  <2>2. CASE id # id0
    <3>1. id \in alive /\ id \in DOMAIN polls /\ id \in DOMAIN missed
      BY <1>1, <1>17, <2>2 DEF PollInv, PollTypes
    <3>2. req'[r].stage # "votes" /\ req[r].stage # "votes"
      BY <1>1, <1>3, <1>12
    <3>3. Balanced(req', id, o, counted[id][o], Votes(polls[id], o), missed[id][o], asked[id][o])
      BY <1>4, <3>1, <3>2, OtherPollsBalance
    <3> QED
      BY <1>1, <1>8, <2>2, <3>1, <3>3
  <2> QED
    BY <2>1, <2>2
<1> QED
  BY <1>13, <1>14, <1>15, <1>16, <1>17 DEF PollInv, NoVotes

(* In memory a ballot is counted at once.                                   *)
LEMMA VoteAllKeepsPolls ==
  ASSUME PollInv, NEW id0 \in DOMAIN asked, NEW ballot \in Ballots, vote_in_memory(id0, ballot)
  PROVE  PollInv'
<1>1. /\ store = "memory" /\ id0 \in DOMAIN polls /\ UNCHANGED <<store, alive, missed, req>>
      /\ acts' = acts + 1 /\ polls' = [polls EXCEPT ![id0] = Tally(@, ballot)]
      /\ asked' = [asked EXCEPT ![id0] = Tally(@, ballot)]
      /\ counted' = [counted EXCEPT ![id0] = Tally(@, ballot)]
  BY DEF vote_in_memory, Act, cast_vote_in_memory, Count
<1>2. /\ ballot \in Seq(Options)
      /\ \A votes \in [Options -> Nat] :
           /\ Tally(votes, ballot) \in [Options -> Nat]
           /\ \A o \in Options :
                Tally(votes, ballot)[o] = votes[o] + Cardinality(VotesFor(ballot, o))
      /\ \A votes : IsRows(votes) =>
           /\ IsRows(Tally(votes, ballot)) /\ DOMAIN Tally(votes, ballot) = DOMAIN votes
           /\ \A o \in DOMAIN votes :
                Votes(Tally(votes, ballot), o)
                  = Votes(votes, o) + Cardinality(VotesFor(ballot, o))
  BY DraftsAssumption, TallyAdds, RowsAreTallied
<1>3. /\ DOMAIN counted = DOMAIN asked /\ DOMAIN missed = DOMAIN asked /\ DOMAIN asked \subseteq 1..acts /\ acts \in Nat
      /\ \A id \in DOMAIN asked : /\ asked[id] \in [Options -> Nat] /\ counted[id] \in [Options -> Nat]
                                 /\ missed[id] \in [Options -> Nat]
      /\ alive \subseteq DOMAIN asked
      /\ \A id \in alive : id \in DOMAIN polls /\ IsRows(polls[id]) /\ DOMAIN polls[id] = Options
  BY <1>1 DEF PollInv, PollTypes
<1>4. /\ DOMAIN asked' = DOMAIN asked /\ DOMAIN counted' = DOMAIN asked /\ DOMAIN polls' = DOMAIN polls
      /\ asked'[id0] = Tally(asked[id0], ballot) /\ counted'[id0] = Tally(counted[id0], ballot)
      /\ polls'[id0] = Tally(polls[id0], ballot)
      /\ \A id \in DOMAIN asked \ {id0} : asked'[id] = asked[id] /\ counted'[id] = counted[id]
      /\ \A id \in DOMAIN polls \ {id0} : polls'[id] = polls[id]
  BY <1>1, <1>3
<1>5. PollTypes'
  <2>1. acts' \in Nat /\ DOMAIN asked \subseteq 1..acts'
    BY <1>1, <1>3
  <2>2. ASSUME NEW id \in DOMAIN asked
        PROVE  asked'[id] \in [Options -> Nat] /\ counted'[id] \in [Options -> Nat]
    <3>1. asked[id] \in [Options -> Nat] /\ counted[id] \in [Options -> Nat]
      BY <1>3
    <3>2. CASE id = id0
      BY <1>2, <1>4, <3>1, <3>2
    <3>3. CASE id # id0
      BY <1>4, <3>1, <3>3
    <3> QED
      BY <3>2, <3>3
  <2>3. ASSUME NEW id \in alive
        PROVE  id \in DOMAIN polls /\ IsRows(polls'[id]) /\ DOMAIN polls'[id] = Options
    <3>1. id \in DOMAIN polls /\ IsRows(polls[id]) /\ DOMAIN polls[id] = Options
      BY <1>3
    <3>2. polls'[id] = IF id = id0 THEN Tally(polls[id], ballot) ELSE polls[id]
      BY <1>4, <3>1
    <3> QED
      BY <1>2, <3>1, <3>2
  <2> QED
    BY <1>1, <1>3, <1>4, <2>1, <2>2, <2>3 DEF PollTypes
<1>6. \A r \in Requests : /\ req'[r].stage = "votes" => IsVote(req'[r]) /\ req'[r].poll \in DOMAIN asked'
                          /\ req'[r].stage # "options"
  BY <1>1, <1>4 DEF PollInv
<1>7. ASSUME NEW id \in alive', NEW o \in Options
      PROVE  Balanced(req', id, o, counted'[id][o], Votes(polls'[id], o), missed'[id][o], asked'[id][o])
  <2>1. /\ Balanced(req, id, o, counted[id][o], Votes(polls[id], o), missed[id][o], asked[id][o])
        /\ counted[id][o] \in Nat /\ Votes(polls[id], o) \in Nat /\ missed[id][o] \in Nat
        /\ asked[id][o] \in Nat
        /\ id \in DOMAIN asked /\ id \in DOMAIN polls
    BY <1>1, <1>3, VotesAreNumbers DEF PollInv
  <2>2. CASE id = id0
    <3>1. PICK t \in Nat : t = Cardinality(VotesFor(ballot, o))
      BY <1>2, <1>3, TallyAdds
    <3>2. /\ counted'[id][o] = counted[id][o] + t
          /\ Votes(polls'[id], o) = Votes(polls[id], o) + t
          /\ asked'[id][o] = asked[id][o] + t
      <4>1. /\ counted[id] \in [Options -> Nat] /\ asked[id] \in [Options -> Nat]
            /\ IsRows(polls[id]) /\ DOMAIN polls[id] = Options
        BY <1>1, <1>3, <1>7, <2>1
      <4>2. /\ counted'[id] = Tally(counted[id], ballot) /\ polls'[id] = Tally(polls[id], ballot)
            /\ asked'[id] = Tally(asked[id], ballot)
        BY <1>4, <2>2
      <4>3. \A votes \in [Options -> Nat] : Tally(votes, ballot)[o] = votes[o] + t
        BY <1>2, <3>1
      <4>4. Votes(Tally(polls[id], ballot), o) = Votes(polls[id], o) + t
        BY <1>2, <3>1, <4>1
      <4> QED
        BY <4>1, <4>2, <4>3, <4>4
    <3>3. ASSUME NEW c \in Nat, NEW p \in Nat, NEW x \in Nat, NEW a \in Nat,
                 Balanced(req, id, o, c, p, x, a)
          PROVE  Balanced(req, id, o, c + t, p + t, x, a + t)
      <4>1. /\ Cardinality(AllLeft(req, id, o)) \in Nat /\ Cardinality(AllCast(req, id, o)) \in Nat
        BY <3>3, FS_CardinalityType DEF Balanced
      <4> QED
        BY <3>3, <4>1 DEF Balanced
    <3> QED
      BY <1>1, <2>1, <3>2, <3>3
  <2>3. CASE id # id0
    BY <1>1, <1>4, <2>1, <2>3
  <2> QED
    BY <2>2, <2>3
<1> QED
  BY <1>5, <1>6, <1>7 DEF PollInv

(* With SurrealDB a ballot is cast by a request.                            *)
LEMMA VoteKeepsPolls ==
  ASSUME ReqInv, PollInv, NEW r \in Requests, NEW id0 \in alive, NEW ballot \in Ballots,
         vote(r, id0, ballot)
  PROVE  PollInv'
<1>1. PICK rq :
        /\ rq = [stage |-> "votes", poll |-> id0, left |-> ballot, ballot |-> ballot]
        /\ Start(r, rq) /\ ballot # <<>> /\ acts' = acts + 1
        /\ UNCHANGED <<store, polls, alive, counted, missed>>
        /\ asked' = [asked EXCEPT ![id0] = Tally(@, ballot)]
  BY DEF vote, Start, Act, Count
<1>2. /\ ballot \in Seq(Options)
      /\ \A votes \in [Options -> Nat] :
           /\ Tally(votes, ballot) \in [Options -> Nat]
           /\ \A o \in Options :
                Tally(votes, ballot)[o] = votes[o] + Cardinality(VotesFor(ballot, o))
  BY DraftsAssumption, TallyAdds
<1>3. /\ DOMAIN counted = DOMAIN asked /\ DOMAIN missed = DOMAIN asked /\ DOMAIN asked \subseteq 1..acts /\ acts \in Nat
      /\ \A id \in DOMAIN asked : /\ asked[id] \in [Options -> Nat] /\ counted[id] \in [Options -> Nat]
                                 /\ missed[id] \in [Options -> Nat]
      /\ alive \subseteq DOMAIN asked
      /\ \A id \in alive :
           /\ id \in DOMAIN polls /\ IsRows(polls[id])
           /\ Options \subseteq DOMAIN polls[id] \cup Lacking(missed[id])
           /\ store = "memory" => DOMAIN polls[id] = Options
  BY DEF PollInv, PollTypes
<1>4. /\ DOMAIN asked' = DOMAIN asked /\ asked'[id0] = Tally(asked[id0], ballot)
      /\ \A id \in DOMAIN asked \ {id0} : asked'[id] = asked[id]
  BY <1>1, <1>3
<1>5. /\ Staged(rq) /\ rq.stage = "votes" /\ rq.poll = id0
  BY <1>1 DEF Staged
<1>6. /\ IsVote(rq)
      /\ \A o : /\ Cardinality(Left(rq, id0, o)) = Cardinality(VotesFor(ballot, o))
                /\ Cardinality(Cast(rq, id0, o)) = 0
  BY <1>1, <1>2, BallotIsLeft
<1>7. /\ req'[r] = rq /\ req[r].stage = "idle"
      /\ \A o \in Requests \ {r} : req'[o] = req[o]
  BY <1>1, <1>5, StartMoves DEF OneMoves
<1>8. PollTypes'
  <2>1. acts' \in Nat /\ DOMAIN asked \subseteq 1..acts'
    BY <1>1, <1>3
  <2>2. \A id \in DOMAIN asked : asked'[id] \in [Options -> Nat]
    BY <1>2, <1>3, <1>4
  <2> QED
    BY <1>1, <1>3, <1>4, <2>1, <2>2 DEF PollTypes
<1>9. \A o \in Requests :
        req'[o].stage = "votes" => IsVote(req'[o]) /\ req'[o].poll \in DOMAIN asked'
  BY <1>3, <1>4, <1>5, <1>6, <1>7 DEF PollInv
<1>10. \A o \in Requests : req'[o].stage = "options" => o # r /\ req'[o] = req[o] /\ req[o].poll # id0
  BY <1>5, <1>7 DEF PollInv
<1>11. ASSUME NEW o \in Requests, req'[o].stage = "options"
       PROVE  /\ IsMaking(req'[o], polls'[req'[o].poll], missed'[req'[o].poll]) /\ store' = "surreal"
              /\ req'[o].poll \in (DOMAIN asked' \ alive') \cap DOMAIN polls'
              /\ asked'[req'[o].poll] = NoVotes /\ counted'[req'[o].poll] = NoVotes
  <2>1. req'[o] = req[o] /\ req[o].poll # id0 /\ req[o].stage = "options"
    BY <1>10, <1>11
  <2>2. /\ IsMaking(req[o], polls[req[o].poll], missed[req[o].poll]) /\ store = "surreal"
        /\ req[o].poll \in (DOMAIN asked \ alive) \cap DOMAIN polls
        /\ asked[req[o].poll] = NoVotes /\ counted[req[o].poll] = NoVotes
    BY <2>1 DEF PollInv
  <2> QED
    BY <1>1, <1>4, <2>1, <2>2
<1>12. \A o, p \in Requests :
         /\ req'[o].stage = "options" /\ req'[p].stage \in {"options", "votes"}
         /\ req'[p].poll = req'[o].poll
         => p = o
  BY <1>5, <1>7, <1>10 DEF PollInv
<1>13. ASSUME NEW id \in alive', NEW o \in Options
       PROVE  Balanced(req', id, o, counted'[id][o], Votes(polls'[id], o), missed'[id][o], asked'[id][o])
  <2>1. /\ Balanced(req, id, o, counted[id][o], Votes(polls[id], o), missed[id][o], asked[id][o])
        /\ counted[id][o] \in Nat /\ Votes(polls[id], o) \in Nat /\ missed[id][o] \in Nat
        /\ asked[id][o] \in Nat
        /\ id \in DOMAIN asked
    BY <1>1, <1>3, <1>13, VotesAreNumbers DEF PollInv
  <2>2. CASE id = id0
    <3>1. PICK t \in Nat : t = Cardinality(VotesFor(ballot, o))
      BY <1>2, <1>3, TallyAdds
    <3>2. asked'[id][o] = asked[id][o] + t
      BY <1>2, <1>3, <1>4, <2>1, <2>2, <3>1
    <3>3. /\ IsFiniteSet(Left(rq, id0, o)) /\ IsFiniteSet(Cast(rq, id0, o))
      BY <1>5, <1>6, ChoicesSplit
    <3>4. /\ Cardinality(Left(req[r], id0, o)) = 0 /\ Cardinality(Cast(req[r], id0, o)) = 0
      BY <1>7, NoChoices
    <3>5. /\ 0 + Cardinality(Cast(rq, id0, o)) - Cardinality(Cast(req[r], id0, o)) <= 0 + 0
          /\ 0 + Cardinality(Left(rq, id0, o)) - Cardinality(Left(req[r], id0, o)) <= t
      BY <1>6, <3>1, <3>4
    <3>6. Balanced(req', id0, o, counted[id0][o] + 0, Votes(polls[id0], o) + 0,
                   missed[id0][o] + 0, asked[id0][o] + t)
      BY <1>7, <2>1, <2>2, <3>1, <3>3, <3>5, BalanceMoves
    <3>7. /\ counted[id0][o] + 0 = counted[id0][o] /\ missed[id0][o] + 0 = missed[id0][o]
          /\ Votes(polls[id0], o) + 0 = Votes(polls[id0], o)
      BY <2>1, <2>2
    <3> QED
      BY <1>1, <2>2, <3>2, <3>6, <3>7
  <2>3. CASE id # id0
    <3>1. Balanced(req', id, o, counted[id][o], Votes(polls[id], o), missed[id][o], asked[id][o])
      <4>1. req[r].stage # "votes" \/ req[r].poll # id
        BY <1>7
      <4>2. req'[r].stage # "votes" \/ req'[r].poll # id
        BY <1>5, <1>7, <2>3
      <4>3. id \in alive /\ \A s \in Requests \ {r} : req'[s] = req[s]
        BY <1>1, <1>7, <1>13
      <4> QED
        BY <1>13, <4>1, <4>2, <4>3, OtherPollsBalance
    <3> QED
      BY <1>1, <1>4, <2>1, <2>3, <3>1
  <2> QED
    BY <2>2, <2>3
<1> QED
  BY <1>8, <1>9, <1>11, <1>12, <1>13 DEF PollInv, NoVotes

(* A poll is removed.                                                       *)
LEMMA RemoveKeepsPolls ==
  ASSUME PollInv, NEW id0 \in alive, remove_poll(id0)
  PROVE  PollInv'
<1>1. /\ acts' = acts + 1 /\ alive' = alive \ {id0}
      /\ UNCHANGED <<store, asked, counted, missed, req>>
      /\ \/ polls' = IF store = "memory" THEN [p \in DOMAIN polls \ {id0} |-> polls[p]]
                     ELSE Put(polls, id0, <<>>)
         \/ polls' = polls
  BY DEF remove_poll, Act
<1>2. \A id \in DOMAIN polls \ {id0} : id \in DOMAIN polls' /\ polls'[id] = polls[id]
  BY <1>1 DEF Put
<1>3. PollTypes'
  <2>1. acts' \in Nat /\ DOMAIN asked \subseteq 1..acts'
    BY <1>1 DEF PollInv, PollTypes
  <2> QED
    BY <1>1, <1>2, <2>1 DEF PollInv, PollTypes
<1>4. \A r \in Requests :
        req'[r].stage = "votes" => IsVote(req'[r]) /\ req'[r].poll \in DOMAIN asked'
  BY <1>1 DEF PollInv
<1>5. ASSUME NEW o \in Requests, req[o].stage = "options"
      PROVE  /\ IsMaking(req[o], polls'[req[o].poll], missed[req[o].poll]) /\ store = "surreal"
             /\ req[o].poll \in (DOMAIN asked \ alive') \cap DOMAIN polls'
             /\ asked[req[o].poll] = NoVotes /\ counted[req[o].poll] = NoVotes
  <2>1. /\ IsMaking(req[o], polls[req[o].poll], missed[req[o].poll]) /\ store = "surreal"
        /\ req[o].poll \in (DOMAIN asked \ alive) \cap DOMAIN polls
        /\ asked[req[o].poll] = NoVotes /\ counted[req[o].poll] = NoVotes
    BY <1>5 DEF PollInv
  <2>2. req[o].poll \in DOMAIN polls \ {id0}
    BY <2>1
  <2> QED
    BY <1>1, <1>2, <2>1, <2>2
<1>6. \A id \in alive', o \in Options :
        Balanced(req, id, o, counted[id][o], Votes(polls'[id], o), missed[id][o], asked[id][o])
  BY <1>1, <1>2 DEF PollInv, PollTypes
<1>7. \A r, o \in Requests :
        /\ req[r].stage = "options" /\ req[o].stage \in {"options", "votes"}
        /\ req[o].poll = req[r].poll
        => o = r
  BY DEF PollInv
<1> QED
  BY <1>1, <1>3, <1>4, <1>5, <1>6, <1>7 DEF PollInv, NoVotes

(* A request that votes moves on: other polls stay as they are.             *)
LEMMA VoteMoves ==
  ASSUME PollInv, NEW r \in Requests, OneMoves(r), NEW id0,
         req[r].stage = "votes", req[r].poll = id0, req'[r].stage \in {"idle", "votes"},
         req'[r].stage = "votes" => IsVote(req'[r]) /\ req'[r].poll = id0,
         UNCHANGED <<store, alive, asked, acts>>,
         DOMAIN polls' = DOMAIN polls, \A id \in DOMAIN polls \ {id0} : polls'[id] = polls[id],
         DOMAIN missed' = DOMAIN missed, missed'[id0] \in [Options -> Nat],
         \A id \in DOMAIN missed \ {id0} : missed'[id] = missed[id],
         id0 \in alive =>
           /\ IsRows(polls'[id0]) /\ DOMAIN polls'[id0] = DOMAIN polls[id0]
           /\ \A o \in Options : missed[id0][o] <= missed'[id0][o],
         DOMAIN counted' = DOMAIN counted, counted'[id0] \in [Options -> Nat],
         \A id \in DOMAIN counted \ {id0} : counted'[id] = counted[id],
         id0 \in alive => \A o \in Options :
           Balanced(req', id0, o, counted'[id0][o], Votes(polls'[id0], o), missed'[id0][o], asked[id0][o])
  PROVE  PollInv'
<1>1. \A o \in Requests \ {r} : req'[o] = req[o]
  BY DEF OneMoves
<1>2. PollTypes'
  <2>1. \A id \in DOMAIN asked : missed'[id] \in [Options -> Nat] /\ counted'[id] \in [Options -> Nat]
    BY DEF PollInv, PollTypes
  <2>2. ASSUME NEW id \in alive
        PROVE  /\ id \in DOMAIN polls' /\ IsRows(polls'[id])
               /\ DOMAIN polls'[id] = DOMAIN polls[id]
               /\ Lacking(missed[id]) \subseteq Lacking(missed'[id])
    <3>1. CASE id = id0
      <4>1. \A o \in Options : /\ missed[id][o] \in Nat /\ missed'[id][o] \in Nat
                              /\ missed[id][o] <= missed'[id][o]
        BY <3>1 DEF PollInv, PollTypes
      <4>2. \A o \in Options : missed[id][o] > 0 => missed'[id][o] > 0
        BY <4>1
      <4> QED
        BY <3>1, <4>2 DEF Lacking, PollInv, PollTypes
    <3>2. CASE id # id0
      <4>1. id \in DOMAIN polls \ {id0} /\ id \in DOMAIN missed \ {id0} /\ IsRows(polls[id])
        BY <3>2 DEF PollInv, PollTypes
      <4> QED
        BY <4>1
    <3> QED
      BY <3>1, <3>2
  <2> QED
    BY <2>1, <2>2 DEF PollInv, PollTypes
<1>3. \A o \in Requests :
        req'[o].stage = "votes" => IsVote(req'[o]) /\ req'[o].poll \in DOMAIN asked'
  BY <1>1 DEF PollInv
<1>4. \A o \in Requests : req'[o].stage = "options" => o # r /\ req'[o] = req[o] /\ req[o].poll # id0
  BY <1>1 DEF PollInv
<1>5. ASSUME NEW o \in Requests, req'[o].stage = "options"
      PROVE  /\ IsMaking(req'[o], polls'[req'[o].poll], missed'[req'[o].poll]) /\ store' = "surreal"
             /\ req'[o].poll \in (DOMAIN asked' \ alive') \cap DOMAIN polls'
             /\ asked'[req'[o].poll] = NoVotes /\ counted'[req'[o].poll] = NoVotes
  <2>1. req'[o] = req[o] /\ req[o].poll # id0 /\ req[o].stage = "options"
    BY <1>4, <1>5
  <2>2. /\ IsMaking(req[o], polls[req[o].poll], missed[req[o].poll]) /\ store = "surreal"
        /\ req[o].poll \in (DOMAIN asked \ alive) \cap DOMAIN polls
        /\ asked[req[o].poll] = NoVotes /\ counted[req[o].poll] = NoVotes
    BY <2>1 DEF PollInv
  <2>3. req[o].poll \in DOMAIN counted /\ req[o].poll \in DOMAIN missed
    BY <2>2 DEF PollInv, PollTypes
  <2> QED
    BY <2>1, <2>2, <2>3
<1>6. \A o, p \in Requests :
        /\ req'[o].stage = "options" /\ req'[p].stage \in {"options", "votes"}
        /\ req'[p].poll = req'[o].poll
        => p = o
  BY <1>1, <1>4 DEF PollInv
<1>7. ASSUME NEW id \in alive, NEW o \in Options
      PROVE  Balanced(req', id, o, counted'[id][o], Votes(polls'[id], o), missed'[id][o], asked[id][o])
  <2>1. CASE id # id0
    <3>1. id \in DOMAIN counted /\ id \in DOMAIN polls /\ id \in DOMAIN missed
      BY DEF PollInv, PollTypes
    <3>2. Balanced(req', id, o, counted[id][o], Votes(polls[id], o), missed[id][o], asked[id][o])
      BY <1>1, <2>1, OtherPollsBalance
    <3> QED
      BY <2>1, <3>1, <3>2
  <2> QED
    BY <2>1
<1> QED
  BY <1>2, <1>3, <1>5, <1>6, <1>7 DEF PollInv, NoVotes

(* What a vote for the first choice that is left makes of votes.            *)
LEMMA HeadIsTallied ==
  ASSUME NEW left \in Seq(Options), left # <<>>, NEW votes \in [Options -> Nat]
  PROVE  /\ Tally(votes, <<Head(left)>>) \in [Options -> Nat]
         /\ \A o \in Options : /\ Gains(left, o) \in Nat
                               /\ Tally(votes, <<Head(left)>>)[o] = votes[o] + Gains(left, o)
<1>1. <<Head(left)>> \in Seq(Options)
  BY OneIsTallied
<1>2. \A o : /\ Cardinality(VotesFor(<<Head(left)>>, o)) = Gains(left, o)
             /\ Gains(left, o) \in Nat
  BY OneIsTallied
<1>3. PICK one \in Seq(Options) : one = <<Head(left)>>
  BY <1>1
<1>4. /\ Tally(votes, one) \in [Options -> Nat]
      /\ \A o \in Options : Tally(votes, one)[o] = votes[o] + Cardinality(VotesFor(one, o))
  BY TallyAdds
<1> QED
  BY <1>2, <1>3, <1>4

(* And of the rows of options.                                              *)
LEMMA HeadOfRows ==
  ASSUME NEW left \in Seq(Options), left # <<>>, NEW votes, IsRows(votes)
  PROVE  /\ IsRows(Tally(votes, <<Head(left)>>))
         /\ DOMAIN Tally(votes, <<Head(left)>>) = DOMAIN votes
         /\ \A o : /\ Gains(left, o) \in Nat /\ Votes(votes, o) \in Nat
                   /\ Votes(Tally(votes, <<Head(left)>>), o)
                        = IF o \in DOMAIN votes THEN Votes(votes, o) + Gains(left, o) ELSE 0
<1>1. <<Head(left)>> \in Seq(Options)
  BY OneIsTallied
<1>2. \A o : /\ Cardinality(VotesFor(<<Head(left)>>, o)) = Gains(left, o)
             /\ Gains(left, o) \in Nat
  BY OneIsTallied
<1>3. PICK one \in Seq(Options) : one = <<Head(left)>>
  BY <1>1
<1>4. /\ IsRows(Tally(votes, one)) /\ DOMAIN Tally(votes, one) = DOMAIN votes
      /\ \A o : /\ Votes(votes, o) \in Nat
                /\ Votes(Tally(votes, one), o)
                     = IF o \in DOMAIN votes
                       THEN Votes(votes, o) + Cardinality(VotesFor(one, o)) ELSE 0
  BY RowsAreTallied
<1> QED
  BY <1>2, <1>3, <1>4

(* A request of a poll that is there, before it moves.                      *)
LEMMA VoterKnows ==
  ASSUME PollInv, NEW r \in Requests, req[r].stage = "votes"
  PROVE  /\ IsVote(req[r]) /\ req[r].left \in Seq(Options) /\ req[r].left # <<>>
         /\ req[r].ballot \in Seq(Options)
         /\ req[r].poll \in DOMAIN asked /\ req[r].poll \in DOMAIN counted
         /\ counted[req[r].poll] \in [Options -> Nat]
         /\ req[r].poll \in DOMAIN missed /\ missed[req[r].poll] \in [Options -> Nat]
         /\ req[r].poll \in alive =>
              /\ req[r].poll \in DOMAIN polls /\ IsRows(polls[req[r].poll])
              /\ \A o \in Options :
                   /\ Balanced(req, req[r].poll, o, counted[req[r].poll][o],
                               Votes(polls[req[r].poll], o), missed[req[r].poll][o],
                               asked[req[r].poll][o])
                   /\ counted[req[r].poll][o] \in Nat /\ Votes(polls[req[r].poll], o) \in Nat
                   /\ missed[req[r].poll][o] \in Nat /\ asked[req[r].poll][o] \in Nat
BY VotesAreNumbers DEF PollInv, PollTypes, IsVote

(* A choice is counted, and with the last the ballot is answered.           *)
LEMMA CastKeepsPolls ==
  ASSUME ReqInv, PollInv, NEW r \in Requests, cast_vote(r)
  PROVE  PollInv'
<1>1. PICK rq, id0, one :
        /\ rq = req[r] /\ rq.stage = "votes" /\ id0 = rq.poll /\ one = <<Head(rq.left)>>
        /\ \/ /\ Head(rq.left) \in DOMAIN polls[id0]
              /\ polls' = [polls EXCEPT ![id0] = Tally(@, one)] /\ missed' = missed
           \/ /\ missed' = [missed EXCEPT ![id0] = Tally(@, one)] /\ polls' = polls
        /\ counted' = IF Len(rq.left) = 1 THEN [counted EXCEPT ![id0] = Tally(@, rq.ballot)]
                      ELSE counted
        /\ Onward(r) /\ UNCHANGED <<store, alive, asked, acts>>
  BY DEF cast_vote, Count
<1>2. /\ IsVote(rq) /\ rq.left \in Seq(Options) /\ rq.left # <<>> /\ rq.ballot \in Seq(Options)
      /\ id0 \in DOMAIN counted /\ counted[id0] \in [Options -> Nat]
      /\ id0 \in DOMAIN missed /\ missed[id0] \in [Options -> Nat]
      /\ id0 \in alive =>
           /\ id0 \in DOMAIN polls /\ IsRows(polls[id0])
           /\ \A o \in Options :
                /\ Balanced(req, id0, o, counted[id0][o], Votes(polls[id0], o), missed[id0][o], asked[id0][o])
                /\ counted[id0][o] \in Nat /\ Votes(polls[id0], o) \in Nat /\ missed[id0][o] \in Nat
                /\ asked[id0][o] \in Nat
  BY <1>1, VoterKnows
<1>3. /\ OneMoves(r)
      /\ Len(rq.left) = 1 => req'[r].stage = "idle"
      /\ Len(rq.left) # 1 =>
           /\ DOMAIN req'[r] = DOMAIN rq /\ req'[r].left = Tail(rq.left)
           /\ \A f \in DOMAIN rq \ {"left"} : req'[r][f] = rq[f]
  BY <1>1, <1>2, OnwardTells DEF IsVote
<1>4. Len(rq.left) # 1 =>
        /\ {"stage", "poll", "left", "ballot"} \subseteq DOMAIN req'[r]
        /\ req'[r].stage = "votes" /\ req'[r].poll = id0 /\ req'[r].ballot = rq.ballot
  BY <1>1, <1>2, <1>3 DEF IsVote
<1>5. Len(rq.left) # 1 =>
        /\ IsVote(req'[r])
        /\ \A o : /\ Cardinality(Left(req'[r], id0, o))
                       = Cardinality(Left(rq, id0, o)) - Gains(rq.left, o)
                  /\ Cardinality(Cast(req'[r], id0, o))
                       = Cardinality(Cast(rq, id0, o)) + Gains(rq.left, o)
  <2>1. SUFFICES ASSUME Len(rq.left) # 1
                 PROVE  /\ IsVote(req'[r])
                        /\ \A o : /\ Cardinality(Left(req'[r], id0, o))
                                       = Cardinality(Left(rq, id0, o)) - Gains(rq.left, o)
                                  /\ Cardinality(Cast(req'[r], id0, o))
                                       = Cardinality(Cast(rq, id0, o)) + Gains(rq.left, o)
    OBVIOUS
  <2>2. PICK next : next = req'[r]
    OBVIOUS
  <2>3. /\ {"stage", "poll", "left", "ballot"} \subseteq DOMAIN next
        /\ next.stage = "votes" /\ next.poll = id0 /\ next.ballot = rq.ballot
        /\ next.left = Tail(rq.left)
    BY <1>3, <1>4, <2>1, <2>2
  <2>4. /\ IsVote(rq) /\ rq.stage = "votes"
        /\ next.stage = rq.stage /\ next.poll = rq.poll
    BY <1>1, <1>2, <2>3
  <2>5. /\ IsVote(next)
        /\ \A o : /\ Cardinality(Left(next, rq.poll, o))
                       = Cardinality(Left(rq, rq.poll, o)) - Gains(rq.left, o)
                  /\ Cardinality(Cast(next, rq.poll, o))
                       = Cardinality(Cast(rq, rq.poll, o)) + Gains(rq.left, o)
    BY <2>1, <2>3, <2>4, ChoiceIsCast
  <2> QED
    BY <1>1, <2>2, <2>5
<1>6. /\ \A votes \in [Options -> Nat] :
           /\ Tally(votes, one) \in [Options -> Nat]
           /\ \A o \in Options : /\ Gains(rq.left, o) \in Nat
                                 /\ Tally(votes, one)[o] = votes[o] + Gains(rq.left, o)
      /\ \A votes : IsRows(votes) =>
           /\ IsRows(Tally(votes, one)) /\ DOMAIN Tally(votes, one) = DOMAIN votes
           /\ \A o \in DOMAIN votes : Votes(Tally(votes, one), o) = Votes(votes, o) + Gains(rq.left, o)
           /\ \A o : o \notin DOMAIN votes => Votes(Tally(votes, one), o) = 0
  <2>1. PICK left \in Seq(Options) : left = rq.left /\ left # <<>>
    BY <1>2
  <2>2. \A votes \in [Options -> Nat] :
          /\ Tally(votes, one) \in [Options -> Nat]
          /\ \A o \in Options : /\ Gains(rq.left, o) \in Nat
                                /\ Tally(votes, one)[o] = votes[o] + Gains(rq.left, o)
    BY <1>1, <2>1, HeadIsTallied
  <2>3. \A votes : IsRows(votes) =>
          /\ IsRows(Tally(votes, one)) /\ DOMAIN Tally(votes, one) = DOMAIN votes
          /\ \A o : Votes(Tally(votes, one), o)
                      = IF o \in DOMAIN votes THEN Votes(votes, o) + Gains(rq.left, o) ELSE 0
    BY <1>1, <2>1, HeadOfRows
  <2> QED
    BY <2>2, <2>3
<1>7. /\ Tally(counted[id0], rq.ballot) \in [Options -> Nat]
      /\ \A o \in Options : /\ Cardinality(VotesFor(rq.ballot, o)) \in Nat
                            /\ Tally(counted[id0], rq.ballot)[o]
                                 = counted[id0][o] + Cardinality(VotesFor(rq.ballot, o))
  BY <1>2, TallyAdds
<1>8. /\ DOMAIN polls' = DOMAIN polls /\ \A id \in DOMAIN polls \ {id0} : polls'[id] = polls[id]
      /\ DOMAIN missed' = DOMAIN missed
      /\ \A id \in DOMAIN missed \ {id0} : missed'[id] = missed[id]
      /\ \/ /\ Head(rq.left) \in DOMAIN polls[id0] /\ missed'[id0] = missed[id0]
            /\ id0 \in DOMAIN polls => polls'[id0] = Tally(polls[id0], one)
         \/ /\ missed'[id0] = Tally(missed[id0], one) /\ polls'[id0] = polls[id0]
      /\ DOMAIN counted' = DOMAIN counted
      /\ \A id \in DOMAIN counted \ {id0} : counted'[id] = counted[id]
      /\ counted'[id0] = IF Len(rq.left) = 1 THEN Tally(counted[id0], rq.ballot) ELSE counted[id0]
  BY <1>1, <1>2
<1>9. /\ counted'[id0] \in [Options -> Nat] /\ missed'[id0] \in [Options -> Nat]
      /\ id0 \in alive => IsRows(polls'[id0]) /\ DOMAIN polls'[id0] = DOMAIN polls[id0]
      /\ \A o \in Options : missed[id0][o] <= missed'[id0][o]
  <2>1. \A o \in Options : missed[id0][o] \in Nat /\ Gains(rq.left, o) \in Nat
    BY <1>2, <1>6
  <2>2. \A o \in Options : missed'[id0][o] \in {missed[id0][o], missed[id0][o] + Gains(rq.left, o)}
    BY <1>2, <1>6, <1>8
  <2>3. \A o \in Options : missed[id0][o] <= missed'[id0][o]
    BY <2>1, <2>2
  <2>4. counted'[id0] \in [Options -> Nat]
    BY <1>2, <1>7, <1>8
  <2>5. missed'[id0] \in [Options -> Nat]
    <3>1. missed[id0] \in [Options -> Nat]
      BY <1>2
    <3>2. Tally(missed[id0], one) \in [Options -> Nat]
      BY <3>1, <1>6
    <3> QED
      BY <1>8, <3>1, <3>2
  <2>6. ASSUME id0 \in alive
        PROVE  IsRows(polls'[id0]) /\ DOMAIN polls'[id0] = DOMAIN polls[id0]
    <3>1. id0 \in DOMAIN polls /\ IsRows(polls[id0])
      BY <1>2, <2>6
    <3>2. /\ IsRows(Tally(polls[id0], one))
          /\ DOMAIN Tally(polls[id0], one) = DOMAIN polls[id0]
      BY <1>6, <3>1
    <3>3. polls'[id0] \in {polls[id0], Tally(polls[id0], one)}
      BY <1>8, <3>1
    <3> QED
      BY <3>1, <3>2, <3>3
  <2> QED
    BY <2>3, <2>4, <2>5, <2>6
<1>10. ASSUME id0 \in alive, NEW o \in Options
       PROVE  Balanced(req', id0, o, counted'[id0][o], Votes(polls'[id0], o), missed'[id0][o], asked[id0][o])
  <2>1. PICK c \in Nat, p \in Nat, x \in Nat, a \in Nat, h \in Nat, t \in Nat :
          /\ c = counted[id0][o] /\ p = Votes(polls[id0], o) /\ x = missed[id0][o]
          /\ a = asked[id0][o]
          /\ Balanced(req, id0, o, c, p, x, a)
          /\ h = Gains(rq.left, o) /\ t = Cardinality(VotesFor(rq.ballot, o))
    BY <1>2, <1>6, <1>7, <1>10
  <2>2. PICK m \in Nat, y \in Nat :
          Votes(polls'[id0], o) = p + m /\ missed'[id0][o] = x + y /\ m + y = h
    <3>1. id0 \in DOMAIN polls /\ IsRows(polls[id0]) /\ 0 \in Nat /\ 0 + h = h /\ h + 0 = h
      BY <1>2, <1>10, <2>1
    <3>2. p + 0 = p /\ x + 0 = x
      BY <2>1
    <3>3. CASE /\ Head(rq.left) \in DOMAIN polls[id0] /\ missed'[id0] = missed[id0]
               /\ polls'[id0] = Tally(polls[id0], one)
      <4>1. CASE o \in DOMAIN polls[id0]
        <5>1. Votes(polls'[id0], o) = p + h /\ missed'[id0][o] = x + 0
          BY <1>6, <2>1, <3>1, <3>2, <3>3, <4>1
        <5> QED
          BY <3>1, <5>1
      <4>2. CASE o \notin DOMAIN polls[id0]
        <5>1. h = 0 /\ p = 0
          BY <2>1, <3>3, <4>2 DEF Gains, Votes
        <5>2. Votes(polls'[id0], o) = p + 0 /\ missed'[id0][o] = x + 0
          BY <1>6, <2>1, <3>1, <3>2, <3>3, <4>2, <5>1
        <5> QED
          BY <3>1, <5>1, <5>2
      <4> QED
        BY <4>1, <4>2
    <3>4. CASE missed'[id0] = Tally(missed[id0], one) /\ polls'[id0] = polls[id0]
      <4>1. Votes(polls'[id0], o) = p + 0 /\ missed'[id0][o] = x + h
        BY <1>2, <1>6, <2>1, <3>2, <3>4
      <4> QED
        BY <3>1, <4>1
    <3> QED
      BY <1>8, <3>1, <3>3, <3>4
  <2>3. \A s \in Requests \ {r} : req'[s] = req[s]
    BY <1>3 DEF OneMoves
  <2>4. /\ IsFiniteSet(Left(rq, id0, o)) /\ IsFiniteSet(Cast(rq, id0, o))
        /\ Cardinality(Left(rq, id0, o)) \in Nat /\ Cardinality(Cast(rq, id0, o)) \in Nat
        /\ t = Cardinality(Left(rq, id0, o)) + Cardinality(Cast(rq, id0, o))
    BY <1>1, <1>2, <2>1, ChoicesSplit
  <2>5. CASE Len(rq.left) = 1
    <3>1. /\ IsFiniteSet(Left(req'[r], id0, o)) /\ IsFiniteSet(Cast(req'[r], id0, o))
          /\ Cardinality(Left(req'[r], id0, o)) = 0 /\ Cardinality(Cast(req'[r], id0, o)) = 0
      BY <1>3, <2>5, NoChoices
    <3>2. Cardinality(Left(rq, id0, o)) = h
      BY <1>1, <1>2, <2>1, <2>5, HeadIsLeft
    <3>3. /\ t + Cardinality(Cast(req'[r], id0, o)) - Cardinality(Cast(rq, id0, o)) <= m + y
          /\ m + Cardinality(Left(req'[r], id0, o)) - Cardinality(Left(rq, id0, o)) <= 0
      BY <2>2, <2>4, <3>1, <3>2
    <3>4. Balanced(req', id0, o, c + t, p + m, x + y, a + 0)
      <4>1. rq = req[r] /\ 0 \in Nat /\ Balanced(req, id0, o, c, p, x, a)
        BY <1>1, <2>1
      <4> QED
        BY <2>3, <3>1, <3>3, <4>1, BalanceMoves
    <3>5. counted'[id0][o] = c + t /\ a + 0 = a
      BY <1>7, <1>8, <2>1, <2>5
    <3> QED
      BY <2>1, <2>2, <3>4, <3>5
  <2>6. CASE Len(rq.left) # 1
    <3>1. /\ IsFiniteSet(Left(req'[r], id0, o)) /\ IsFiniteSet(Cast(req'[r], id0, o))
      BY <1>4, <1>5, <2>6, ChoicesSplit
    <3>2. /\ Cardinality(Left(req'[r], id0, o)) = Cardinality(Left(rq, id0, o)) - h
          /\ Cardinality(Cast(req'[r], id0, o)) = Cardinality(Cast(rq, id0, o)) + h
      BY <1>5, <2>1, <2>6
    <3>3. /\ 0 + Cardinality(Cast(req'[r], id0, o)) - Cardinality(Cast(rq, id0, o)) <= m + y
          /\ m + Cardinality(Left(req'[r], id0, o)) - Cardinality(Left(rq, id0, o)) <= 0
      BY <2>1, <2>2, <2>4, <3>2
    <3>4. Balanced(req', id0, o, c + 0, p + m, x + y, a + 0)
      BY <1>1, <2>1, <2>3, <3>1, <3>3, BalanceMoves
    <3>5. counted'[id0][o] = c /\ a + 0 = a /\ c + 0 = c
      BY <1>8, <2>1, <2>6
    <3> QED
      BY <2>1, <2>2, <3>4, <3>5
  <2> QED
    BY <2>5, <2>6
<1>11. /\ req'[r].stage \in {"idle", "votes"}
       /\ req'[r].stage = "votes" => IsVote(req'[r]) /\ req'[r].poll = id0
  BY <1>3, <1>4, <1>5
<1> QED
  BY <1>1, <1>3, <1>8, <1>9, <1>10, <1>11, VoteMoves

(* A request for a poll fails; its last vote may have been counted.         *)
LEMMA FailKeepsPolls ==
  ASSUME ReqInv, PollInv, NEW r \in Requests, PollFails(r)
  PROVE  PollInv'
<1>1. PICK rq, id0, one :
        /\ rq = req[r] /\ id0 = rq.poll /\ one = <<Head(rq.left)>>
        /\ \/ rq.stage = "options" /\ polls' = polls
           \/ rq.stage = "votes" /\ polls' = polls
           \/ rq.stage = "votes" /\ polls' = [polls EXCEPT ![id0] = Tally(@, one)]
        /\ Become(r, Idle) /\ UNCHANGED <<store, alive, asked, counted, missed, acts>>
  BY DEF PollFails
<1>2. OneMoves(r) /\ req'[r].stage = "idle"
  <2>1. Staged(Idle) /\ Idle.stage = "idle"
    BY DEF Idle, Staged
  <2> QED
    BY <1>1, <2>1, BecomeMoves
<1>3. \A s \in Requests \ {r} : req'[s] = req[s]
  BY <1>2 DEF OneMoves
<1>4. CASE rq.stage = "options" /\ polls' = polls
  <2>1. PollTypes'
    BY <1>1, <1>4 DEF PollInv, PollTypes
  <2>2. \A s \in Requests : req'[s].stage \in {"options", "votes"} => req'[s] = req[s]
    BY <1>2, <1>3
  <2>3. ASSUME NEW id \in alive, NEW o \in Options
        PROVE  Balanced(req', id, o, counted[id][o], Votes(polls[id], o), missed[id][o], asked[id][o])
    <3>1. req[r].stage # "votes" /\ req'[r].stage # "votes"
      BY <1>1, <1>2, <1>4
    <3> QED
      BY <1>3, <3>1, OtherPollsBalance
  <2>4. \A s \in Requests :
          req'[s].stage = "votes" => IsVote(req'[s]) /\ req'[s].poll \in DOMAIN asked'
    BY <1>1, <2>2 DEF PollInv
  <2>5. \A s \in Requests :
          req'[s].stage = "options" =>
            /\ IsMaking(req'[s], polls'[req'[s].poll], missed'[req'[s].poll]) /\ store' = "surreal"
            /\ req'[s].poll \in (DOMAIN asked' \ alive') \cap DOMAIN polls'
            /\ asked'[req'[s].poll] = NoVotes /\ counted'[req'[s].poll] = NoVotes
    BY <1>1, <1>4, <2>2 DEF PollInv
  <2>6. \A s, p \in Requests :
          /\ req'[s].stage = "options" /\ req'[p].stage \in {"options", "votes"}
          /\ req'[p].poll = req'[s].poll
          => p = s
    BY <2>2 DEF PollInv
  <2> QED
    BY <1>1, <1>4, <2>1, <2>3, <2>4, <2>5, <2>6 DEF PollInv, NoVotes
<1>5. CASE /\ rq.stage = "votes"
           /\ polls' = polls \/ polls' = [polls EXCEPT ![id0] = Tally(@, one)]
  <2>1. /\ IsVote(rq) /\ rq.left \in Seq(Options) /\ rq.left # <<>>
        /\ id0 \in DOMAIN counted /\ counted[id0] \in [Options -> Nat]
        /\ id0 \in DOMAIN missed /\ missed[id0] \in [Options -> Nat]
        /\ id0 \in alive =>
             /\ id0 \in DOMAIN polls /\ IsRows(polls[id0])
             /\ \A o \in Options :
                  /\ Balanced(req, id0, o, counted[id0][o], Votes(polls[id0], o), missed[id0][o], asked[id0][o])
                  /\ counted[id0][o] \in Nat /\ Votes(polls[id0], o) \in Nat /\ missed[id0][o] \in Nat
                  /\ asked[id0][o] \in Nat
    BY <1>1, <1>5, VoterKnows
  <2>2. \A votes : IsRows(votes) =>
          /\ IsRows(Tally(votes, one)) /\ DOMAIN Tally(votes, one) = DOMAIN votes
          /\ \A o : /\ Gains(rq.left, o) \in Nat /\ Votes(votes, o) \in Nat
                    /\ Votes(Tally(votes, one), o)
                         = IF o \in DOMAIN votes THEN Votes(votes, o) + Gains(rq.left, o) ELSE 0
    <3>1. PICK left \in Seq(Options) : left = rq.left /\ left # <<>>
      BY <2>1
    <3> QED
      BY <1>1, <3>1, HeadOfRows
  <2>3. /\ DOMAIN polls' = DOMAIN polls /\ \A id \in DOMAIN polls \ {id0} : polls'[id] = polls[id]
        /\ id0 \in DOMAIN polls => polls'[id0] = polls[id0] \/ polls'[id0] = Tally(polls[id0], one)
    BY <1>5
  <2>4. /\ id0 \in alive => IsRows(polls'[id0]) /\ DOMAIN polls'[id0] = DOMAIN polls[id0]
        /\ \A o \in Options : missed[id0][o] <= missed'[id0][o]
    <3>1. \A o \in Options : missed[id0][o] \in Nat /\ missed'[id0][o] = missed[id0][o]
      BY <1>1, <2>1
    <3> QED
      BY <2>1, <2>2, <2>3, <3>1
  <2>5. ASSUME id0 \in alive, NEW o \in Options
        PROVE  Balanced(req', id0, o, counted[id0][o], Votes(polls'[id0], o), missed[id0][o], asked[id0][o])
    <3>1. PICK c \in Nat, p \in Nat, x \in Nat, a \in Nat :
            /\ c = counted[id0][o] /\ p = Votes(polls[id0], o) /\ x = missed[id0][o]
            /\ a = asked[id0][o]
            /\ Balanced(req, id0, o, c, p, x, a)
      BY <2>1, <2>5
    <3>2. PICK h \in Nat :
            /\ Votes(polls'[id0], o) = p + h /\ h <= Gains(rq.left, o)
            /\ Gains(rq.left, o) \in Nat
      <4>1. CASE polls'[id0] = polls[id0]
        <5>1. Gains(rq.left, o) \in Nat
          BY <2>1, <2>2, <2>5
        <5>2. 0 \in Nat /\ Votes(polls'[id0], o) = p + 0
          BY <3>1, <4>1
        <5>3. 0 <= Gains(rq.left, o)
          BY <5>1
        <5> QED
          BY <5>1, <5>2, <5>3
      <4>2. CASE polls'[id0] = Tally(polls[id0], one)
        <5>1. Gains(rq.left, o) \in Nat /\ IsRows(polls[id0])
          BY <2>1, <2>2, <2>5
        <5>2. CASE o \in DOMAIN polls[id0]
          BY <2>2, <3>1, <4>2, <5>1, <5>2
        <5>3. CASE o \notin DOMAIN polls[id0]
          <6>1. Votes(polls'[id0], o) = 0 /\ p = 0
            BY <2>2, <3>1, <4>2, <5>1, <5>3 DEF Votes
          <6>2. 0 \in Nat /\ 0 = p + 0 /\ 0 <= Gains(rq.left, o)
            BY <5>1, <6>1
          <6> QED
            BY <5>1, <6>1, <6>2
        <5> QED
          BY <5>2, <5>3
      <4> QED
        BY <2>1, <2>3, <2>5, <4>1, <4>2
    <3>3. /\ IsFiniteSet(Left(rq, id0, o)) /\ IsFiniteSet(Cast(rq, id0, o))
          /\ Cardinality(Left(rq, id0, o)) \in Nat /\ Cardinality(Cast(rq, id0, o)) \in Nat
      BY <1>1, <1>5, <2>1, ChoicesSplit
    <3>4. Gains(rq.left, o) <= Cardinality(Left(rq, id0, o))
      BY <1>1, <1>5, <2>1, HeadIsLeft
    <3>5. /\ IsFiniteSet(Left(req'[r], id0, o)) /\ IsFiniteSet(Cast(req'[r], id0, o))
          /\ Cardinality(Left(req'[r], id0, o)) = 0 /\ Cardinality(Cast(req'[r], id0, o)) = 0
      BY <1>2, NoChoices
    <3>6. /\ 0 + Cardinality(Cast(req'[r], id0, o)) - Cardinality(Cast(rq, id0, o)) <= h + 0
          /\ h + Cardinality(Left(req'[r], id0, o)) - Cardinality(Left(rq, id0, o)) <= 0
      BY <3>2, <3>3, <3>4, <3>5
    <3>7. Balanced(req', id0, o, c + 0, p + h, x + 0, a + 0)
      BY <1>1, <1>3, <3>1, <3>5, <3>6, BalanceMoves
    <3>8. c + 0 = c /\ x + 0 = x /\ a + 0 = a
      BY <3>1
    <3> QED
      BY <3>1, <3>2, <3>7, <3>8
  <2> QED
    BY <1>1, <1>2, <1>5, <2>1, <2>3, <2>4, <2>5, VoteMoves
<1> QED
  BY <1>1, <1>4, <1>5

(* All steps keep it, and it tells that votes are counted.                  *)
LEMMA NextKeepsPolls ==
  ASSUME FilesInv, PollInv, [Next]_vars, UNCHANGED store
  PROVE  PollInv'
<1>1. ReqInv
  BY DEF FilesInv
<1>2. CASE UNCHANGED vars
  <2>1. UNCHANGED <<polling, acts, req>>
    BY <1>2 DEF vars
  <2> QED
    BY <2>1, PollsFrame
<1>3. CASE UploadsNext(MessageIds) /\ UNCHANGED polling
  <2>1. acts' \in {acts, acts + 1}
    BY <1>3, UploadsKeepStore
  <2> QED
    BY <1>3, <2>1, UploadsAmong, OtherStages, PollsFrame DEF Among
<1>4. CASE PostingNext /\ UNCHANGED polling
  <2>1. acts' \in {acts, acts + 1}
    BY <1>4, PostingKeepsStore
  <2> QED
    BY <1>1, <1>4, <2>1, PostingAmong, OtherStages, PollsFrame DEF Among
<1>5. CASE DraftsNext
  <2>1. ASSUME NEW m, NEW id,
               \/ \E named \in BOOLEAN, outcome \in Outcomes :
                    save_draft(m, named, id, outcome) \/ save_pm_draft(m, named, id, outcome)
               \/ delete_draft(m, id) \/ delete_pm_draft(m, id)
        PROVE  PollInv'
    <3>1. UNCHANGED <<polling, req>> /\ acts' = acts + 1
      BY <2>1 DEF save_draft, save_pm_draft, delete_draft, delete_pm_draft, Save, Delete, Act
    <3> QED
      BY <3>1, PollsFrame
  <2> QED
    BY <1>1, <1>5, <2>1, CreateAllKeepsPolls, CreateKeepsPolls, OptionKeepsPolls,
       VoteAllKeepsPolls, VoteKeepsPolls, CastKeepsPolls, RemoveKeepsPolls, FailKeepsPolls
       DEF DraftsNext
<1> QED
  BY <1>2, <1>3, <1>4, <1>5 DEF Next

LEMMA VotesDoCount ==
  ASSUME PollInv
  PROVE  VotesAreCounted
<1> SUFFICES ASSUME NEW id \in alive, NEW o \in Options
             PROVE  IF o \in DOMAIN polls[id]
                    THEN /\ counted[id][o] <= polls[id][o] + missed[id][o]
                         /\ polls[id][o] <= asked[id][o]
                    ELSE missed[id][o] > 0 /\ counted[id][o] <= missed[id][o]
  BY DEF VotesAreCounted
<1>1. /\ IsRows(polls[id]) /\ counted[id][o] \in Nat /\ asked[id][o] \in Nat
      /\ missed[id][o] \in Nat /\ (o \notin DOMAIN polls[id] => missed[id][o] > 0)
  BY DEF PollInv, PollTypes, Lacking
<1>2. Balanced(req, id, o, counted[id][o], Votes(polls[id], o), missed[id][o], asked[id][o])
  BY DEF PollInv
<1>3. /\ Cardinality(AllCast(req, id, o)) \in Nat /\ Cardinality(AllLeft(req, id, o)) \in Nat
      /\ counted[id][o] + Cardinality(AllCast(req, id, o)) <= Votes(polls[id], o) + missed[id][o]
      /\ Votes(polls[id], o) + Cardinality(AllLeft(req, id, o)) <= asked[id][o]
  BY <1>2, FS_CardinalityType DEF Balanced
<1>4. Votes(polls[id], o) \in Nat
  BY <1>1, VotesAreNumbers
<1>5. /\ counted[id][o] <= Votes(polls[id], o) + missed[id][o]
      /\ Votes(polls[id], o) <= asked[id][o]
  BY <1>1, <1>3, <1>4
<1>6. Votes(polls[id], o) = IF o \in DOMAIN polls[id] THEN polls[id][o] ELSE 0
  BY DEF Votes
<1> QED
  BY <1>1, <1>5, <1>6
-----------------------------------------------------------------------------
(* All four kinds.                                                          *)

(* What holds of all that members save.                                     *)
SavedInv ==
  /\ DraftInv
  /\ store = "memory" => TopicInv
  /\ MentionInv
  /\ PollInv

(* No step moves to another store.                                          *)
LEMMA StoreStays ==
  ASSUME [Next]_vars
  PROVE  UNCHANGED store
<1>1. CASE DraftsNext
  <2>1. ASSUME NEW m, NEW id,
               \/ \E named \in BOOLEAN, outcome \in Outcomes :
                    save_draft(m, named, id, outcome) \/ save_pm_draft(m, named, id, outcome)
               \/ delete_draft(m, id) \/ delete_pm_draft(m, id)
        PROVE  UNCHANGED store
    BY <2>1 DEF save_draft, save_pm_draft, delete_draft, delete_pm_draft, Save, Delete
  <2>2. ASSUME NEW r, create_poll(r) \/ create_option(r) \/ cast_vote(r) \/ PollFails(r)
        PROVE  UNCHANGED store
    BY <2>2 DEF create_poll, create_option, cast_vote, PollFails
  <2>3. ASSUME NEW r, NEW id, NEW ballot,
               vote(r, id, ballot) \/ vote_in_memory(id, ballot) \/ remove_poll(id)
        PROVE  UNCHANGED store
    BY <2>3 DEF vote, vote_in_memory, remove_poll
  <2>4. create_poll_in_memory => UNCHANGED store
    BY DEF create_poll_in_memory
  <2> QED
    BY <1>1, <2>1, <2>2, <2>3, <2>4 DEF DraftsNext
<1>2. CASE UNCHANGED vars
  BY <1>2 DEF vars
<1> QED
  BY <1>1, <1>2, UploadsKeepStore, PostingKeepsStore DEF Next

(* In the beginning nothing is saved, or one topic in memory.               *)
LEMMA InitSaves ==
  ASSUME Init
  PROVE  SavedInv
<1>1. /\ drafts = <<>> /\ kept = {} /\ next_draft = [kind \in Kinds |-> 1]
      /\ polls = <<>> /\ alive = {} /\ asked = <<>> /\ counted = <<>> /\ missed = <<>>
      /\ acts = 0
      /\ mentions = {} /\ saved = <<>> /\ strange = {}
      /\ req = [r \in Requests |-> Idle]
  BY DEF Init, UploadsInit, DraftsInit, PostingInit
<1>2. \A r \in Requests : req[r].stage = "idle"
  BY <1>1 DEF Idle
<1>3. DOMAIN drafts = {} /\ DOMAIN asked = {} /\ DOMAIN counted = {} /\ DOMAIN missed = {} /\ DOMAIN saved = {}
  BY <1>1
<1>4. DraftInv
  BY <1>1, <1>3 DEF DraftInv
<1>5. ASSUME store = "memory"
      PROVE  TopicInv
  <2>1. topics = <<[first |-> 1, last |-> 1]>> /\ messages = <<1>>
    BY <1>5 DEF Init, PostingInit
  <2>2. DOMAIN topics = 1..1 /\ DOMAIN messages = 1..1
    BY <2>1
  <2>3. topics[1] = [first |-> 1, last |-> 1] /\ messages[1] = 1
    BY <2>1
  <2>4. \A t \in 1..1 : t = 1
    OBVIOUS
  <2> QED
    BY <2>2, <2>3, <2>4 DEF TopicInv, Leads
<1>6. MentionInv
  BY <1>1, <1>2, <1>3 DEF MentionInv, RowsDiffer
<1>7. PollInv
  BY <1>1, <1>2, <1>3 DEF PollInv, PollTypes
<1> QED
  BY <1>4, <1>5, <1>6, <1>7 DEF SavedInv

(* What members save is as SavedInv says, always.                           *)
THEOREM SavedInvariant == Spec => []SavedInv
<1>1. FilesInv /\ SavedInv /\ [Next]_vars => SavedInv'
  <2> SUFFICES ASSUME FilesInv, SavedInv, [Next]_vars
               PROVE  SavedInv'
    OBVIOUS
  <2>1. UNCHANGED store
    BY StoreStays
  <2>2. DraftInv'
    BY NextKeepsDrafts DEF SavedInv
  <2>3. store' = "memory" => TopicInv'
    BY <2>1, NextKeepsTopics DEF SavedInv
  <2>4. MentionInv'
    BY <2>1, NextKeepsMentions DEF SavedInv
  <2>5. PollInv'
    BY <2>1, NextKeepsPolls DEF SavedInv
  <2> QED
    BY <2>2, <2>3, <2>4, <2>5 DEF SavedInv
<1> QED
  BY <1>1, InitSaves, FilesInvariant, PTL DEF Spec

(* Drafts, votes, mentions and topics that members saved are kept           *)
(* (drafts.rs, poll.rs and controller/post.rs).                             *)
THEOREM SavedIsKeptHolds == Spec => []SavedIsKept
<1>1. SavedInv => SavedIsKept
  <2> SUFFICES ASSUME SavedInv
               PROVE  SavedIsKept
    OBVIOUS
  <2> QED
    BY DraftsAreKept, VotesDoCount, MentionsAreKept, TopicsDoLead DEF SavedInv, SavedIsKept
<1> QED
  BY <1>1, SavedInvariant, PTL
=============================================================================
