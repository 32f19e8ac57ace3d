---------------------------- MODULE PostingProofs ----------------------------
(***************************************************************************)
(* Proofs about Posting: what is written or shown was let through by every *)
(* rule that applies, and answers tell what was written; for any requests, *)
(* members, boards, rules and faults.                                      *)
(***************************************************************************)
EXTENDS Posting, SequenceTheorems, TLAPS

CallNames ==
  {"bans", "guest", "guards", "access", "load", "general", "board", "get_topic", "same_board",
   "bypass", "topic_board", "rules", "rules_if_any", "show", "topic", "post"}

(* What every handler has in common: bans come first, a reader looks at the *)
(* board and a writer at bans, board and permissions before it writes, and  *)
(* ends with the post.                                                      *)
Ordered(h, calls) ==
  /\ calls \in Seq(CallNames) /\ Len(calls) \in Nat \ {0}
  /\ h \in Humans => calls[1] # "guest"
  /\ \A n \in 1..Len(calls) :
       /\ calls[n] \in {"bans", "guest"} => n = 1
       /\ calls[n] \in {"access", "rules", "rules_if_any"} /\ h = "agent_reply" =>
            \E i \in 1..(n - 1) : calls[i] = "same_board"
       /\ calls[n] = "load" =>
            h \in Humans /\ \A i \in 1..(n - 1) : calls[i] \in {"bans", "guards", "access"}
       /\ calls[n] = "board" => h \in Humans /\ \E i \in 1..(n - 1) : calls[i] = "load"
       /\ calls[n] \in {"post", "show"} <=> n = Len(calls)
       /\ calls[n] = "topic" => n = Len(calls) - 1 /\ calls[Len(calls)] = "post"
                                /\ h # "demo_post"
       /\ calls[n] = "topic_board" =>
            n = 2 /\ Len(calls) = 4 /\ calls[1] = "guest" /\ calls[3] = "access"
              /\ calls[4] = "show"

(* The checks that come before any call that writes or shows.               *)
Guarded(h, calls) ==
  \A n \in 1..Len(calls) : calls[n] \in {"topic", "post", "show"} =>
    /\ \E i \in 1..(n - 1) : calls[i] \in {"access", "rules", "rules_if_any"}
    /\ h \in Humans => \E i \in 1..(n - 1) : calls[i] = "board"
    /\ h \notin Humans /\ calls[1] # "guest" => calls[1] = "bans" /\ n > 1

(* All handlers are like that.                                              *)
LEMMA CallsAreOrdered ==
  ASSUME NEW h \in Handlers
  PROVE  Ordered(h, Calls[h]) /\ Guarded(h, Calls[h])
<1>1. h \in DOMAIN Calls
  BY HandlersAssumption
<1>2. CASE h = "create_topic"
  <2>1. Calls[h] = <<"bans", "guards", "access", "load", "general", "board", "topic", "post">>
    BY <1>2 DEF Calls, create_surreal_topic
  <2>2. ASSUME NEW c, c \in Seq(CallNames),
               /\ Len(c) = 8 /\ c[1] = "bans" /\ c[2] = "guards"
               /\ c[3] = "access" /\ c[4] = "load" /\ c[5] = "general"
               /\ c[6] = "board" /\ c[7] = "topic" /\ c[8] = "post"
        PROVE  Ordered(h, c) /\ Guarded(h, c)
    BY <1>2, <2>2 DEF Ordered, Guarded, Humans
  <2>3. <<"bans", "guards", "access", "load", "general", "board", "topic", "post">> \in Seq(CallNames)
    BY DEF CallNames
  <2> QED
    BY <2>1, <2>2, <2>3
<1>3. CASE h = "create_post"
  <2>1. Calls[h] = <<"bans", "guards", "access", "load", "general", "board", "post">>
    BY <1>3 DEF Calls, create_surreal_topic_post
  <2>2. ASSUME NEW c, c \in Seq(CallNames),
               /\ Len(c) = 7 /\ c[1] = "bans" /\ c[2] = "guards"
               /\ c[3] = "access" /\ c[4] = "load" /\ c[5] = "general"
               /\ c[6] = "board" /\ c[7] = "post"
        PROVE  Ordered(h, c) /\ Guarded(h, c)
    BY <1>3, <2>2 DEF Ordered, Guarded, Humans
  <2>3. <<"bans", "guards", "access", "load", "general", "board", "post">> \in Seq(CallNames)
    BY DEF CallNames
  <2> QED
    BY <2>1, <2>2, <2>3
<1>4. CASE h = "demo_post"
  <2>1. Calls[h] = <<"bans", "guards", "access", "load", "general", "board", "post">>
    BY <1>4 DEF Calls, surreal_post
  <2>2. ASSUME NEW c, c \in Seq(CallNames),
               /\ Len(c) = 7 /\ c[1] = "bans" /\ c[2] = "guards"
               /\ c[3] = "access" /\ c[4] = "load" /\ c[5] = "general"
               /\ c[6] = "board" /\ c[7] = "post"
        PROVE  Ordered(h, c) /\ Guarded(h, c)
    BY <1>4, <2>2 DEF Ordered, Guarded, Humans
  <2>3. <<"bans", "guards", "access", "load", "general", "board", "post">> \in Seq(CallNames)
    BY DEF CallNames
  <2> QED
    BY <2>1, <2>2, <2>3
<1>5. CASE h = "agent_topic"
  <2>1. Calls[h] = <<"bans", "access", "guards", "bypass", "topic", "post">>
    BY <1>5 DEF Calls, agent_create_topic
  <2>2. ASSUME NEW c, c \in Seq(CallNames),
               /\ Len(c) = 6 /\ c[1] = "bans" /\ c[2] = "access"
               /\ c[3] = "guards" /\ c[4] = "bypass" /\ c[5] = "topic"
               /\ c[6] = "post"
        PROVE  Ordered(h, c) /\ Guarded(h, c)
    BY <1>5, <2>2 DEF Ordered, Guarded, Humans
  <2>3. <<"bans", "access", "guards", "bypass", "topic", "post">> \in Seq(CallNames)
    BY DEF CallNames
  <2> QED
    BY <2>1, <2>2, <2>3
<1>6. CASE h = "agent_reply"
  <2>1. Calls[h] = <<"bans", "get_topic", "same_board", "access", "guards", "bypass", "post">>
    BY <1>6 DEF Calls, agent_create_reply
  <2>2. ASSUME NEW c, c \in Seq(CallNames),
               /\ Len(c) = 7 /\ c[1] = "bans" /\ c[2] = "get_topic"
               /\ c[3] = "same_board" /\ c[4] = "access" /\ c[5] = "guards"
               /\ c[6] = "bypass" /\ c[7] = "post"
        PROVE  Ordered(h, c) /\ Guarded(h, c)
    BY <1>6, <2>2 DEF Ordered, Guarded, Humans
  <2>3. <<"bans", "get_topic", "same_board", "access", "guards", "bypass", "post">> \in Seq(CallNames)
    BY DEF CallNames
  <2> QED
    BY <2>1, <2>2, <2>3
<1>7. CASE h = "topics"
  <2>1. Calls[h] = <<"guest", "access", "show">>
    BY <1>7 DEF Calls, list_surreal_topics
  <2>2. ASSUME NEW c, c \in Seq(CallNames),
               /\ Len(c) = 3 /\ c[1] = "guest" /\ c[2] = "access"
               /\ c[3] = "show"
        PROVE  Ordered(h, c) /\ Guarded(h, c)
    BY <1>7, <2>2 DEF Ordered, Guarded, Humans
  <2>3. <<"guest", "access", "show">> \in Seq(CallNames)
    BY DEF CallNames
  <2> QED
    BY <2>1, <2>2, <2>3
<1>8. CASE h = "posts"
  <2>1. Calls[h] = <<"guest", "topic_board", "access", "show">>
    BY <1>8 DEF Calls, list_surreal_posts_for_topic
  <2>2. ASSUME NEW c, c \in Seq(CallNames),
               /\ Len(c) = 4 /\ c[1] = "guest" /\ c[2] = "topic_board"
               /\ c[3] = "access" /\ c[4] = "show"
        PROVE  Ordered(h, c) /\ Guarded(h, c)
    BY <1>8, <2>2 DEF Ordered, Guarded, Humans
  <2>3. <<"guest", "topic_board", "access", "show">> \in Seq(CallNames)
    BY DEF CallNames
  <2> QED
    BY <2>1, <2>2, <2>3
<1>9. CASE h = "agent_topics"
  <2>1. Calls[h] = <<"bans", "access", "show">>
    BY <1>9 DEF Calls, agent_list_topics
  <2>2. ASSUME NEW c, c \in Seq(CallNames),
               /\ Len(c) = 3 /\ c[1] = "bans" /\ c[2] = "access" /\ c[3] = "show"
        PROVE  Ordered(h, c) /\ Guarded(h, c)
    BY <1>9, <2>2 DEF Ordered, Guarded, Humans
  <2>3. <<"bans", "access", "show">> \in Seq(CallNames)
    BY DEF CallNames
  <2> QED
    BY <2>1, <2>2, <2>3
<1>10. CASE h = "agent_get"
  <2>1. Calls[h] = <<"bans", "get_topic", "access", "show">>
    BY <1>10 DEF Calls, agent_get_topic
  <2>2. ASSUME NEW c, c \in Seq(CallNames),
               /\ Len(c) = 4 /\ c[1] = "bans" /\ c[2] = "get_topic"
               /\ c[3] = "access" /\ c[4] = "show"
        PROVE  Ordered(h, c) /\ Guarded(h, c)
    BY <1>10, <2>2 DEF Ordered, Guarded, Humans
  <2>3. <<"bans", "get_topic", "access", "show">> \in Seq(CallNames)
    BY DEF CallNames
  <2> QED
    BY <2>1, <2>2, <2>3
<1>11. CASE h = "boards"
  <2>1. Calls[h] = <<"guest", "rules_if_any", "show">>
    BY <1>11 DEF Calls, surreal_boards
  <2>2. ASSUME NEW c, c \in Seq(CallNames),
               /\ Len(c) = 3 /\ c[1] = "guest" /\ c[2] = "rules_if_any"
               /\ c[3] = "show"
        PROVE  Ordered(h, c) /\ Guarded(h, c)
    BY <1>11, <2>2 DEF Ordered, Guarded, Humans
  <2>3. <<"guest", "rules_if_any", "show">> \in Seq(CallNames)
    BY DEF CallNames
  <2> QED
    BY <2>1, <2>2, <2>3
<1>12. CASE h = "agent_boards"
  <2>1. Calls[h] = <<"bans", "rules", "show">>
    BY <1>12 DEF Calls, agent_list_boards
  <2>2. ASSUME NEW c, c \in Seq(CallNames),
               /\ Len(c) = 3 /\ c[1] = "bans" /\ c[2] = "rules" /\ c[3] = "show"
        PROVE  Ordered(h, c) /\ Guarded(h, c)
    BY <1>12, <2>2 DEF Ordered, Guarded, Humans
  <2>3. <<"bans", "rules", "show">> \in Seq(CallNames)
    BY DEF CallNames
  <2> QED
    BY <2>1, <2>2, <2>3
<1> QED
  BY <1>1, <1>2, <1>3, <1>4, <1>5, <1>6, <1>7, <1>8, <1>9, <1>10, <1>11, <1>12 DEF Calls

(* Who writes as a human is subject to all rules: no such handler serves    *)
(* guests.                                                                  *)
LEMMA HumansNeed ==
  ASSUME NEW rq, rq.handler \in Handlers, rq.handler \in Humans
  PROVE  Required(rq) = {"ban", "access", "permission"}
<1>1. Head(Calls[rq.handler]) # "guest"
  BY CallsAreOrdered DEF Ordered
<1> QED
  BY <1>1 DEF Required
-----------------------------------------------------------------------------
(* What is known of a request.  Its record, its history and what it wrote   *)
(* are arguments, so that nothing here depends on the state.                *)

IsRequest(rq) ==
  /\ rq = [handler |-> rq.handler, who |-> rq.who, board |-> rq.board, topic |-> rq.topic,
           session |-> rq.session, guest |-> rq.guest, grants |-> rq.grants,
           unchecked |-> rq.unchecked, todo |-> rq.todo, reply |-> rq.reply]
  /\ rq.session = [checked |-> rq.session.checked, active |-> rq.session.active,
                   cannot_post |-> rq.session.cannot_post,
                   cannot_access |-> rq.session.cannot_access]
  /\ rq.handler \in Handlers /\ rq.grants \subseteq General
  /\ rq.board \in Boards /\ (rq.handler \notin Replies => rq.topic = rq.board)

(* A rule has let the request through, or could not be read.                *)
Let(rule, rq, s) == rule \in s \union rq.unchecked

(* A session that was checked and stops nobody comes from rules that let    *)
(* the request through.                                                     *)
SessionTrue(rq, s) ==
  /\ ~rq.session.active => ~rq.session.cannot_post /\ ~rq.session.cannot_access
  /\ /\ "ban" \in Required(rq)
     /\ rq.session.checked # -1 /\ ~rq.session.cannot_access
     /\ ~rq.session.cannot_post \/ rq.handler \notin Humans \/ Role[rq.who] # "member"
     => Let("ban", rq, s)

(* Administrators and moderators are let through from the start.            *)
Privileged(rq, s) ==
  /\ Role[rq.who] = "admin" => Required(rq) \subseteq s
  /\ Role[rq.who] = "mod" /\ rq.handler \in Humans => "permission" \in s

(* What a request knows that has got past a call.                           *)
Passed(call, rq, s) ==
  /\ call \in {"access", "rules", "rules_if_any"} => Let("access", rq, s)
  /\ call = "same_board" => rq.topic = rq.board
  /\ call = "bans" /\ rq.handler \notin Humans =>
       Let("ban", rq, s) \/ "unenforced" \in rq.unchecked
  /\ call = "load" =>
       \/ Role[rq.who] = "admin"
       \/ rq.session.checked # -1 /\ ~rq.session.cannot_access
  /\ call = "board" => Let("ban", rq, s) /\ Let("permission", rq, s)

(* The calls from the n-th on are still to do.                              *)
Rest(todo, calls, n) ==
  /\ todo \in Seq(CallNames) /\ Len(todo) = Len(calls) - n + 1
  /\ \A j \in 1..Len(todo) : todo[j] = calls[n + j - 1]

(* What has been written before the n-th call.                              *)
Wrote(calls, n) == {call \in {"topic"} : \E i \in 1..(n - 1) : calls[i] = call}

UnderwayAt(n, rq, s, w) ==
  LET calls == Calls[rq.handler] IN
  /\ rq.reply = "none" /\ SessionTrue(rq, s) /\ Privileged(rq, s)
  /\ n \in 1..Len(calls) /\ Rest(rq.todo, calls, n)
  /\ \A i \in 1..(n - 1) : Passed(calls[i], rq, s)
  /\ w = Wrote(calls, n)

Obeyed(rq, s) ==
  \A rule \in Required(rq) :
    \/ Let(rule, rq, s)
    \/ rule = "ban" /\ rq.handler \notin Humans /\ "unenforced" \in rq.unchecked

Truthful(rq, w) ==
  LET asked == {call \in {"topic", "post"} :
                  \E i \in DOMAIN Calls[rq.handler] : Calls[rq.handler][i] = call}
  IN /\ rq.reply = "201" => w = asked
     /\ rq.reply \in {"202", "403", "404"} => w = {}
     /\ w = {"topic"} /\ rq.reply # "none" => rq.reply \in {"400", "gone"}

Over(rq, s, w) ==
  rq.reply # "none" /\ rq.todo = <<>> /\ Truthful(rq, w) /\ (w # {} => Obeyed(rq, s))

Good(rq, s, w) == IsRequest(rq) /\ ((\E n : UnderwayAt(n, rq, s, w)) \/ Over(rq, s, w))

RuleInv ==
  /\ clock \in Nat
  /\ DOMAIN req = Requests /\ DOMAIN written = Requests /\ DOMAIN since = Requests
  /\ \A r \in Requests :
       \/ req[r] = Idle /\ written[r] = {}
       \/ Good(req[r], since[r], written[r])
-----------------------------------------------------------------------------
(* History that grows makes nothing worse.                                  *)
LEMMA MoreHistory ==
  ASSUME NEW rq, NEW s, NEW t, s \subseteq t, NEW w, Good(rq, s, w)
  PROVE  Good(rq, t, w)
<1>1. /\ \A rule : Let(rule, rq, s) => Let(rule, rq, t)
      /\ \A call : Passed(call, rq, s) => Passed(call, rq, t)
      /\ SessionTrue(rq, s) => SessionTrue(rq, t)
      /\ Privileged(rq, s) => Privileged(rq, t)
      /\ Obeyed(rq, s) => Obeyed(rq, t)
  <2>1. \A rule : Let(rule, rq, s) => Let(rule, rq, t)
    BY DEF Let
  <2> QED
    BY <2>1 DEF Passed, SessionTrue, Privileged, Obeyed
<1>2. \A n : UnderwayAt(n, rq, s, w) => UnderwayAt(n, rq, t, w)
  BY <1>1 DEF UnderwayAt
<1>3. Over(rq, s, w) => Over(rq, t, w)
  BY <1>1 DEF Over
<1> QED
  BY <1>2, <1>3 DEF Good

(* The calls of a request are in order, and the first that is left is one   *)
(* of them.                                                                 *)
LEMMA FirstLeft ==
  ASSUME NEW calls \in Seq(CallNames), NEW n \in 1..Len(calls), NEW todo,
         Rest(todo, calls, n)
  PROVE  /\ todo # <<>> /\ Head(todo) = calls[n]
         /\ n < Len(calls) => Rest(Tail(todo), calls, n + 1)
<1>1. Len(calls) \in Nat /\ Len(todo) \in Nat /\ Len(todo) > 0 /\ todo[1] = calls[n]
      /\ todo \in Seq(CallNames) /\ Len(todo) = Len(calls) - n + 1
  BY DEF Rest
<1>2. todo # <<>>
  BY <1>1, EmptySeq
<1>3. Head(todo) = todo[1]
  BY <1>1, <1>2
<1>4. /\ Tail(todo) \in Seq(CallNames) /\ Len(Tail(todo)) = Len(todo) - 1
      /\ \A j \in 1..Len(Tail(todo)) : Tail(todo)[j] = todo[j + 1]
  BY <1>1, <1>2, HeadTailProperties
<1>5. \A j \in 1..Len(Tail(todo)) : Tail(todo)[j] = calls[n + 1 + j - 1]
  <2>1. ASSUME NEW j \in 1..Len(Tail(todo))
        PROVE  Tail(todo)[j] = calls[n + 1 + j - 1]
    <3>1. j \in Nat /\ j + 1 \in 1..Len(todo) /\ n + (j + 1) - 1 = n + 1 + j - 1
      BY <1>1, <1>4, <2>1
    <3>2. todo[j + 1] = calls[n + (j + 1) - 1]
      BY <3>1 DEF Rest
    <3> QED
      BY <1>4, <3>1, <3>2
  <2> QED
    BY <2>1
<1> QED
  BY <1>1, <1>2, <1>3, <1>4, <1>5 DEF Rest

(* A request that is asked to call something is on its way.                 *)
LEMMA OnItsWay ==
  ASSUME RuleInv, NEW r \in Requests, NEW call, At(r, call)
  PROVE  /\ IsRequest(req[r]) /\ req[r].handler \in Handlers
         /\ \E n : /\ UnderwayAt(n, req[r], since[r], written[r])
                   /\ Calls[req[r].handler][n] = call
<1>1. req[r] # Idle
  BY DEF At, Idle
<1>2. Good(req[r], since[r], written[r])
  BY <1>1 DEF RuleInv
<1>3. IsRequest(req[r]) /\ req[r].handler \in Handlers
  BY <1>2 DEF Good, IsRequest
<1>4. PICK n : UnderwayAt(n, req[r], since[r], written[r])
  BY <1>2 DEF Good, Over, At
<1>5. Calls[req[r].handler] \in Seq(CallNames)
  BY <1>3, CallsAreOrdered DEF Ordered
<1>6. Calls[req[r].handler][n] = call
  BY <1>4, <1>5, FirstLeft DEF UnderwayAt, At
<1> QED
  BY <1>3, <1>4, <1>6

(* What a step may change beside its request.                               *)
Mine(r) ==
  /\ DOMAIN req' = Requests /\ DOMAIN written' = Requests
  /\ \A q \in Requests \ {r} : req'[q] = req[q] /\ written'[q] = written[q]

(* The history remembers the rules that let a request through, as long as   *)
(* it has written nothing.                                                  *)
LEMMA Watched ==
  ASSUME RuleInv, Watch, NEW r \in Requests
  PROVE  /\ since[r] \subseteq since'[r] /\ DOMAIN since' = Requests
         /\ req'[r] # Idle /\ req'[r].reply = "none" /\ written'[r] = {} =>
              \A rule \in Required(req'[r]) : LetsThrough(rule, req[r])' => rule \in since'[r]
BY DEF RuleInv, Watch, Deciding

(* A request that goes on, with what it has learned.                        *)
LEMMA GoesOn ==
  ASSUME NEW rq, NEW changed, NEW new, NEW s, NEW w, NEW n,
         IsRequest(rq), UnderwayAt(n, rq, s, w), n < Len(Calls[rq.handler]),
         IsRequest(changed), changed.handler = rq.handler, changed.who = rq.who,
         changed.reply = rq.reply, changed.todo = rq.todo,
         new = [changed EXCEPT !.todo = Tail(changed.todo)],
         NEW t, s \subseteq t, SessionTrue(changed, t),
         \A i \in 1..n : Passed(Calls[rq.handler][i], changed, t),
         NEW v, v = Wrote(Calls[rq.handler], n + 1)
  PROVE  Good(new, t, v)
<1> DEFINE calls == Calls[rq.handler]
<1>1. /\ IsRequest(new) /\ new.handler = rq.handler /\ new.who = rq.who
      /\ new.session = changed.session /\ new.unchecked = changed.unchecked
      /\ new.todo = Tail(rq.todo) /\ new.reply = rq.reply
      /\ new.board = changed.board /\ new.topic = changed.topic
  BY DEF IsRequest
<1>2. calls \in Seq(CallNames) /\ Len(calls) \in Nat /\ n \in 1..Len(calls)
  BY CallsAreOrdered DEF Ordered, IsRequest, UnderwayAt
<1>3. Rest(rq.todo, calls, n)
  BY DEF UnderwayAt
<1> HIDE DEF calls
<1>4. Rest(new.todo, calls, n + 1)
  <2>1. n < Len(calls)
    BY DEF calls
  <2> QED
    BY <1>1, <1>2, <1>3, <2>1, FirstLeft
<1>5. Required(new) = Required(rq) /\ Required(changed) = Required(rq)
  BY <1>1 DEF Required
<1>6. SessionTrue(new, t)
  BY <1>1, <1>5 DEF SessionTrue, Let
<1>7. Privileged(new, t)
  BY <1>1, <1>5 DEF Privileged, UnderwayAt
<1>8. \A call : Passed(call, changed, t) => Passed(call, new, t)
  BY <1>1 DEF Passed, Let
<1>9. \A i \in 1..((n + 1) - 1) : Passed(calls[i], new, t)
  <2>1. \A i \in 1..n : Passed(calls[i], new, t)
    BY <1>8 DEF calls
  <2>2. (n + 1) - 1 = n
    BY <1>2
  <2> QED
    BY <2>1, <2>2
<1>10. rq.reply = "none" /\ n + 1 \in 1..Len(calls)
  BY <1>2 DEF UnderwayAt, calls
<1>11. UnderwayAt(n + 1, new, t, v)
  <2>1. Calls[new.handler] = calls /\ new.reply = "none" /\ v = Wrote(calls, n + 1)
    BY <1>1, <1>10 DEF calls
  <2> QED
    BY <1>4, <1>6, <1>7, <1>9, <1>10, <2>1 DEF UnderwayAt
<1> QED
  BY <1>1, <1>11 DEF Good

(* All rules are obeyed by who has got past all calls before one that       *)
(* writes or shows.                                                         *)
LEMMA PassedObeys ==
  ASSUME NEW rq, NEW s, NEW w, NEW n, IsRequest(rq), UnderwayAt(n, rq, s, w),
         NEW m \in 1..n, Calls[rq.handler][m] \in {"topic", "post", "show"}
  PROVE  Obeyed(rq, s)
<1> DEFINE h == rq.handler
           calls == Calls[h]
<1>1. Ordered(h, calls) /\ Guarded(h, calls) /\ h \in Handlers
  BY CallsAreOrdered DEF IsRequest
<1>2. Len(calls) \in Nat /\ n \in 1..Len(calls) /\ m \in 1..Len(calls)
  BY <1>1 DEF UnderwayAt, Ordered
<1>3. \A i \in 1..(m - 1) : i \in 1..(n - 1) /\ Passed(calls[i], rq, s)
  BY <1>2 DEF UnderwayAt
<1>4. Let("access", rq, s)
  <2>1. PICK i \in 1..(m - 1) : calls[i] \in {"access", "rules", "rules_if_any"}
    BY <1>1, <1>2 DEF Guarded
  <2> QED
    BY <1>3, <2>1 DEF Passed
<1>5. h \in Humans => Let("ban", rq, s) /\ Let("permission", rq, s)
  <2>1. h \in Humans => \E i \in 1..(m - 1) : calls[i] = "board"
    BY <1>1, <1>2 DEF Guarded
  <2> QED
    BY <1>3, <2>1 DEF Passed
<1>6. h \notin Humans /\ calls[1] # "guest" => Let("ban", rq, s) \/ "unenforced" \in rq.unchecked
  <2>1. h \notin Humans /\ calls[1] # "guest" => calls[1] = "bans" /\ 1 \in 1..(m - 1)
    BY <1>1, <1>2 DEF Guarded
  <2> QED
    BY <1>3, <2>1 DEF Passed
<1>7. Head(calls) = calls[1]
  BY <1>1 DEF Ordered
<1> QED
  BY <1>4, <1>5, <1>6, <1>7 DEF Obeyed, Required

(* A request that is answered, and has written nothing since.               *)
LEMMA IsAnswered ==
  ASSUME NEW rq, NEW code, NEW new, NEW s, NEW w, NEW n,
         IsRequest(rq), UnderwayAt(n, rq, s, w),
         new = [rq EXCEPT !.todo = <<>>, !.reply = code],
         NEW t, s \subseteq t,
         \/ code \in {"400", "gone"}
         \/ (Calls[rq.handler][n] # "post" \/ w = {}) /\ code \notin {"none", "201"}
  PROVE  Good(new, t, w)
<1> DEFINE calls == Calls[rq.handler]
<1>1. /\ IsRequest(new) /\ new.handler = rq.handler /\ new.unchecked = rq.unchecked
      /\ new.todo = <<>> /\ new.reply = code /\ new.guest = rq.guest
      /\ new.board = rq.board /\ new.topic = rq.topic
  BY DEF IsRequest
<1>2. Ordered(rq.handler, calls) /\ n \in 1..Len(calls) /\ Len(calls) \in Nat
  BY CallsAreOrdered DEF IsRequest, UnderwayAt, Ordered
<1>3. w # {} => /\ w = {"topic"}
                /\ \E i \in 1..(n - 1) : calls[i] = "topic"
  BY DEF UnderwayAt, Wrote
<1>4. w # {} => Obeyed(new, t)
  <2>1. w # {} => Obeyed(rq, s)
    <3>1. SUFFICES ASSUME w # {}
                   PROVE  Obeyed(rq, s)
      OBVIOUS
    <3>2. PICK i \in 1..(n - 1) : calls[i] = "topic"
      BY <1>3, <3>1
    <3>3. i \in 1..n
      BY <1>2, <3>2
    <3> QED
      BY <3>2, <3>3, PassedObeys
  <2> QED
    BY <1>1, <2>1 DEF Obeyed, Let, Required
<1>5. w # {} => calls[n] = "post"
  BY <1>2, <1>3 DEF Ordered
<1>6. Truthful(new, w)
  BY <1>1, <1>3, <1>5 DEF Truthful
<1>7. code # "none"
  OBVIOUS
<1> QED
  BY <1>1, <1>4, <1>6, <1>7 DEF Good, Over

(* Nothing has been written before the last call, but for a topic whose     *)
(* first post is the last.                                                  *)
LEMMA NothingYet ==
  ASSUME NEW rq, IsRequest(rq), NEW s, NEW w, NEW n, UnderwayAt(n, rq, s, w)
  PROVE  LET calls == Calls[rq.handler]
         IN  /\ calls[n] # "post" => w = {}
             /\ calls[n] \notin {"topic", "post"} => Wrote(calls, n + 1) = {}
             /\ calls[n] = "topic" => Wrote(calls, n + 1) = {"topic"}
             /\ n < Len(calls) <=> calls[n] \notin {"post", "show"}
<1> DEFINE calls == Calls[rq.handler]
<1>1. Ordered(rq.handler, calls) /\ n \in 1..Len(calls) /\ Len(calls) \in Nat
  BY CallsAreOrdered DEF IsRequest, UnderwayAt, Ordered
<1>2. w = Wrote(calls, n)
  BY DEF UnderwayAt
<1> HIDE DEF calls
<1>3. \A i \in 1..(n - 1) : calls[i] = "topic" => calls[n] = "post"
  BY <1>1 DEF Ordered
<1>4. calls[n] # "post" => Wrote(calls, n) = {}
  BY <1>3 DEF Wrote
<1>5. (n + 1) - 1 = n /\ n \in 1..n /\ \A i \in 1..n : i = n \/ i \in 1..(n - 1)
  BY <1>1
<1>6. calls[n] \notin {"topic", "post"} => Wrote(calls, n + 1) = {}
  BY <1>3, <1>5 DEF Wrote
<1>7. calls[n] = "topic" => Wrote(calls, n + 1) = {"topic"}
  BY <1>5 DEF Wrote
<1>8. n < Len(calls) <=> calls[n] \notin {"post", "show"}
  BY <1>1 DEF Ordered
<1> QED
  BY <1>2, <1>4, <1>6, <1>7, <1>8 DEF calls

(* A rule that lets a request through that goes on is remembered.           *)
LEMMA Learns ==
  ASSUME RuleInv, Watch, NEW r \in Requests, UNCHANGED <<banVars, boardVars>>,
         NEW changed, IsRequest(changed), changed.reply = "none", Continue(r, changed),
         written'[r] = {},
         NEW rule \in Required(changed), LetsThrough(rule, changed)
  PROVE  rule \in since'[r]
<1> DEFINE new == [changed EXCEPT !.todo = Tail(changed.todo)]
<1>1. req'[r] = new
  BY DEF Continue, RuleInv
<1>2. /\ new.handler = changed.handler /\ new.who = changed.who /\ new.board = changed.board
      /\ new.topic = changed.topic
      /\ new.guest = changed.guest /\ new.reply = "none" /\ "handler" \in DOMAIN new
  BY DEF IsRequest
<1> HIDE DEF new
<1>3. new # Idle
  BY <1>2 DEF Idle
<1>4. Required(new) = Required(changed)
  BY <1>2 DEF Required
<1>5. LetsThrough(rule, new) <=> LetsThrough(rule, changed)
  BY <1>2 DEF LetsThrough, RuledBy, Misplaced, Forbids, user_groups, IsAdmin
<1>6. UNCHANGED <<store, clock, rules, access, perms>>
  BY DEF banVars, boardVars
<1>7. LetsThrough(rule, req[r])' <=> LetsThrough(rule, new)
  BY <1>1, <1>6 DEF LetsThrough, Hits, FirstHits, Bites, LetsIn
<1> QED
  BY <1>1, <1>2, <1>3, <1>4, <1>5, <1>7, Watched

Kept(r) == Mine(r) /\ Good(req'[r], since'[r], written'[r])

(* A request that goes on and has written nothing.                          *)
LEMMA Continues ==
  ASSUME RuleInv, Watch, NEW r \in Requests, NEW n, IsRequest(req[r]),
         UnderwayAt(n, req[r], since[r], written[r]),
         Calls[req[r].handler][n] \notin {"topic", "post", "show"}, UNCHANGED written,
         NEW changed, Continue(r, changed), IsRequest(changed),
         changed.handler = req[r].handler, changed.who = req[r].who,
         changed.reply = req[r].reply, changed.todo = req[r].todo,
         SessionTrue(changed, since'[r]),
         \A i \in 1..n : Passed(Calls[req[r].handler][i], changed, since'[r])
  PROVE  Kept(r)
<1>1. /\ req'[r] = [changed EXCEPT !.todo = Tail(changed.todo)] /\ Mine(r)
      /\ written'[r] = written[r]
  BY DEF Continue, RuleInv, Mine
<1>2. written[r] = {} /\ Wrote(Calls[req[r].handler], n + 1) = {} /\ n < Len(Calls[req[r].handler])
  BY NothingYet
<1>3. since[r] \subseteq since'[r]
  BY Watched
<1> DEFINE rq == req[r]
           new == req'[r]
           t == since'[r]
           v == written'[r]
<1>4. /\ new = [changed EXCEPT !.todo = Tail(changed.todo)] /\ v = Wrote(Calls[rq.handler], n + 1)
      /\ UnderwayAt(n, rq, since[r], written[r]) /\ IsRequest(rq) /\ n < Len(Calls[rq.handler])
      /\ changed.handler = rq.handler /\ changed.who = rq.who
      /\ changed.reply = rq.reply /\ changed.todo = rq.todo
      /\ SessionTrue(changed, t) /\ since[r] \subseteq t
      /\ \A i \in 1..n : Passed(Calls[rq.handler][i], changed, t)
  BY <1>1, <1>2, <1>3
<1> HIDE DEF new, t, v, rq
<1>5. Good(new, t, v)
  BY <1>4, GoesOn
<1> QED
  BY <1>1, <1>5 DEF new, t, v, Kept

(* A request that goes on with its session.                                 *)
LEMMA Proceeds ==
  ASSUME RuleInv, Watch, NEW r \in Requests, NEW n, IsRequest(req[r]),
         UnderwayAt(n, req[r], since[r], written[r]),
         Calls[req[r].handler][n] \notin {"topic", "post", "show"}, UNCHANGED written,
         NEW changed, Continue(r, changed), IsRequest(changed),
         changed.handler = req[r].handler, changed.who = req[r].who,
         changed.reply = req[r].reply, changed.todo = req[r].todo,
         changed.session = req[r].session, req[r].unchecked \subseteq changed.unchecked,
         changed.board = req[r].board, changed.topic = req[r].topic,
         Passed(Calls[req[r].handler][n], changed, since'[r])
  PROVE  Kept(r)
<1>1. since[r] \subseteq since'[r]
  BY Watched
<1>2. Required(changed) = Required(req[r])
  BY DEF Required
<1>3. \A rule : Let(rule, req[r], since[r]) => Let(rule, changed, since'[r])
  BY <1>1 DEF Let
<1>4. SessionTrue(changed, since'[r])
  BY <1>2, <1>3 DEF UnderwayAt, SessionTrue
<1>5. \A call : Passed(call, req[r], since[r]) => Passed(call, changed, since'[r])
  BY <1>3 DEF Passed
<1>6. \A i \in 1..n : Passed(Calls[req[r].handler][i], changed, since'[r])
  <2>1. n \in Int /\ \A i \in 1..n : i = n \/ i \in 1..(n - 1)
    BY CallsAreOrdered DEF UnderwayAt
  <2> QED
    BY <1>5, <2>1 DEF UnderwayAt
<1> QED
  BY <1>4, <1>6, Continues

(* A request that is answered.                                              *)
LEMMA IsOver ==
  ASSUME RuleInv, Watch, NEW r \in Requests, NEW n, IsRequest(req[r]),
         UnderwayAt(n, req[r], since[r], written[r]), UNCHANGED written,
         NEW code, Answer(r, code),
         \/ code \in {"400", "gone"}
         \/ /\ Calls[req[r].handler][n] # "post" \/ written[r] = {}
            /\ code \notin {"none", "201"}
  PROVE  Kept(r)
<1>1. /\ req'[r] = [req[r] EXCEPT !.todo = <<>>, !.reply = code] /\ Mine(r)
      /\ written'[r] = written[r]
  BY DEF Answer, RuleInv, Mine
<1>2. since[r] \subseteq since'[r]
  BY Watched
<1> DEFINE rq == req[r]
           new == req'[r]
           t == since'[r]
<1>3. /\ new = [rq EXCEPT !.todo = <<>>, !.reply = code]
      /\ UnderwayAt(n, rq, since[r], written[r]) /\ IsRequest(rq) /\ since[r] \subseteq t
      /\ \/ code \in {"400", "gone"}
         \/ /\ Calls[rq.handler][n] # "post" \/ written[r] = {}
            /\ code \notin {"none", "201"}
  BY <1>1, <1>2
<1> HIDE DEF rq, new, t
<1>4. Good(new, t, written[r])
  BY <1>3, IsAnswered
<1> QED
  BY <1>1, <1>4 DEF new, t, Kept
-----------------------------------------------------------------------------
(* Bans.                                                                    *)

(* All but the session, the marks of what could not be read and whether the *)
(* request reads as a guest stays.                                          *)
SameCaller(rq, changed) ==
  /\ changed.handler = rq.handler /\ changed.who = rq.who
  /\ changed.board = rq.board /\ changed.topic = rq.topic
  /\ changed.reply = rq.reply /\ changed.todo = rq.todo

(* A check of bans leaves a session that is true if the rule it has applied *)
(* is remembered, and forgets no other mark.                                *)
LEMMA CheckIsTrue ==
  ASSUME NEW rq, IsRequest(rq), NEW changed \in is_not_banned(rq)
  PROVE  /\ IsRequest(changed) /\ SameCaller(rq, changed) /\ changed.guest = rq.guest
         /\ changed.session.checked = clock
         /\ ~changed.session.active =>
              ~changed.session.cannot_post /\ ~changed.session.cannot_access
         /\ rq.unchecked \ {"ban"} \subseteq changed.unchecked
         /\ /\ ~changed.session.cannot_access
            /\ ~changed.session.cannot_post \/ rq.handler \notin Humans
                 \/ Role[rq.who] # "member"
            => "ban" \in changed.unchecked \/ LetsThrough("ban", changed)
<1>1. CASE \E s \in Checks(rq.who) :
             changed = [rq EXCEPT !.session = s, !.unchecked = rq.unchecked \ {"ban"}]
  <2>1. PICK s \in Checks(rq.who) :
             changed = [rq EXCEPT !.session = s, !.unchecked = rq.unchecked \ {"ban"}]
    BY <1>1
  <2>2. /\ changed.session = s /\ changed.unchecked = rq.unchecked \ {"ban"}
        /\ SameCaller(rq, changed) /\ changed.guest = rq.guest /\ changed.grants = rq.grants
        /\ changed = [handler |-> changed.handler, who |-> changed.who,
                      board |-> changed.board, topic |-> changed.topic,
                      session |-> changed.session, guest |-> changed.guest,
                      grants |-> changed.grants, unchecked |-> changed.unchecked,
                      todo |-> changed.todo, reply |-> changed.reply]
    BY <2>1 DEF IsRequest, SameCaller
  <2>3. CASE Hits(rq.who) = {}
    <3>1. s = [checked |-> clock, active |-> FALSE, cannot_post |-> FALSE,
               cannot_access |-> FALSE]
      BY <2>3 DEF Checks, NewSession
    <3>2. LetsThrough("ban", changed)
      BY <2>2, <2>3 DEF LetsThrough, SameCaller
    <3> QED
      BY <2>2, <3>1, <3>2 DEF IsRequest, SameCaller
  <2>4. CASE Hits(rq.who) # {}
    <3>1. PICK id \in FirstHits(rq.who) : s = Apply(rules[id])
      BY <2>4 DEF Checks
    <3>2. s = [checked |-> clock, active |-> TRUE, cannot_post |-> rules[id].cannot_post,
               cannot_access |-> rules[id].cannot_access]
      BY <3>1 DEF Apply
    <3>3. /\ s.checked = clock /\ s.active /\ s.cannot_post = rules[id].cannot_post
          /\ s.cannot_access = rules[id].cannot_access
          /\ s = [checked |-> s.checked, active |-> s.active, cannot_post |-> s.cannot_post,
                  cannot_access |-> s.cannot_access]
      BY <3>2
    <3>4. /\ ~s.cannot_access
          /\ ~s.cannot_post \/ rq.handler \notin Humans \/ Role[rq.who] # "member"
          => ~Forbids(rules[id], changed)
      BY <2>2, <3>3 DEF Forbids, SameCaller
    <3>5. ~Forbids(rules[id], changed) => LetsThrough("ban", changed)
      BY <2>2, <3>1 DEF LetsThrough, SameCaller
    <3> QED
      BY <2>2, <3>3, <3>4, <3>5 DEF IsRequest, SameCaller
  <2> QED
    BY <2>3, <2>4
<1>2. CASE changed = [rq EXCEPT !.session = [NewSession EXCEPT !.checked = clock],
                                !.unchecked = rq.unchecked \union {"ban"}]
  <2>1. PICK s : s = [NewSession EXCEPT !.checked = clock]
    OBVIOUS
  <2>2. s = [checked |-> clock, active |-> FALSE, cannot_post |-> FALSE, cannot_access |-> FALSE]
    BY <2>1 DEF NewSession
  <2>3. changed = [rq EXCEPT !.session = s, !.unchecked = rq.unchecked \union {"ban"}]
    BY <1>2, <2>1
  <2> QED
    BY <2>2, <2>3 DEF IsRequest, SameCaller
<1>3. (\E s \in Checks(rq.who) :
         changed = [rq EXCEPT !.session = s, !.unchecked = rq.unchecked \ {"ban"}])
      \/ changed = [rq EXCEPT !.session = [NewSession EXCEPT !.checked = clock],
                              !.unchecked = rq.unchecked \union {"ban"}]
  BY DEF is_not_banned
<1> QED
  BY <1>1, <1>2, <1>3

(* A request that goes on after such a check has a true session.            *)
LEMMA CheckedSession ==
  ASSUME RuleInv, Watch, NEW r \in Requests, UNCHANGED <<banVars, boardVars>>,
         IsRequest(req[r]), req[r].reply = "none", NEW changed \in is_not_banned(req[r]),
         Continue(r, changed), written'[r] = {}
  PROVE  SessionTrue(changed, since'[r])
<1>1. /\ IsRequest(changed) /\ SameCaller(req[r], changed)
      /\ ~changed.session.active =>
              ~changed.session.cannot_post /\ ~changed.session.cannot_access
      /\ /\ ~changed.session.cannot_access
         /\ ~changed.session.cannot_post \/ changed.handler \notin Humans
              \/ Role[changed.who] # "member"
         => "ban" \in changed.unchecked \/ LetsThrough("ban", changed)
  <2>1. SameCaller(req[r], changed)
    BY CheckIsTrue
  <2> QED
    BY <2>1, CheckIsTrue DEF SameCaller
<1>2. changed.reply = "none"
  BY <1>1 DEF SameCaller
<1>3. "ban" \in Required(changed) /\ LetsThrough("ban", changed) => "ban" \in since'[r]
  BY <1>1, <1>2, Learns
<1> QED
  BY <1>1, <1>3 DEF SessionTrue, Let
-----------------------------------------------------------------------------
(* The calls.                                                               *)

(* A call that refuses, other than the one that posts.                      *)
LEMMA Refuses ==
  ASSUME RuleInv, Watch, NEW r \in Requests, NEW call, At(r, call), call # "post",
         UNCHANGED written, NEW code, code \notin {"none", "201"}, Answer(r, code)
  PROVE  Kept(r)
<1>1. PICK n : /\ UnderwayAt(n, req[r], since[r], written[r])
               /\ Calls[req[r].handler][n] = call /\ IsRequest(req[r])
  BY OnItsWay
<1> QED
  BY <1>1, IsOver

(* A call that finds nothing out that is kept.                              *)
LEMMA Passes ==
  ASSUME RuleInv, Watch, NEW r \in Requests, NEW call, At(r, call), UNCHANGED written,
         call \in {"guards", "general", "get_topic", "same_board", "bypass", "topic_board"},
         call = "same_board" => req[r].topic = req[r].board,
         Continue(r, req[r])
  PROVE  Kept(r)
<1>1. PICK n : /\ UnderwayAt(n, req[r], since[r], written[r])
               /\ Calls[req[r].handler][n] = call /\ IsRequest(req[r])
  BY OnItsWay
<1>2. Passed(call, req[r], since'[r])
  BY DEF Passed
<1> QED
  BY <1>1, <1>2, Proceeds

(* The first call of a writer and of an agent.                              *)
LEMMA BansKept ==
  ASSUME RuleInv, Watch, NEW r \in Requests, ensure_user_ctx(r)
  PROVE  Kept(r)
<1>1. PICK n : /\ UnderwayAt(n, req[r], since[r], written[r])
               /\ Calls[req[r].handler][n] = "bans" /\ IsRequest(req[r])
  BY OnItsWay DEF ensure_user_ctx
<1>2. UNCHANGED <<banVars, boardVars, written>> /\ At(r, "bans")
  BY DEF ensure_user_ctx, Reads
<1>3. written'[r] = {} /\ req[r].reply = "none"
  BY <1>1, <1>2, NothingYet DEF UnderwayAt
<1>4. /\ n = 1 /\ Calls[req[r].handler][1] = "bans" /\ "ban" \in Required(req[r])
      /\ since[r] \subseteq since'[r]
  <2>1. Ordered(req[r].handler, Calls[req[r].handler])
    BY <1>1, CallsAreOrdered DEF IsRequest
  <2>2. n = 1 /\ Calls[req[r].handler][1] = "bans"
    BY <1>1, <2>1 DEF Ordered, UnderwayAt
  <2>3. Head(Calls[req[r].handler]) = Calls[req[r].handler][1]
    BY <2>1 DEF Ordered
  <2> QED
    BY <2>2, <2>3, Watched DEF Required
<1>5. ASSUME NEW code \in {"403", "500"}, Answer(r, code)
      PROVE  Kept(r)
  BY <1>2, <1>5, Refuses
<1>6. ASSUME NEW changed \in is_not_banned(req[r]), ~changed.session.cannot_access,
             Continue(r, changed)
      PROVE  Kept(r)
  <2>1. SessionTrue(changed, since'[r])
    BY <1>1, <1>2, <1>3, <1>6, CheckedSession
  <2>2. IsRequest(changed) /\ SameCaller(req[r], changed) /\ changed.session.checked = clock
    BY <1>1, <1>6, CheckIsTrue
  <2>3. clock # -1
    BY DEF RuleInv
  <2>4. "ban" \in Required(changed)
    BY <1>4, <2>2 DEF Required, SameCaller
  <2>5. changed.handler \notin Humans => Let("ban", changed, since'[r])
    BY <1>6, <2>1, <2>2, <2>3, <2>4 DEF SessionTrue
  <2>6. \A i \in 1..n : Passed(Calls[req[r].handler][i], changed, since'[r])
    <3>1. \A i \in 1..n : i = n
      BY <1>4
    <3>2. Passed("bans", changed, since'[r])
      BY <2>5 DEF Passed
    <3> QED
      BY <1>1, <3>1, <3>2
  <2> QED
    BY <1>1, <1>2, <1>6, <2>1, <2>2, <2>6, Continues DEF SameCaller
<1>7. CASE Continue(r, req[r]) /\ Role[req[r].who] = "admin"
  <2>1. Passed("bans", req[r], since'[r])
    BY <1>1, <1>4, <1>7 DEF Passed, Let, UnderwayAt, Privileged
  <2> QED
    BY <1>1, <1>2, <1>7, <2>1, Proceeds
<1>8. ASSUME NEW changed, Continue(r, changed),
             changed = [req[r] EXCEPT !.unchecked = req[r].unchecked \union {"unenforced"}]
      PROVE  Kept(r)
  <2>1. /\ IsRequest(changed) /\ SameCaller(req[r], changed)
        /\ changed.session = req[r].session
        /\ changed.unchecked = req[r].unchecked \union {"unenforced"}
    BY <1>1, <1>8 DEF IsRequest, SameCaller
  <2>2. Passed("bans", changed, since'[r])
    BY <2>1 DEF Passed
  <2> QED
    BY <1>1, <1>2, <1>8, <2>1, <2>2, Proceeds DEF SameCaller
<1>9. ASSUME NEW changed \in enrich_ctx_with_ban_state(req[r])
      PROVE  \/ changed \in is_not_banned(req[r])
             \/ changed = req[r] /\ Role[req[r].who] = "admin"
             \/ changed = [req[r] EXCEPT !.unchecked = req[r].unchecked \union {"unenforced"}]
  BY <1>9 DEF enrich_ctx_with_ban_state
<1>10. \/ Answer(r, "403") \/ Answer(r, "500")
       \/ \E changed \in enrich_ctx_with_ban_state(req[r]) :
            ~changed.session.cannot_access /\ Continue(r, changed)
  BY DEF ensure_user_ctx, Fails
<1> QED
  BY <1>5, <1>6, <1>7, <1>8, <1>9, <1>10

(* The first call of a reader who may come without a token.                 *)
LEMMA GuestKept ==
  ASSUME RuleInv, Watch, NEW r \in Requests, ensure_guest_ctx(r)
  PROVE  Kept(r)
<1>1. PICK n : /\ UnderwayAt(n, req[r], since[r], written[r])
               /\ Calls[req[r].handler][n] = "guest" /\ IsRequest(req[r])
  BY OnItsWay DEF ensure_guest_ctx
<1>2. UNCHANGED <<banVars, boardVars, written>> /\ since[r] \subseteq since'[r]
  BY Watched DEF ensure_guest_ctx, Reads
<1>3. n = 1 /\ "ban" \notin Required(req[r])
  <2>1. Ordered(req[r].handler, Calls[req[r].handler])
    BY <1>1, CallsAreOrdered DEF IsRequest
  <2>2. n = 1 /\ Calls[req[r].handler][1] = "guest"
    BY <1>1, <2>1 DEF Ordered, UnderwayAt
  <2>3. Head(Calls[req[r].handler]) = Calls[req[r].handler][1] /\ req[r].handler \notin Humans
    BY <2>1, <2>2 DEF Ordered
  <2> QED
    BY <2>2, <2>3 DEF Required
<1>4. ASSUME NEW rq, IsRequest(rq), SameCaller(req[r], rq),
             ~rq.session.active => ~rq.session.cannot_post /\ ~rq.session.cannot_access,
             NEW guest, NEW changed, changed = [rq EXCEPT !.guest = guest], Continue(r, changed)
      PROVE  Kept(r)
  <2>1. /\ IsRequest(changed) /\ SameCaller(req[r], changed)
        /\ changed.session = rq.session
    BY <1>4 DEF IsRequest, SameCaller
  <2>2. "ban" \notin Required(changed)
    BY <1>3, <2>1 DEF Required, SameCaller
  <2>3. SessionTrue(changed, since'[r])
    BY <1>4, <2>1, <2>2 DEF SessionTrue
  <2>4. \A i \in 1..n : Passed(Calls[req[r].handler][i], changed, since'[r])
    <3>1. \A i \in 1..n : i = n
      BY <1>3
    <3>2. Passed("guest", changed, since'[r])
      BY DEF Passed
    <3> QED
      BY <1>1, <3>1, <3>2
  <2> QED
    BY <1>1, <1>2, <1>4, <2>1, <2>3, <2>4, Continues DEF SameCaller
<1>5. ASSUME NEW rq \in enrich_ctx_with_ban_state(req[r])
      PROVE  /\ IsRequest(rq) /\ SameCaller(req[r], rq)
             /\ ~rq.session.active => ~rq.session.cannot_post /\ ~rq.session.cannot_access
  <2>1. CASE rq \in is_not_banned(req[r])
    BY <1>1, <2>1, CheckIsTrue
  <2>2. CASE rq = req[r]
    BY <1>1, <2>2 DEF SameCaller, UnderwayAt, SessionTrue
  <2>3. CASE rq = [req[r] EXCEPT !.unchecked = req[r].unchecked \union {"unenforced"}]
    <3>1. /\ IsRequest(rq) /\ SameCaller(req[r], rq) /\ rq.session = req[r].session
      BY <1>1, <2>3 DEF IsRequest, SameCaller
    <3> QED
      BY <1>1, <3>1 DEF UnderwayAt, SessionTrue
  <2> QED
    BY <1>5, <2>1, <2>2, <2>3 DEF enrich_ctx_with_ban_state
<1>6. /\ IsRequest(req[r]) /\ SameCaller(req[r], req[r])
      /\ ~req[r].session.active => ~req[r].session.cannot_post /\ ~req[r].session.cannot_access
  BY <1>1 DEF SameCaller, UnderwayAt, SessionTrue
<1>7. \/ \E rq \in enrich_ctx_with_ban_state(req[r]) :
            Continue(r, [rq EXCEPT !.guest = rq.session.cannot_access])
      \/ Continue(r, [req[r] EXCEPT !.guest = TRUE])
  BY DEF ensure_guest_ctx
<1> QED
  BY <1>4, <1>5, <1>6, <1>7

(* A look at the groups that are allowed on the board.                      *)
LEMMA AccessKept ==
  ASSUME RuleInv, Watch, NEW r \in Requests, ensure_board_access(r) \/ load_board_access(r)
  PROVE  Kept(r)
<1>1. PICK call \in {"access", "rules", "rules_if_any"} : At(r, call)
  BY DEF ensure_board_access, load_board_access
<1>2. PICK n : /\ UnderwayAt(n, req[r], since[r], written[r])
               /\ Calls[req[r].handler][n] = call /\ IsRequest(req[r])
  BY <1>1, OnItsWay
<1>3. UNCHANGED <<banVars, boardVars, written>>
  BY DEF ensure_board_access, load_board_access, Reads
<1>4. written'[r] = {} /\ req[r].reply = "none"
  BY <1>1, <1>2, <1>3, NothingYet DEF UnderwayAt
<1>5. ASSUME Continue(r, req[r]),
             IsAdmin(req[r]) \/ LetsIn(req[r].board, user_groups(req[r]))
      PROVE  Kept(r)
  <2>1. req[r].handler = "agent_reply" => req[r].topic = req[r].board
    <3>1. SUFFICES ASSUME req[r].handler = "agent_reply"
                   PROVE  req[r].topic = req[r].board
      OBVIOUS
    <3>2. PICK i \in 1..(n - 1) : Calls[req[r].handler][i] = "same_board"
      BY <1>1, <1>2, <3>1, CallsAreOrdered DEF Ordered, IsRequest, UnderwayAt
    <3>3. Passed("same_board", req[r], since[r])
      BY <1>2, <3>2 DEF UnderwayAt
    <3> QED
      BY <3>3 DEF Passed
  <2>2. RuledBy(req[r]) = req[r].board /\ req[r].board # Elsewhere
    BY <1>2, <2>1, PostingAssumption DEF IsRequest, RuledBy, Misplaced, Replies
  <2>3. LetsThrough("access", req[r]) /\ "access" \in Required(req[r])
    BY <1>5, <2>2 DEF LetsThrough, IsAdmin, Required
  <2>4. "access" \in since'[r]
    BY <1>2, <1>3, <1>4, <1>5, <2>3, Learns
  <2>5. Passed(call, req[r], since'[r])
    BY <1>1, <2>4 DEF Passed, Let
  <2> QED
    BY <1>1, <1>2, <1>3, <1>5, <2>5, Proceeds
<1>6. ASSUME NEW changed, Continue(r, changed),
             changed = [req[r] EXCEPT !.unchecked = req[r].unchecked \union {"access"}]
      PROVE  Kept(r)
  <2>1. /\ IsRequest(changed) /\ SameCaller(req[r], changed)
        /\ changed.session = req[r].session
        /\ changed.unchecked = req[r].unchecked \union {"access"}
    BY <1>2, <1>6 DEF IsRequest, SameCaller
  <2>2. Passed(call, changed, since'[r])
    BY <1>1, <2>1 DEF Passed, Let
  <2> QED
    BY <1>1, <1>2, <1>3, <1>6, <2>1, <2>2, Proceeds DEF SameCaller
<1>7. ASSUME NEW code \in {"200", "403", "500"}, Answer(r, code)
      PROVE  Kept(r)
  BY <1>1, <1>3, <1>7, Refuses
<1>8. \/ /\ IsAdmin(req[r]) \/ LetsIn(req[r].board, user_groups(req[r]))
         /\ Continue(r, req[r])
      \/ \E code \in {"200", "403", "500"} : Answer(r, code)
      \/ Continue(r, [req[r] EXCEPT !.unchecked = req[r].unchecked \union {"access"}])
  <2>1. CASE ensure_board_access(r)
    BY <2>1 DEF ensure_board_access, Fails
  <2>2. CASE load_board_access(r)
    BY <2>2 DEF load_board_access, Fails
  <2> QED
    BY <2>1, <2>2
<1> QED
  BY <1>5, <1>6, <1>7, <1>8

(* The second look at bans, of humans who write.                            *)
LEMMA LoadKept ==
  ASSUME RuleInv, Watch, NEW r \in Requests, load_permissions(r)
  PROVE  Kept(r)
<1>1. PICK n : /\ UnderwayAt(n, req[r], since[r], written[r])
               /\ Calls[req[r].handler][n] = "load" /\ IsRequest(req[r])
  BY OnItsWay DEF load_permissions
<1>2. UNCHANGED <<banVars, boardVars, written>> /\ At(r, "load") /\ since[r] \subseteq since'[r]
  BY Watched DEF load_permissions, Reads
<1>3. written'[r] = {} /\ req[r].reply = "none"
  BY <1>1, <1>2, NothingYet DEF UnderwayAt
<1>4. /\ req[r].handler \in Humans /\ n \in Int
      /\ \A i \in 1..(n - 1) : Calls[req[r].handler][i] \in {"bans", "guards", "access"}
  <2>1. Ordered(req[r].handler, Calls[req[r].handler])
    BY <1>1, CallsAreOrdered DEF IsRequest
  <2> QED
    BY <1>1, <2>1 DEF Ordered, UnderwayAt
<1>5. ASSUME NEW code \in {"403", "500"}, Answer(r, code)
      PROVE  Kept(r)
  BY <1>2, <1>5, Refuses
<1>6. CASE Continue(r, req[r]) /\ (Role[req[r].who] = "admin" \/ (Fresh(req[r].session)
                                                              /\ ~req[r].session.active))
  <2>1. /\ Fresh(req[r].session) => req[r].session.checked # -1
        /\ ~req[r].session.active => ~req[r].session.cannot_access
    BY <1>1 DEF Fresh, UnderwayAt, SessionTrue
  <2>2. Passed("load", req[r], since'[r])
    BY <1>6, <2>1 DEF Passed
  <2> QED
    BY <1>1, <1>2, <1>6, <2>2, Proceeds
<1>7. ASSUME NEW changed \in is_not_banned(req[r]), ~changed.session.cannot_access,
             Continue(r, changed)
      PROVE  Kept(r)
  <2>1. SessionTrue(changed, since'[r])
    BY <1>1, <1>2, <1>3, <1>7, CheckedSession
  <2>2. /\ IsRequest(changed) /\ SameCaller(req[r], changed) /\ changed.session.checked = clock
        /\ req[r].unchecked \ {"ban"} \subseteq changed.unchecked
    BY <1>1, <1>7, CheckIsTrue
  <2>3. clock # -1
    BY DEF RuleInv
  <2>4. Passed("load", changed, since'[r])
    BY <1>7, <2>2, <2>3 DEF Passed
  <2>5. ASSUME NEW i \in 1..(n - 1)
        PROVE  Passed(Calls[req[r].handler][i], changed, since'[r])
    <3>1. Passed(Calls[req[r].handler][i], req[r], since[r])
      BY <1>1 DEF UnderwayAt
    <3>2. Let("access", req[r], since[r]) => Let("access", changed, since'[r])
      BY <1>2, <2>2 DEF Let, SameCaller
    <3>3. changed.handler \in Humans
      BY <1>4, <2>2 DEF SameCaller
    <3> QED
      BY <1>4, <3>1, <3>2, <3>3 DEF Passed
  <2>6. \A i \in 1..n : Passed(Calls[req[r].handler][i], changed, since'[r])
    <3>1. \A i \in 1..n : i = n \/ i \in 1..(n - 1)
      BY <1>4
    <3> QED
      BY <1>1, <2>4, <2>5, <3>1
  <2> QED
    BY <1>1, <1>2, <1>7, <2>1, <2>2, <2>6, Continues DEF SameCaller
<1>8. \/ Answer(r, "403") \/ Answer(r, "500")
      \/ Continue(r, req[r]) /\ (Role[req[r].who] = "admin" \/ (Fresh(req[r].session)
                                                            /\ ~req[r].session.active))
      \/ \E changed \in is_not_banned(req[r]) :
           ~changed.session.cannot_access /\ Continue(r, changed)
  BY DEF load_permissions, Fails
<1> QED
  BY <1>5, <1>6, <1>7, <1>8

(* Permissions of the membergroup.                                          *)
LEMMA GeneralKept ==
  ASSUME RuleInv, Watch, NEW r \in Requests, general_permissions(r)
  PROVE  Kept(r)
<1>1. UNCHANGED written /\ At(r, "general")
  BY DEF general_permissions, Reads
<1>2. PICK n : /\ UnderwayAt(n, req[r], since[r], written[r])
               /\ Calls[req[r].handler][n] = "general" /\ IsRequest(req[r])
  BY <1>1, OnItsWay
<1>3. CASE Continue(r, [req[r] EXCEPT !.grants = General])
  <2>1. PICK changed : changed = [req[r] EXCEPT !.grants = General] /\ Continue(r, changed)
    BY <1>3
  <2>2. /\ IsRequest(changed) /\ SameCaller(req[r], changed)
        /\ changed.session = req[r].session /\ changed.unchecked = req[r].unchecked
    BY <1>2, <2>1 DEF IsRequest, SameCaller
  <2>3. Passed("general", changed, since'[r])
    BY DEF Passed
  <2> QED
    BY <1>1, <1>2, <2>1, <2>2, <2>3, Proceeds DEF SameCaller
<1>4. CASE Continue(r, req[r])
  BY <1>1, <1>4, Passes
<1>5. CASE Answer(r, "500")
  BY <1>1, <1>5, Refuses
<1> QED
  BY <1>3, <1>4, <1>5 DEF general_permissions, Fails

(* Permissions on the board.                                                *)
LEMMA BoardKept ==
  ASSUME RuleInv, Watch, NEW r \in Requests, board_permissions(r)
  PROVE  Kept(r)
<1>1. PICK n : /\ UnderwayAt(n, req[r], since[r], written[r])
               /\ Calls[req[r].handler][n] = "board" /\ IsRequest(req[r])
  BY OnItsWay DEF board_permissions
<1>2. UNCHANGED <<banVars, boardVars, written>> /\ At(r, "board") /\ since[r] \subseteq since'[r]
  BY Watched DEF board_permissions, Reads
<1>3. written'[r] = {} /\ req[r].reply = "none"
  BY <1>1, <1>2, NothingYet DEF UnderwayAt
<1>4. /\ req[r].handler \in Humans /\ {"ban", "permission"} \subseteq Required(req[r])
      /\ Passed("load", req[r], since[r])
  <2>1. Ordered(req[r].handler, Calls[req[r].handler])
    BY <1>1, CallsAreOrdered DEF IsRequest
  <2>2. req[r].handler \in Humans /\ \E i \in 1..(n - 1) : Calls[req[r].handler][i] = "load"
    BY <1>1, <2>1 DEF Ordered, UnderwayAt
  <2>3. {"ban", "permission"} \subseteq Required(req[r])
    BY <1>1, <2>2, HumansNeed DEF IsRequest
  <2>4. PICK i \in 1..(n - 1) : Calls[req[r].handler][i] = "load"
    BY <2>2
  <2>5. Passed("load", req[r], since[r])
    BY <1>1, <2>4 DEF UnderwayAt
  <2> QED
    BY <2>2, <2>3, <2>5
<1>5. ASSUME NEW more, more \subseteq perms[req[r].board], Continue(r, req[r]),
             allowed_to(req[r], req[r].grants \union more)
      PROVE  Kept(r)
  <2>1. CASE Role[req[r].who] # "admin"
    <3>1. \/ Role[req[r].who] = "mod"
          \/ Needs(req[r].handler) \in General \union perms[req[r].board]
             /\ ~req[r].session.cannot_post
      BY <1>1, <1>5, <2>1 DEF allowed_to, Allows, Needs, IsRequest
    <3>2. Let("ban", req[r], since[r])
      BY <1>1, <1>4, <2>1, <3>1 DEF UnderwayAt, SessionTrue, Passed
    <3>3. LetsThrough("permission", req[r])
      <4>1. RuledBy(req[r]) = req[r].board /\ req[r].board # Elsewhere
        BY <1>1, <1>4, PostingAssumption DEF IsRequest, RuledBy, Misplaced, Replies, Humans
      <4> QED
        BY <3>1, <4>1 DEF LetsThrough
    <3>4. "permission" \in since'[r]
      BY <1>1, <1>2, <1>3, <1>4, <1>5, <3>3, Learns
    <3>5. Passed("board", req[r], since'[r])
      BY <1>2, <3>2, <3>4 DEF Passed, Let
    <3> QED
      BY <1>1, <1>2, <1>5, <3>5, Proceeds
  <2>2. ASSUME Role[req[r].who] = "admin"
        PROVE  Kept(r)
    <3>1. Passed("board", req[r], since'[r])
      BY <1>1, <1>2, <1>4, <2>2 DEF UnderwayAt, Privileged, Passed, Let
    <3> QED
      BY <1>1, <1>2, <1>5, <3>1, Proceeds
  <2> QED
    BY <2>1, <2>2
<1>6. CASE Answer(r, "403") \/ Answer(r, "500")
  BY <1>2, <1>6, Refuses
<1>7. \/ Answer(r, "403") \/ Answer(r, "500")
      \/ \E more : /\ more \subseteq perms[req[r].board] /\ Continue(r, req[r])
                   /\ allowed_to(req[r], req[r].grants \union more)
  <2>1. ASSUME NEW more \in {perms[req[r].board]} \union {{} : f \in Faults \cap {"unreadable"}}
        PROVE  more \subseteq perms[req[r].board]
    BY <2>1
  <2> QED
    BY <2>1 DEF board_permissions, Fails
<1> QED
  BY <1>5, <1>6, <1>7

(* The board of the topic, which may not be found: then its groups are not  *)
(* asked for.                                                               *)
LEMMA TopicBoardKept ==
  ASSUME RuleInv, Watch, NEW r \in Requests, fetch_topic_board_id(r)
  PROVE  Kept(r)
<1>1. PICK n : /\ UnderwayAt(n, req[r], since[r], written[r])
               /\ Calls[req[r].handler][n] = "topic_board" /\ IsRequest(req[r])
  BY OnItsWay DEF fetch_topic_board_id
<1>2. UNCHANGED written /\ At(r, "topic_board") /\ since[r] \subseteq since'[r]
  BY Watched DEF fetch_topic_board_id, Reads
<1>3. CASE Continue(r, req[r])
  BY <1>2, <1>3, Passes
<1>4. CASE req' = [req EXCEPT ![r].todo = <<"show">>,
                              ![r].unchecked = req[r].unchecked \union {"access"}]
  <2> DEFINE calls == Calls[req[r].handler]
  <2>0. PICK new : new = [req[r] EXCEPT !.todo = <<"show">>,
                                        !.unchecked = req[r].unchecked \union {"access"}]
    OBVIOUS
  <2>1. req'[r] = new /\ Mine(r) /\ written'[r] = written[r]
    BY <1>2, <1>4, <2>0 DEF RuleInv, Mine
  <2>2. /\ IsRequest(new) /\ new.handler = req[r].handler /\ new.who = req[r].who
        /\ new.session = req[r].session /\ new.reply = req[r].reply
        /\ new.todo = <<"show">> /\ new.unchecked = req[r].unchecked \union {"access"}
        /\ new.board = req[r].board /\ new.topic = req[r].topic
    BY <1>1, <2>0 DEF IsRequest
  <2>3. /\ n = 2 /\ Len(calls) = 4 /\ calls[1] = "guest" /\ calls[2] = "topic_board"
        /\ calls[3] = "access" /\ calls[4] = "show"
    <3>1. Ordered(req[r].handler, calls)
      BY <1>1, CallsAreOrdered DEF IsRequest
    <3> QED
      BY <1>1, <3>1 DEF Ordered, UnderwayAt
  <2> HIDE DEF calls
  <2>4. \A i \in 1..(4 - 1) : i = 1 \/ i = 2 \/ i = 3
    OBVIOUS
  <2>5. \A i \in 1..(4 - 1) : Passed(calls[i], new, since'[r])
    BY <2>2, <2>3, <2>4 DEF Passed, Let
  <2>6. Rest(new.todo, calls, 4)
    <3>1. /\ <<"show">> \in Seq(CallNames) /\ Len(<<"show">>) = 1 /\ <<"show">>[1] = "show"
          /\ \A j \in 1..1 : j = 1
      BY DEF CallNames
    <3> QED
      BY <2>2, <2>3, <3>1 DEF Rest
  <2>7. written'[r] = Wrote(calls, 4)
    <3>1. written[r] = {}
      BY <1>1, NothingYet
    <3> QED
      BY <2>1, <2>3, <2>4, <3>1 DEF Wrote
  <2>8. Required(new) = Required(req[r])
    BY <2>2 DEF Required
  <2>9. SessionTrue(new, since'[r]) /\ Privileged(new, since'[r])
    BY <1>1, <1>2, <2>2, <2>8 DEF UnderwayAt, SessionTrue, Privileged, Let
  <2>10. UnderwayAt(4, new, since'[r], written'[r])
    <3>1. Calls[new.handler] = calls /\ new.reply = "none" /\ 4 \in 1..Len(calls)
      BY <1>1, <2>2, <2>3 DEF UnderwayAt, calls
    <3> QED
      BY <2>5, <2>6, <2>7, <2>9, <3>1 DEF UnderwayAt
  <2> QED
    BY <2>1, <2>2, <2>10 DEF Good, Kept
<1> QED
  BY <1>3, <1>4 DEF fetch_topic_board_id

(* Who writes or shows is answered.                                         *)
LEMMA Ends ==
  ASSUME RuleInv, Watch, NEW r \in Requests, NEW n, IsRequest(req[r]),
         UnderwayAt(n, req[r], since[r], written[r]),
         Calls[req[r].handler][n] \in {"topic", "post", "show"},
         NEW code, Answer(r, code), code # "none",
         NEW w, written' = [written EXCEPT ![r] = w],
         LET calls == Calls[req[r].handler]
             asked == {call \in {"topic", "post"} : \E i \in DOMAIN calls : calls[i] = call}
         IN /\ code = "201" => w = asked
            /\ code \in {"202", "403", "404"} => w = {}
            /\ w = {"topic"} => code \in {"400", "gone"}
  PROVE  Kept(r)
<1>0. PICK new : new = [req[r] EXCEPT !.todo = <<>>, !.reply = code]
  OBVIOUS
<1>1. req'[r] = new /\ Mine(r) /\ written'[r] = w
  BY <1>0 DEF Answer, RuleInv, Mine
<1>2. /\ IsRequest(new) /\ new.handler = req[r].handler /\ new.unchecked = req[r].unchecked
      /\ new.todo = <<>> /\ new.reply = code
      /\ new.board = req[r].board /\ new.topic = req[r].topic
  <2>1. ASSUME NEW rq, IsRequest(rq), new = [rq EXCEPT !.todo = <<>>, !.reply = code]
        PROVE  /\ IsRequest(new) /\ new.handler = rq.handler /\ new.unchecked = rq.unchecked
               /\ new.board = rq.board /\ new.topic = rq.topic
               /\ new.todo = <<>> /\ new.reply = code
    BY <2>1 DEF IsRequest
  <2> QED
    BY <1>0, <2>1
<1>3. since[r] \subseteq since'[r]
  BY Watched
<1>4. Obeyed(req[r], since[r])
  <2>1. n \in 1..n
    BY CallsAreOrdered DEF UnderwayAt
  <2> QED
    BY <2>1, PassedObeys
<1>5. Obeyed(new, since'[r])
  BY <1>2, <1>3, <1>4 DEF Obeyed, Let, Required
<1>6. Truthful(new, w)
  BY <1>2 DEF Truthful
<1> QED
  BY <1>1, <1>2, <1>5, <1>6 DEF Kept, Good, Over

(* The last query of a reader.                                              *)
LEMMA ShowKept ==
  ASSUME RuleInv, Watch, NEW r \in Requests, Show(r)
  PROVE  Kept(r)
<1>1. At(r, "show")
  BY DEF Show
<1>2. PICK n : /\ UnderwayAt(n, req[r], since[r], written[r])
               /\ Calls[req[r].handler][n] = "show" /\ IsRequest(req[r])
  BY <1>1, OnItsWay
<1>3. CASE Answer(r, "200") /\ written' = [written EXCEPT ![r] = written[r] \union {"shown"}]
  <2>1. written[r] \union {"shown"} = {"shown"} /\ {"shown"} # {"topic"}
    BY <1>2, NothingYet
  <2> QED
    BY <1>2, <1>3, <2>1, Ends
<1>4. CASE Answer(r, "500") /\ UNCHANGED written
  BY <1>1, <1>4, Refuses
<1> QED
  BY <1>3, <1>4 DEF Show, Fails

(* The topic.  Only humans and agents that go on to a first post write one. *)
LEMMA TopicKept ==
  ASSUME RuleInv, Watch, NEW r \in Requests, create_topic(r)
  PROVE  Kept(r)
<1>1. At(r, "topic") /\ since[r] \subseteq since'[r]
  BY Watched DEF create_topic
<1>2. PICK n : /\ UnderwayAt(n, req[r], since[r], written[r])
               /\ Calls[req[r].handler][n] = "topic" /\ IsRequest(req[r])
  BY <1>1, OnItsWay
<1>3. /\ written[r] = {} /\ Wrote(Calls[req[r].handler], n + 1) = {"topic"}
      /\ n < Len(Calls[req[r].handler])
  BY <1>2, NothingYet
<1>4. req[r].handler # "demo_post" /\ n \in Int
  <2>1. Ordered(req[r].handler, Calls[req[r].handler])
    BY <1>2, CallsAreOrdered DEF IsRequest
  <2> QED
    BY <1>2, <2>1 DEF Ordered, UnderwayAt
<1>5. CASE Continue(r, req[r]) /\ written' = [written EXCEPT ![r] = written[r] \union {"topic"}]
  <2>1. PICK rq : rq = req[r]
    OBVIOUS
  <2>2. PICK new : new = req'[r]
    OBVIOUS
  <2>3. PICK t : t = since'[r]
    OBVIOUS
  <2>4. PICK v : v = written'[r]
    OBVIOUS
  <2>5. /\ new = [rq EXCEPT !.todo = Tail(rq.todo)] /\ Mine(r)
        /\ v = Wrote(Calls[rq.handler], n + 1)
    BY <1>3, <1>5, <2>1, <2>2, <2>4 DEF Continue, RuleInv, Mine
  <2>6. /\ IsRequest(rq) /\ UnderwayAt(n, rq, since[r], written[r]) /\ since[r] \subseteq t
        /\ n < Len(Calls[rq.handler]) /\ Calls[rq.handler][n] = "topic"
    BY <1>1, <1>2, <1>3, <2>1, <2>3
  <2>7. SessionTrue(rq, t)
    BY <2>6 DEF UnderwayAt, SessionTrue, Let
  <2>8. \A i \in 1..n : Passed(Calls[rq.handler][i], rq, t)
    <3>1. \A i \in 1..n : i = n \/ i \in 1..(n - 1)
      BY <1>4
    <3>2. \A call : Passed(call, rq, since[r]) => Passed(call, rq, t)
      BY <2>6 DEF Passed, Let
    <3>3. Passed("topic", rq, t)
      BY DEF Passed
    <3> QED
      BY <2>6, <3>1, <3>2, <3>3 DEF UnderwayAt
  <2>9. Good(new, t, v)
    BY <2>5, <2>6, <2>7, <2>8, GoesOn
  <2> QED
    BY <2>2, <2>3, <2>4, <2>5, <2>9 DEF Kept
<1>6. CASE Failed(r) /\ written' = [written EXCEPT ![r] = written[r] \union {"topic"}]
  <2>1. Answer(r, "400") /\ written[r] \union {"topic"} = {"topic"}
    BY <1>3, <1>4, <1>6 DEF Failed
  <2> QED
    BY <1>2, <1>6, <2>1, Ends
<1>7. CASE Failed(r) /\ UNCHANGED written
  <2>1. Answer(r, "400")
    BY <1>4, <1>7 DEF Failed
  <2> QED
    BY <1>1, <1>7, <2>1, Refuses
<1> QED
  BY <1>5, <1>6, <1>7 DEF create_topic

(* The post, which is the last call.                                        *)
LEMMA PostKept ==
  ASSUME RuleInv, Watch, NEW r \in Requests, create_post_in_topic(r)
  PROVE  Kept(r)
<1> DEFINE calls == Calls[req[r].handler]
           asked == {call \in {"topic", "post"} : \E i \in DOMAIN calls : calls[i] = call}
<1>1. At(r, "post")
  BY DEF create_post_in_topic
<1>2. PICK n : /\ UnderwayAt(n, req[r], since[r], written[r])
               /\ calls[n] = "post" /\ IsRequest(req[r])
  BY <1>1, OnItsWay
<1>3. /\ written[r] = Wrote(calls, n) /\ n = Len(calls) /\ n \in Nat \ {0} /\ DOMAIN calls = 1..n
      /\ req[r].handler = "demo_post" => \A i \in 1..n : calls[i] # "topic"
  <2>1. Ordered(req[r].handler, calls)
    BY <1>2, CallsAreOrdered DEF IsRequest
  <2> QED
    BY <1>2, <2>1 DEF Ordered, UnderwayAt
<1> HIDE DEF calls
<1>4. written[r] \union {"post"} = asked
  <2>1. \A i \in 1..n : i = n \/ i \in 1..(n - 1)
    BY <1>3
  <2>2. n \in 1..n /\ \A i \in 1..(n - 1) : i \in 1..n
    BY <1>3
  <2> QED
    BY <1>2, <1>3, <2>1, <2>2 DEF Wrote
<1>5. written[r] \union {"post"} # {"topic"}
  OBVIOUS
<1>6. PICK w : w = written[r] \union {"post"}
  OBVIOUS
<1>7. CASE Answer(r, "201") /\ written' = [written EXCEPT ![r] = w]
  <2>1. /\ w = {call \in {"topic", "post"} : \E i \in DOMAIN Calls[req[r].handler] :
                                               Calls[req[r].handler][i] = call}
        /\ w # {"topic"} /\ Calls[req[r].handler][n] \in {"topic", "post", "show"}
    BY <1>2, <1>4, <1>5, <1>6 DEF calls
  <2> HIDE DEF asked
  <2> QED
    BY <1>2, <1>7, <2>1, Ends
<1>8. CASE Failed(r) /\ written' = [written EXCEPT ![r] = w]
  <2>1. PICK code \in {"400", "500"} : Answer(r, code)
    BY <1>8 DEF Failed
  <2> QED
    BY <1>2, <1>5, <1>6, <1>8, <2>1, Ends DEF calls
<1>9. CASE Failed(r) /\ UNCHANGED written
  <2>1. CASE req[r].handler = "demo_post"
    <3>1. Answer(r, "500")
      BY <1>9, <2>1 DEF Failed
    <3>2. \A i \in 1..(n - 1) : i \in 1..n
      BY <1>3
    <3>3. written[r] = {}
      BY <1>3, <2>1, <3>2 DEF Wrote
    <3> QED
      BY <1>2, <1>9, <3>1, <3>3, IsOver
  <2>2. CASE req[r].handler # "demo_post"
    <3>1. Answer(r, "400")
      BY <1>9, <2>2 DEF Failed
    <3> QED
      BY <1>2, <1>9, <3>1, IsOver
  <2> QED
    BY <2>1, <2>2
<1> QED
  BY <1>6, <1>7, <1>8, <1>9 DEF create_post_in_topic

(* Calls that decide nothing.                                               *)
LEMMA OthersKept ==
  ASSUME RuleInv, Watch, NEW r \in Requests,
         Guards(r) \/ get_topic(r) \/ same_board(r) \/ admin_bypass(r)
  PROVE  Kept(r)
<1>1. CASE Guards(r)
  <2>1. At(r, "guards") /\ UNCHANGED written /\ (Continue(r, req[r]) \/ Answer(r, "400"))
    BY <1>1 DEF Guards, Reads
  <2> QED
    BY <2>1, Passes, Refuses
<1>2. CASE get_topic(r)
  <2>1. /\ At(r, "get_topic") /\ UNCHANGED written
        /\ Continue(r, req[r]) \/ Answer(r, "404") \/ Answer(r, "500")
    BY <1>2 DEF get_topic, Reads, Fails
  <2> QED
    BY <2>1, Passes, Refuses
<1>3. CASE same_board(r)
  <2>1. /\ At(r, "same_board") /\ UNCHANGED written
        /\ (Continue(r, req[r]) /\ req[r].topic = req[r].board) \/ Answer(r, "400")
    BY <1>3 DEF same_board, Reads
  <2> QED
    BY <2>1, Passes, Refuses
<1>4. CASE admin_bypass(r)
  <2>1. At(r, "bypass") /\ UNCHANGED written /\ (Continue(r, req[r]) \/ Answer(r, "202"))
    BY <1>4 DEF admin_bypass, Reads
  <2> QED
    BY <2>1, Passes, Refuses
<1> QED
  BY <1>1, <1>2, <1>3, <1>4

(* Nobody waits any longer.                                                 *)
LEMMA DisconnectKept ==
  ASSUME RuleInv, Watch, NEW r \in Requests, Disconnect(r)
  PROVE  Kept(r)
<1>1. PICK call : At(r, call)
  BY DEF Disconnect, At
<1>2. PICK n : UnderwayAt(n, req[r], since[r], written[r]) /\ IsRequest(req[r])
  BY <1>1, OnItsWay
<1>3. Answer(r, "gone") /\ UNCHANGED written
  BY DEF Disconnect, Reads
<1> QED
  BY <1>2, <1>3, IsOver

(* A request arrives.                                                       *)
LEMMA StartKept ==
  ASSUME RuleInv, Watch, NEW r \in Requests, NEW h \in Handlers, NEW m, NEW b \in Boards, NEW t,
         Start(r, h, m, b, t)
  PROVE  Kept(r)
<1> DEFINE calls == Calls[h]
<1>1. PICK new :
        new = [handler |-> h, who |-> m, board |-> b, topic |-> t, session |-> NewSession,
               guest |-> m = Guest, grants |-> {}, unchecked |-> {},
               todo |-> Calls[h], reply |-> "none"]
  OBVIOUS
<1>2. /\ req[r] = Idle /\ req' = [req EXCEPT ![r] = new] /\ UNCHANGED <<written, access, perms>>
  BY <1>1 DEF Start, Reads, boardVars
<1>3. req'[r] = new /\ Mine(r) /\ written'[r] = written[r]
  BY <1>2 DEF RuleInv, Mine
<1>4. /\ new.handler = h /\ new.who = m /\ new.session = NewSession /\ new.grants = {}
      /\ new.unchecked = {} /\ new.todo = calls /\ new.reply = "none" /\ new.board = b
      /\ new.guest = (m = Guest) /\ new.topic = t
      /\ new = [handler |-> new.handler, who |-> new.who, board |-> new.board,
                topic |-> new.topic, session |-> new.session, guest |-> new.guest,
                grants |-> new.grants, unchecked |-> new.unchecked,
                todo |-> new.todo, reply |-> new.reply]
      /\ "handler" \in DOMAIN new
  BY <1>1
<1>5. IsRequest(new) /\ new # Idle
  BY <1>4 DEF IsRequest, NewSession, Idle, Start
<1>6. written[r] = {}
  <2>1. ASSUME Good(Idle, since[r], written[r])
        PROVE  FALSE
    <3>1. "handler" \in DOMAIN Idle
      BY <2>1 DEF Good, IsRequest
    <3> QED
      BY <3>1 DEF Idle
  <2> QED
    BY <1>2, <2>1 DEF RuleInv
<1>7. Ordered(h, calls)
  BY CallsAreOrdered
<1>8. calls \in Seq(CallNames) /\ Len(calls) \in Nat \ {0}
  BY <1>7 DEF Ordered
<1> HIDE DEF calls
<1>9. Rest(new.todo, calls, 1)
  <2>1. \A j \in 1..Len(calls) : 1 + j - 1 = j
    BY <1>8
  <2> QED
    BY <1>4, <1>8, <2>1 DEF Rest
<1>10. \A rule \in Required(new) : LetsThrough(rule, req[r])' => rule \in since'[r]
  BY <1>3, <1>4, <1>5, <1>6, Watched
<1>11. Privileged(new, since'[r])
  <2>1. Role[m] = "admin" => \A rule \in Required(new) : LetsThrough(rule, req[r])'
    BY <1>3, <1>4 DEF LetsThrough
  <2>2. Role[m] = "mod" => LetsThrough("permission", req[r])'
    BY <1>3, <1>4 DEF LetsThrough
  <2>3. new.handler \in Humans => "permission" \in Required(new)
    BY <1>4, HumansNeed
  <2> QED
    BY <1>4, <1>10, <2>1, <2>2, <2>3 DEF Privileged
<1>12. SessionTrue(new, since'[r])
  BY <1>4 DEF SessionTrue, NewSession
<1>13. UnderwayAt(1, new, since'[r], written'[r])
  <2>1. written'[r] = Wrote(calls, 1)
    BY <1>3, <1>6 DEF Wrote
  <2>2. 1 \in 1..Len(calls) /\ \A i \in 1..(1 - 1) : FALSE
    BY <1>8
  <2>3. Calls[new.handler] = calls
    BY <1>4 DEF calls
  <2> QED
    BY <1>4, <1>9, <1>11, <1>12, <2>1, <2>2, <2>3 DEF UnderwayAt
<1> QED
  BY <1>3, <1>5, <1>13 DEF Kept, Good

(* When the rules or the time change, requests stay as they are.            *)
LEMMA NobodyMoves ==
  ASSUME RuleInv, clock' \in Nat, UNCHANGED <<req, written>>,
         Watch \/ UNCHANGED since
  PROVE  RuleInv'
<1>1. /\ DOMAIN since' = Requests
      /\ \A q \in Requests : since[q] \subseteq since'[q]
  BY Watched DEF RuleInv, Watch
<1>2. ASSUME NEW q \in Requests
      PROVE  \/ req'[q] = Idle /\ written'[q] = {}
             \/ Good(req'[q], since'[q], written'[q])
  <2>1. CASE Good(req[q], since[q], written[q])
    <3>1. Good(req[q], since'[q], written[q])
      BY <1>1, <2>1, MoreHistory
    <3> QED
      BY <3>1
  <2> QED
    BY <2>1 DEF RuleInv
<1> QED
  BY <1>1, <1>2 DEF RuleInv

(* A step of one request leaves the others in order.                        *)
LEMMA OneMoves ==
  ASSUME RuleInv, Watch, NEW r \in Requests, Kept(r), UNCHANGED clock
  PROVE  RuleInv'
<1>1. ASSUME NEW q \in Requests
      PROVE  \/ req'[q] = Idle /\ written'[q] = {}
             \/ Good(req'[q], since'[q], written'[q])
  <2>1. CASE q = r
    BY <2>1 DEF Kept
  <2>2. CASE q # r
    <3>1. req'[q] = req[q] /\ written'[q] = written[q] /\ since[q] \subseteq since'[q]
      BY <2>2, Watched DEF Kept, Mine
    <3>2. CASE Good(req[q], since[q], written[q])
      <4>1. Good(req[q], since'[q], written[q])
        BY <3>1, <3>2, MoreHistory
      <4> QED
        BY <3>1, <4>1
    <3> QED
      BY <3>1, <3>2 DEF RuleInv
  <2> QED
    BY <2>1, <2>2
<1>2. DOMAIN since' = Requests
  BY DEF Watch
<1> QED
  BY <1>1, <1>2 DEF RuleInv, Kept, Mine

(* Every call keeps its request in order.                                   *)
LEMMA StepKept ==
  ASSUME RuleInv, Watch, NEW r \in Requests, Step(r)
  PROVE  Kept(r) /\ UNCHANGED clock
<1>1. Kept(r)
  BY BansKept, GuestKept, AccessKept, LoadKept, GeneralKept, BoardKept, TopicBoardKept,
     ShowKept, TopicKept, PostKept, OthersKept, DisconnectKept DEF Step
<1>2. UNCHANGED banVars
  BY DEF Step, Reads, ensure_user_ctx, ensure_guest_ctx, Guards, ensure_board_access,
     load_permissions, general_permissions, board_permissions, get_topic, same_board,
     admin_bypass, fetch_topic_board_id, load_board_access, Show, create_topic,
     create_post_in_topic, Disconnect
<1> QED
  BY <1>1, <1>2 DEF banVars

(* Every request is in order at any time: those under way have passed the   *)
(* calls they have made, and those that are over obeyed the rules and were  *)
(* told the truth.                                                          *)
THEOREM RuleInvariant == PostingSpec => []RuleInv
<1>1. PostingInit => RuleInv
  BY DEF PostingInit, BansInit, RuleInv
<1>2. ASSUME RuleInv, [PostingNext]_vars
      PROVE  RuleInv'
  <2>1. ASSUME NEW r \in Requests, Step(r), Watch
        PROVE  RuleInv'
    BY <1>2, <2>1, StepKept, OneMoves
  <2>2. ASSUME NEW r \in Requests, NEW h \in Handlers, NEW m, NEW b \in Boards, NEW t,
               Start(r, h, m, b, t), Watch
        PROVE  RuleInv'
    <3>1. UNCHANGED clock
      BY <2>2 DEF Start, Reads, banVars
    <3> QED
      BY <1>2, <2>2, <3>1, StartKept, OneMoves
  <2>3. CASE Administration /\ Watch
    <3>1. UNCHANGED <<clock, req, written>>
      <4>1. CASE BansChange
        BY <2>3, <4>1 DEF Administration, BansChange, apply_ban, agent_apply_ban, save_ban,
           save_ban_rule, revoke_ban, delete_ban_rule, clean_expired_bans
      <4>2. CASE UNCHANGED banVars
        BY <2>3, <4>2 DEF Administration, banVars
      <4> QED
        BY <2>3, <4>1, <4>2 DEF Administration, update_board_access, update_board_permissions
    <3> QED
      BY <1>2, <2>3, <3>1, NobodyMoves DEF RuleInv
  <2>4. CASE Tick /\ UNCHANGED <<boardVars, req, written, edits>> /\ Watch
    <3>1. clock' \in Nat
      BY <1>2, <2>4 DEF Tick, RuleInv
    <3> QED
      BY <1>2, <2>4, <3>1, NobodyMoves
  <2>5. CASE UNCHANGED vars
    <3>1. UNCHANGED <<clock, req, written, since>>
      BY <2>5 DEF vars, banVars
    <3> QED
      BY <1>2, <3>1, NobodyMoves DEF RuleInv
  <2> QED
    BY <1>2, <2>1, <2>2, <2>3, <2>4, <2>5 DEF PostingNext
<1> QED
  BY <1>1, <1>2, PTL DEF PostingSpec

(* Whoever writes or is shown something was let through by every rule that  *)
(* applies to the request at some time since it arrived, whatever changes   *)
(* between its calls.                                                       *)
THEOREM RulesAreObeyedHolds == PostingSpec => []RulesAreObeyed
<1>1. ASSUME RuleInv
      PROVE  RulesAreObeyed
  <2>1. ASSUME NEW r \in Requests, written[r] # {}
        PROVE  Obeyed(req[r], since[r])
    <3>1. PICK w : w = written[r]
      OBVIOUS
    <3>2. Good(req[r], since[r], w) /\ w # {}
      BY <1>1, <2>1, <3>1 DEF RuleInv
    <3>3. ASSUME NEW n, UnderwayAt(n, req[r], since[r], w)
          PROVE  Obeyed(req[r], since[r])
      <4>1. PICK i \in 1..(n - 1) : Calls[req[r].handler][i] = "topic"
        BY <3>2, <3>3 DEF UnderwayAt, Wrote
      <4>2. i \in 1..n
        BY <3>2, <3>3, CallsAreOrdered DEF UnderwayAt, Good, IsRequest
      <4> QED
        BY <3>2, <3>3, <4>1, <4>2, PassedObeys DEF Good
    <3> QED
      BY <3>2, <3>3 DEF Good, Over
  <2> QED
    BY <2>1 DEF RulesAreObeyed, Obeyed, Let
<1> QED
  BY <1>1, RuleInvariant, PTL

(* Answers tell what has been written, however the request ends.            *)
THEOREM AnswersAreTrueHolds == PostingSpec => []AnswersAreTrue
<1>1. ASSUME RuleInv
      PROVE  AnswersAreTrue
  <2>1. ASSUME NEW r \in Requests, req[r] # Idle
        PROVE  Truthful(req[r], written[r])
    <3>1. Good(req[r], since[r], written[r])
      BY <1>1, <2>1 DEF RuleInv
    <3>2. req[r].reply = "none" \/ Truthful(req[r], written[r])
      BY <3>1 DEF Good, UnderwayAt, Over
    <3> QED
      BY <3>2 DEF Truthful
  <2> QED
    BY <2>1 DEF AnswersAreTrue, Truthful
<1> QED
  BY <1>1, RuleInvariant, PTL
=============================================================================
