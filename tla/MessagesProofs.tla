--------------------------- MODULE MessagesProofs ---------------------------
(***************************************************************************)
(* Proofs about what reaches members.  Of PersonalMessages: what is sent   *)
(* is delivered, the hourly limit is kept, and labels that were taken off  *)
(* are gone; for any members, requests, lists, limits and faults, and both *)
(* stores.  Then of Subscriptions: whoever ignores an author hears         *)
(* nothing, and subscriptions, preferences and pages of notifications      *)
(* answer alike.                                                           *)
(***************************************************************************)
EXTENDS PersonalMessages, Subscriptions, SequenceTheorems, FiniteSetTheorems, TLAPS

IsSeq(s) == Len(s) \in Nat /\ s = [i \in 1..Len(s) |-> s[i]]

IsMessage(msg) ==
  /\ msg = [from |-> msg.from, to |-> msg.to, at |-> msg.at, counted |-> msg.counted,
            keys |-> msg.keys, lost |-> msg.lost, answered |-> msg.answered]
  /\ msg.at \in Nat

(* Who has a message in the inbox, or had it there.                         *)
Got(msg) == {k.owner : k \in {key \in msg.keys : key.folder = "Inbox"}}

(* Neither answered nor found under Sent.                                   *)
Open(msg) == ~msg.answered /\ \A k \in msg.keys : k.folder = "Inbox"

(* It has come, or is about to come, to all recipients but those whose row  *)
(* was lost, and to nobody else.                                            *)
Reaches(msg, rest) ==
  /\ msg.to \ msg.lost \subseteq Got(msg) \cup rest
  /\ Got(msg) \cup rest \subseteq msg.to

(* A request, the messages there are and the store in use.                  *)
IsRequest(rq, ms, kind) ==
  \/ rq = Idle
  \/ /\ rq.stage \in {"count", "write"}
     /\ rq = [stage |-> rq.stage, who |-> rq.who, to |-> rq.to, counted |-> rq.counted]
     /\ IsSeq(rq.to) /\ rq.who \in Members /\ (rq.stage = "count" => ~rq.counted)
  \/ /\ rq.stage = "rows" /\ kind = "surreal"
     /\ rq = [stage |-> "rows", who |-> rq.who, n |-> rq.n, todo |-> rq.todo]
     /\ IsSeq(rq.todo) /\ rq.n \in 1..Len(ms) /\ rq.who = ms[rq.n].from
     /\ Open(ms[rq.n]) /\ Reaches(ms[rq.n], Range(rq.todo))
  \/ /\ rq.stage = "record" /\ kind = "memory"
     /\ rq = [stage |-> "record", who |-> rq.who, n |-> rq.n]
     /\ rq.n \in 1..Len(ms) /\ rq.who = ms[rq.n].from /\ rq.who \in Members
     /\ Reaches(ms[rq.n], {})
  \/ rq.stage \in {"strip", "label"} /\ kind = "surreal" /\ rq.who \in Members

(* The messages are records of a sequence; each is open or has come to its  *)
(* recipients, and at most one request is delivering it.                    *)
MailInv ==
  /\ store \in Stores /\ store \in {"memory", "surreal"} /\ clock \in Nat
  /\ IsSeq(msgs) /\ DOMAIN req = Requests
  /\ \A n \in 1..Len(msgs) :
       /\ IsMessage(msgs[n]) /\ msgs[n].at <= clock
       /\ Open(msgs[n]) \/ Reaches(msgs[n], {})
  /\ \A r \in Requests : IsRequest(req[r], msgs, store)
  /\ \A r, s \in Requests :
       req[r].stage = "rows" /\ req[s].stage = "rows" /\ req[r].n = req[s].n => r = s
-----------------------------------------------------------------------------
(* The messages that count against the limit of a member now; none where    *)
(* the count that is compared with the limit never reaches it.              *)
Counted(m) ==
  {n \in DOMAIN msgs :
     /\ store = "memory" \/ PerHour[store] = 1
     /\ msgs[n].from = m /\ msgs[n].at = clock /\ msgs[n].counted
     /\ store = "memory" \/ \E k \in Of(m) : k.n = n /\ k.folder = "Sent"}

(* A message on its way that will count.                                    *)
Counting(r) ==
  \/ req[r].stage = "write" /\ req[r].counted
  \/ req[r].stage = "rows" /\ msgs[req[r].n].counted

(* The rows belong to messages there are.                                   *)
RowsInv == IsFiniteSet(DOMAIN rows) /\ \A k \in DOMAIN rows : k.n \in 1..Len(msgs)

(* In memory all messages of this hour are in the log, or about to be.      *)
LogInv ==
  /\ DOMAIN sent_log = Members /\ \A m \in Members : IsFiniteSet(sent_log[m])
  /\ store = "memory" =>
       \A n \in 1..Len(msgs) : msgs[n].from \in Members /\ msgs[n].at = clock =>
         \/ [n |-> n, at |-> clock] \in sent_log[msgs[n].from]
         \/ \E r \in Requests : req[r].stage = "record" /\ req[r].n = n

(* Who is counting has room for one more message, and is the only one of    *)
(* the sender.                                                              *)
RoomInv ==
  /\ \A m : Cardinality(Counted(m)) <= PerHour[store]
  /\ \A r \in Requests : Counting(r) => Cardinality(Counted(req[r].who)) < PerHour[store]
  /\ \A r, s \in Requests : Counting(r) /\ Counting(s) /\ req[r].who = req[s].who => r = s

LimitInv == RowsInv /\ LogInv /\ RoomInv
-----------------------------------------------------------------------------
(* The requests about labels that a member has.                             *)
Marking(m) == {r \in Requests : req[r].stage \in {"strip", "label"} /\ req[r].who = m}

(* Labels that a member has asked for on a message, and not taken off.      *)
Fits(m, n, ls) == \A l \in ls : <<n, l>> \in put[m]

RowsFit(m) == \A k \in Of(m) : Fits(m, k.n, rows[k])

(* What such a request has yet to do for a row.                             *)
WillFit(m, k, rq) ==
  \/ Fits(m, k.n, rows[k])
  \/ rq.stage = "strip" /\ Fits(m, k.n, rows[k] \ {rq.label})
  \/ rq.stage = "label" /\ \E entry \in rq.plan : entry[1] = k.n

IsPlan(m, rq) == rq.stage = "label" => \A entry \in rq.plan : Fits(m, entry[1], entry[2])

(* One request at most is at a member's labels, and with it all rows fit.   *)
Fitting(m) ==
  /\ \A r, s \in Marking(m) : r = s
  /\ Marking(m) = {} => RowsFit(m)
  /\ \A r \in Marking(m) : IsPlan(m, req[r]) /\ \A k \in Of(m) : WillFit(m, k, req[r])

LabelInv ==
  /\ DOMAIN put = Members /\ mixed \in [Members -> BOOLEAN]
  /\ \A r \in Requests :
       /\ req[r].stage = "strip" =>
            req[r] = [stage |-> "strip", who |-> req[r].who, label |-> req[r].label]
       /\ req[r].stage = "label" =>
            req[r] = [stage |-> "label", who |-> req[r].who, plan |-> req[r].plan]
  /\ store = "memory" => \A k \in DOMAIN rows : k.folder # "Inbox" => rows[k] = {}
  /\ \A m \in Members : mixed[m] \/ Fitting(m)
-----------------------------------------------------------------------------
(* Sequences of anything.                                                   *)

(* A function of the numbers up to c is a sequence of its values.           *)
LEMMA FunctionIsSeq ==
  ASSUME NEW c \in Nat, NEW s, s = [i \in 1..c |-> s[i]]
  PROVE  IsSeq(s) /\ Len(s) = c /\ s \in Seq(Range(s))
<1> DEFINE S == {s[i] : i \in 1..c}
<1>1. s \in [1..c -> S] /\ DOMAIN s = 1..c
  OBVIOUS
<1>2. S = Range(s)
  BY <1>1 DEF Range
<1> HIDE DEF S
<1>3. s \in Seq(S)
  BY <1>1, SeqDef
<1>4. Len(s) = c
  BY <1>1, <1>3, LenProperties
<1> QED
  BY <1>2, <1>3, <1>4 DEF IsSeq

(* The other way round.                                                     *)
LEMMA SeqIsSeq ==
  ASSUME NEW S, NEW s \in Seq(S)
  PROVE  IsSeq(s) /\ DOMAIN s = 1..Len(s)
BY LenProperties DEF IsSeq

(* One more at the end.                                                     *)
LEMMA AppendIsSeq ==
  ASSUME NEW s, IsSeq(s), NEW x
  PROVE  /\ IsSeq(Append(s, x)) /\ Len(Append(s, x)) = Len(s) + 1
         /\ Append(s, x)[Len(s) + 1] = x /\ DOMAIN s = 1..Len(s)
         /\ \A i \in 1..Len(s) : Append(s, x)[i] = s[i]
<1>1. s \in Seq(Range(s)) /\ Len(s) \in Nat
  BY FunctionIsSeq DEF IsSeq
<1> DEFINE S == Range(s) \cup {x}
<1>2. s \in Seq(S) /\ x \in S
  BY <1>1
<1> HIDE DEF S
<1>3. Append(s, x) \in Seq(S)
  BY <1>2, AppendProperties
<1>4. /\ Len(Append(s, x)) = Len(s) + 1 /\ Append(s, x)[Len(s) + 1] = x
      /\ \A i \in 1..Len(s) : Append(s, x)[i] = s[i]
  BY <1>2, AppendProperties
<1> QED
  BY <1>2, <1>3, <1>4, SeqIsSeq

(* One less at the beginning.                                               *)
LEMMA TailIsSeq ==
  ASSUME NEW s, IsSeq(s)
  PROVE  /\ s = <<>> => Range(s) = {}
         /\ s # <<>> => IsSeq(Tail(s)) /\ Range(s) = {Head(s)} \cup Range(Tail(s))
<1>1. s \in Seq(Range(s)) /\ Len(s) \in Nat
  BY FunctionIsSeq DEF IsSeq
<1>2. s = <<>> => Range(s) = {}
  BY DEF Range
<1>3. ASSUME s # <<>>
      PROVE  IsSeq(Tail(s)) /\ Range(s) = {Head(s)} \cup Range(Tail(s))
  <2>1. /\ Tail(s) \in Seq(Range(s)) /\ Len(Tail(s)) = Len(s) - 1
        /\ \A i \in 1..Len(Tail(s)) : Tail(s)[i] = s[i + 1]
        /\ Head(s) = s[1]
    BY <1>1, <1>3, HeadTailProperties
  <2>2. Len(s) > 0 /\ DOMAIN s = 1..Len(s) /\ DOMAIN Tail(s) = 1..Len(Tail(s))
    BY <1>1, <1>3, <2>1, EmptySeq, SeqIsSeq
  <2>3. {Head(s)} \cup Range(Tail(s)) \subseteq Range(s)
    BY <1>1, <2>1, <2>2 DEF Range
  <2>4. ASSUME NEW i \in 1..Len(s)
        PROVE  s[i] \in {Head(s)} \cup Range(Tail(s))
    <3>1. CASE i = 1
      BY <2>1, <3>1
    <3>2. CASE i # 1
      <4>1. i - 1 \in 1..Len(Tail(s)) /\ (i - 1) + 1 = i
        BY <1>1, <2>1, <3>2
      <4>2. Tail(s)[i - 1] = s[i]
        BY <2>1, <4>1
      <4> QED
        BY <2>2, <4>1, <4>2 DEF Range
    <3> QED
      BY <3>1, <3>2
  <2>5. Range(s) \subseteq {Head(s)} \cup Range(Tail(s))
    BY <2>2, <2>4 DEF Range
  <2> QED
    BY <2>1, <2>3, <2>5, SeqIsSeq
<1> QED
  BY <1>2, <1>3

(* Lists of recipients are sequences, with and without unknown names.       *)
LEMMA ListsAreSeqs ==
  ASSUME NEW list \in Lists
  PROVE  IsSeq(list) /\ IsSeq(resolve_recipients(list))
<1>1. list \in Seq(Members \cup {Nobody})
  BY MailAssumption
<1>2. IsSeq(list) /\ DOMAIN list = 1..Len(list) /\ Len(list) \in Nat
  BY <1>1, SeqIsSeq DEF IsSeq
<1> DEFINE known == {i \in DOMAIN list : list[i] # Nobody}
           c == Cardinality(known)
           value(n) == list[CHOOSE i \in known : Cardinality({j \in known : j <= i}) = n]
<1>3. c \in Nat
  <2>1. IsFiniteSet(1..Len(list)) /\ known \in SUBSET (1..Len(list))
    BY <1>2, FS_Interval
  <2>2. IsFiniteSet(known)
    BY <2>1, FS_Subset
  <2> QED
    BY <2>2, FS_CardinalityType
<1>4. resolve_recipients(list) = [n \in 1..c |-> value(n)]
  BY DEF resolve_recipients
<1> HIDE DEF c, value
<1>5. resolve_recipients(list) = [n \in 1..c |-> resolve_recipients(list)[n]]
  BY <1>4
<1> QED
  BY <1>2, <1>3, <1>5, FunctionIsSeq
-----------------------------------------------------------------------------
(* Delivery.                                                                *)

(* A request that does not send leaves the messages as they are.            *)
LEMMA QuietMail ==
  ASSUME MailInv, UNCHANGED <<msgs, store>>, clock' \in Nat, clock <= clock',
         \/ UNCHANGED req
         \/ \E r \in Requests : \E new :
              /\ req' = [req EXCEPT ![r] = new] /\ IsRequest(new, msgs, store)
              /\ new.stage # "rows"
  PROVE  MailInv'
<1>1. \A n \in 1..Len(msgs) : msgs[n].at <= clock'
  <2>1. clock \in Nat /\ \A n \in 1..Len(msgs) : msgs[n].at \in Nat /\ msgs[n].at <= clock
    BY DEF MailInv, IsMessage
  <2> QED
    BY <2>1
<1>2. CASE UNCHANGED req
  BY <1>1, <1>2 DEF MailInv
<1>3. CASE \E r \in Requests : \E new :
              /\ req' = [req EXCEPT ![r] = new] /\ IsRequest(new, msgs, store)
              /\ new.stage # "rows"
  <2>1. PICK r \in Requests : \E new :
              /\ req' = [req EXCEPT ![r] = new] /\ IsRequest(new, msgs, store)
              /\ new.stage # "rows"
    BY <1>3
  <2>2. PICK new :
              /\ req' = [req EXCEPT ![r] = new] /\ IsRequest(new, msgs, store)
              /\ new.stage # "rows"
    BY <2>1
  <2>3. /\ DOMAIN req' = Requests
        /\ \A s \in Requests : req'[s] = IF s = r THEN new ELSE req[s]
    BY <2>2 DEF MailInv
  <2>4. \A s \in Requests : IsRequest(req'[s], msgs, store)
    BY <2>2, <2>3 DEF MailInv
  <2>5. \A s, t \in Requests :
          req'[s].stage = "rows" /\ req'[t].stage = "rows" /\ req'[s].n = req'[t].n => s = t
    BY <2>2, <2>3 DEF MailInv
  <2> QED
    BY <1>1, <2>3, <2>4, <2>5 DEF MailInv
<1> QED
  BY <1>2, <1>3

(* A message more leaves the others as they are.                            *)
LEMMA NewMail ==
  ASSUME MailInv, NEW r \in Requests, NEW msg, msgs' = Append(msgs, msg),
         IsMessage(msg), msg.at <= clock, Open(msg) \/ Reaches(msg, {}),
         NEW new, req' = [req EXCEPT ![r] = new], IsRequest(new, msgs', store),
         new.stage = "rows" => new.n = Len(msgs) + 1,
         UNCHANGED <<store, clock>>
  PROVE  MailInv'
<1>1. /\ IsSeq(msgs') /\ Len(msgs') = Len(msgs) + 1 /\ msgs'[Len(msgs) + 1] = msg
      /\ \A n \in 1..Len(msgs) : msgs'[n] = msgs[n]
  BY AppendIsSeq DEF MailInv
<1>2. Len(msgs) \in Nat
  BY DEF MailInv, IsSeq
<1>3. \A n \in 1..Len(msgs') : n = Len(msgs) + 1 \/ n \in 1..Len(msgs)
  BY <1>1, <1>2
<1>4. \A n \in 1..Len(msgs') :
        /\ IsMessage(msgs'[n]) /\ msgs'[n].at <= clock
        /\ Open(msgs'[n]) \/ Reaches(msgs'[n], {})
  BY <1>1, <1>3 DEF MailInv
<1>5. ASSUME NEW rq, IsRequest(rq, msgs, store)
      PROVE  IsRequest(rq, msgs', store)
  <2>1. rq.n \in 1..Len(msgs) => rq.n \in 1..Len(msgs') /\ msgs'[rq.n] = msgs[rq.n]
    BY <1>1, <1>2
  <2> QED
    BY <1>5, <2>1 DEF IsRequest
<1>6. /\ DOMAIN req' = Requests
      /\ \A s \in Requests : req'[s] = IF s = r THEN new ELSE req[s]
  BY DEF MailInv
<1>7. \A s \in Requests : IsRequest(req'[s], msgs', store)
  BY <1>5, <1>6 DEF MailInv
<1>8. \A s \in Requests : req[s].stage = "rows" => req[s].n # Len(msgs) + 1
  BY <1>2 DEF MailInv, IsRequest, Idle
<1>9. \A s, t \in Requests :
        req'[s].stage = "rows" /\ req'[t].stage = "rows" /\ req'[s].n = req'[t].n => s = t
  BY <1>6, <1>8 DEF MailInv
<1> QED
  BY <1>1, <1>4, <1>6, <1>7, <1>9 DEF MailInv

(* A message that is written to by the only request that delivers it.       *)
LEMMA MoreMail ==
  ASSUME MailInv, NEW r \in Requests, NEW n \in 1..Len(msgs), NEW msg,
         msgs' = [msgs EXCEPT ![n] = msg],
         IsMessage(msg), msg.at = msgs[n].at, msg.from = msgs[n].from,
         msg.to = msgs[n].to, Open(msg) \/ Reaches(msg, {}),
         NEW new, req' = [req EXCEPT ![r] = new], IsRequest(new, msgs', store),
         new.stage = "rows" => new.n = n,
         \/ req[r].stage = "rows" /\ req[r].n = n
         \/ store = "memory" /\ Got(msg) = Got(msgs[n]) /\ msg.lost = msgs[n].lost,
         new.stage = "rows" => req[r].stage = "rows",
         UNCHANGED <<store, clock>>
  PROVE  MailInv'
<1>1. /\ Len(msgs) \in Nat /\ DOMAIN msgs = 1..Len(msgs)
      /\ msgs' = [i \in 1..Len(msgs) |-> msgs'[i]]
      /\ \A i \in 1..Len(msgs) : msgs'[i] = IF i = n THEN msg ELSE msgs[i]
  BY DEF MailInv, IsSeq
<1>2. IsSeq(msgs') /\ Len(msgs') = Len(msgs)
  BY <1>1, FunctionIsSeq
<1>3. \A i \in 1..Len(msgs') :
        /\ IsMessage(msgs'[i]) /\ msgs'[i].at <= clock
        /\ Open(msgs'[i]) \/ Reaches(msgs'[i], {})
  BY <1>1, <1>2 DEF MailInv
<1>4. /\ DOMAIN req' = Requests
      /\ \A s \in Requests : req'[s] = IF s = r THEN new ELSE req[s]
  BY DEF MailInv
<1>5. ASSUME NEW s \in Requests, s # r
      PROVE  IsRequest(req[s], msgs', store)
  <2>1. IsRequest(req[s], msgs, store)
    BY DEF MailInv
  <2>2. CASE req[s].n # n
    <3>1. req[s].n \in 1..Len(msgs) => /\ req[s].n \in 1..Len(msgs')
                                      /\ msgs'[req[s].n] = msgs[req[s].n]
      BY <1>1, <1>2, <2>2
    <3> QED
      BY <2>1, <3>1 DEF IsRequest
  <2>3. CASE req[s].n = n
    <3>1. CASE store = "memory" /\ Got(msg) = Got(msgs[n]) /\ msg.lost = msgs[n].lost
      BY <1>1, <1>2, <2>1, <2>3, <3>1 DEF IsRequest, Reaches
    <3>2. CASE req[r].stage = "rows" /\ req[r].n = n
      <4>1. req[s].stage # "rows"
        BY <1>5, <2>3, <3>2 DEF MailInv
      <4>2. store = "surreal"
        BY <3>2 DEF MailInv, IsRequest, Idle
      <4> QED
        BY <2>1, <4>1, <4>2 DEF IsRequest
    <3> QED
      BY <3>1, <3>2
  <2> QED
    BY <2>2, <2>3
<1>6. \A s \in Requests : IsRequest(req'[s], msgs', store)
  BY <1>4, <1>5
<1>7. \A s, t \in Requests :
        req'[s].stage = "rows" /\ req'[t].stage = "rows" /\ req'[s].n = req'[t].n => s = t
  <2>1. new.stage = "rows" => req[r].stage = "rows" /\ req[r].n = n
    BY DEF MailInv, IsRequest, Idle
  <2> QED
    BY <1>4, <2>1 DEF MailInv
<1> QED
  BY <1>2, <1>3, <1>4, <1>6, <1>7 DEF MailInv

(* A letter that goes to SurrealDB.                                         *)
LEMMA SurrealSends ==
  ASSUME MailInv, NEW r \in Requests, NEW rq, IsSeq(rq.to), send_personal_message(r, rq)
  PROVE  MailInv'
<1>1. PICK msg : msg = [from |-> rq.who, to |-> Range(rq.to), at |-> clock,
                        counted |-> rq.counted, keys |-> {}, lost |-> {},
                        answered |-> FALSE]
  OBVIOUS
<1>2. PICK new : new = [stage |-> "rows", who |-> rq.who, n |-> Len(msgs) + 1, todo |-> rq.to]
  OBVIOUS
<1>3. /\ msgs' = Append(msgs, msg) /\ req' = [req EXCEPT ![r] = new]
      /\ store = "surreal" /\ UNCHANGED <<store, clock>>
  BY <1>1, <1>2 DEF send_personal_message, Message, Become, Sending
<1>4. /\ msg.from = rq.who /\ msg.to = Range(rq.to) /\ msg.at = clock /\ msg.keys = {}
      /\ ~msg.answered
      /\ msg = [from |-> msg.from, to |-> msg.to, at |-> msg.at, counted |-> msg.counted,
                keys |-> msg.keys, lost |-> msg.lost, answered |-> msg.answered]
  BY <1>1
<1>5. IsMessage(msg) /\ msg.at <= clock /\ Open(msg) /\ Got(msg) = {}
  BY <1>4 DEF IsMessage, Open, Got, MailInv
<1>6. /\ new.stage = "rows" /\ new.who = rq.who /\ new.n = Len(msgs) + 1 /\ new.todo = rq.to
      /\ new = [stage |-> "rows", who |-> new.who, n |-> new.n, todo |-> new.todo]
  BY <1>2
<1>7. IsRequest(new, msgs', store)
  <2>1. new.n \in 1..Len(msgs') /\ msgs'[new.n] = msg
    BY <1>3, <1>6, AppendIsSeq DEF MailInv, IsSeq
  <2>2. Reaches(msg, Range(new.todo))
    BY <1>4, <1>5, <1>6 DEF Reaches
  <2> QED
    BY <1>3, <1>4, <1>5, <1>6, <2>1, <2>2 DEF IsRequest
<1> QED
  BY <1>3, <1>5, <1>6, <1>7, NewMail

(* A letter in memory.                                                      *)
LEMMA MemorySends ==
  ASSUME MailInv, NEW r \in Requests, NEW rq, rq.who \in Members, send_in_memory(r, rq)
  PROVE  MailInv'
<1>1. PICK keys : keys =
        {[n |-> Len(msgs) + 1, owner |-> m, folder |-> "Inbox", copy |-> 1] : m \in Range(rq.to)}
        \cup {[n |-> Len(msgs) + 1, owner |-> rq.who, folder |-> "Sent", copy |-> 1]}
  OBVIOUS
<1>2. PICK msg : msg = [from |-> rq.who, to |-> Range(rq.to), at |-> clock,
                        counted |-> rq.counted, keys |-> keys, lost |-> {},
                        answered |-> FALSE]
  OBVIOUS
<1>3. PICK new : new = [stage |-> "record", who |-> rq.who, n |-> Len(msgs) + 1]
  OBVIOUS
<1>4. /\ msgs' = Append(msgs, msg) /\ req' = [req EXCEPT ![r] = new]
      /\ store = "memory" /\ UNCHANGED <<store, clock>>
  BY <1>1, <1>2, <1>3 DEF send_in_memory, Message, Become, Sending
<1>5. /\ msg.from = rq.who /\ msg.to = Range(rq.to) /\ msg.at = clock /\ msg.keys = keys
      /\ msg = [from |-> msg.from, to |-> msg.to, at |-> msg.at, counted |-> msg.counted,
                keys |-> msg.keys, lost |-> msg.lost, answered |-> msg.answered]
  BY <1>2
<1>6. Got(msg) = Range(rq.to)
  <2>1. ASSUME NEW k \in keys, k.folder = "Inbox"
        PROVE  k.owner \in Range(rq.to)
    BY <1>1, <2>1
  <2>2. ASSUME NEW m \in Range(rq.to)
        PROVE  \E k \in keys : k.folder = "Inbox" /\ k.owner = m
    <3>1. PICK k : k = [n |-> Len(msgs) + 1, owner |-> m, folder |-> "Inbox", copy |-> 1]
      OBVIOUS
    <3> QED
      BY <1>1, <3>1
  <2> QED
    BY <1>5, <2>1, <2>2 DEF Got
<1>7. IsMessage(msg) /\ msg.at <= clock /\ Reaches(msg, {})
  BY <1>5, <1>6 DEF IsMessage, MailInv, Reaches
<1>8. /\ new.stage = "record" /\ new.who = rq.who /\ new.n = Len(msgs) + 1
      /\ new = [stage |-> "record", who |-> new.who, n |-> new.n]
  BY <1>3
<1>9. IsRequest(new, msgs', store)
  <2>1. new.n \in 1..Len(msgs') /\ msgs'[new.n] = msg
    BY <1>4, <1>8, AppendIsSeq DEF MailInv, IsSeq
  <2> QED
    BY <1>4, <1>5, <1>7, <1>8, <2>1 DEF IsRequest
<1> QED
  BY <1>4, <1>7, <1>8, <1>9, NewMail

(* The next row of a message is created, or lost; after the last            *)
(* recipient's comes the sender's, and the answer.                          *)
LEMMA DeliverKeepsMail ==
  ASSUME MailInv, NEW r \in Requests, Deliver(r)
  PROVE  MailInv'
<1> DEFINE n == req[r].n
           todo == req[r].todo
           Now(msg, keys, lost, answered) ==
             /\ msgs' = [msgs EXCEPT ![n] = msg] /\ IsMessage(msg)
             /\ msg.from = msgs[n].from /\ msg.to = msgs[n].to /\ msg.at = msgs[n].at
             /\ msg.keys = keys /\ msg.lost = lost /\ msg.answered = answered
<1>1. req[r].stage = "rows" /\ UNCHANGED <<store, clock>>
  BY DEF Deliver, Sending
<1>2. /\ req[r] = [stage |-> "rows", who |-> req[r].who, n |-> n, todo |-> todo]
      /\ store = "surreal" /\ IsSeq(todo) /\ n \in 1..Len(msgs) /\ req[r].who = msgs[n].from
      /\ Open(msgs[n]) /\ Reaches(msgs[n], Range(todo))
  BY <1>1 DEF MailInv, IsRequest, Idle
<1>3. /\ IsMessage(msgs[n]) /\ msgs[n].at <= clock
      /\ DOMAIN msgs = 1..Len(msgs)
  BY <1>2, AppendIsSeq DEF MailInv
<1>4. ASSUME NEW msg, msgs' = [msgs EXCEPT ![n] = msg], Become(r, Idle), todo = <<>>,
             IsMessage(msg), msg.at = msgs[n].at, msg.from = msgs[n].from, msg.to = msgs[n].to,
             Got(msg) = Got(msgs[n]), msg.lost = msgs[n].lost
      PROVE  MailInv'
  <2>1. Reaches(msg, {})
    <3>1. Range(todo) = {}
      BY <1>2, <1>4, TailIsSeq
    <3> QED
      BY <1>2, <1>4, <3>1 DEF Reaches
  <2>2. IsRequest(Idle, msgs', store) /\ Idle.stage # "rows"
    BY DEF IsRequest, Idle
  <2>3. req' = [req EXCEPT ![r] = Idle]
    BY <1>4 DEF Become
  <2> QED
    BY <1>1, <1>2, <1>4, <2>1, <2>2, <2>3, MoreMail
<1>5. ASSUME NEW msg, NEW new, msgs' = [msgs EXCEPT ![n] = msg], Become(r, new), todo # <<>>,
             new = [stage |-> "rows", who |-> req[r].who, n |-> n, todo |-> Tail(todo)],
             IsMessage(msg), msg.at = msgs[n].at, msg.from = msgs[n].from, msg.to = msgs[n].to,
             Open(msg),
             \/ Got(msg) = Got(msgs[n]) \cup {Head(todo)} /\ msg.lost = msgs[n].lost
             \/ Got(msg) = Got(msgs[n]) /\ msg.lost = msgs[n].lost \cup {Head(todo)}
      PROVE  MailInv'
  <2>1. IsSeq(Tail(todo)) /\ Range(todo) = {Head(todo)} \cup Range(Tail(todo))
    BY <1>2, <1>5, TailIsSeq
  <2>2. /\ new.stage = "rows" /\ new.who = msgs[n].from /\ new.n = n /\ new.todo = Tail(todo)
        /\ new = [stage |-> "rows", who |-> new.who, n |-> new.n, todo |-> new.todo]
    BY <1>2, <1>5
  <2>3. Reaches(msg, Range(new.todo))
    BY <1>2, <1>5, <2>1, <2>2 DEF Reaches
  <2>4. Len(msgs') = Len(msgs) /\ msgs'[n] = msg
    BY <1>2, <1>3, <1>5, FunctionIsSeq DEF MailInv, IsSeq
  <2>5. IsRequest(new, msgs', store)
    BY <1>2, <1>5, <2>1, <2>2, <2>3, <2>4 DEF IsRequest
  <2>6. req' = [req EXCEPT ![r] = new]
    BY <1>5 DEF Become
  <2> QED
    BY <1>1, <1>2, <1>5, <2>2, <2>5, <2>6, MoreMail
<1>6. ASSUME NEW key, NEW answered, CreateRow(n, key, answered)
      PROVE  \E msg : Now(msg, msgs[n].keys \cup {key}, msgs[n].lost, answered)
  <2>1. PICK msg : msg = [msgs[n] EXCEPT !.keys = msgs[n].keys \cup {key}, !.answered = answered]
    OBVIOUS
  <2>2. msgs' = [msgs EXCEPT ![n] = msg]
    BY <1>3, <1>6, <2>1 DEF CreateRow
  <2>3. ASSUME NEW old, IsMessage(old),
               msg = [old EXCEPT !.keys = old.keys \cup {key}, !.answered = answered]
        PROVE  /\ msg.from = old.from /\ msg.to = old.to /\ msg.at = old.at
               /\ msg.keys = old.keys \cup {key} /\ msg.lost = old.lost
               /\ msg.answered = answered /\ IsMessage(msg)
    BY <2>3 DEF IsMessage
  <2>4. /\ msg.from = msgs[n].from /\ msg.to = msgs[n].to /\ msg.at = msgs[n].at
        /\ msg.keys = msgs[n].keys \cup {key} /\ msg.lost = msgs[n].lost
        /\ msg.answered = answered /\ IsMessage(msg)
    BY <1>3, <2>1, <2>3
  <2> HIDE DEF n
  <2> QED
    BY <2>2, <2>4
<1>7. ASSUME NEW members, NEW answered, LoseRow(n, members, answered)
      PROVE  \E msg : Now(msg, msgs[n].keys, msgs[n].lost \cup members, answered)
  <2>1. PICK msg : msg = [msgs[n] EXCEPT !.lost = msgs[n].lost \cup members, !.answered = answered]
    OBVIOUS
  <2>2. msgs' = [msgs EXCEPT ![n] = msg]
    BY <1>3, <1>7, <2>1 DEF LoseRow
  <2>3. ASSUME NEW old, IsMessage(old),
               msg = [old EXCEPT !.lost = old.lost \cup members, !.answered = answered]
        PROVE  /\ msg.from = old.from /\ msg.to = old.to /\ msg.at = old.at
               /\ msg.keys = old.keys /\ msg.lost = old.lost \cup members
               /\ msg.answered = answered /\ IsMessage(msg)
    BY <2>3 DEF IsMessage
  <2>4. /\ msg.from = msgs[n].from /\ msg.to = msgs[n].to /\ msg.at = msgs[n].at
        /\ msg.keys = msgs[n].keys /\ msg.lost = msgs[n].lost \cup members
        /\ msg.answered = answered /\ IsMessage(msg)
    BY <1>3, <2>1, <2>3
  <2> HIDE DEF n
  <2> QED
    BY <2>2, <2>4
<1> HIDE DEF Now
<1>8. CASE todo # <<>>
  <2>1. PICK new : new = [stage |-> "rows", who |-> req[r].who, n |-> n, todo |-> Tail(todo)]
    OBVIOUS
  <2>2. new = [req[r] EXCEPT !.todo = Tail(todo)]
    <3>1. ASSUME NEW rq, NEW rest,
                 rq = [stage |-> "rows", who |-> rq.who, n |-> rq.n, todo |-> rq.todo]
          PROVE  [rq EXCEPT !.todo = rest] = [stage |-> "rows", who |-> rq.who, n |-> rq.n, todo |-> rest]
      BY <3>1
    <3> QED
      BY <1>2, <2>1, <3>1
  <2>3. Become(r, new)
    BY <1>8, <2>2 DEF Deliver
  <2>4. CASE CreateRow(n, NewKey(n, Head(todo), "Inbox"), FALSE)
    <3>1. PICK key : key = NewKey(n, Head(todo), "Inbox")
      OBVIOUS
    <3>2. key.folder = "Inbox" /\ key.owner = Head(todo)
      BY <3>1 DEF NewKey
    <3>3. PICK msg : Now(msg, msgs[n].keys \cup {key}, msgs[n].lost, FALSE)
      BY <1>6, <2>4, <3>1
    <3>4. Open(msg) /\ Got(msg) = Got(msgs[n]) \cup {Head(todo)}
      BY <1>2, <3>2, <3>3 DEF Now, Open, Got
    <3> QED
      BY <1>5, <1>8, <2>1, <2>3, <3>3, <3>4 DEF Now
  <2>5. CASE LoseRow(n, {Head(todo)}, FALSE)
    <3>1. PICK msg : Now(msg, msgs[n].keys, msgs[n].lost \cup {Head(todo)}, FALSE)
      BY <1>7, <2>5
    <3>2. Open(msg) /\ Got(msg) = Got(msgs[n])
      BY <1>2, <3>1 DEF Now, Open, Got
    <3> QED
      BY <1>5, <1>8, <2>1, <2>3, <3>1, <3>2 DEF Now
  <2> QED
    BY <1>8, <2>4, <2>5 DEF Deliver
<1>9. CASE todo = <<>>
  <2>1. Become(r, Idle)
    BY <1>9 DEF Deliver
  <2>2. CASE CreateRow(n, NewKey(n, req[r].who, "Sent"), TRUE)
    <3>1. PICK key : key = NewKey(n, req[r].who, "Sent")
      OBVIOUS
    <3>2. key.folder = "Sent"
      BY <3>1 DEF NewKey
    <3>3. PICK msg : Now(msg, msgs[n].keys \cup {key}, msgs[n].lost, TRUE)
      BY <1>6, <2>2, <3>1
    <3>4. Got(msg) = Got(msgs[n])
      BY <3>2, <3>3 DEF Now, Got
    <3> QED
      BY <1>4, <1>9, <2>1, <3>3, <3>4 DEF Now
  <2>3. CASE LoseRow(n, {}, TRUE)
    <3>1. PICK msg : Now(msg, msgs[n].keys, msgs[n].lost \cup {}, TRUE)
      BY <1>7, <2>3
    <3>2. Got(msg) = Got(msgs[n])
      BY <3>1 DEF Now, Got
    <3> QED
      BY <1>4, <1>9, <2>1, <3>1, <3>2 DEF Now
  <2> QED
    BY <1>9, <2>2, <2>3 DEF Deliver
<1> QED
  BY <1>8, <1>9

(* The answer of the in-memory store.                                       *)
LEMMA RecordKeepsMail ==
  ASSUME MailInv, NEW r \in Requests, record_pm_sent(r)
  PROVE  MailInv'
<1> DEFINE n == req[r].n
<1>1. /\ req[r].stage = "record" /\ UNCHANGED <<store, clock>>
      /\ msgs' = [msgs EXCEPT ![n].answered = TRUE] /\ Become(r, Idle)
  BY DEF record_pm_sent, Sending
<1>2. store = "memory" /\ n \in 1..Len(msgs) /\ Reaches(msgs[n], {})
  BY <1>1 DEF MailInv, IsRequest, Idle
<1>3. IsMessage(msgs[n]) /\ DOMAIN msgs = 1..Len(msgs)
  BY <1>2, AppendIsSeq DEF MailInv
<1>4. PICK msg : msg = [msgs[n] EXCEPT !.answered = TRUE]
  OBVIOUS
<1>5. /\ msg.from = msgs[n].from /\ msg.to = msgs[n].to /\ msg.at = msgs[n].at
      /\ msg.keys = msgs[n].keys /\ msg.lost = msgs[n].lost /\ IsMessage(msg)
  <2>1. ASSUME NEW old, IsMessage(old), msg = [old EXCEPT !.answered = TRUE]
        PROVE  /\ msg.from = old.from /\ msg.to = old.to /\ msg.at = old.at
               /\ msg.keys = old.keys /\ msg.lost = old.lost /\ IsMessage(msg)
    BY <2>1 DEF IsMessage
  <2> QED
    BY <1>3, <1>4, <2>1
<1>6. Got(msg) = Got(msgs[n])
  BY <1>5 DEF Got
<1>7. msgs' = [msgs EXCEPT ![n] = msg] /\ req' = [req EXCEPT ![r] = Idle]
  BY <1>1, <1>4 DEF Become
<1>8. IsRequest(Idle, msgs', store) /\ Idle.stage # "rows"
  BY DEF IsRequest, Idle
<1>9. Reaches(msg, {})
  BY <1>2, <1>5, <1>6 DEF Reaches
<1>10. UNCHANGED <<store, clock>>
  BY <1>1
<1> HIDE DEF n
<1> QED
  BY <1>2, <1>5, <1>6, <1>7, <1>8, <1>9, <1>10, MoreMail

(* What a request about labels or a count becomes.                          *)
LEMMA OthersKeepMail ==
  ASSUME MailInv, NEW r \in Requests,
         \/ \E m \in Senders, list \in Lists : controller_send(r, m, list)
         \/ send_pm(r) \/ Fail(r) \/ StripLabel(r) \/ WriteLabels(r)
         \/ \E m \in Labellers : \E ns, l, add : label_personal_messages(r, m, ns, l, add)
         \/ \E m \in Labellers : \E l : delete_pm_labels(r, m, l)
  PROVE  MailInv'
<1>1. ASSUME NEW new, Become(r, new), IsRequest(new, msgs, store), new.stage # "rows",
             UNCHANGED <<msgs, store, clock>>
      PROVE  MailInv'
  BY <1>1, QuietMail DEF Become, MailInv
<1>2. IsRequest(Idle, msgs, store) /\ Idle.stage # "rows"
  BY DEF IsRequest, Idle
<1>3. CASE \E m \in Senders, list \in Lists : controller_send(r, m, list)
  <2>1. PICK m \in Senders, list \in Lists : controller_send(r, m, list)
    BY <1>3
  <2>2. PICK new : new = [stage |-> "count", who |-> m, to |-> resolve_recipients(list),
                          counted |-> FALSE]
    OBVIOUS
  <2>3. Become(r, new) /\ UNCHANGED <<msgs, store, clock>>
    BY <2>1, <2>2 DEF controller_send, Letter, Sending
  <2>4. IsSeq(resolve_recipients(list)) /\ m \in Members
    BY ListsAreSeqs, MailAssumption
  <2>5. IsRequest(new, msgs, store) /\ new.stage # "rows"
    BY <2>2, <2>4 DEF IsRequest
  <2> QED
    BY <1>1, <2>3, <2>5
<1>4. CASE send_pm(r)
  <2>1. req[r].stage = "count" /\ UNCHANGED <<msgs, store, clock>>
    BY <1>4 DEF send_pm, Sending
  <2>2. /\ req[r] = [stage |-> "count", who |-> req[r].who, to |-> req[r].to,
                     counted |-> req[r].counted]
        /\ IsSeq(req[r].to) /\ req[r].who \in Members
    BY <2>1 DEF MailInv, IsRequest, Idle
  <2>3. \E counted : \/ Become(r, [stage |-> "write", who |-> req[r].who, to |-> req[r].to,
                                   counted |-> counted])
                     \/ Become(r, Idle)
    <3>1. ASSUME NEW rq, rq = [stage |-> "count", who |-> rq.who, to |-> rq.to,
                               counted |-> rq.counted],
                 NEW c, NEW new,
                 \/ new = [rq EXCEPT !.stage = "write", !.counted = c]
                 \/ new = [rq EXCEPT !.stage = "write"] /\ c = rq.counted
          PROVE  new = [stage |-> "write", who |-> rq.who, to |-> rq.to, counted |-> c]
      BY <3>1
    <3>2. CASE Become(r, [req[r] EXCEPT !.stage = "write", !.counted = Alone(r)])
      <4>1. PICK c, new : /\ c = Alone(r) /\ Become(r, new)
                          /\ new = [req[r] EXCEPT !.stage = "write", !.counted = c]
        BY <3>2
      <4>2. new = [stage |-> "write", who |-> req[r].who, to |-> req[r].to, counted |-> c]
        BY <2>2, <3>1, <4>1
      <4> QED
        BY <4>1, <4>2
    <3>3. CASE Become(r, [req[r] EXCEPT !.stage = "write"])
      <4>1. PICK c, new : /\ c = req[r].counted /\ Become(r, new)
                          /\ new = [req[r] EXCEPT !.stage = "write"]
        BY <3>3
      <4>2. new = [stage |-> "write", who |-> req[r].who, to |-> req[r].to, counted |-> c]
        BY <2>2, <3>1, <4>1
      <4> QED
        BY <4>1, <4>2
    <3>4. CASE Become(r, Idle)
      BY <3>4
    <3> QED
      BY <1>4, <3>2, <3>3, <3>4 DEF send_pm
  <2>4. PICK counted : \/ Become(r, [stage |-> "write", who |-> req[r].who, to |-> req[r].to,
                                     counted |-> counted])
                       \/ Become(r, Idle)
    BY <2>3
  <2>5. PICK new : new = [stage |-> "write", who |-> req[r].who, to |-> req[r].to,
                          counted |-> counted]
    OBVIOUS
  <2>6. IsRequest(new, msgs, store) /\ new.stage # "rows"
    BY <2>2, <2>5 DEF IsRequest
  <2> QED
    BY <1>1, <1>2, <2>1, <2>4, <2>5, <2>6
<1>5. CASE Fail(r)
  BY <1>1, <1>2, <1>5 DEF Fail
<1>6. ASSUME NEW m \in Members, NEW plan, store = "surreal"
      PROVE  IsRequest(Writing(m, plan), msgs, store) /\ Writing(m, plan).stage # "rows"
  <2>1. PICK new : new = [stage |-> "label", who |-> m, plan |-> plan]
    OBVIOUS
  <2>2. IsRequest(new, msgs, store) /\ new.stage # "rows"
    BY <1>6, <2>1 DEF IsRequest
  <2>3. Writing(m, plan) = Idle \/ Writing(m, plan) = new
    BY <2>1 DEF Writing
  <2> QED
    BY <1>2, <2>2, <2>3
<1>7. CASE StripLabel(r) \/ WriteLabels(r)
  <2>1. req[r].stage \in {"strip", "label"} /\ UNCHANGED <<msgs, store, clock>>
    BY <1>7 DEF StripLabel, WriteLabels
  <2>2. store = "surreal" /\ req[r].who \in Members
    BY <2>1 DEF MailInv, IsRequest, Idle
  <2>3. Become(r, Idle) \/ \E plan : Become(r, Writing(req[r].who, plan))
    BY <1>7 DEF StripLabel, WriteLabels
  <2> QED
    BY <1>1, <1>2, <1>6, <2>1, <2>2, <2>3
<1>8. ASSUME NEW m \in Labellers, NEW ns, NEW l, NEW add,
             label_personal_messages(r, m, ns, l, add)
      PROVE  MailInv'
  <2>1. m \in Members /\ UNCHANGED <<msgs, store, clock>>
    BY <1>8, MailAssumption DEF label_personal_messages
  <2>2. UNCHANGED req \/ (store # "memory" /\ \E plan : Become(r, Writing(m, plan)))
    BY <1>8 DEF label_personal_messages
  <2>3. store \in {"memory", "surreal"}
    BY DEF MailInv
  <2>4. CASE UNCHANGED req
    BY <2>1, <2>4, QuietMail DEF MailInv
  <2> QED
    BY <1>1, <1>6, <2>1, <2>2, <2>3, <2>4
<1>9. ASSUME NEW m \in Labellers, NEW l,
             delete_pm_labels(r, m, l)
      PROVE  MailInv'
  <2>1. m \in Members /\ UNCHANGED <<msgs, store, clock>>
    BY <1>9, MailAssumption DEF delete_pm_labels
  <2>2. PICK new : new = [stage |-> "strip", who |-> m, label |-> l]
    OBVIOUS
  <2>3. UNCHANGED req \/ (store # "memory" /\ Become(r, new))
    BY <1>9, <2>2 DEF delete_pm_labels
  <2>4. store \in {"memory", "surreal"}
    BY DEF MailInv
  <2>5. store # "memory" => IsRequest(new, msgs, store) /\ new.stage # "rows"
    BY <2>1, <2>2, <2>4 DEF IsRequest
  <2>6. CASE UNCHANGED req
    BY <2>1, <2>6, QuietMail DEF MailInv
  <2> QED
    BY <1>1, <2>1, <2>3, <2>5, <2>6
<1> QED
  BY <1>3, <1>4, <1>5, <1>7, <1>8, <1>9

(* A letter is sent from there.                                             *)
LEMMA WriteKeepsMail ==
  ASSUME MailInv, NEW r \in Requests,
         \/ \E m \in Senders, list \in Lists :
              send_personal_message_api(r, m, list) \/ agent_send(r, m, list)
         \/ \E list \in Lists : admin_notify(r, list)
         \/ req[r].stage = "write" /\ Write(r, req[r])
  PROVE  MailInv'
<1>1. ASSUME NEW m, NEW to, NEW by, IsSeq(to), send_personal_message(r, Letter(m, to, by))
      PROVE  MailInv'
  <2>1. PICK rq : rq = Letter(m, to, by)
    OBVIOUS
  <2>2. rq.to = to
    BY <2>1 DEF Letter
  <2> QED
    BY <1>1, <2>1, <2>2, SurrealSends
<1>2. \A list \in Lists : IsSeq(list) /\ IsSeq(resolve_recipients(list))
  BY ListsAreSeqs
<1>3. CASE \E m \in Senders, list \in Lists :
              send_personal_message_api(r, m, list) \/ agent_send(r, m, list)
  BY <1>1, <1>2, <1>3 DEF send_personal_message_api, agent_send
<1>4. CASE \E list \in Lists : admin_notify(r, list)
  BY <1>1, <1>2, <1>4 DEF admin_notify
<1>5. CASE req[r].stage = "write" /\ Write(r, req[r])
  <2>1. IsSeq(req[r].to) /\ req[r].who \in Members
    BY <1>5 DEF MailInv, IsRequest, Idle
  <2> QED
    BY <1>5, <2>1, SurrealSends, MemorySends DEF Write
<1> QED
  BY <1>3, <1>4, <1>5

(* The messages stay in order.                                              *)
THEOREM MailInvariant == MailSpec => []MailInv
<1>1. MailInit => MailInv
  <2>1. SUFFICES ASSUME MailInit
                 PROVE  MailInv
    OBVIOUS
  <2>2. /\ clock = 0 /\ msgs = <<>> /\ req = [r \in Requests |-> Idle] /\ store \in Stores
    BY <2>1 DEF MailInit
  <2>3. IsSeq(<<>>) /\ Len(<<>>) = 0
    <3>1. <<>> \in Seq(Members) /\ Len(<<>>) = 0
      BY EmptySeq
    <3> QED
      BY <3>1, SeqIsSeq
  <2>4. Idle.stage = "idle"
    BY DEF Idle
  <2> QED
    BY <2>2, <2>3, <2>4, MailAssumption DEF MailInv, IsRequest
<1>2. ASSUME MailInv, [MailNext]_mailVars
      PROVE  MailInv'
  <2>1. ASSUME NEW r \in Requests, SendStep(r) \/ StripLabel(r) \/ WriteLabels(r)
        PROVE  MailInv'
    BY <1>2, <2>1, OthersKeepMail, WriteKeepsMail, RecordKeepsMail DEF SendStep
  <2>2. ASSUME NEW r \in Requests, LabelStep(r)
        PROVE  MailInv'
    BY <1>2, <2>2, OthersKeepMail DEF LabelStep
  <2>3. ASSUME NEW r \in Requests, NEW list \in Lists, admin_notify(r, list)
        PROVE  MailInv'
    BY <1>2, <2>3, WriteKeepsMail
  <2>4. ASSUME UNCHANGED <<msgs, store, clock, req>>
        PROVE  MailInv'
    BY <1>2, <2>4, QuietMail DEF MailInv
  <2>5. CASE Tick
    BY <1>2, <2>5, QuietMail DEF MailInv, Tick
  <2>6. CASE Tidy
    BY <2>4, <2>6 DEF Tidy
  <2>7. ASSUME NEW m, create_pm_label(m)
        PROVE  MailInv'
    BY <2>4, <2>7 DEF create_pm_label
  <2>8. CASE UNCHANGED mailVars
    BY <2>4, <2>8 DEF mailVars
  <2> QED
    BY <1>2, <2>1, <2>2, <2>3, <2>5, <2>6, <2>7, <2>8, DeliverKeepsMail DEF MailNext
<1> QED
  BY <1>1, <1>2, PTL DEF MailSpec

(* A message that is found under Sent, or whose sender was told, is in the  *)
(* inbox of every recipient whose row was not lost, and of nobody else, or  *)
(* was.                                                                     *)
THEOREM SentIsDeliveredHolds == MailSpec => []SentIsDelivered
<1>1. MailInv => SentIsDelivered
  <2>1. SUFFICES ASSUME MailInv, NEW n \in DOMAIN msgs
                 PROVE  \/ ~msgs[n].answered /\ \A k \in msgs[n].keys : k.folder = "Inbox"
                        \/ Reaches(msgs[n], {})
    BY DEF SentIsDelivered, Got, Reaches
  <2>2. n \in 1..Len(msgs)
    BY <2>1, AppendIsSeq DEF MailInv
  <2> QED
    BY <2>1, <2>2 DEF MailInv, Open
<1> QED
  BY <1>1, MailInvariant, PTL
-----------------------------------------------------------------------------
(* The hourly limit.                                                        *)

(* Some of the places of a sequence.                                        *)
LEMMA PlacesAreFinite ==
  ASSUME NEW s, IsSeq(s), NEW T, T \subseteq DOMAIN s
  PROVE  IsFiniteSet(T) /\ Cardinality(T) \in Nat
<1>1. DOMAIN s = 1..Len(s) /\ Len(s) \in Nat
  BY AppendIsSeq DEF IsSeq
<1>2. IsFiniteSet(1..Len(s)) /\ T \in SUBSET (1..Len(s))
  BY <1>1, FS_Interval
<1>3. IsFiniteSet(T)
  BY <1>2, FS_Subset
<1> QED
  BY <1>3, FS_CardinalityType

(* What is counted by its numbers.                                          *)
LEMMA NumbersAreFewer ==
  ASSUME NEW E, IsFiniteSet(E), NEW T, T \subseteq {e.n : e \in E}
  PROVE  Cardinality(T) <= Cardinality(E)
<1> DEFINE N == {e.n : e \in E}
           f == [e \in E |-> e.n]
<1>1. f \in Surjection(E, N)
  BY DEF Surjection
<1> HIDE DEF f
<1>2. IsFiniteSet(N) /\ Cardinality(N) <= Cardinality(E)
  BY <1>1, FS_Surjection
<1>3. Cardinality(T) <= Cardinality(N) /\ IsFiniteSet(T)
  BY <1>2, FS_Subset
<1>4. Cardinality(T) \in Nat /\ Cardinality(N) \in Nat /\ Cardinality(E) \in Nat
  BY <1>2, <1>3, FS_CardinalityType
<1> QED
  BY <1>2, <1>3, <1>4

(* Room is kept by a step of one request that counts its message, or is let *)
(* through when there is room and no other.                                 *)
LEMMA RoomKept ==
  ASSUME IsSeq(msgs), IsSeq(msgs'), RoomInv, store \in Stores, UNCHANGED store, NEW r,
         \A q \in Requests \ {r} : Counting(q)' => Counting(q) /\ req'[q].who = req[q].who,
         r \in Requests /\ Counting(r)' =>
           \/ Counting(r) /\ req'[r].who = req[r].who
           \/ /\ \A q \in Requests \ {r} : Counting(q) => req[q].who # req'[r].who
              /\ Cardinality(Counted(req'[r].who)) < PerHour[store],
         \A m : \/ Counted(m)' \subseteq Counted(m)
                \/ /\ r \in Requests /\ Counting(r) /\ ~Counting(r)' /\ m = req[r].who
                   /\ \E n : Counted(m)' \subseteq Counted(m) \cup {n}
  PROVE  RoomInv'
<1>1. \A m : Counted(m) \subseteq DOMAIN msgs /\ Counted(m)' \subseteq DOMAIN msgs'
  BY DEF Counted
<1>2. \A m : /\ IsFiniteSet(Counted(m)) /\ Cardinality(Counted(m)) \in Nat
             /\ IsFiniteSet(Counted(m)') /\ Cardinality(Counted(m)') \in Nat
  BY <1>1, PlacesAreFinite
<1>3. ASSUME NEW m, Counted(m)' \subseteq Counted(m)
      PROVE  Cardinality(Counted(m)') <= Cardinality(Counted(m))
  BY <1>2, <1>3, FS_Subset
<1>4. PerHour[store] \in Nat /\ PerHour[store]' = PerHour[store]
  BY MailAssumption
<1>5. ASSUME NEW m
      PROVE  Cardinality(Counted(m)') <= PerHour[store]
  <2>1. CASE Counted(m)' \subseteq Counted(m)
    BY <1>2, <1>3, <1>4, <2>1 DEF RoomInv
  <2>2. CASE ~(Counted(m)' \subseteq Counted(m))
    <3>1. PICK n : Counted(m)' \subseteq Counted(m) \cup {n}
      BY <2>2
    <3>2. /\ IsFiniteSet(Counted(m) \cup {n})
          /\ Cardinality(Counted(m) \cup {n}) <= Cardinality(Counted(m)) + 1
      <4>1. ASSUME NEW C, IsFiniteSet(C), Cardinality(C) \in Nat
            PROVE  IsFiniteSet(C \cup {n}) /\ Cardinality(C \cup {n}) <= Cardinality(C) + 1
        <5>1. /\ IsFiniteSet(C \cup {n})
              /\ Cardinality(C \cup {n}) = IF n \in C THEN Cardinality(C) ELSE Cardinality(C) + 1
          BY <4>1, FS_AddElement
        <5> QED
          BY <4>1, <5>1
      <4> QED
        BY <1>2, <4>1
    <3>3. Cardinality(Counted(m)') <= Cardinality(Counted(m) \cup {n})
      BY <3>1, <3>2, FS_Subset
    <3>4. Cardinality(Counted(m) \cup {n}) \in Nat
      BY <3>2, FS_CardinalityType
    <3>5. Cardinality(Counted(m)) < PerHour[store]
      BY <2>2 DEF RoomInv
    <3> QED
      BY <1>2, <1>4, <3>2, <3>3, <3>4, <3>5
  <2> QED
    BY <2>1, <2>2
<1>6. ASSUME NEW q \in Requests, Counting(q)'
      PROVE  Cardinality(Counted(req[q].who))' < PerHour[store]
  <2>1. PICK w : w = req'[q].who
    OBVIOUS
  <2>2. Counted(w)' \subseteq Counted(w)
    <3>1. CASE q = r
      BY <1>6, <3>1
    <3>2. CASE q # r
      BY <1>6, <2>1, <3>2 DEF RoomInv
    <3> QED
      BY <3>1, <3>2
  <2>3. Cardinality(Counted(w)) < PerHour[store]
    BY <1>6, <2>1 DEF RoomInv
  <2>4. Cardinality(Counted(w)') < PerHour[store]
    BY <1>2, <1>3, <1>4, <2>2, <2>3
  <2> QED
    BY <2>1, <2>4 DEF Counted
<1>7. ASSUME NEW q \in Requests, NEW s \in Requests, Counting(q)', Counting(s)',
             req'[q].who = req'[s].who
      PROVE  q = s
  BY <1>7 DEF RoomInv
<1> QED
  BY <1>5, <1>6, <1>7 DEF RoomInv

(* A counted sender has room, and no other message on its way.              *)
LEMMA LetThrough ==
  ASSUME MailInv, LimitInv, NEW r \in Requests, req[r].stage = "count", Alone(r),
         count_pm_sent_since(req[r].who) < PerHour[store]
  PROVE  /\ Cardinality(Counted(req[r].who)) < PerHour[store]
         /\ \A q \in Requests \ {r} : Counting(q) => req[q].who # req[r].who
<1>1. PICK w : w = req[r].who
  OBVIOUS
<1>2. w \in Members
  BY <1>1 DEF MailInv, IsRequest, Idle
<1>3. /\ DOMAIN msgs = 1..Len(msgs) /\ store \in {"memory", "surreal"} /\ IsSeq(msgs)
      /\ store \in Stores
  BY AppendIsSeq DEF MailInv
<1>4. Counted(w) \subseteq DOMAIN msgs
  BY DEF Counted
<1>5. Cardinality(Counted(w)) \in Nat /\ PerHour[store] \in Nat \ {0}
  BY <1>3, <1>4, PlacesAreFinite, MailAssumption
<1>6. ASSUME NEW E, NEW S, IsFiniteSet(S), E \subseteq S, Cardinality(E) < PerHour[store],
             Counted(w) \subseteq {e.n : e \in E}
      PROVE  Cardinality(Counted(w)) < PerHour[store]
  <2>1. IsFiniteSet(E)
    BY <1>6, FS_Subset
  <2>2. Cardinality(Counted(w)) <= Cardinality(E) /\ Cardinality(E) \in Nat
    BY <1>6, <2>1, NumbersAreFewer, FS_CardinalityType
  <2> QED
    BY <1>5, <1>6, <2>2
<1>7. ASSUME store = "memory"
      PROVE  Cardinality(Counted(w)) < PerHour[store]
  <2>1. PICK E : E = {e \in sent_log[w] : e.at = clock}
    OBVIOUS
  <2>2. Cardinality(E) < PerHour[store] /\ E \subseteq sent_log[w] /\ IsFiniteSet(sent_log[w])
    BY <1>1, <1>2, <1>7, <2>1 DEF count_pm_sent_since, LimitInv, LogInv
  <2>3. ASSUME NEW n \in Counted(w)
        PROVE  n \in {e.n : e \in E}
    <3>1. n \in 1..Len(msgs) /\ msgs[n].from = w /\ msgs[n].at = clock
      BY <1>3 DEF Counted
    <3>2. \A q \in Requests : ~(req[q].stage = "record" /\ req[q].n = n)
      <4>1. ASSUME NEW q \in Requests, req[q].stage = "record", req[q].n = n
            PROVE  FALSE
        <5>1. req[q].who = w
          BY <3>1, <4>1 DEF MailInv, IsRequest, Idle
        <5> QED
          BY <1>1, <4>1, <5>1 DEF Alone
      <4> QED
        BY <4>1
    <3>3. [n |-> n, at |-> clock] \in sent_log[w]
      BY <1>2, <1>7, <3>1, <3>2 DEF LimitInv, LogInv
    <3>4. PICK e : e = [n |-> n, at |-> clock]
      OBVIOUS
    <3>5. e.n = n /\ e.at = clock
      BY <3>4
    <3> QED
      BY <2>1, <3>3, <3>4, <3>5
  <2> QED
    BY <1>6, <2>2, <2>3
<1>8. ASSUME store = "surreal"
      PROVE  Cardinality(Counted(w)) < PerHour[store]
  <2>1. Cardinality({}) = 0
    BY FS_EmptySet
  <2>2. CASE PerHour[store] # 1
    <3>1. Counted(w) = {}
      BY <1>8, <2>2 DEF Counted
    <3> QED
      BY <1>5, <2>1, <3>1
  <2>3. CASE PerHour[store] = 1
    <3>1. ~\E k \in personal_message_page(w, "Sent") : msgs[k.n].at = clock
      BY <1>1, <1>8, <2>3 DEF count_pm_sent_since
    <3>2. Counted(w) = {}
      BY <1>8, <3>1 DEF Counted, personal_message_page
    <3> QED
      BY <1>5, <2>1, <3>2
  <2> QED
    BY <2>2, <2>3
<1> QED
  BY <1>1, <1>3, <1>7, <1>8 DEF Alone, Counting

(* A step that sends nothing and creates no row.                            *)
LEMMA QuietLimit ==
  ASSUME MailInv, LimitInv, UNCHANGED <<msgs, sent_log, store, clock>>,
         DOMAIN rows' \subseteq DOMAIN rows,
         \/ UNCHANGED req
         \/ \E r \in Requests : \E new :
              /\ req' = [req EXCEPT ![r] = new]
              /\ req[r].stage # "record" /\ new.stage # "rows"
              /\ new.stage = "write" /\ new.counted =>
                   /\ Cardinality(Counted(new.who)) < PerHour[store]
                   /\ \A q \in Requests \ {r} : Counting(q) => req[q].who # new.who
  PROVE  LimitInv'
<1>1. RowsInv'
  BY FS_Subset DEF LimitInv, RowsInv
<1>2. \A m : Counted(m)' \subseteq Counted(m)
  BY DEF Counted, Of
<1>3. IsSeq(msgs) /\ store \in Stores /\ UNCHANGED store
  BY DEF MailInv
<1>4. CASE UNCHANGED req
  <2>1. \A q \in Requests : Counting(q)' => Counting(q) /\ req'[q].who = req[q].who
    BY <1>4 DEF Counting
  <2>2. LogInv'
    BY <1>4 DEF LimitInv, LogInv
  <2>3. RoomInv'
    <3>1. PICK r : r \notin Requests
      BY NoSetContainsEverything
    <3> QED
      BY <1>2, <1>3, <2>1, <3>1, RoomKept DEF LimitInv
  <2> QED
    BY <1>1, <2>2, <2>3 DEF LimitInv
<1>5. ASSUME NEW r \in Requests, NEW new,
             req' = [req EXCEPT ![r] = new],
             req[r].stage # "record", new.stage # "rows",
             new.stage = "write" /\ new.counted =>
               /\ Cardinality(Counted(new.who)) < PerHour[store]
               /\ \A q \in Requests \ {r} : Counting(q) => req[q].who # new.who
      PROVE  LimitInv'
  <2>1. \A q \in Requests : req'[q] = IF q = r THEN new ELSE req[q]
    BY <1>5 DEF MailInv
  <2>2. \A q \in Requests \ {r} : Counting(q)' => Counting(q) /\ req'[q].who = req[q].who
    BY <2>1 DEF Counting
  <2>3. Counting(r)' => /\ \A q \in Requests \ {r} : Counting(q) => req[q].who # req'[r].who
                        /\ Cardinality(Counted(req'[r].who)) < PerHour[store]
    BY <1>5, <2>1 DEF Counting
  <2>4. RoomInv'
    BY <1>2, <1>3, <2>2, <2>3, RoomKept DEF LimitInv
  <2>5. LogInv'
    BY <1>5, <2>1 DEF LimitInv, LogInv
  <2> QED
    BY <1>1, <2>4, <2>5 DEF LimitInv
<1> QED
  BY <1>4, <1>5

(* A letter goes to SurrealDB: its rows come later.                         *)
LEMMA SurrealLimit ==
  ASSUME MailInv, MailInv', LimitInv, NEW r \in Requests, NEW rq,
         send_personal_message(r, rq),
         ~rq.counted \/ (req[r] = rq /\ rq.stage = "write")
  PROVE  LimitInv'
<1> DEFINE n == Len(msgs) + 1
<1>1. PICK new : new = [stage |-> "rows", who |-> rq.who, n |-> n, todo |-> rq.to]
  OBVIOUS
<1>2. /\ msgs' = Append(msgs, Message(rq, {})) /\ req' = [req EXCEPT ![r] = new]
      /\ store = "surreal" /\ UNCHANGED <<store, clock, rows, sent_log>>
  BY <1>1 DEF send_personal_message, Become, Sending
<1>3. /\ Len(msgs') = n /\ msgs'[n].counted = rq.counted
      /\ \A i \in 1..Len(msgs) : msgs'[i] = msgs[i]
      /\ DOMAIN msgs = 1..Len(msgs) /\ DOMAIN msgs' = 1..n /\ Len(msgs) \in Nat
  <2>1. IsSeq(msgs') /\ IsSeq(msgs)
    BY DEF MailInv
  <2> QED
    BY <1>2, <2>1, AppendIsSeq DEF Message, IsSeq
<1> HIDE DEF n
<1>4. /\ new.stage = "rows" /\ new.who = rq.who /\ new.n = n
      /\ \A q \in Requests : req'[q] = IF q = r THEN new ELSE req[q]
  BY <1>1, <1>2 DEF MailInv
<1>5. RowsInv'
  BY <1>2, <1>3 DEF LimitInv, RowsInv, n
<1>6. LogInv'
  BY <1>2 DEF LimitInv, LogInv
<1>7. \A m : Counted(m)' \subseteq Counted(m)
  <2>1. \A k \in DOMAIN rows : k.n \in 1..Len(msgs)
    BY DEF LimitInv, RowsInv
  <2> QED
    BY <1>2, <1>3, <2>1 DEF Counted, Of
<1>8. ASSUME NEW q \in Requests \ {r}, Counting(q)'
      PROVE  Counting(q) /\ req'[q].who = req[q].who
  <2>1. req[q].stage = "rows" => req[q].n \in 1..Len(msgs)
    BY DEF MailInv, IsRequest, Idle
  <2> QED
    BY <1>3, <1>4, <1>8, <2>1 DEF Counting
<1>9. Counting(r)' => Counting(r) /\ req'[r].who = req[r].who
  BY <1>3, <1>4 DEF Counting
<1>10. IsSeq(msgs) /\ IsSeq(msgs') /\ store \in Stores /\ UNCHANGED store
  BY <1>2 DEF MailInv
<1>11. RoomInv'
  BY <1>7, <1>8, <1>9, <1>10, RoomKept DEF LimitInv
<1> QED
  BY <1>5, <1>6, <1>11 DEF LimitInv

(* A letter in memory has its rows at once.                                 *)
LEMMA MemoryLimit ==
  ASSUME MailInv, MailInv', LimitInv, NEW r \in Requests, req[r].stage = "write",
         send_in_memory(r, req[r])
  PROVE  LimitInv'
<1> DEFINE n == Len(msgs) + 1
           w == req[r].who
           new == [stage |-> "record", who |-> w, n |-> n]
           keys == {[n |-> n, owner |-> m, folder |-> "Inbox", copy |-> 1] : m \in Range(req[r].to)}
                   \cup {[n |-> n, owner |-> w, folder |-> "Sent", copy |-> 1]}
<1>1. /\ msgs' = Append(msgs, Message(req[r], keys)) /\ req' = [req EXCEPT ![r] = new]
      /\ rows' = Added(keys) /\ store = "memory" /\ UNCHANGED <<store, clock, sent_log>>
  BY DEF send_in_memory, Become, Sending
<1>2. /\ Len(msgs') = n /\ msgs'[n].counted = req[r].counted /\ msgs'[n].from = w
      /\ \A i \in 1..Len(msgs) : msgs'[i] = msgs[i]
      /\ DOMAIN msgs = 1..Len(msgs) /\ DOMAIN msgs' = 1..n /\ Len(msgs) \in Nat
  <2>1. IsSeq(msgs') /\ IsSeq(msgs)
    BY DEF MailInv
  <2> QED
    BY <1>1, <2>1, AppendIsSeq DEF Message, IsSeq
<1>3. /\ new.stage = "record" /\ new.n = n
      /\ \A q \in Requests : req'[q] = IF q = r THEN new ELSE req[q]
  BY <1>1 DEF MailInv
<1>4. /\ IsSeq(req[r].to) /\ w \in Members
  BY DEF MailInv, IsRequest, Idle
<1>5. IsFiniteSet(keys) /\ \A k \in keys : k.n = n
  <2>1. IsFiniteSet(1..Len(req[r].to)) /\ DOMAIN req[r].to = 1..Len(req[r].to)
    <3>1. ASSUME NEW s, IsSeq(s)
          PROVE  Len(s) \in Nat /\ DOMAIN s = 1..Len(s)
      BY <3>1, AppendIsSeq DEF IsSeq
    <3>2. Len(req[r].to) \in Nat /\ DOMAIN req[r].to = 1..Len(req[r].to)
      BY <1>4, <3>1
    <3>3. ASSUME NEW c \in Nat
          PROVE  IsFiniteSet(1..c)
      BY FS_Interval
    <3> QED
      BY <3>2, <3>3
  <2> DEFINE to == req[r].to
             key(i) == [n |-> n, owner |-> to[i], folder |-> "Inbox", copy |-> 1]
             f == [i \in 1..Len(to) |-> key(i)]
             inbox == {key(i) : i \in 1..Len(to)}
  <2>2. f \in Surjection(1..Len(to), inbox)
    BY DEF Surjection
  <2> HIDE DEF f
  <2>3. IsFiniteSet(inbox)
    BY <2>1, <2>2, FS_Surjection
  <2> HIDE DEF inbox
  <2>4. IsFiniteSet(inbox \cup {[n |-> n, owner |-> w, folder |-> "Sent", copy |-> 1]})
    BY <2>3, FS_AddElement
  <2>5. keys = inbox \cup {[n |-> n, owner |-> w, folder |-> "Sent", copy |-> 1]}
    BY <2>1 DEF inbox, Range
  <2>6. \A k \in keys : k.n = n
    OBVIOUS
  <2> HIDE DEF keys
  <2> QED
    BY <2>4, <2>5, <2>6
<1> HIDE DEF n, w, new, keys
<1>6. RowsInv'
  <2>1. DOMAIN rows' = DOMAIN rows \cup keys
    BY <1>1 DEF Added
  <2>2. IsFiniteSet(DOMAIN rows \cup keys)
    BY <1>5, FS_Union DEF LimitInv, RowsInv
  <2>3. \A k \in DOMAIN rows \cup keys : k.n \in 1..n
    BY <1>2, <1>5 DEF LimitInv, RowsInv, n
  <2> QED
    BY <1>2, <2>1, <2>2, <2>3 DEF RowsInv
<1>7. LogInv'
  <2>1. ASSUME NEW i \in 1..n, msgs'[i].from \in Members, msgs'[i].at = clock
        PROVE  \/ [n |-> i, at |-> clock] \in sent_log[msgs'[i].from]
               \/ \E q \in Requests : req'[q].stage = "record" /\ req'[q].n = i
    <3>1. CASE i = n
      BY <1>3, <3>1
    <3>2. CASE i # n
      <4>1. i \in 1..Len(msgs)
        BY <1>2, <3>2 DEF n
      <4>2. \/ [n |-> i, at |-> clock] \in sent_log[msgs[i].from]
            \/ \E q \in Requests : req[q].stage = "record" /\ req[q].n = i
        BY <1>1, <1>2, <2>1, <4>1 DEF LimitInv, LogInv
      <4> QED
        BY <1>2, <1>3, <4>1, <4>2
    <3> QED
      BY <3>1, <3>2
  <2> QED
    BY <1>1, <1>2, <2>1 DEF LimitInv, LogInv
<1>8. ~Counting(r)'
  BY <1>3 DEF Counting
<1>9. ASSUME NEW m, ~(Counted(m)' \subseteq Counted(m))
      PROVE  Counting(r) /\ m = w /\ Counted(m)' \subseteq Counted(m) \cup {n}
  <2>1. ASSUME NEW i \in Counted(m)', i # n
        PROVE  i \in Counted(m)
    <3>1. i \in 1..Len(msgs)
      BY <1>2, <2>1 DEF Counted, n
    <3> QED
      BY <1>1, <1>2, <2>1, <3>1 DEF Counted
  <2>2. n \in Counted(m)'
    BY <1>9, <2>1
  <2> QED
    BY <1>2, <2>1, <2>2 DEF Counted, Counting
<1>10. ASSUME NEW q \in Requests \ {r}, Counting(q)'
       PROVE  Counting(q) /\ req'[q].who = req[q].who
  <2>1. req[q].stage = "rows" => req[q].n \in 1..Len(msgs)
    BY DEF MailInv, IsRequest, Idle
  <2> QED
    BY <1>2, <1>3, <1>10, <2>1 DEF Counting
<1>11. IsSeq(msgs) /\ IsSeq(msgs') /\ store \in Stores /\ UNCHANGED store
  BY <1>1 DEF MailInv
<1>12. RoomInv'
  BY <1>8, <1>9, <1>10, <1>11, RoomKept DEF LimitInv, w
<1> QED
  BY <1>6, <1>7, <1>12 DEF LimitInv

(* A row is created, or lost: a recipient's, or at last the sender's, with  *)
(* which the message counts and the request is over.                        *)
LEMMA DeliverLimit ==
  ASSUME MailInv, MailInv', LimitInv, NEW r \in Requests, Deliver(r)
  PROVE  LimitInv'
<1> DEFINE n == req[r].n
           w == req[r].who
           todo == req[r].todo
<1>1. req[r].stage = "rows" /\ UNCHANGED <<store, clock, sent_log>>
  BY DEF Deliver, Sending
<1>2. /\ store = "surreal" /\ n \in 1..Len(msgs) /\ IsMessage(msgs[n])
      /\ DOMAIN msgs = 1..Len(msgs)
      /\ req[r] = [stage |-> "rows", who |-> w, n |-> n, todo |-> todo]
  <2>1. store = "surreal" /\ n \in 1..Len(msgs)
        /\ req[r] = [stage |-> "rows", who |-> w, n |-> n, todo |-> todo]
    BY <1>1 DEF MailInv, IsRequest, Idle
  <2> QED
    BY <2>1, AppendIsSeq DEF MailInv
<1>3. \E key, members, answered, new :
        /\ CreateRow(n, key, answered) \/ LoseRow(n, members, answered)
        /\ Become(r, new) /\ key.n = n
        /\ \/ key.folder = "Inbox" /\ new = [req[r] EXCEPT !.todo = Tail(todo)]
           \/ key.folder = "Sent" /\ key.owner = w /\ new = Idle
  <2>1. CASE todo # <<>>
    <3>1. PICK key : key = NewKey(n, Head(todo), "Inbox")
      OBVIOUS
    <3>2. key.folder = "Inbox" /\ key.n = n
      BY <3>1 DEF NewKey
    <3>3. /\ CreateRow(n, key, FALSE) \/ LoseRow(n, {Head(todo)}, FALSE)
          /\ Become(r, [req[r] EXCEPT !.todo = Tail(todo)])
      BY <2>1, <3>1 DEF Deliver
    <3> QED
      BY <3>2, <3>3
  <2>2. CASE todo = <<>>
    <3>1. PICK key : key = NewKey(n, w, "Sent")
      OBVIOUS
    <3>2. key.folder = "Sent" /\ key.n = n /\ key.owner = w
      BY <3>1 DEF NewKey
    <3>3. CreateRow(n, key, TRUE) \/ LoseRow(n, {}, TRUE)
      BY <2>2, <3>1 DEF Deliver
    <3>4. Become(r, Idle)
      BY <2>2 DEF Deliver
    <3> QED
      BY <3>2, <3>3, <3>4
  <2> QED
    BY <2>1, <2>2
<1>4. PICK key, members, answered, new :
        /\ CreateRow(n, key, answered) \/ LoseRow(n, members, answered)
        /\ Become(r, new) /\ key.n = n
        /\ \/ key.folder = "Inbox" /\ new = [req[r] EXCEPT !.todo = Tail(todo)]
           \/ key.folder = "Sent" /\ key.owner = w /\ new = Idle
  BY <1>3
<1>5. /\ new.stage = "rows" => new.n = n /\ new.who = w /\ key.folder = "Inbox"
      /\ new.stage \in {"rows", "idle"}
  <2>1. ASSUME NEW rq, NEW rest,
               rq = [stage |-> "rows", who |-> rq.who, n |-> rq.n, todo |-> rq.todo]
        PROVE  [rq EXCEPT !.todo = rest] = [stage |-> "rows", who |-> rq.who, n |-> rq.n, todo |-> rest]
    BY <2>1
  <2> QED
    BY <1>2, <1>4, <2>1 DEF Idle
<1>6. \A q \in Requests : req'[q] = IF q = r THEN new ELSE req[q]
  BY <1>4 DEF Become, MailInv
<1>7. /\ DOMAIN msgs' = 1..Len(msgs) /\ Len(msgs') = Len(msgs)
      /\ \A i \in 1..Len(msgs) :
           /\ msgs'[i].from = msgs[i].from /\ msgs'[i].at = msgs[i].at
           /\ msgs'[i].counted = msgs[i].counted
  <2>1. PICK kept, lost :
          /\ kept = [msgs[n] EXCEPT !.keys = msgs[n].keys \cup {key}, !.answered = answered]
          /\ lost = [msgs[n] EXCEPT !.lost = msgs[n].lost \cup members, !.answered = answered]
    OBVIOUS
  <2>2. PICK msg \in {kept, lost} : msgs' = [msgs EXCEPT ![n] = msg]
    BY <1>2, <1>4, <2>1 DEF CreateRow, LoseRow
  <2>3. msg.from = msgs[n].from /\ msg.at = msgs[n].at /\ msg.counted = msgs[n].counted
    <3>1. ASSUME NEW old, IsMessage(old),
                 \/ msg = [old EXCEPT !.keys = old.keys \cup {key}, !.answered = answered]
                 \/ msg = [old EXCEPT !.lost = old.lost \cup members, !.answered = answered]
          PROVE  msg.from = old.from /\ msg.at = old.at /\ msg.counted = old.counted
      BY <3>1 DEF IsMessage
    <3> QED
      BY <1>2, <2>1, <2>2, <3>1
  <2>4. DOMAIN msgs' = 1..Len(msgs) /\ DOMAIN msgs' = 1..Len(msgs')
    BY <1>2, <2>2, AppendIsSeq DEF MailInv
  <2>5. Len(msgs') = Len(msgs)
    BY <2>2, <2>4, FunctionIsSeq DEF MailInv, IsSeq
  <2> QED
    BY <1>2, <2>2, <2>3, <2>4, <2>5
<1>8. DOMAIN rows' \subseteq DOMAIN rows \cup {key}
  BY <1>4 DEF CreateRow, LoseRow, Added
<1> HIDE DEF n, w, todo
<1>9. RowsInv'
  <2>1. IsFiniteSet(DOMAIN rows \cup {key})
    BY FS_AddElement DEF LimitInv, RowsInv
  <2>2. IsFiniteSet(DOMAIN rows')
    BY <1>8, <2>1, FS_Subset
  <2> QED
    BY <1>2, <1>4, <1>7, <1>8, <2>2 DEF LimitInv, RowsInv
<1>10. LogInv'
  BY <1>1, <1>2 DEF LimitInv, LogInv
<1>11. ASSUME NEW m, NEW i \in Counted(m)', i \notin Counted(m)
       PROVE  key.folder = "Sent" /\ m = w /\ i = n /\ msgs[n].counted
  <2>1. /\ i \in 1..Len(msgs) /\ msgs[i].from = m /\ msgs[i].at = clock /\ msgs[i].counted
        /\ PerHour[store] = 1
        /\ \E k \in DOMAIN rows' : k.owner = m /\ k.n = i /\ k.folder = "Sent"
    BY <1>1, <1>2, <1>7, <1>11 DEF Counted, Of
  <2>2. PICK k \in DOMAIN rows' : k.owner = m /\ k.n = i /\ k.folder = "Sent"
    BY <2>1
  <2>3. k \notin DOMAIN rows
    BY <1>2, <1>11, <2>1, <2>2 DEF Counted, Of
  <2>4. k = key
    BY <1>8, <2>3
  <2> QED
    BY <1>4, <2>1, <2>2, <2>4
<1>12. ASSUME NEW q \in Requests, Counting(q)'
       PROVE  Counting(q) /\ req'[q].who = req[q].who
  <2>1. req[q].stage = "rows" => req[q].n \in 1..Len(msgs)
    BY DEF MailInv, IsRequest, Idle
  <2>2. CASE q = r
    BY <1>1, <1>2, <1>5, <1>6, <1>7, <1>12, <2>2 DEF Counting, n, w
  <2>3. CASE q # r
    BY <1>6, <1>7, <1>12, <2>1, <2>3 DEF Counting
  <2> QED
    BY <2>2, <2>3
<1>13. ASSUME NEW m, ~(Counted(m)' \subseteq Counted(m))
       PROVE  /\ Counting(r) /\ ~Counting(r)' /\ m = w
              /\ Counted(m)' \subseteq Counted(m) \cup {n}
  <2>1. key.folder = "Sent" /\ m = w /\ msgs[n].counted
    BY <1>11, <1>13
  <2>2. ~Counting(r)'
    BY <1>5, <1>6, <2>1 DEF Counting
  <2> QED
    BY <1>1, <1>11, <2>1, <2>2 DEF Counting, n
<1>14. IsSeq(msgs) /\ IsSeq(msgs') /\ store \in Stores /\ UNCHANGED store
  BY <1>1 DEF MailInv
<1>15. RoomInv'
  BY <1>12, <1>13, <1>14, RoomKept DEF LimitInv, w
<1> QED
  BY <1>9, <1>10, <1>15 DEF LimitInv

(* A message in memory is logged, and keeps being counted.                  *)
LEMMA RecordLimit ==
  ASSUME MailInv, MailInv', LimitInv, NEW r \in Requests, record_pm_sent(r)
  PROVE  LimitInv'
<1> DEFINE n == req[r].n
           w == req[r].who
<1>1. /\ req[r].stage = "record" /\ UNCHANGED <<store, clock, rows>>
      /\ msgs' = [msgs EXCEPT ![n].answered = TRUE] /\ Become(r, Idle)
      /\ sent_log' = [sent_log EXCEPT ![w] =
           {e \in sent_log[w] : e.at = clock} \cup {[n |-> n, at |-> clock]}]
  BY DEF record_pm_sent, Sending
<1>2. /\ store = "memory" /\ n \in 1..Len(msgs) /\ w = msgs[n].from /\ w \in Members
      /\ IsMessage(msgs[n]) /\ DOMAIN msgs = 1..Len(msgs)
  <2>1. store = "memory" /\ n \in 1..Len(msgs) /\ w = msgs[n].from /\ w \in Members
    BY <1>1 DEF MailInv, IsRequest, Idle
  <2> QED
    BY <2>1, AppendIsSeq DEF MailInv
<1>3. \A q \in Requests : req'[q] = IF q = r THEN Idle ELSE req[q]
  BY <1>1 DEF Become, MailInv
<1>4. /\ DOMAIN msgs' = 1..Len(msgs) /\ Len(msgs') = Len(msgs)
      /\ \A i \in 1..Len(msgs) :
           /\ msgs'[i].from = msgs[i].from /\ msgs'[i].at = msgs[i].at
           /\ msgs'[i].counted = msgs[i].counted
  <2>1. PICK msg : msg = [msgs[n] EXCEPT !.answered = TRUE]
    OBVIOUS
  <2>2. msgs' = [msgs EXCEPT ![n] = msg]
    BY <1>1, <1>2, <2>1
  <2>3. msg.from = msgs[n].from /\ msg.at = msgs[n].at /\ msg.counted = msgs[n].counted
    <3>1. ASSUME NEW old, IsMessage(old), msg = [old EXCEPT !.answered = TRUE]
          PROVE  msg.from = old.from /\ msg.at = old.at /\ msg.counted = old.counted
      BY <3>1 DEF IsMessage
    <3> QED
      BY <1>2, <2>1, <3>1
  <2>4. DOMAIN msgs' = 1..Len(msgs) /\ DOMAIN msgs' = 1..Len(msgs')
    BY <1>2, <2>2, AppendIsSeq DEF MailInv
  <2>5. Len(msgs') = Len(msgs)
    BY <2>2, <2>4, FunctionIsSeq DEF MailInv, IsSeq
  <2> QED
    BY <1>2, <2>2, <2>3, <2>4, <2>5
<1>5. RowsInv'
  BY <1>1, <1>4 DEF LimitInv, RowsInv
<1>6. /\ DOMAIN sent_log = Members /\ \A m \in Members : IsFiniteSet(sent_log[m])
      /\ DOMAIN sent_log' = Members
      /\ \A m \in Members \ {w} : sent_log'[m] = sent_log[m]
      /\ sent_log'[w] = {e \in sent_log[w] : e.at = clock} \cup {[n |-> n, at |-> clock]}
  BY <1>1, <1>2 DEF LimitInv, LogInv
<1> HIDE DEF n, w
<1>7. LogInv'
  <2>1. IsFiniteSet(sent_log'[w])
    <3>1. PICK E : E = {e \in sent_log[w] : e.at = clock}
      OBVIOUS
    <3>2. IsFiniteSet(E)
      BY <1>2, <1>6, <3>1, FS_Subset
    <3>3. IsFiniteSet(E \cup {[n |-> n, at |-> clock]})
      BY <3>2, FS_AddElement
    <3> QED
      BY <1>6, <3>1, <3>3
  <2>2. \A m \in Members : IsFiniteSet(sent_log'[m])
    BY <1>6, <2>1
  <2>3. ASSUME NEW i \in 1..Len(msgs), msgs[i].from \in Members, msgs[i].at = clock
        PROVE  \/ [n |-> i, at |-> clock] \in sent_log'[msgs[i].from]
               \/ \E q \in Requests : req'[q].stage = "record" /\ req'[q].n = i
    <3>1. CASE i = n
      BY <1>2, <1>6, <3>1
    <3>2. CASE i # n
      <4>1. CASE \E q \in Requests : req[q].stage = "record" /\ req[q].n = i
        BY <1>3, <3>2, <4>1 DEF n
      <4>2. CASE [n |-> i, at |-> clock] \in sent_log[msgs[i].from]
        <5>1. PICK e : e = [n |-> i, at |-> clock]
          OBVIOUS
        <5>2. e.at = clock /\ e \in sent_log[msgs[i].from]
          BY <4>2, <5>1
        <5>3. e \in sent_log'[msgs[i].from]
          BY <1>6, <2>3, <5>2
        <5> QED
          BY <5>1, <5>3
      <4> QED
        BY <1>2, <2>3, <4>1, <4>2 DEF LimitInv, LogInv
    <3> QED
      BY <3>1, <3>2
  <2> QED
    BY <1>1, <1>4, <1>6, <2>2, <2>3 DEF LogInv
<1>8. \A m : Counted(m)' \subseteq Counted(m)
  BY <1>1, <1>2, <1>4 DEF Counted
<1>9. ASSUME NEW q \in Requests, Counting(q)'
      PROVE  Counting(q) /\ req'[q].who = req[q].who
  <2>1. req[q].stage = "rows" => req[q].n \in 1..Len(msgs)
    BY DEF MailInv, IsRequest, Idle
  <2> QED
    BY <1>3, <1>4, <1>9, <2>1 DEF Counting, Idle
<1>10. IsSeq(msgs) /\ IsSeq(msgs') /\ store \in Stores /\ UNCHANGED store
  BY <1>1 DEF MailInv
<1>11. RoomInv'
  BY <1>8, <1>9, <1>10, RoomKept DEF LimitInv
<1> QED
  BY <1>5, <1>7, <1>11 DEF LimitInv

(* In a new hour nothing counts yet.                                        *)
LEMMA TickLimit ==
  ASSUME MailInv, LimitInv, Tick
  PROVE  LimitInv'
<1>1. UNCHANGED <<store, rows, msgs, sent_log, req>> /\ clock' = clock + 1
  BY DEF Tick
<1>2. \A n \in DOMAIN msgs : msgs[n].at # clock'
  <2>1. DOMAIN msgs = 1..Len(msgs) /\ clock \in Nat
    BY AppendIsSeq DEF MailInv
  <2> QED
    BY <1>1, <2>1 DEF MailInv, IsMessage
<1>3. \A m : Counted(m)' \subseteq Counted(m)
  BY <1>1, <1>2 DEF Counted
<1>4. \A q \in Requests : Counting(q)' => Counting(q) /\ req'[q].who = req[q].who
  BY <1>1 DEF Counting
<1>5. RoomInv'
  <2>1. PICK r : r \notin Requests
    BY NoSetContainsEverything
  <2> QED
    BY <1>1, <1>3, <1>4, <2>1, RoomKept DEF LimitInv, MailInv
<1>6. LogInv'
  <2>1. DOMAIN msgs = 1..Len(msgs)
    BY AppendIsSeq DEF MailInv
  <2> QED
    BY <1>1, <1>2, <2>1 DEF LimitInv, LogInv
<1> QED
  BY <1>1, <1>5, <1>6 DEF LimitInv, RowsInv

(* Letters that are written, from anywhere.                                 *)
LEMMA WriteKeepsLimit ==
  ASSUME MailInv, MailInv', LimitInv, NEW r \in Requests,
         \/ \E m \in Senders, list \in Lists :
              send_personal_message_api(r, m, list) \/ agent_send(r, m, list)
         \/ \E list \in Lists : admin_notify(r, list)
         \/ req[r].stage = "write" /\ Write(r, req[r])
  PROVE  LimitInv'
<1>1. ASSUME NEW m, NEW to, NEW by, send_personal_message(r, Letter(m, to, by))
      PROVE  LimitInv'
  <2>1. PICK rq : rq = Letter(m, to, by)
    OBVIOUS
  <2>2. ~rq.counted
    BY <2>1 DEF Letter
  <2> QED
    BY <1>1, <2>1, <2>2, SurrealLimit
<1>2. CASE \E m \in Senders, list \in Lists :
              send_personal_message_api(r, m, list) \/ agent_send(r, m, list)
  BY <1>1, <1>2 DEF send_personal_message_api, agent_send
<1>3. CASE \E list \in Lists : admin_notify(r, list)
  BY <1>1, <1>3 DEF admin_notify
<1>4. CASE req[r].stage = "write" /\ Write(r, req[r])
  BY <1>4, SurrealLimit, MemoryLimit DEF Write
<1> QED
  BY <1>2, <1>3, <1>4

(* What neither sends nor records.                                          *)
LEMMA OthersKeepLimit ==
  ASSUME MailInv, LimitInv, NEW r \in Requests,
         \/ \E m \in Senders, list \in Lists : controller_send(r, m, list)
         \/ send_pm(r) \/ Fail(r) \/ StripLabel(r) \/ WriteLabels(r)
         \/ \E m, ns, l, add : label_personal_messages(r, m, ns, l, add)
         \/ \E m, l : delete_pm_labels(r, m, l)
  PROVE  LimitInv'
<1>1. ASSUME NEW new, Become(r, new), new.stage # "rows", new.stage # "write",
             req[r].stage # "record",
             UNCHANGED <<msgs, sent_log, store, clock>>, DOMAIN rows' \subseteq DOMAIN rows
      PROVE  LimitInv'
  BY <1>1, QuietLimit DEF Become
<1>2. Idle.stage = "idle"
  BY DEF Idle
<1>3. ASSUME NEW m, NEW plan
      PROVE  Writing(m, plan).stage \in {"idle", "label"}
  BY <1>2 DEF Writing
<1>4. ASSUME UNCHANGED <<msgs, sent_log, store, clock, req>>, DOMAIN rows' \subseteq DOMAIN rows
      PROVE  LimitInv'
  BY <1>4, QuietLimit
<1>5. CASE \E m \in Senders, list \in Lists : controller_send(r, m, list)
  <2>1. PICK m \in Senders, list \in Lists : controller_send(r, m, list)
    BY <1>5
  <2>2. PICK new : new = Letter(m, resolve_recipients(list), "controller")
    OBVIOUS
  <2>3. new.stage = "count"
    BY <2>2 DEF Letter
  <2>4. Become(r, new) /\ req[r] = Idle /\ UNCHANGED <<msgs, sent_log, store, clock, rows>>
    BY <2>1, <2>2 DEF controller_send, Sending
  <2> QED
    BY <1>1, <1>2, <2>3, <2>4
<1>6. CASE send_pm(r)
  <2>1. req[r].stage = "count" /\ UNCHANGED <<msgs, sent_log, store, clock, rows>>
    BY <1>6 DEF send_pm, Sending
  <2>2. /\ req[r] = [stage |-> "count", who |-> req[r].who, to |-> req[r].to,
                     counted |-> req[r].counted]
        /\ ~req[r].counted
    BY <2>1 DEF MailInv, IsRequest, Idle
  <2>3. CASE Become(r, Idle)
    BY <1>1, <1>2, <2>1, <2>3
  <2>4. ASSUME Become(r, [req[r] EXCEPT !.stage = "write", !.counted = Alone(r)]),
               count_pm_sent_since(req[r].who) < PerHour[store]
        PROVE  LimitInv'
    <3>1. PICK c, new : /\ c = Alone(r) /\ req' = [req EXCEPT ![r] = new]
                        /\ new = [req[r] EXCEPT !.stage = "write", !.counted = c]
      BY <2>4 DEF Become
    <3>2. ASSUME NEW rq, rq = [stage |-> "count", who |-> rq.who, to |-> rq.to,
                               counted |-> rq.counted],
                 new = [rq EXCEPT !.stage = "write", !.counted = c]
          PROVE  new.stage = "write" /\ new.who = rq.who /\ new.counted = c
      BY <3>2
    <3>3. new.stage = "write" /\ new.who = req[r].who /\ new.counted = c
      BY <2>2, <3>1, <3>2
    <3>4. new.counted => /\ Cardinality(Counted(new.who)) < PerHour[store]
                         /\ \A q \in Requests \ {r} : Counting(q) => req[q].who # new.who
      BY <2>1, <2>4, <3>1, <3>3, LetThrough
    <3>5. \E s \in Requests : \E x :
            /\ req' = [req EXCEPT ![s] = x]
            /\ req[s].stage # "record" /\ x.stage # "rows"
            /\ x.stage = "write" /\ x.counted =>
                 /\ Cardinality(Counted(x.who)) < PerHour[store]
                 /\ \A q \in Requests \ {s} : Counting(q) => req[q].who # x.who
      <4>1. req' = [req EXCEPT ![r] = new] /\ req[r].stage # "record" /\ new.stage # "rows"
        BY <2>1, <3>1, <3>3
      <4>2. new.stage = "write" /\ new.counted =>
              /\ Cardinality(Counted(new.who)) < PerHour[store]
              /\ \A q \in Requests \ {r} : Counting(q) => req[q].who # new.who
        BY <3>4
      <4> HIDE DEF Counting, Counted
      <4> QED
        BY <4>1, <4>2, Zenon
    <3>6. DOMAIN rows' \subseteq DOMAIN rows
      BY <2>1
    <3> QED
      BY <2>1, <3>5, <3>6, QuietLimit
  <2>5. CASE Become(r, [req[r] EXCEPT !.stage = "write"])
    <3>1. PICK new : /\ req' = [req EXCEPT ![r] = new]
                     /\ new = [req[r] EXCEPT !.stage = "write"]
      BY <2>5 DEF Become
    <3>2. ASSUME NEW rq, rq = [stage |-> "count", who |-> rq.who, to |-> rq.to,
                               counted |-> rq.counted],
                 new = [rq EXCEPT !.stage = "write"]
          PROVE  new.stage = "write" /\ new.counted = rq.counted
      BY <3>2
    <3>3. new.stage = "write" /\ ~new.counted
      BY <2>2, <3>1, <3>2
    <3> QED
      BY <2>1, <3>1, <3>3, QuietLimit
  <2> QED
    BY <1>6, <2>3, <2>4, <2>5 DEF send_pm
<1>7. CASE Fail(r)
  BY <1>1, <1>2, <1>7 DEF Fail
<1>8. CASE StripLabel(r)
  BY <1>1, <1>2, <1>3, <1>8 DEF StripLabel
<1>9. CASE WriteLabels(r)
  BY <1>1, <1>3, <1>9 DEF WriteLabels
<1>10. ASSUME NEW m, NEW ns, NEW l, NEW add, label_personal_messages(r, m, ns, l, add)
       PROVE  LimitInv'
  <2>1. /\ req[r] = Idle /\ UNCHANGED <<msgs, sent_log, store, clock>>
        /\ DOMAIN rows' \subseteq DOMAIN rows
        /\ UNCHANGED req \/ \E plan : Become(r, Writing(m, plan))
    BY <1>10 DEF label_personal_messages
  <2> QED
    BY <1>1, <1>2, <1>3, <1>4, <2>1
<1>11. ASSUME NEW m, NEW l, delete_pm_labels(r, m, l)
       PROVE  LimitInv'
  <2>1. PICK new : new = [stage |-> "strip", who |-> m, label |-> l]
    OBVIOUS
  <2>2. /\ req[r] = Idle /\ UNCHANGED <<msgs, sent_log, store, clock>>
        /\ DOMAIN rows' \subseteq DOMAIN rows
        /\ UNCHANGED req \/ Become(r, new)
    BY <1>11, <2>1 DEF delete_pm_labels
  <2>3. new.stage = "strip"
    BY <2>1
  <2> QED
    BY <1>1, <1>2, <1>4, <2>2, <2>3
<1> QED
  BY <1>5, <1>6, <1>7, <1>8, <1>9, <1>10, <1>11

(* The limit is kept, with what it rests on.                                *)
THEOREM LimitInvariant == MailSpec => []LimitInv
<1>1. MailInit => LimitInv
  <2>1. SUFFICES ASSUME MailInit
                 PROVE  LimitInv
    OBVIOUS
  <2>2. /\ clock = 0 /\ msgs = <<>> /\ req = [r \in Requests |-> Idle] /\ store \in Stores
        /\ rows = <<>> /\ sent_log = [m \in Members |-> {}]
    BY <2>1 DEF MailInit
  <2>3. DOMAIN <<>> = {} /\ Len(<<>>) = 0 /\ IsFiniteSet({}) /\ Cardinality({}) = 0
    BY FS_EmptySet
  <2>4. Idle.stage = "idle"
    BY DEF Idle
  <2>5. \A m : Counted(m) = {}
    BY <2>2, <2>3 DEF Counted
  <2>6. \A r \in Requests : ~Counting(r)
    BY <2>2, <2>4 DEF Counting
  <2>7. RoomInv
    <3>1. \A m : Cardinality(Counted(m)) = 0
      BY <2>3, <2>5
    <3>2. 0 <= PerHour[store]
      BY <2>2, MailAssumption
    <3> QED
      BY <2>6, <3>1, <3>2 DEF RoomInv
  <2> QED
    BY <2>2, <2>3, <2>7 DEF LimitInv, RowsInv, LogInv
<1>2. ASSUME LimitInv, MailInv, MailInv', [MailNext]_mailVars
      PROVE  LimitInv'
  <2>1. ASSUME NEW r \in Requests, SendStep(r) \/ StripLabel(r) \/ WriteLabels(r)
        PROVE  LimitInv'
    BY <1>2, <2>1, OthersKeepLimit, WriteKeepsLimit, RecordLimit DEF SendStep
  <2>2. ASSUME NEW r \in Requests, LabelStep(r)
        PROVE  LimitInv'
    BY <1>2, <2>2, OthersKeepLimit DEF LabelStep
  <2>3. ASSUME NEW r \in Requests, NEW list \in Lists, admin_notify(r, list)
        PROVE  LimitInv'
    BY <1>2, <2>3, WriteKeepsLimit
  <2>4. ASSUME UNCHANGED <<msgs, sent_log, store, clock, req>>, DOMAIN rows' \subseteq DOMAIN rows
        PROVE  LimitInv'
    BY <1>2, <2>4, QuietLimit
  <2>5. CASE Tick
    BY <1>2, <2>5, TickLimit
  <2>6. CASE Tidy
    <3>1. \E keys : rows' = Without(keys)
      BY <2>6 DEF Tidy, delete_personal_messages, clear_personal_messages,
                  delete_personal_messages_api, prune_personal_messages, cleanup_pm_recipients
    <3>2. DOMAIN rows' \subseteq DOMAIN rows
      BY <3>1 DEF Without
    <3> QED
      BY <2>4, <2>6, <3>2 DEF Tidy
  <2>7. ASSUME NEW m, create_pm_label(m)
        PROVE  LimitInv'
    BY <2>4, <2>7 DEF create_pm_label
  <2>8. CASE UNCHANGED mailVars
    BY <2>4, <2>8 DEF mailVars
  <2> QED
    BY <1>2, <2>1, <2>2, <2>3, <2>5, <2>6, <2>7, <2>8, DeliverLimit DEF MailNext
<1> QED
  BY <1>1, <1>2, MailInvariant, PTL DEF MailSpec

(* No member sends more counted messages in an hour than the limit allows,  *)
(* whatever the limit in memory, and if it is one with SurrealDB.           *)
THEOREM HourlyLimitHolds == MailSpec => []HourlyLimit
<1>1. LimitInv => HourlyLimit
  <2>1. SUFFICES ASSUME LimitInv, store = "memory" \/ PerHour[store] = 1, NEW m
                 PROVE  Cardinality({n \in DOMAIN msgs :
                          /\ msgs[n].from = m /\ msgs[n].at = clock /\ msgs[n].counted
                          /\ \/ store = "memory"
                             \/ \E k \in Of(m) : k.n = n /\ k.folder = "Sent"}) <= PerHour[store]
    BY DEF HourlyLimit
  <2>2. Counted(m) = {n \in DOMAIN msgs :
                        /\ msgs[n].from = m /\ msgs[n].at = clock /\ msgs[n].counted
                        /\ \/ store = "memory"
                           \/ \E k \in Of(m) : k.n = n /\ k.folder = "Sent"}
    BY <2>1 DEF Counted
  <2> QED
    BY <2>1, <2>2 DEF LimitInv, RoomInv
<1> QED
  BY <1>1, LimitInvariant, PTL
-----------------------------------------------------------------------------
(* Labels.                                                                  *)

(* What neither labels messages nor takes labels away.                      *)
LEMMA QuietLabels ==
  ASSUME MailInv, LabelInv, UNCHANGED <<store, mixed, put>>,
         \A k \in DOMAIN rows' : rows'[k] = {} \/ (k \in DOMAIN rows /\ rows'[k] = rows[k]),
         \A q \in Requests :
           \/ req'[q] = req[q]
           \/ req[q].stage \notin {"strip", "label"} /\ req'[q].stage \notin {"strip", "label"}
  PROVE  LabelInv'
<1>1. ASSUME NEW q \in Requests, req'[q].stage \in {"strip", "label"} \/ req[q].stage \in {"strip", "label"}
      PROVE  req'[q] = req[q]
  BY <1>1
<1>2. \A m : Marking(m)' = Marking(m)
  BY <1>1 DEF Marking
<1>3. ASSUME NEW m \in Members, NEW k \in Of(m)'
      PROVE  rows'[k] = {} \/ (k \in Of(m) /\ rows'[k] = rows[k])
  BY <1>3 DEF Of
<1>4. ASSUME NEW m \in Members, Fitting(m)
      PROVE  Fitting(m)'
  <2>1. \A r, s \in Marking(m)' : r = s
    BY <1>2, <1>4 DEF Fitting
  <2>2. Marking(m)' = {} => RowsFit(m)'
    <3>1. SUFFICES ASSUME Marking(m) = {}, NEW k \in Of(m)'
                   PROVE  \A l \in rows'[k] : <<k.n, l>> \in put[m]
      BY <1>2 DEF RowsFit, Fits
    <3>2. RowsFit(m)
      BY <1>4, <3>1 DEF Fitting
    <3> QED
      BY <1>3, <3>1, <3>2 DEF RowsFit, Fits
  <2>3. ASSUME NEW r \in Marking(m)'
        PROVE  IsPlan(m, req[r])' /\ \A k \in Of(m)' : WillFit(m, k, req[r])'
    <3>1. r \in Marking(m) /\ r \in Requests /\ req'[r] = req[r]
      BY <1>1, <1>2, <2>3 DEF Marking
    <3>2. IsPlan(m, req[r])'
      BY <1>4, <3>1 DEF Fitting, IsPlan, Fits
    <3>3. ASSUME NEW k \in Of(m)'
          PROVE  WillFit(m, k, req[r])'
      <4>1. CASE rows'[k] = {}
        BY <4>1 DEF WillFit, Fits
      <4>2. CASE k \in Of(m) /\ rows'[k] = rows[k]
        <5>1. WillFit(m, k, req[r])
          BY <1>4, <3>1, <4>2 DEF Fitting
        <5> QED
          BY <3>1, <4>2, <5>1 DEF WillFit, Fits
      <4> QED
        BY <1>3, <4>1, <4>2
    <3> QED
      BY <3>2, <3>3
  <2> QED
    BY <2>1, <2>2, <2>3 DEF Fitting
<1>5. \A r \in Requests :
        /\ req'[r].stage = "strip" =>
             req'[r] = [stage |-> "strip", who |-> req'[r].who, label |-> req'[r].label]
        /\ req'[r].stage = "label" =>
             req'[r] = [stage |-> "label", who |-> req'[r].who, plan |-> req'[r].plan]
  BY <1>1 DEF LabelInv
<1>6. store' = "memory" => \A k \in DOMAIN rows' : k.folder # "Inbox" => rows'[k] = {}
  BY DEF LabelInv
<1> QED
  BY <1>4, <1>5, <1>6 DEF LabelInv

(* A request that is at one member's labels leaves the others' alone.       *)
LEMMA OneMember ==
  ASSUME MailInv, LabelInv, NEW w \in Members, NEW r \in Requests, NEW new,
         store # "memory", UNCHANGED store,
         req' = [req EXCEPT ![r] = new] \/ (UNCHANGED req /\ req[r] = new),
         req[r].stage \in {"strip", "label"} => req[r].who = w,
         \/ new.stage \notin {"strip", "label"}
         \/ new = [stage |-> "strip", who |-> w, label |-> new.label]
         \/ new = [stage |-> "label", who |-> w, plan |-> new.plan],
         DOMAIN put' = Members, mixed' \in [Members -> BOOLEAN],
         \A m \in Members \ {w} : put'[m] = put[m] /\ mixed'[m] = mixed[m],
         DOMAIN rows' = DOMAIN rows,
         \A k \in DOMAIN rows : k.owner # w => rows'[k] = rows[k],
         mixed'[w] \/ Fitting(w)'
  PROVE  LabelInv'
<1>1. \A q \in Requests : req'[q] = IF q = r THEN new ELSE req[q]
  BY DEF MailInv
<1>2. \/ new.stage \notin {"strip", "label"}
      \/ new.stage \in {"strip", "label"} /\ new.who = w
  OBVIOUS
<1>3. ASSUME NEW m \in Members \ {w}, Fitting(m)
      PROVE  Fitting(m)'
  <2>1. Marking(m)' = Marking(m) /\ \A q \in Marking(m) : q # r /\ req'[q] = req[q]
    BY <1>1, <1>2 DEF Marking
  <2>2. /\ Of(m)' = Of(m) /\ put'[m] = put[m]
        /\ \A k \in Of(m) : rows'[k] = rows[k]
    BY DEF Of
  <2>3. ASSUME NEW q \in Marking(m)
        PROVE  IsPlan(m, req[q])' /\ \A k \in Of(m) : WillFit(m, k, req[q])'
    <3>1. q \in Requests /\ req'[q] = req[q]
      BY <2>1 DEF Marking
    <3>2. IsPlan(m, req[q]) /\ \A k \in Of(m) : WillFit(m, k, req[q])
      BY <1>3 DEF Fitting
    <3> QED
      BY <2>2, <3>1, <3>2 DEF IsPlan, WillFit, Fits
  <2>4. RowsFit(m) => RowsFit(m)'
    BY <2>2 DEF RowsFit, Fits
  <2> QED
    BY <1>3, <2>1, <2>2, <2>3, <2>4 DEF Fitting
<1>4. \A q \in Requests :
        /\ req'[q].stage = "strip" =>
             req'[q] = [stage |-> "strip", who |-> req'[q].who, label |-> req'[q].label]
        /\ req'[q].stage = "label" =>
             req'[q] = [stage |-> "label", who |-> req'[q].who, plan |-> req'[q].plan]
  <2>1. /\ new.stage = "strip" => new = [stage |-> "strip", who |-> new.who, label |-> new.label]
        /\ new.stage = "label" => new = [stage |-> "label", who |-> new.who, plan |-> new.plan]
    OBVIOUS
  <2> QED
    BY <1>1, <2>1 DEF LabelInv
<1>5. \A m \in Members : mixed'[m] \/ Fitting(m)'
  BY <1>3 DEF LabelInv
<1> QED
  BY <1>4, <1>5 DEF LabelInv

(* A request that is alone at a member's labels.                            *)
LEMMA SoleRequest ==
  ASSUME MailInv, NEW w, NEW r \in Requests, NEW new, req' = [req EXCEPT ![r] = new],
         Marking(w) \subseteq {r},
         new.stage \notin {"strip", "label"} => RowsFit(w)',
         new.stage \in {"strip", "label"} =>
           new.who = w /\ IsPlan(w, new)' /\ \A k \in Of(w)' : WillFit(w, k, new)'
  PROVE  Fitting(w)'
<1>1. \A q \in Requests : req'[q] = IF q = r THEN new ELSE req[q]
  BY DEF MailInv
<1>2. CASE new.stage \notin {"strip", "label"}
  <2>1. Marking(w)' = {}
    BY <1>1, <1>2 DEF Marking
  <2> QED
    BY <1>2, <2>1 DEF Fitting
<1>3. CASE new.stage \in {"strip", "label"}
  <2>1. Marking(w)' = {r} /\ req'[r] = new
    BY <1>1, <1>3 DEF Marking
  <2>2. IsPlan(w, req[r])' /\ \A k \in Of(w)' : WillFit(w, k, req[r])'
    BY <1>3, <2>1 DEF IsPlan, WillFit
  <2> QED
    BY <2>1, <2>2 DEF Fitting
<1> QED
  BY <1>2, <1>3

(* Who has a statement fail at the labels is marked as mixed.               *)
LEMMA MixedKeepsLabels ==
  ASSUME MailInv, LabelInv, NEW w \in Members, NEW r \in Requests, NEW new,
         store # "memory", UNCHANGED <<store, rows>>,
         req' = [req EXCEPT ![r] = new] \/ (UNCHANGED req /\ req[r] = new),
         mixed' = [mixed EXCEPT ![w] = TRUE],
         req[r].stage \in {"strip", "label"} => req[r].who = w,
         \/ new.stage \notin {"strip", "label"}
         \/ new = [stage |-> "strip", who |-> w, label |-> new.label]
         \/ new = [stage |-> "label", who |-> w, plan |-> new.plan],
         DOMAIN put' = Members, \A m \in Members \ {w} : put'[m] = put[m]
  PROVE  LabelInv'
<1>1. /\ mixed' \in [Members -> BOOLEAN] /\ mixed'[w]
      /\ \A m \in Members \ {w} : mixed'[m] = mixed[m]
  BY DEF LabelInv
<1>2. /\ DOMAIN rows' = DOMAIN rows
      /\ \A k \in DOMAIN rows : k.owner # w => rows'[k] = rows[k]
  OBVIOUS
<1>3. mixed'[w] \/ Fitting(w)'
  BY <1>1
<1>4. \A m \in Members \ {w} : put'[m] = put[m] /\ mixed'[m] = mixed[m]
  BY <1>1
<1>5. CASE req' = [req EXCEPT ![r] = new]
  BY <1>1, <1>2, <1>3, <1>4, <1>5, OneMember
<1>6. CASE UNCHANGED req /\ req[r] = new
  BY <1>1, <1>2, <1>3, <1>4, <1>6, OneMember
<1> QED
  BY <1>5, <1>6

(* The messages that have the label are read.                               *)
LEMMA StripKeepsLabels ==
  ASSUME MailInv, LabelInv, NEW r \in Requests, StripLabel(r)
  PROVE  LabelInv'
<1>1. PICK w, l : w = req[r].who /\ l = req[r].label
  OBVIOUS
<1>2. PICK marked : marked = {k \in Of(w) : l \in rows[k]}
  OBVIOUS
<1>3. PICK plan : plan = {<<k.n, rows[k] \ {l}>> : k \in marked}
  OBVIOUS
<1>4. PICK new : new = Writing(w, plan)
  OBVIOUS
<1>5. req[r].stage = "strip" /\ UNCHANGED <<store, rows, put>>
  BY DEF StripLabel
<1>6. w \in Members /\ store # "memory"
  BY <1>1, <1>5 DEF MailInv, IsRequest, Idle
<1>7. DOMAIN put' = Members /\ Idle.stage \notin {"strip", "label"}
  BY <1>5 DEF LabelInv, Idle
<1>8. CASE Become(r, Idle) /\ Unnoticed(w)
  <2>1. req' = [req EXCEPT ![r] = Idle] /\ mixed' = [mixed EXCEPT ![w] = TRUE]
    BY <1>8 DEF Become, Unnoticed
  <2> QED
    BY <1>1, <1>5, <1>6, <1>7, <2>1, MixedKeepsLabels
<1>9. CASE Become(r, new) /\ UNCHANGED mixed
  <2>1. req' = [req EXCEPT ![r] = new] /\ UNCHANGED mixed
    BY <1>9 DEF Become
  <2>2. \/ plan = {} /\ new.stage \notin {"strip", "label"}
        \/ new = [stage |-> "label", who |-> w, plan |-> plan]
    BY <1>4 DEF Writing, Idle
  <2>3. ASSUME ~mixed[w]
        PROVE  Fitting(w)'
    <3>1. Fitting(w) /\ r \in Marking(w)
      BY <1>1, <1>5, <1>6, <2>3 DEF LabelInv, Marking
    <3>2. Marking(w) \subseteq {r}
      BY <3>1 DEF Fitting
    <3>3. ASSUME NEW k \in Of(w)
          PROVE  Fits(w, k.n, rows[k] \ {l})
      <4>1. WillFit(w, k, req[r])
        BY <3>1, <3>3 DEF Fitting
      <4> QED
        BY <1>1, <1>5, <4>1 DEF WillFit, Fits
    <3>4. ASSUME NEW k \in Of(w), k \in marked
          PROVE  \E entry \in plan : entry[1] = k.n
      <4>1. PICK entry : entry = <<k.n, rows[k] \ {l}>>
        OBVIOUS
      <4> QED
        BY <1>3, <3>4, <4>1
    <3>5. ASSUME NEW k \in Of(w), k \notin marked
          PROVE  Fits(w, k.n, rows[k])
      BY <1>2, <3>3, <3>5 DEF Fits
    <3>6. CASE plan = {} /\ new.stage \notin {"strip", "label"}
      <4>1. RowsFit(w)'
        BY <1>5, <3>4, <3>5, <3>6 DEF RowsFit, Of, Fits
      <4> QED
        BY <2>1, <3>2, <3>6, <4>1, SoleRequest
    <3>7. CASE new = [stage |-> "label", who |-> w, plan |-> plan]
      <4>1. new.stage = "label" /\ new.who = w /\ new.plan = plan
        BY <3>7
      <4>2. IsPlan(w, new)'
        <5>1. \A entry \in plan : Fits(w, entry[1], entry[2])
          BY <1>2, <1>3, <3>3
        <5> QED
          BY <1>5, <4>1, <5>1 DEF IsPlan, Fits
      <4>3. \A k \in Of(w)' : WillFit(w, k, new)'
        <5>1. ASSUME NEW k \in Of(w)
              PROVE  WillFit(w, k, new)'
          BY <1>5, <3>4, <3>5, <4>1 DEF WillFit, Fits
        <5> QED
          BY <1>5, <5>1 DEF Of
      <4> QED
        BY <2>1, <3>2, <4>1, <4>2, <4>3, SoleRequest
    <3> QED
      BY <2>2, <3>6, <3>7
  <2>4. mixed' \in [Members -> BOOLEAN]
    BY <2>1 DEF LabelInv
  <2>5. \/ new.stage \notin {"strip", "label"}
        \/ new = [stage |-> "label", who |-> w, plan |-> new.plan]
    BY <2>2
  <2> QED
    BY <1>1, <1>5, <1>6, <1>7, <2>1, <2>3, <2>4, <2>5, OneMember
<1> QED
  BY <1>1, <1>2, <1>3, <1>4, <1>8, <1>9 DEF StripLabel

(* One message is written back, in both folders.                            *)
LEMMA WriteKeepsLabels ==
  ASSUME MailInv, LabelInv, NEW r \in Requests, WriteLabels(r)
  PROVE  LabelInv'
<1>1. PICK w, old : w = req[r].who /\ old = req[r].plan
  OBVIOUS
<1>2. PICK entry \in old :
        /\ Become(r, Writing(w, old \ {entry}))
        /\ \/ /\ rows' = [k \in DOMAIN rows |->
                   IF k.owner = w /\ k.n = entry[1] THEN entry[2] ELSE rows[k]]
              /\ UNCHANGED mixed
           \/ Unnoticed(w) /\ UNCHANGED rows
  BY <1>1 DEF WriteLabels
<1>3. PICK plan, new : plan = old \ {entry} /\ new = Writing(w, plan)
  OBVIOUS
<1>4. /\ req[r].stage = "label" /\ req' = [req EXCEPT ![r] = new]
      /\ UNCHANGED <<store, put>>
  BY <1>2, <1>3 DEF WriteLabels, Become
<1>5. w \in Members /\ store # "memory"
  BY <1>1, <1>4 DEF MailInv, IsRequest, Idle
<1>6. \/ plan = {} /\ new.stage \notin {"strip", "label"}
      \/ new = [stage |-> "label", who |-> w, plan |-> plan]
  BY <1>3 DEF Writing, Idle
<1>7. DOMAIN put' = Members
  BY <1>4 DEF LabelInv
<1>8. \/ new.stage \notin {"strip", "label"}
      \/ new = [stage |-> "label", who |-> w, plan |-> new.plan]
  BY <1>6
<1>9. CASE Unnoticed(w) /\ UNCHANGED rows
  <2>1. mixed' = [mixed EXCEPT ![w] = TRUE]
    BY <1>9 DEF Unnoticed
  <2> QED
    BY <1>1, <1>4, <1>5, <1>7, <1>8, <1>9, <2>1, MixedKeepsLabels
<1>10. ASSUME UNCHANGED mixed,
              rows' = [k \in DOMAIN rows |->
                IF k.owner = w /\ k.n = entry[1] THEN entry[2] ELSE rows[k]]
       PROVE  LabelInv'
  <2>1. ASSUME ~mixed[w]
        PROVE  Fitting(w)'
    <3>1. Fitting(w) /\ r \in Marking(w)
      BY <1>1, <1>4, <1>5, <2>1 DEF LabelInv, Marking
    <3>2. Marking(w) \subseteq {r} /\ IsPlan(w, req[r])
      BY <3>1 DEF Fitting
    <3>3. \A e \in old : Fits(w, e[1], e[2])
      BY <1>1, <1>4, <3>2 DEF IsPlan
    <3>4. ASSUME NEW k \in Of(w)
          PROVE  Fits(w, k.n, rows'[k]) \/ \E e \in plan : e[1] = k.n
      <4>1. WillFit(w, k, req[r]) /\ k.owner = w /\ k \in DOMAIN rows
        BY <3>1, <3>4 DEF Fitting, Of
      <4>2. CASE k.n = entry[1]
        BY <1>2, <1>10, <3>3, <4>1, <4>2
      <4>3. CASE k.n # entry[1]
        <5>1. rows'[k] = rows[k]
          BY <1>10, <4>1, <4>3
        <5>2. Fits(w, k.n, rows[k]) \/ \E e \in old : e[1] = k.n
          BY <1>1, <1>4, <4>1 DEF WillFit
        <5> QED
          BY <1>3, <4>1, <4>3, <5>1, <5>2
      <4> QED
        BY <4>2, <4>3
    <3>5. CASE plan = {} /\ new.stage \notin {"strip", "label"}
      <4>1. RowsFit(w)'
        BY <1>4, <1>10, <3>4, <3>5 DEF RowsFit, Fits, Of
      <4> QED
        BY <1>4, <3>2, <3>5, <4>1, SoleRequest
    <3>6. CASE new = [stage |-> "label", who |-> w, plan |-> plan]
      <4>1. new.stage = "label" /\ new.who = w /\ new.plan = plan
        BY <3>6
      <4>2. IsPlan(w, new)'
        BY <1>3, <1>4, <3>3, <4>1 DEF IsPlan, Fits
      <4>3. \A k \in Of(w)' : WillFit(w, k, new)'
        <5>1. ASSUME NEW k \in Of(w)
              PROVE  WillFit(w, k, new)'
          BY <1>4, <3>4, <4>1 DEF WillFit, Fits
        <5> QED
          BY <1>10, <5>1 DEF Of
      <4> QED
        BY <1>4, <3>2, <4>1, <4>2, <4>3, SoleRequest
    <3> QED
      BY <1>6, <3>5, <3>6
  <2>2. mixed' \in [Members -> BOOLEAN]
    BY <1>10 DEF LabelInv
  <2>3. /\ DOMAIN rows' = DOMAIN rows
        /\ \A k \in DOMAIN rows : k.owner # w => rows'[k] = rows[k]
    BY <1>10
  <2> QED
    BY <1>1, <1>4, <1>5, <1>7, <1>8, <1>10, <2>1, <2>2, <2>3, OneMember
<1> QED
  BY <1>2, <1>9, <1>10

(* In memory no request is ever at the labels.                              *)
LEMMA MemoryLabels ==
  ASSUME MailInv, LabelInv, store = "memory", UNCHANGED <<store, req, mixed>>,
         DOMAIN put' = Members,
         \A k \in DOMAIN rows' : k.folder # "Inbox" => rows'[k] = {},
         \A m \in Members : RowsFit(m) => RowsFit(m)'
  PROVE  LabelInv'
<1>1. \A q \in Requests : req[q].stage \notin {"strip", "label"}
  BY DEF MailInv, IsRequest, Idle
<1>2. \A m : Marking(m) = {} /\ Marking(m)' = {}
  BY <1>1 DEF Marking
<1>3. ASSUME NEW m \in Members, Fitting(m)
      PROVE  Fitting(m)'
  BY <1>2, <1>3 DEF Fitting
<1> QED
  BY <1>1, <1>3 DEF LabelInv

(* What is asked for on messages, or taken off them.                        *)
LEMMA AskedFor ==
  ASSUME LabelInv, NEW m \in Members, NEW ns, NEW l, NEW add,
         put' = [put EXCEPT ![m] = IF add THEN @ \cup (ns \X {l}) ELSE @ \ (ns \X {l})]
  PROVE  /\ DOMAIN put' = Members
         /\ \A o \in Members \ {m} : put'[o] = put[o]
         /\ \A n, ls : Fits(m, n, ls) /\ (n \in ns /\ ~add => l \notin ls) =>
              \A x \in ls : <<n, x>> \in put'[m]
         /\ \A n \in ns : \A ls : Fits(m, n, ls) =>
              \A x \in Labelled(ls, l, add) : <<n, x>> \in put'[m]
<1>1. /\ DOMAIN put' = Members
      /\ \A o \in Members \ {m} : put'[o] = put[o]
      /\ put'[m] = IF add THEN put[m] \cup (ns \X {l}) ELSE put[m] \ (ns \X {l})
  BY DEF LabelInv
<1>2. ASSUME NEW n, NEW x
      PROVE  <<n, x>> \in ns \X {l} <=> n \in ns /\ x = l
  OBVIOUS
<1>3. CASE add
  BY <1>1, <1>2, <1>3 DEF Fits, Labelled
<1>4. CASE ~add
  BY <1>1, <1>2, <1>4 DEF Fits, Labelled
<1> QED
  BY <1>1, <1>3, <1>4

(* A label is put on messages or taken off them.                            *)
LEMMA LabelKeepsLabels ==
  ASSUME MailInv, LabelInv, NEW r \in Requests, NEW m \in Members, NEW ns, NEW l,
         NEW add \in BOOLEAN, label_personal_messages(r, m, ns, l, add)
  PROVE  LabelInv'
<1>1. PICK chosen : chosen = {k \in Of(m) : k.n \in ns}
  OBVIOUS
<1>2. /\ req[r] = Idle /\ UNCHANGED store
      /\ put' = [put EXCEPT ![m] = IF add THEN @ \cup (ns \X {l}) ELSE @ \ (ns \X {l})]
  BY DEF label_personal_messages
<1>3. /\ DOMAIN put' = Members
      /\ \A o \in Members \ {m} : put'[o] = put[o]
      /\ \A n, ls : Fits(m, n, ls) /\ (n \in ns /\ ~add => l \notin ls) =>
           \A x \in ls : <<n, x>> \in put'[m]
      /\ \A n \in ns : \A ls : Fits(m, n, ls) =>
           \A x \in Labelled(ls, l, add) : <<n, x>> \in put'[m]
  BY <1>2, AskedFor
<1>4. PICK plan : plan = {<<k.n, Labelled(rows[k], l, add)>> : k \in chosen}
  OBVIOUS
<1>5. PICK new : new = Writing(m, plan)
  OBVIOUS
<1>6. req[r].stage \notin {"strip", "label"} /\ Idle.stage \notin {"strip", "label"}
  BY <1>2 DEF Idle
<1>7. ASSUME store = "memory", UNCHANGED <<req, mixed>>,
             rows' = [k \in DOMAIN rows |->
               IF k \in chosen /\ k.folder = "Inbox" THEN Labelled(rows[k], l, add) ELSE rows[k]]
      PROVE  LabelInv'
  <2>1. \A k \in DOMAIN rows' : k.folder # "Inbox" => rows'[k] = {}
    BY <1>7 DEF LabelInv
  <2>2. ASSUME NEW o \in Members, RowsFit(o)
        PROVE  RowsFit(o)'
    <3>1. SUFFICES ASSUME NEW k \in Of(o)'
                   PROVE  \A x \in rows'[k] : <<k.n, x>> \in put'[o]
      BY DEF RowsFit, Fits
    <3>2. k \in Of(o) /\ k \in DOMAIN rows /\ Fits(o, k.n, rows[k])
      BY <1>7, <2>2, <3>1 DEF Of, RowsFit
    <3>3. CASE o # m
      <4>1. k \notin chosen
        BY <1>1, <3>2, <3>3 DEF Of
      <4> QED
        BY <1>3, <1>7, <3>2, <3>3, <4>1 DEF Fits
    <3>4. CASE o = m /\ k.n \in ns /\ k.folder = "Inbox"
      BY <1>1, <1>3, <1>7, <3>2, <3>4
    <3>5. CASE o = m /\ k.folder # "Inbox"
      BY <1>7, <2>1, <3>2, <3>5
    <3>6. CASE o = m /\ k.n \notin ns
      BY <1>1, <1>3, <1>7, <3>2, <3>6
    <3> QED
      BY <3>3, <3>4, <3>5, <3>6
  <2> QED
    BY <1>2, <1>3, <1>7, <2>1, <2>2, MemoryLabels
<1>8. ASSUME store = "surreal", Become(r, new), Mix(r, m), UNCHANGED rows
      PROVE  LabelInv'
  <2>1. req' = [req EXCEPT ![r] = new] /\ mixed' = [mixed EXCEPT ![m] = @ \/ Overlaps(r, m)]
    BY <1>8 DEF Become, Mix
  <2>2. \/ plan = {} /\ new.stage \notin {"strip", "label"}
        \/ new = [stage |-> "label", who |-> m, plan |-> plan]
    BY <1>5 DEF Writing, Idle
  <2>3. ASSUME ~mixed'[m]
        PROVE  Fitting(m)'
    <3>1. ~mixed[m] /\ ~Overlaps(r, m)
      BY <2>1, <2>3 DEF LabelInv
    <3>2. Marking(m) = {}
      BY <1>6, <3>1 DEF Marking, Overlaps
    <3>3. \A k \in Of(m) : Fits(m, k.n, rows[k])
      BY <3>1, <3>2 DEF LabelInv, Fitting, RowsFit
    <3>4. ASSUME NEW k \in Of(m), k.n \notin ns
          PROVE  \A x \in rows[k] : <<k.n, x>> \in put'[m]
      BY <1>3, <3>3, <3>4
    <3>5. ASSUME NEW k \in Of(m), k.n \in ns
          PROVE  \E entry \in plan : entry[1] = k.n
      <4>1. PICK entry : entry = <<k.n, Labelled(rows[k], l, add)>>
        OBVIOUS
      <4> QED
        BY <1>1, <1>4, <3>5, <4>1
    <3>6. Of(m)' = Of(m)
      BY <1>8 DEF Of
    <3>7. CASE plan = {} /\ new.stage \notin {"strip", "label"}
      <4>1. RowsFit(m)'
        BY <1>8, <3>4, <3>5, <3>6, <3>7 DEF RowsFit, Fits
      <4> QED
        BY <2>1, <3>2, <3>7, <4>1, SoleRequest
    <3>8. CASE new = [stage |-> "label", who |-> m, plan |-> plan]
      <4>1. new.stage = "label" /\ new.who = m /\ new.plan = plan
        BY <3>8
      <4>2. IsPlan(m, new)'
        <5>1. \A entry \in plan : \A x \in entry[2] : <<entry[1], x>> \in put'[m]
          <6>1. SUFFICES ASSUME NEW k \in chosen
                         PROVE  \A x \in Labelled(rows[k], l, add) : <<k.n, x>> \in put'[m]
            BY <1>4
          <6> QED
            BY <1>1, <1>3, <3>3
        <5> QED
          BY <4>1, <5>1 DEF IsPlan, Fits
      <4>3. ASSUME NEW k \in Of(m)
            PROVE  WillFit(m, k, new)'
        BY <1>8, <3>4, <3>5, <4>1 DEF WillFit, Fits
      <4> QED
        BY <2>1, <3>2, <3>6, <4>1, <4>2, <4>3, SoleRequest
    <3> QED
      BY <2>2, <3>7, <3>8
  <2>4. mixed' \in [Members -> BOOLEAN] /\ \A o \in Members \ {m} : mixed'[o] = mixed[o]
    BY <2>1 DEF LabelInv
  <2>5. \/ new.stage \notin {"strip", "label"}
        \/ new = [stage |-> "label", who |-> m, plan |-> new.plan]
    BY <2>2
  <2>6. store # "memory"
    BY <1>8
  <2> QED
    BY <1>2, <1>3, <1>6, <1>8, <2>1, <2>3, <2>4, <2>5, <2>6, OneMember
<1>9. ASSUME store = "surreal", Unnoticed(m), UNCHANGED <<req, rows>>
      PROVE  LabelInv'
  <2>1. UNCHANGED req /\ req[r] = Idle /\ mixed' = [mixed EXCEPT ![m] = TRUE]
    BY <1>2, <1>9 DEF Unnoticed
  <2>2. store # "memory"
    BY <1>9
  <2> QED
    BY <1>2, <1>3, <1>6, <1>9, <2>1, <2>2, MixedKeepsLabels
<1> QED
  BY <1>1, <1>4, <1>5, <1>7, <1>8, <1>9 DEF label_personal_messages

(* A label is taken from the list.                                          *)
LEMMA DeleteKeepsLabels ==
  ASSUME MailInv, LabelInv, NEW r \in Requests, NEW m \in Members, NEW l,
         delete_pm_labels(r, m, l)
  PROVE  LabelInv'
<1>1. /\ req[r] = Idle /\ UNCHANGED store
      /\ put' = [put EXCEPT ![m] = {p \in @ : p[2] # l}]
  BY DEF delete_pm_labels
<1>2. /\ DOMAIN put' = Members /\ \A o \in Members \ {m} : put'[o] = put[o]
      /\ \A n, ls : Fits(m, n, ls) => \A x \in ls \ {l} : <<n, x>> \in put'[m]
  <2>1. DOMAIN put' = Members /\ put'[m] = {p \in put[m] : p[2] # l}
        /\ \A o \in Members \ {m} : put'[o] = put[o]
    BY <1>1 DEF LabelInv
  <2>2. ASSUME NEW n, NEW x, <<n, x>> \in put[m], x # l
        PROVE  <<n, x>> \in put'[m]
    BY <2>1, <2>2
  <2> QED
    BY <2>1, <2>2 DEF Fits
<1>3. ASSUME store = "memory", UNCHANGED <<req, mixed>>,
             rows' = [k \in DOMAIN rows |-> IF k.owner = m THEN rows[k] \ {l} ELSE rows[k]]
      PROVE  LabelInv'
  <2>1. \A k \in DOMAIN rows' : k.folder # "Inbox" => rows'[k] = {}
    BY <1>3 DEF LabelInv
  <2>2. ASSUME NEW o \in Members, RowsFit(o)
        PROVE  RowsFit(o)'
    <3>1. SUFFICES ASSUME NEW k \in Of(o)'
                   PROVE  \A x \in rows'[k] : <<k.n, x>> \in put'[o]
      BY DEF RowsFit, Fits
    <3>2. k \in Of(o) /\ k \in DOMAIN rows /\ k.owner = o /\ Fits(o, k.n, rows[k])
      BY <1>3, <2>2, <3>1 DEF Of, RowsFit
    <3>3. CASE o # m
      BY <1>2, <1>3, <3>2, <3>3 DEF Fits
    <3>4. CASE o = m
      BY <1>2, <1>3, <3>2, <3>4
    <3> QED
      BY <3>3, <3>4
  <2> QED
    BY <1>1, <1>2, <1>3, <2>1, <2>2, MemoryLabels
<1>4. PICK new : new = [stage |-> "strip", who |-> m, label |-> l]
  OBVIOUS
<1>5. new.stage = "strip" /\ new.who = m /\ new.label = l
  BY <1>4
<1>6. req[r].stage \notin {"strip", "label"} /\ new = [stage |-> "strip", who |-> m, label |-> new.label]
  BY <1>1, <1>4, <1>5 DEF Idle
<1>7. ASSUME store = "surreal", Become(r, new), Mix(r, m), UNCHANGED rows
      PROVE  LabelInv'
  <2>1. req' = [req EXCEPT ![r] = new] /\ mixed' = [mixed EXCEPT ![m] = @ \/ Overlaps(r, m)]
    BY <1>7 DEF Become, Mix
  <2>2. ASSUME ~mixed'[m]
        PROVE  Fitting(m)'
    <3>1. ~mixed[m] /\ ~Overlaps(r, m)
      BY <2>1, <2>2 DEF LabelInv
    <3>2. Marking(m) = {}
      BY <1>6, <3>1 DEF Marking, Overlaps
    <3>3. \A k \in Of(m) : Fits(m, k.n, rows[k])
      BY <3>1, <3>2 DEF LabelInv, Fitting, RowsFit
    <3>4. ASSUME NEW k \in Of(m)'
          PROVE  WillFit(m, k, new)'
      <4>1. k \in Of(m) /\ rows'[k] = rows[k]
        BY <1>7, <3>4 DEF Of
      <4>2. \A x \in rows'[k] \ {l} : <<k.n, x>> \in put'[m]
        BY <1>2, <3>3, <4>1
      <4> QED
        BY <1>5, <4>2 DEF WillFit, Fits
    <3>5. IsPlan(m, new)'
      BY <1>5 DEF IsPlan
    <3> QED
      BY <1>5, <2>1, <3>2, <3>4, <3>5, SoleRequest
  <2>3. /\ mixed' \in [Members -> BOOLEAN]
        /\ \A o \in Members \ {m} : mixed'[o] = mixed[o]
    BY <2>1 DEF LabelInv
  <2>4. store # "memory"
    BY <1>7
  <2> QED
    BY <1>1, <1>2, <1>6, <1>7, <2>1, <2>2, <2>3, <2>4, OneMember
<1>8. ASSUME store = "surreal", Become(r, new), Unnoticed(m), UNCHANGED rows
      PROVE  LabelInv'
  <2>1. req' = [req EXCEPT ![r] = new] /\ mixed' = [mixed EXCEPT ![m] = TRUE]
    BY <1>8 DEF Become, Unnoticed
  <2>2. store # "memory"
    BY <1>8
  <2> QED
    BY <1>1, <1>2, <1>6, <1>8, <2>1, <2>2, MixedKeepsLabels
<1> QED
  BY <1>3, <1>4, <1>7, <1>8 DEF delete_pm_labels

(* Who fails at the labels is marked as mixed.                              *)
LEMMA FailKeepsLabels ==
  ASSUME MailInv, LabelInv, NEW r \in Requests, Fail(r)
  PROVE  LabelInv'
<1>1. /\ req' = [req EXCEPT ![r] = Idle] /\ UNCHANGED <<store, rows, put>>
      /\ store # "memory"
  BY DEF Fail, Become
<1>2. Idle.stage \notin {"strip", "label"}
  BY DEF Idle
<1>3. CASE req[r].stage \in {"strip", "label"}
  <2>1. PICK w : w = req[r].who
    OBVIOUS
  <2>2. w \in Members /\ mixed' = [mixed EXCEPT ![w] = TRUE]
    BY <1>3, <2>1 DEF MailInv, IsRequest, Idle, Fail
  <2>3. DOMAIN put' = Members /\ \A m \in Members \ {w} : put'[m] = put[m]
    BY <1>1 DEF LabelInv
  <2> QED
    BY <1>1, <1>2, <2>1, <2>2, <2>3, MixedKeepsLabels
<1>4. CASE req[r].stage \notin {"strip", "label"}
  <2>1. UNCHANGED mixed
    BY <1>4 DEF Fail
  <2>2. \A q \in Requests : req'[q] = IF q = r THEN Idle ELSE req[q]
    BY <1>1 DEF MailInv
  <2> QED
    BY <1>1, <1>2, <1>4, <2>1, <2>2, QuietLabels DEF LabelInv
<1> QED
  BY <1>3, <1>4

(* Nothing about sending touches labels; new rows have none.                *)
LEMMA SendKeepsLabels ==
  ASSUME MailInv, LabelInv, NEW r \in Requests,
         \/ \E m \in Senders, list \in Lists :
              \/ send_personal_message_api(r, m, list) \/ agent_send(r, m, list)
              \/ controller_send(r, m, list)
         \/ \E list \in Lists : admin_notify(r, list)
         \/ req[r].stage = "write" /\ Write(r, req[r])
         \/ send_pm(r) \/ Deliver(r) \/ record_pm_sent(r)
  PROVE  LabelInv'
<1>1. ASSUME NEW new, Become(r, new),
             req[r].stage \notin {"strip", "label"}, new.stage \notin {"strip", "label"},
             UNCHANGED <<store, put, mixed>>,
             UNCHANGED rows \/ \E keys : rows' = Added(keys)
      PROVE  LabelInv'
  <2>1. \A k \in DOMAIN rows' : rows'[k] = {} \/ (k \in DOMAIN rows /\ rows'[k] = rows[k])
    BY <1>1 DEF Added
  <2>2. \A q \in Requests : req'[q] = IF q = r THEN new ELSE req[q]
    BY <1>1 DEF Become, MailInv
  <2> QED
    BY <1>1, <2>1, <2>2, QuietLabels DEF LabelInv
<1>2. Idle.stage = "idle"
  BY DEF Idle
<1>3. ASSUME NEW rq, send_personal_message(r, rq), req[r].stage \notin {"strip", "label"}
      PROVE  LabelInv'
  <2>1. PICK new : new = [stage |-> "rows", who |-> rq.who, n |-> Len(msgs) + 1, todo |-> rq.to]
    OBVIOUS
  <2>2. new.stage = "rows"
    BY <2>1
  <2>3. Become(r, new) /\ UNCHANGED <<store, put, mixed, rows>>
    BY <1>3, <2>1 DEF send_personal_message, Sending
  <2> QED
    BY <1>1, <1>3, <2>2, <2>3
<1>4. CASE \E m \in Senders, list \in Lists :
             send_personal_message_api(r, m, list) \/ agent_send(r, m, list)
  BY <1>2, <1>3, <1>4 DEF send_personal_message_api, agent_send
<1>5. CASE \E list \in Lists : admin_notify(r, list)
  BY <1>2, <1>3, <1>5 DEF admin_notify
<1>6. CASE \E m \in Senders, list \in Lists : controller_send(r, m, list)
  <2>1. PICK m \in Senders, list \in Lists : controller_send(r, m, list)
    BY <1>6
  <2>2. PICK new : new = Letter(m, resolve_recipients(list), "controller")
    OBVIOUS
  <2>3. new.stage = "count"
    BY <2>2 DEF Letter
  <2>4. Become(r, new) /\ req[r] = Idle /\ UNCHANGED <<store, put, mixed, rows>>
    BY <2>1, <2>2 DEF controller_send, Sending
  <2> QED
    BY <1>1, <1>2, <2>3, <2>4
<1>7. CASE req[r].stage = "write" /\ Write(r, req[r])
  <2>1. CASE send_personal_message(r, req[r])
    BY <1>3, <1>7, <2>1
  <2>2. CASE send_in_memory(r, req[r])
    <3>1. PICK new : new = [stage |-> "record", who |-> req[r].who, n |-> Len(msgs) + 1]
      OBVIOUS
    <3>2. new.stage = "record"
      BY <3>1
    <3>3. Become(r, new) /\ UNCHANGED <<store, put, mixed>> /\ \E keys : rows' = Added(keys)
      BY <2>2, <3>1 DEF send_in_memory, Sending
    <3> QED
      BY <1>1, <1>7, <3>2, <3>3
  <2> QED
    BY <1>7, <2>1, <2>2 DEF Write
<1>8. CASE send_pm(r)
  <2>1. req[r].stage = "count" /\ UNCHANGED <<store, put, mixed, rows>>
    BY <1>8 DEF send_pm, Sending
  <2>2. req[r] = [stage |-> "count", who |-> req[r].who, to |-> req[r].to,
                  counted |-> req[r].counted]
    BY <2>1 DEF MailInv, IsRequest, Idle
  <2>3. ASSUME NEW rq, NEW c, rq = [stage |-> "count", who |-> rq.who, to |-> rq.to,
                                    counted |-> rq.counted]
        PROVE  /\ [rq EXCEPT !.stage = "write", !.counted = c].stage = "write"
               /\ [rq EXCEPT !.stage = "write"].stage = "write"
    BY <2>3
  <2>4. \E new : Become(r, new) /\ new.stage \notin {"strip", "label"}
    <3>1. CASE Become(r, Idle)
      BY <1>2, <3>1
    <3>2. CASE Become(r, [req[r] EXCEPT !.stage = "write"])
      BY <2>2, <2>3, <3>2
    <3>3. CASE Become(r, [req[r] EXCEPT !.stage = "write", !.counted = Alone(r)])
      BY <2>2, <2>3, <3>3
    <3> QED
      BY <1>8, <3>1, <3>2, <3>3 DEF send_pm
  <2> QED
    BY <1>1, <2>1, <2>4
<1>9. CASE Deliver(r)
  <2>1. req[r].stage = "rows" /\ UNCHANGED <<store, put, mixed>>
    BY <1>9 DEF Deliver, Sending
  <2>2. req[r] = [stage |-> "rows", who |-> req[r].who, n |-> req[r].n, todo |-> req[r].todo]
    BY <2>1 DEF MailInv, IsRequest, Idle
  <2>3. ASSUME NEW rq, NEW rest,
               rq = [stage |-> "rows", who |-> rq.who, n |-> rq.n, todo |-> rq.todo]
        PROVE  [rq EXCEPT !.todo = rest].stage = "rows"
    BY <2>3
  <2>4. [req[r] EXCEPT !.todo = Tail(req[r].todo)].stage = "rows"
    BY <2>2, <2>3
  <2>5. /\ UNCHANGED rows \/ \E keys : rows' = Added(keys)
        /\ Become(r, Idle) \/ Become(r, [req[r] EXCEPT !.todo = Tail(req[r].todo)])
    BY <1>9 DEF Deliver, CreateRow, LoseRow
  <2> QED
    BY <1>1, <1>2, <2>1, <2>4, <2>5
<1>10. CASE record_pm_sent(r)
  <2>1. req[r].stage = "record" /\ Become(r, Idle) /\ UNCHANGED <<store, put, mixed, rows>>
    BY <1>10 DEF record_pm_sent, Sending
  <2> QED
    BY <1>1, <1>2, <2>1
<1> QED
  BY <1>4, <1>5, <1>6, <1>7, <1>8, <1>9, <1>10

(* The labels stay in order.                                                *)
THEOREM LabelInvariant == MailSpec => []LabelInv
<1>1. MailInit => LabelInv
  <2>1. SUFFICES ASSUME MailInit
                 PROVE  LabelInv
    OBVIOUS
  <2>2. /\ req = [r \in Requests |-> Idle] /\ rows = <<>>
        /\ put = [m \in Members |-> {}] /\ mixed = [m \in Members |-> FALSE]
    BY <2>1 DEF MailInit
  <2>3. Idle.stage = "idle" /\ DOMAIN <<>> = {}
    BY DEF Idle
  <2>4. \A m : Marking(m) = {} /\ Of(m) = {}
    BY <2>2, <2>3 DEF Marking, Of
  <2>5. \A m \in Members : Fitting(m)
    BY <2>4 DEF Fitting, RowsFit
  <2> QED
    BY <2>2, <2>3, <2>5 DEF LabelInv
<1>2. ASSUME LabelInv, MailInv, [MailNext]_mailVars
      PROVE  LabelInv'
  <2>1. Labellers \subseteq Members
    BY MailAssumption
  <2>2. ASSUME NEW r \in Requests, SendStep(r) \/ StripLabel(r) \/ WriteLabels(r)
        PROVE  LabelInv'
    BY <1>2, <2>2, SendKeepsLabels, FailKeepsLabels, StripKeepsLabels, WriteKeepsLabels
       DEF SendStep
  <2>3. ASSUME NEW r \in Requests, LabelStep(r)
        PROVE  LabelInv'
    <3>1. PICK m \in Labellers, l \in Labels :
            \/ \E n \in 1..Len(msgs), add \in BOOLEAN : label_personal_messages(r, m, {n}, l, add)
            \/ delete_pm_labels(r, m, l)
      BY <2>3 DEF LabelStep
    <3>2. m \in Members
      BY <2>1
    <3> QED
      BY <1>2, <3>1, <3>2, LabelKeepsLabels, DeleteKeepsLabels
  <2>4. ASSUME NEW r \in Requests, NEW list \in Lists, admin_notify(r, list)
        PROVE  LabelInv'
    BY <1>2, <2>4, SendKeepsLabels
  <2>5. ASSUME UNCHANGED <<store, req, put, mixed>>,
               UNCHANGED rows \/ \E keys : rows' = Without(keys)
        PROVE  LabelInv'
    <3>1. \A k \in DOMAIN rows' : k \in DOMAIN rows /\ rows'[k] = rows[k]
      BY <2>5 DEF Without
    <3> QED
      BY <1>2, <2>5, <3>1, QuietLabels
  <2>6. CASE Tidy
    <3>1. \E keys : rows' = Without(keys)
      BY <2>6 DEF Tidy, delete_personal_messages, clear_personal_messages,
                  delete_personal_messages_api, prune_personal_messages, cleanup_pm_recipients
    <3> QED
      BY <2>5, <2>6, <3>1 DEF Tidy
  <2>7. CASE Tick
    BY <2>5, <2>7 DEF Tick
  <2>8. ASSUME NEW m \in Labellers, create_pm_label(m)
        PROVE  LabelInv'
    BY <2>5, <2>8 DEF create_pm_label
  <2>9. CASE UNCHANGED mailVars
    BY <2>5, <2>9 DEF mailVars
  <2> QED
    BY <1>2, <2>2, <2>3, <2>4, <2>6, <2>7, <2>8, <2>9, SendKeepsLabels DEF MailNext
<1> QED
  BY <1>1, <1>2, MailInvariant, PTL DEF MailSpec

(* Labels that were taken off are gone from messages and the list, unless   *)
(* requests about them overlapped or failed, or are on their way.           *)
THEOREM TakenOffIsGoneHolds == MailSpec => []TakenOffIsGone
<1>1. LabelInv => TakenOffIsGone
  <2>1. SUFFICES ASSUME LabelInv, NEW m \in Members, ~mixed[m],
                        \A r \in Requests : ~(req[r].stage \in {"strip", "label"} /\ req[r].who = m)
                 PROVE  /\ \A k \in Of(m) : {k.n} \X rows[k] \subseteq put[m]
                        /\ personal_message_labels(m) \subseteq labels[m] \cup {p[2] : p \in put[m]}
    BY DEF TakenOffIsGone
  <2>2. Fitting(m) /\ Marking(m) = {}
    BY <2>1 DEF LabelInv, Marking
  <2>3. \A k \in Of(m) : \A l \in rows[k] : <<k.n, l>> \in put[m]
    BY <2>2 DEF Fitting, RowsFit, Fits
  <2>4. \A k \in Of(m) : {k.n} \X rows[k] \subseteq put[m]
    BY <2>3
  <2>5. ASSUME NEW k \in Of(m), NEW l \in rows[k]
        PROVE  l \in {p[2] : p \in put[m]}
    <3>1. PICK p \in put[m] : p = <<k.n, l>>
      BY <2>3
    <3> QED
      BY <3>1
  <2>6. UNION {rows[k] : k \in Of(m)} \subseteq {p[2] : p \in put[m]}
    BY <2>5
  <2> QED
    BY <2>4, <2>6 DEF personal_message_labels
<1> QED
  BY <1>1, LabelInvariant, PTL
-----------------------------------------------------------------------------
(***************************************************************************)
(* What members are told of besides messages: module Subscriptions, for    *)
(* any members, boards, topics, requests and faults.                       *)
(***************************************************************************)

(* Whether a call makes an author ignored, or may end that.                 *)
Gives(c, a) ==
  \/ c.op = "create_ignored" /\ c.who = a
  \/ c.op = "set_pm_ignore_list" /\ a \in c.list

Takes(c, a) == c.op = "delete_ignored" \/ (c.op = "set_pm_ignore_list" /\ a \notin c.list)

(* When all its calls have been made, a request to save settings will have  *)
(* made its author ignore a.                                                *)
Comes(todo, m, a) ==
  \/ a \in ignored[m] /\ \A n \in 1..Len(todo) : ~Takes(todo[n], a)
  \/ \E n \in 1..Len(todo) :
       Gives(todo[n], a) /\ \A k \in (n + 1)..Len(todo) : ~Takes(todo[k], a)

ChoiceOps == {"normalize_mode", "set_alert_prefs", "delete_alert_prefs", "save_topic_log", "add", "remove"}
SettingOps == {"save_pm_preferences", "set_pm_ignore_list", "delete_ignored", "create_ignored"}

Listed(s) == s # <<>> /\ \E S : s \in Seq(S)

(* The kinds of requests.                                                   *)
IsChoice(rq) ==
  /\ rq = [stage |-> "calls", who |-> rq.who, todo |-> rq.todo]
  /\ rq.who \in Members
  /\ Listed(rq.todo) /\ \A n \in 1..Len(rq.todo) : rq.todo[n].op \in ChoiceOps

IsSettle(rq) ==
  /\ rq = [stage |-> "calls", who |-> rq.who, todo |-> rq.todo, list |-> rq.list]
  /\ rq.who \in Members
  /\ Listed(rq.todo) /\ \A n \in 1..Len(rq.todo) : rq.todo[n].op \in SettingOps

IsNotify(rq) ==
  /\ rq = [stage |-> "notify", author |-> rq.author, left |-> rq.left, next |-> rq.next,
           like |-> rq.like, notified |-> rq.notified, unwilling |-> rq.unwilling]
  /\ rq.next \in {"ignored", "level", "done"}

IsTask(rq) == rq = Idle \/ IsChoice(rq) \/ IsSettle(rq) \/ IsNotify(rq)

(* Whoever is unwilling ignores the author or has alerts switched off, and  *)
(* has not been notified.                                                   *)
Silent(rq) ==
  IsNotify(rq) =>
    /\ \A m \in rq.unwilling : m \in Members /\ (rq.author \in ignored[m] \/ ~levels[m])
    /\ rq.next = "level" /\ Head(rq.left) \in rq.unwilling => ~levels[Head(rq.left)]
    /\ rq.notified \cap rq.unwilling = {}

(* Answers tell no more than is so, and nothing while settings are saved.   *)
Settling(rq) ==
  IsSettle(rq) =>
    /\ wished[rq.who] = {}
    /\ rq.who \notin overlapped => \A a \in rq.list : Comes(rq.todo, rq.who, a)

SilentInv ==
  /\ DOMAIN ignored = Members /\ DOMAIN levels = Members /\ DOMAIN wished = Members
  /\ \A m \in Members : wished[m] \subseteq ignored[m]
  /\ DOMAIN req = Requests
  /\ \A r \in Requests : IsTask(req[r]) /\ Silent(req[r]) /\ Settling(req[r])
  /\ \A m \in Members \ overlapped : \A r, q \in Doing(m) : r = q
-----------------------------------------------------------------------------
(* A set as a sequence has all its elements.                                *)
LEMMA SetToSeqFacts ==
  ASSUME NEW S, IsFiniteSet(S)
  PROVE  /\ SetToSeq(S) \in Seq(S)
         /\ \A x \in S : \E n \in 1..Len(SetToSeq(S)) : SetToSeq(S)[n] = x
<1>1. Cardinality(S) \in Nat /\ ExistsBijection(1..Cardinality(S), S)
  BY FS_CardinalityType
<1>2. PICK f \in [1..Cardinality(S) -> S] : IsInjective(f)
  BY <1>1 DEF ExistsBijection, Bijection, Injection, IsInjective
<1>3. SetToSeq(S) \in [1..Cardinality(S) -> S] /\ IsInjective(SetToSeq(S))
  BY <1>2 DEF SetToSeq, IsInjective
<1>4. SetToSeq(S) \in Injection(1..Cardinality(S), S)
  BY <1>3 DEF Injection, IsInjective
<1>5. Cardinality(1..Cardinality(S)) = Cardinality(S)
  BY <1>1, FS_Interval
<1>6. SetToSeq(S) \in Surjection(1..Cardinality(S), S)
  BY <1>4, <1>5, FS_Injection
<1>7. SetToSeq(S) \in Seq(S) /\ Len(SetToSeq(S)) = Cardinality(S)
  BY <1>1, <1>3
<1> QED
  BY <1>6, <1>7 DEF Surjection

(* The rest of a list.                                                      *)
LEMMA TailFacts ==
  ASSUME NEW s, Listed(s)
  PROVE  /\ Len(s) \in Nat \ {0}
         /\ Len(s) # 1 => Listed(Tail(s))
         /\ Len(Tail(s)) = Len(s) - 1
         /\ \A n \in 1..(Len(s) - 1) : Tail(s)[n] = s[n + 1]
<1>1. PICK S : s \in Seq(S)
  BY DEF Listed
<1>2. Tail(s) \in Seq(S) /\ Len(Tail(s)) = Len(s) - 1 /\ Len(s) \in Nat \ {0}
  BY <1>1 DEF Listed
<1>3. \A n \in 1..(Len(s) - 1) : Tail(s)[n] = s[n + 1]
  BY <1>1 DEF Listed
<1>4. Len(s) # 1 => Tail(s) # <<>>
  BY <1>2
<1> QED
  BY <1>2, <1>3, <1>4 DEF Listed

(* A call of a list has been made.                                          *)
LEMMA CallMoves ==
  ASSUME NEW todo, Listed(todo), NEW m, NEW a, Comes(todo, m, a),
         a \in ignored'[m] <=> Gives(todo[1], a) \/ (a \in ignored[m] /\ ~Takes(todo[1], a))
  PROVE  IF Len(todo) = 1 THEN a \in ignored'[m] ELSE Comes(Tail(todo), m, a)'
<1>1. /\ Len(todo) \in Nat \ {0} /\ Len(Tail(todo)) = Len(todo) - 1
      /\ \A n \in 1..(Len(todo) - 1) : Tail(todo)[n] = todo[n + 1]
  BY TailFacts
<1>2. CASE a \in ignored[m] /\ \A n \in 1..Len(todo) : ~Takes(todo[n], a)
  <2>1. a \in ignored'[m]
    BY <1>1, <1>2
  <2>2. \A n \in 1..Len(Tail(todo)) : ~Takes(Tail(todo)[n], a)
    BY <1>1, <1>2
  <2> QED
    BY <2>1, <2>2 DEF Comes
<1>3. CASE \E n \in 1..Len(todo) :
             Gives(todo[n], a) /\ \A k \in (n + 1)..Len(todo) : ~Takes(todo[k], a)
  <2>1. PICK n \in 1..Len(todo) :
          Gives(todo[n], a) /\ \A k \in (n + 1)..Len(todo) : ~Takes(todo[k], a)
    BY <1>3
  <2>2. CASE n = 1
    <3>1. a \in ignored'[m]
      BY <2>1, <2>2
    <3>2. \A k \in 1..Len(Tail(todo)) : ~Takes(Tail(todo)[k], a)
      BY <1>1, <2>1, <2>2
    <3> QED
      BY <3>1, <3>2 DEF Comes
  <2>3. CASE n # 1
    <3>1. n - 1 \in 1..Len(Tail(todo)) /\ Gives(Tail(todo)[n - 1], a) /\ Len(todo) # 1
      BY <1>1, <2>1, <2>3
    <3>2. \A k \in ((n - 1) + 1)..Len(Tail(todo)) : ~Takes(Tail(todo)[k], a)
      BY <1>1, <2>1, <2>3
    <3> QED
      BY <3>1, <3>2 DEF Comes
  <2> QED
    BY <2>2, <2>3
<1> QED
  BY <1>2, <1>3 DEF Comes

(* What becomes of a request when the settings of some members change.      *)
Later(rq, ms) ==
  IF rq.stage = "notify"
  THEN [rq EXCEPT !.unwilling = IF rq.author \in ms THEN {} ELSE @ \ ms] ELSE rq

(* The kinds of requests are different.                                     *)
LEMMA KindsDiffer ==
  ASSUME NEW rq
  PROVE  /\ IsChoice(rq) => rq.stage = "calls" /\ "list" \notin DOMAIN rq /\ ~IsSettle(rq) /\ ~IsNotify(rq)
         /\ IsSettle(rq) => rq.stage = "calls" /\ "list" \in DOMAIN rq /\ ~IsNotify(rq)
         /\ IsNotify(rq) => rq.stage = "notify" /\ ~IsChoice(rq) /\ ~IsSettle(rq) /\ rq # Idle
         /\ rq = Idle => rq.stage = "idle" /\ ~IsChoice(rq) /\ ~IsSettle(rq) /\ ~IsNotify(rq)
<1>1. ASSUME IsChoice(rq) PROVE rq.stage = "calls" /\ "list" \notin DOMAIN rq
  <2>1. \A w, t : DOMAIN [stage |-> "calls", who |-> w, todo |-> t] = {"stage", "who", "todo"}
    OBVIOUS
  <2> QED
    BY <1>1, <2>1 DEF IsChoice
<1>2. ASSUME IsSettle(rq) PROVE rq.stage = "calls" /\ "list" \in DOMAIN rq
  <2>1. \A w, t, l : "list" \in DOMAIN [stage |-> "calls", who |-> w, todo |-> t, list |-> l]
    OBVIOUS
  <2> QED
    BY <1>2, <2>1 DEF IsSettle
<1>3. IsNotify(rq) => rq.stage = "notify"
  BY DEF IsNotify
<1>4. rq = Idle => rq.stage = "idle"
  BY DEF Idle
<1> QED
  BY <1>1, <1>2, <1>3, <1>4

(* It stays one of its kind.                                                *)
LEMMA LaterFacts ==
  ASSUME NEW rq, IsTask(rq), NEW ms
  PROVE  /\ IsTask(Later(rq, ms))
         /\ ~IsNotify(rq) => Later(rq, ms) = rq
         /\ IsNotify(rq) => /\ IsNotify(Later(rq, ms))
                            /\ Later(rq, ms).author = rq.author /\ Later(rq, ms).left = rq.left
                            /\ Later(rq, ms).next = rq.next /\ Later(rq, ms).notified = rq.notified
                            /\ Later(rq, ms).unwilling \subseteq rq.unwilling \ ms
                            /\ rq.author \in ms => Later(rq, ms).unwilling = {}
<1>1. CASE IsNotify(rq)
  <2>1. PICK less : less = IF rq.author \in ms THEN {} ELSE rq.unwilling \ ms
    OBVIOUS
  <2>2. rq.stage = "notify"
    BY <1>1, KindsDiffer
  <2>3. Later(rq, ms) = [rq EXCEPT !.unwilling = less]
    BY <2>1, <2>2 DEF Later
  <2>4. PICK new : new = [rq EXCEPT !.unwilling = less]
    OBVIOUS
  <2>5. /\ new.stage = "notify" /\ new.author = rq.author /\ new.left = rq.left /\ new.next = rq.next
        /\ new.like = rq.like /\ new.notified = rq.notified /\ new.unwilling = less
        /\ new = [stage |-> new.stage, author |-> new.author, left |-> new.left, next |-> new.next,
                  like |-> new.like, notified |-> new.notified, unwilling |-> new.unwilling]
    BY <1>1, <2>4 DEF IsNotify
  <2>6. IsNotify(new)
    BY <1>1, <2>5 DEF IsNotify
  <2> QED
    BY <1>1, <2>1, <2>3, <2>4, <2>5, <2>6 DEF IsTask
<1>2. CASE ~IsNotify(rq)
  <2>1. rq.stage # "notify"
    BY <1>2, KindsDiffer DEF IsTask
  <2> QED
    BY <1>2, <2>1 DEF Later
<1> QED
  BY <1>1, <1>2

(* Requests that make no step themselves.                                   *)
LEMMA OtherKeeps ==
  ASSUME SilentInv, NEW q \in Requests, NEW ms, req'[q] = Later(req[q], ms),
         \A m \in Members \ ms : \A a : a \notin ms => (a \in ignored'[m] <=> a \in ignored[m]),
         \A m \in Members \ ms : levels'[m] = levels[m],
         IsSettle(req[q]) =>
           /\ wished'[req[q].who] = {}
           /\ req[q].who \notin overlapped' => req[q].who \notin overlapped /\ ignored'[req[q].who] = ignored[req[q].who]
  PROVE  /\ IsTask(req'[q]) /\ Silent(req[q])' /\ Settling(req[q])'
         /\ req'[q].stage = "calls" => req[q].stage = "calls" /\ req'[q].who = req[q].who
<1> DEFINE rq == req[q]
<1>1. IsTask(rq) /\ Silent(rq) /\ Settling(rq)
  BY DEF SilentInv
<1>2. CASE IsNotify(rq)
  <2>1. PICK new : new = Later(rq, ms)
    OBVIOUS
  <2>2. /\ IsNotify(new) /\ new.author = rq.author /\ new.left = rq.left /\ new.next = rq.next
        /\ new.notified = rq.notified /\ new.unwilling \subseteq rq.unwilling \ ms
        /\ new.author \in ms => new.unwilling = {}
    BY <1>1, <1>2, <2>1, LaterFacts
  <2>3. /\ \A m \in new.unwilling : m \in Members /\ (new.author \in ignored'[m] \/ ~levels'[m])
        /\ new.next = "level" /\ Head(new.left) \in new.unwilling => ~levels'[Head(new.left)]
        /\ new.notified \cap new.unwilling = {}
    BY <1>1, <1>2, <2>2 DEF Silent
  <2>4. ~IsSettle(new) /\ new.stage = "notify" /\ IsTask(new)
    BY <2>2, KindsDiffer DEF IsTask
  <2> QED
    BY <2>1, <2>3, <2>4 DEF Silent, Settling
<1>3. CASE ~IsNotify(rq)
  <2>1. req'[q] = rq
    BY <1>1, <1>3, LaterFacts
  <2>2. Settling(req[q])'
    BY <1>1, <2>1 DEF Settling, Comes
  <2> QED
    BY <1>1, <1>3, <2>1, <2>2 DEF Silent
<1> QED
  BY <1>2, <1>3

(* Request r becomes new while the settings of the members ms may change.   *)
Moves(r, new, ms) ==
  /\ DOMAIN req' = Requests
  /\ \A q \in Requests : req'[q] = IF q = r THEN new ELSE Later(req[q], ms)
  /\ \A m \in Members \ ms : ignored'[m] = ignored[m] /\ levels'[m] = levels[m]

(* Such a step keeps the invariant.                                         *)
LEMMA StepKeeps ==
  ASSUME SilentInv, NEW r \in Requests, NEW new, NEW ms,
         Moves(r, new, ms), IsTask(new), Silent(new)', Settling(new)',
         DOMAIN ignored' = Members, DOMAIN levels' = Members, DOMAIN wished' = Members,
         \A m \in Members : wished'[m] \subseteq ignored'[m],
         overlapped \subseteq overlapped',
         \A q \in Requests \ {r} : IsSettle(req[q]) =>
           /\ wished'[req[q].who] = {}
           /\ req[q].who \notin overlapped' => ignored'[req[q].who] = ignored[req[q].who],
         new.stage = "calls" =>
           \/ req[r].stage = "calls" /\ new.who = req[r].who
           \/ new.who \in overlapped' \/ Doing(new.who) = {}
  PROVE  SilentInv'
<1>1. ASSUME NEW q \in Requests \ {r}
      PROVE  /\ IsTask(req'[q]) /\ Silent(req[q])' /\ Settling(req[q])'
             /\ req'[q].stage = "calls" => req[q].stage = "calls" /\ req'[q].who = req[q].who
  BY OtherKeeps DEF Moves
<1>2. \A q \in Requests : IsTask(req'[q]) /\ Silent(req[q])' /\ Settling(req[q])'
  <2>1. ASSUME req'[r] = new PROVE IsTask(req'[r]) /\ Silent(req[r])' /\ Settling(req[r])'
    BY <2>1
  <2> QED
    BY <1>1, <2>1 DEF Moves
<1>3. ASSUME NEW m \in Members \ overlapped', NEW p \in Requests, NEW q \in Requests,
             req'[p].stage = "calls", req'[p].who = m, req'[q].stage = "calls", req'[q].who = m
      PROVE  p = q
  <2>1. \A a, b \in Requests : req[a].stage = "calls" /\ req[a].who = m /\ req[b].stage = "calls" /\ req[b].who = m
                                 => a = b
    BY <1>3 DEF SilentInv, Doing
  <2>2. \A a \in Requests \ {r} : req'[a].stage = "calls" /\ req'[a].who = m =>
                                    req[a].stage = "calls" /\ req[a].who = m
    BY <1>1
  <2>3. req'[r] = new
    BY DEF Moves
  <2>4. new.stage = "calls" /\ new.who = m =>
          (req[r].stage = "calls" /\ req[r].who = m)
            \/ \A a \in Requests : ~(req[a].stage = "calls" /\ req[a].who = m)
    BY <1>3 DEF Doing
  <2> QED
    BY <1>3, <2>1, <2>2, <2>3, <2>4
<1>4. \A m \in Members \ overlapped' : \A p, q \in Doing(m)' : p = q
  BY <1>3 DEF Doing
<1> QED
  BY <1>2, <1>4, SubscriptionsAssumption DEF SilentInv, Moves

(* A step of request r that leaves the settings alone.                      *)
LEMMA QuietStep ==
  ASSUME SilentInv, NEW r \in Requests, NEW new, Become(r, new), UNCHANGED settings,
         IsTask(new), Silent(new), Settling(new)', overlapped \subseteq overlapped',
         new.stage = "calls" =>
           \/ req[r].stage = "calls" /\ new.who = req[r].who
           \/ new.who \in overlapped' \/ Doing(new.who) = {}
  PROVE  SilentInv'
<1>1. \A q \in Requests : Later(req[q], {}) = req[q]
  <2>1. ASSUME NEW rq, IsTask(rq)
        PROVE  Later(rq, {}) = rq
    <3>1. CASE IsNotify(rq)
      <4>1. Later(rq, {}) = [rq EXCEPT !.unwilling = rq.unwilling]
        <5>1. rq.unwilling \ {} = rq.unwilling
          OBVIOUS
        <5> QED
          BY <3>1, <5>1, KindsDiffer DEF Later
      <4>2. [rq EXCEPT !.unwilling = rq.unwilling] = rq
        BY <3>1 DEF IsNotify
      <4> QED
        BY <4>1, <4>2
    <3>2. CASE ~IsNotify(rq)
      BY <2>1, <3>2, LaterFacts
    <3> QED
      BY <3>1, <3>2
  <2> QED
    BY <2>1 DEF SilentInv
<1>2. DOMAIN req' = Requests /\ \A q \in Requests : req'[q] = IF q = r THEN new ELSE Later(req[q], {})
  BY <1>1 DEF Become, SilentInv
<1>3. /\ DOMAIN ignored' = Members /\ DOMAIN levels' = Members /\ DOMAIN wished' = Members
      /\ \A m \in Members \ {} : ignored'[m] = ignored[m] /\ levels'[m] = levels[m]
      /\ \A m \in Members : wished'[m] \subseteq ignored'[m]
  BY DEF SilentInv, settings
<1>4. \A q \in Requests \ {r} : IsSettle(req[q]) =>
        wished'[req[q].who] = {} /\ ignored'[req[q].who] = ignored[req[q].who]
  BY DEF SilentInv, Settling, settings
<1>5. Silent(new)'
  BY DEF Silent, settings
<1>6. Moves(r, new, {})
  BY <1>2, <1>3 DEF Moves
<1> QED
  BY <1>3, <1>4, <1>5, <1>6, StepKeeps
-----------------------------------------------------------------------------
(* The lists of calls that requests begin with.                             *)
ChoiceList(todo) == Listed(todo) /\ \A n \in 1..Len(todo) : todo[n].op \in ChoiceOps

(* Lists of one or two calls.                                               *)
LEMMA TupleFacts ==
  /\ \A a : Listed(<<a>>) /\ Len(<<a>>) = 1 /\ <<a>>[1] = a
  /\ \A a, b : /\ Listed(<<a, b>>) /\ Len(<<a, b>>) = 2
               /\ <<a, b>>[1] = a /\ <<a, b>>[2] = b
<1>1. ASSUME NEW a PROVE Listed(<<a>>) /\ Len(<<a>>) = 1 /\ <<a>>[1] = a
  <2>1. <<a>> \in Seq({a})
    OBVIOUS
  <2> QED
    BY <2>1 DEF Listed
<1>2. ASSUME NEW a, NEW b
      PROVE  Listed(<<a, b>>) /\ Len(<<a, b>>) = 2 /\ <<a, b>>[1] = a /\ <<a, b>>[2] = b
  <2>1. <<a, b>> \in Seq({a, b})
    OBVIOUS
  <2> QED
    BY <2>1 DEF Listed
<1> QED
  BY <1>1, <1>2

(* A list has a call that makes a ignored, and none after it that ends it.  *)
Promised(todo, a) ==
  \E n \in 1..Len(todo) : Gives(todo[n], a) /\ \A k \in (n + 1)..Len(todo) : ~Takes(todo[k], a)

(* Two lists, one after the other.                                          *)
LEMMA ListsJoin ==
  ASSUME NEW s, NEW T, NEW t \in Seq(T), Listed(s), NEW Ops,
         \A n \in 1..Len(s) : s[n].op \in Ops, \A n \in 1..Len(t) : t[n].op \in Ops
  PROVE  /\ Listed(s \o t) /\ \A n \in 1..Len(s \o t) : (s \o t)[n].op \in Ops
         /\ \A a : Promised(t, a) => Promised(s \o t, a)
<1>1. PICK S : s \in Seq(S)
  BY DEF Listed
<1>2. s \in Seq(S \cup T) /\ t \in Seq(S \cup T) /\ Len(s) \in Nat \ {0} /\ Len(t) \in Nat
  BY <1>1 DEF Listed
<1>3. /\ s \o t \in Seq(S \cup T) /\ Len(s \o t) = Len(s) + Len(t)
      /\ \A n \in 1..(Len(s) + Len(t)) : (s \o t)[n] = IF n <= Len(s) THEN s[n] ELSE t[n - Len(s)]
  BY <1>2, ConcatProperties
<1>4. Listed(s \o t)
  BY <1>2, <1>3 DEF Listed
<1>5. \A n \in 1..Len(s \o t) : (s \o t)[n].op \in Ops
  BY <1>2, <1>3
<1>6. ASSUME NEW a, Promised(t, a)
      PROVE  Promised(s \o t, a)
  <2>1. PICK n \in 1..Len(t) : Gives(t[n], a) /\ \A k \in (n + 1)..Len(t) : ~Takes(t[k], a)
    BY <1>6 DEF Promised
  <2>2. n + Len(s) \in 1..Len(s \o t) /\ (s \o t)[n + Len(s)] = t[n]
    BY <1>2, <1>3
  <2>3. \A k \in (n + Len(s) + 1)..Len(s \o t) : k - Len(s) \in (n + 1)..Len(t) /\ (s \o t)[k] = t[k - Len(s)]
    BY <1>2, <1>3
  <2> QED
    BY <2>1, <2>2, <2>3 DEF Promised
<1> QED
  BY <1>4, <1>5, <1>6

(* The lists of board_notify and topic_notify ...                           *)
LEMMA NotifyLists ==
  ASSUME NEW i, NEW mode
  PROVE  ChoiceList(NotifyCalls(i, mode)) /\ ChoiceList(NotifyStart(i, mode))
<1>1. \A v, j : SetPrefs(j, v).op = "set_alert_prefs"
  BY DEF SetPrefs
<1>2. \A j, u : SaveLog(j, u).op = "save_topic_log"
  BY DEF SaveLog
<1>3. \A j, u : TakeOff(j, u).op = "remove"
  BY DEF TakeOff
<1>4. PutOn(i).op = "add" /\ Normalize(i).op = "normalize_mode"
  BY DEF PutOn, Normalize
<1>5. ASSUME NEW a, NEW b, a.op \in ChoiceOps, b.op \in ChoiceOps PROVE ChoiceList(<<a, b>>)
  <2>1. PICK s : s = <<a, b>>
    OBVIOUS
  <2>2. Listed(s) /\ Len(s) = 2 /\ s[1] = a /\ s[2] = b
    BY <2>1, TupleFacts
  <2> QED
    BY <1>5, <2>1, <2>2 DEF ChoiceList
<1>6. ASSUME NEW a, NEW b, NEW c, a.op \in ChoiceOps, b.op \in ChoiceOps, c.op \in ChoiceOps
      PROVE  ChoiceList(<<a>> \o <<b, c>>)
  <2>1. ChoiceList(<<b, c>>)
    BY <1>5, <1>6
  <2>2. Listed(<<a>>) /\ \A n \in 1..Len(<<a>>) : <<a>>[n].op \in ChoiceOps
    BY <1>6, TupleFacts
  <2>3. PICK T : <<b, c>> \in Seq(T)
    BY <2>1 DEF ChoiceList, Listed
  <2> QED
    BY <2>1, <2>2, <2>3, ListsJoin DEF ChoiceList
<1>7. ChoiceList(<<Normalize(i)>>)
  <2>1. PICK s : s = <<Normalize(i)>>
    OBVIOUS
  <2>2. Listed(s) /\ Len(s) = 1 /\ s[1] = Normalize(i)
    BY <2>1, TupleFacts
  <2> QED
    BY <1>4, <2>1, <2>2 DEF ChoiceList, ChoiceOps
<1>8. PICK first, second : /\ board_notify_calls(i, mode) = <<first, second>>
                           /\ first.op \in ChoiceOps /\ second.op \in ChoiceOps
  BY <1>1, <1>3, <1>4 DEF board_notify_calls, ChoiceOps
<1>9. SaveLog(i, mode = 0).op \in ChoiceOps
  BY <1>2 DEF ChoiceOps
<1>10. ChoiceList(NotifyCalls(i, mode))
  BY <1>5, <1>6, <1>8, <1>9 DEF NotifyCalls, topic_notify_calls
<1> QED
  BY <1>7, <1>10 DEF NotifyStart

(* ... and those of the profile page.                                       *)
LEMMA RemovalLists ==
  ASSUME NEW items, items # {}, IsFiniteSet(items)
  PROVE  /\ ChoiceList(Removals(items)) /\ ChoiceList(Append(Removals(items), SetPrefs(items, 0)))
         /\ ChoiceList(<<DeletePrefs(items)>>)
<1>1. \A j, u : TakeOff(j, u).op = "remove"
  BY DEF TakeOff
<1>2. ASSUME NEW a, a.op \in ChoiceOps PROVE ChoiceList(<<a>>)
  <2>1. PICK s : s = <<a>>
    OBVIOUS
  <2>2. Listed(s) /\ Len(s) = 1 /\ s[1] = a
    BY <2>1, TupleFacts
  <2> QED
    BY <1>2, <2>1, <2>2 DEF ChoiceList
<1>3. ChoiceList(Removals(items))
  <2>1. CASE store = "memory"
    <3>1. TakeOff(items, FALSE).op \in ChoiceOps
      BY <1>1 DEF ChoiceOps
    <3> QED
      BY <1>2, <2>1, <3>1 DEF Removals
  <2>2. CASE store # "memory"
    <3>1. PICK list : list = SetToSeq(items)
      OBVIOUS
    <3>2. list \in Seq(items) /\ Len(list) \in Nat \ {0} /\ DOMAIN list = 1..Len(list)
      BY <3>1, SetToSeqFacts
    <3>3. PICK s : s = [n \in DOMAIN list |-> TakeOff({list[n]}, TRUE)]
      OBVIOUS
    <3>a. s \in [1..Len(list) -> {TakeOff({x}, TRUE) : x \in items}]
      <4>1. \A n \in 1..Len(list) : list[n] \in items
        BY <3>2
      <4> QED
        BY <3>2, <3>3, <4>1
    <3>b. ASSUME NEW S, s \in [1..Len(list) -> S] PROVE s \in Seq(S) /\ Len(s) = Len(list)
      BY <3>2, <3>b
    <3>4. s \in Seq({TakeOff({x}, TRUE) : x \in items}) /\ Len(s) = Len(list)
      BY <3>a, <3>b
    <3>5. \A n \in 1..Len(s) : s[n].op = "remove"
      <4>1. \A n \in 1..Len(s) : s[n] = TakeOff({list[n]}, TRUE)
        BY <3>2, <3>3, <3>4
      <4> QED
        BY <1>1, <4>1
    <3>6. Removals(items) = s
      BY <2>2, <3>1, <3>3 DEF Removals
    <3>7. s # <<>>
      BY <3>2, <3>4
    <3> QED
      BY <3>4, <3>5, <3>6, <3>7 DEF ChoiceList, Listed, ChoiceOps
  <2> QED
    BY <2>1, <2>2
<1>4. ASSUME NEW s, ChoiceList(s), NEW c, c.op \in ChoiceOps PROVE ChoiceList(Append(s, c))
  <2>1. PICK S : s \in Seq(S)
    BY <1>4 DEF ChoiceList, Listed
  <2>2. Append(s, c) \in Seq(S \cup {c}) /\ Append(s, c) # <<>>
    BY <2>1
  <2>3. \A n \in 1..Len(Append(s, c)) : Append(s, c)[n].op \in ChoiceOps
    BY <1>4, <2>1 DEF ChoiceList
  <2> QED
    BY <2>2, <2>3 DEF ChoiceList, Listed
<1>5. SetPrefs(items, 0).op \in ChoiceOps /\ DeletePrefs(items).op \in ChoiceOps
  BY DEF SetPrefs, DeletePrefs, ChoiceOps
<1> QED
  BY <1>2, <1>3, <1>4, <1>5

(* Requests about subscriptions begin.                                      *)
LEMMA ChoicesBegin ==
  ASSUME SilentInv, NEW r \in Requests, NEW m \in Members, NEW todo, ChoiceList(todo),
         Begin(r, m, todo), UNCHANGED settings
  PROVE  SilentInv'
<1>1. PICK new : new = [stage |-> "calls", who |-> m, todo |-> todo]
  OBVIOUS
<1>2. Become(r, new) /\ overlapped' = IF Doing(m) = {} THEN overlapped ELSE overlapped \cup {m}
  BY <1>1 DEF Begin
<1>3. IsChoice(new) /\ new.who = m
  BY <1>1 DEF IsChoice, ChoiceList
<1>4. ~IsSettle(new) /\ ~IsNotify(new) /\ IsTask(new)
  BY <1>3, KindsDiffer DEF IsTask
<1>5. Silent(new) /\ Settling(new)'
  BY <1>4 DEF Silent, Settling
<1> QED
  BY <1>2, <1>3, <1>4, <1>5, QuietStep

(* The list that save_pm_settings begins with makes the member ignore those *)
(* he asked for.                                                            *)
LEMMA SettleLists ==
  ASSUME NEW level, NEW list, IsFiniteSet(list),
         NEW todo, todo = <<SavePreferences(level)>> \o set_pm_ignore_list(list)
  PROVE  /\ Listed(todo) /\ \A n \in 1..Len(todo) : todo[n].op \in SettingOps
         /\ \A a \in list : Promised(todo, a)
<1>1. ASSUME NEW c PROVE <<c>> \in Seq({c}) /\ Listed(<<c>>) /\ Len(<<c>>) = 1 /\ <<c>>[1] = c
  BY TupleFacts
<1>2. PICK save_call : save_call = SavePreferences(level)
  OBVIOUS
<1>3. save_call.op \in SettingOps
  BY <1>2 DEF SavePreferences, SettingOps
<1>4. ASSUME NEW t, \E T : t \in Seq(T), \A n \in 1..Len(t) : t[n].op \in SettingOps,
             \A a \in list : Promised(t, a), set_pm_ignore_list(list) = t
      PROVE  /\ Listed(todo) /\ \A n \in 1..Len(todo) : todo[n].op \in SettingOps
             /\ \A a \in list : Promised(todo, a)
  <2>1. todo = <<save_call>> \o t
    BY <1>2, <1>4
  <2>2. Listed(<<save_call>>) /\ \A n \in 1..Len(<<save_call>>) : <<save_call>>[n].op \in SettingOps
    BY <1>1, <1>3
  <2>3. PICK s : s = <<save_call>>
    OBVIOUS
  <2>4. Listed(s) /\ (\A n \in 1..Len(s) : s[n].op \in SettingOps) /\ todo = s \o t
    BY <2>1, <2>2, <2>3
  <2>5. /\ Listed(s \o t) /\ \A n \in 1..Len(s \o t) : (s \o t)[n].op \in SettingOps
        /\ \A a : Promised(t, a) => Promised(s \o t, a)
    BY <1>4, <2>4, ListsJoin
  <2> QED
    BY <1>4, <2>4, <2>5
<1>5. CASE store = "memory"
  <2>1. PICK c : c = SetIgnored(list)
    OBVIOUS
  <2>2. c.op = "set_pm_ignore_list" /\ c.list = list
    BY <2>1 DEF SetIgnored
  <2>3. \A a \in list : Gives(c, a)
    BY <2>2 DEF Gives
  <2>4. PICK t : t = <<c>>
    OBVIOUS
  <2>5. t \in Seq({c}) /\ Len(t) = 1 /\ t[1] = c
    BY <1>1, <2>4
  <2>6. \A a \in list : Promised(t, a)
    BY <2>3, <2>5 DEF Promised
  <2>7. set_pm_ignore_list(list) = t
    BY <1>5, <2>1, <2>4 DEF set_pm_ignore_list
  <2>8. \A n \in 1..Len(t) : t[n].op \in SettingOps
    BY <2>2, <2>5 DEF SettingOps
  <2> QED
    BY <1>4, <2>5, <2>6, <2>7, <2>8
<1>6. CASE store # "memory"
  <2>1. PICK s : s = SetToSeq(list)
    OBVIOUS
  <2>a. s \in Seq(list) /\ \A a \in list : \E n \in 1..Len(s) : s[n] = a
    BY <2>1, SetToSeqFacts
  <2>2. /\ s \in Seq(list) /\ Len(s) \in Nat /\ DOMAIN s = 1..Len(s)
        /\ \A a \in list : \E n \in 1..Len(s) : s[n] = a
    BY <2>a
  <2>3. PICK t : t = [n \in DOMAIN s |-> Ignore(s[n])]
    OBVIOUS
  <2>4. \A x : Ignore(x).op = "create_ignored" /\ Ignore(x).who = x
    BY DEF Ignore
  <2>5. ASSUME NEW S, t \in [1..Len(s) -> S] PROVE t \in Seq(S) /\ Len(t) = Len(s)
    <3>1. Len(s) \in Nat
      BY <2>2
    <3> QED
      BY <2>5, <3>1
  <2>6. t \in [1..Len(s) -> {Ignore(x) : x \in list}]
    <3>1. \A n \in 1..Len(s) : s[n] \in list
      BY <2>2
    <3> QED
      BY <2>2, <2>3, <3>1
  <2>7. t \in Seq({Ignore(x) : x \in list}) /\ Len(t) = Len(s)
    BY <2>5, <2>6
  <2>8. \A n \in 1..Len(t) : t[n] = Ignore(s[n])
    BY <2>2, <2>3, <2>7
  <2>9. \A n \in 1..Len(t) : t[n].op = "create_ignored" /\ t[n].who = s[n]
    BY <2>4, <2>8
  <2>10. \A a : \A n \in 1..Len(t) : ~Takes(t[n], a)
    BY <2>9 DEF Takes
  <2>11. ASSUME NEW a \in list PROVE Promised(t, a)
    <3>1. PICK n \in 1..Len(t) : s[n] = a
      BY <2>2, <2>7
    <3>2. Gives(t[n], a)
      BY <2>9, <3>1 DEF Gives
    <3>3. \A k \in (n + 1)..Len(t) : k \in 1..Len(t)
      BY <2>2, <2>7
    <3> QED
      BY <2>10, <3>2, <3>3 DEF Promised
  <2>12. PICK u : u = <<Clear>> \o t
    OBVIOUS
  <2>13. Clear.op \in SettingOps
    BY DEF Clear, SettingOps
  <2>14. Listed(<<Clear>>) /\ \A n \in 1..Len(<<Clear>>) : <<Clear>>[n].op \in SettingOps
    BY <1>1, <2>13
  <2>15. \A n \in 1..Len(t) : t[n].op \in SettingOps
    BY <2>9 DEF SettingOps
  <2>16. /\ Listed(u) /\ \A n \in 1..Len(u) : u[n].op \in SettingOps
         /\ \A a : Promised(t, a) => Promised(u, a)
    BY <2>7, <2>12, <2>14, <2>15, ListsJoin
  <2>17. set_pm_ignore_list(list) = u
    BY <1>6, <2>1, <2>3, <2>12 DEF set_pm_ignore_list
  <2>18. PICK U : u \in Seq(U)
    BY <2>16 DEF Listed
  <2> QED
    BY <1>4, <2>11, <2>16, <2>17, <2>18
<1> QED
  BY <1>5, <1>6

(* Requests to save settings begin: nothing is known of their member.       *)
LEMMA SettlesBegin ==
  ASSUME SilentInv, NEW r \in Requests, NEW m \in Members, NEW level, NEW list \in SUBSET Members,
         save_pm_settings(r, m, level, list)
  PROVE  SilentInv'
<1>1. PICK todo : todo = <<SavePreferences(level)>> \o set_pm_ignore_list(list)
  OBVIOUS
<1>2. PICK new : new = [stage |-> "calls", who |-> m, todo |-> todo, list |-> list]
  OBVIOUS
<1>3. /\ req' = Unsure([req EXCEPT ![r] = new], {m})
      /\ overlapped' = IF Doing(m) = {} THEN overlapped ELSE overlapped \cup {m}
      /\ wished' = [wished EXCEPT ![m] = {}]
      /\ UNCHANGED <<ignored, levels>>
  BY <1>1, <1>2 DEF save_pm_settings, Settle
<1>4. IsFiniteSet(list)
  BY FS_Subset, SubscriptionsAssumption DEF SilentInv
<1>5. /\ Listed(todo) /\ \A n \in 1..Len(todo) : todo[n].op \in SettingOps
      /\ \A a \in list : Promised(todo, a)
  BY <1>1, <1>4, SettleLists
<1>6. new.who = m /\ new.todo = todo /\ new.list = list /\ new.stage = "calls" /\ IsSettle(new)
  BY <1>2, <1>5 DEF IsSettle
<1>7. IsTask(new) /\ ~IsNotify(new)
  BY <1>6, KindsDiffer DEF IsTask
<1>8. Silent(new)' /\ Settling(new)'
  <2>1. \A a \in list : Comes(todo, m, a)'
    BY <1>5 DEF Comes, Promised
  <2>2. wished'[m] = {}
    BY <1>3 DEF SilentInv
  <2> QED
    BY <1>6, <1>7, <2>1, <2>2 DEF Silent, Settling
<1>9. /\ DOMAIN req' = Requests
      /\ \A q \in Requests : req'[q] = IF q = r THEN new ELSE Later(req[q], {m})
  BY <1>3, <1>6 DEF Unsure, Later, SilentInv
<1>10. /\ DOMAIN ignored' = Members /\ DOMAIN levels' = Members /\ DOMAIN wished' = Members
       /\ \A k \in Members \ {m} : ignored'[k] = ignored[k] /\ levels'[k] = levels[k]
       /\ \A k \in Members : wished'[k] \subseteq ignored'[k]
       /\ overlapped \subseteq overlapped'
  BY <1>3 DEF SilentInv
<1>11. \A q \in Requests \ {r} : IsSettle(req[q]) =>
         /\ wished'[req[q].who] = {}
         /\ req[q].who \notin overlapped' => ignored'[req[q].who] = ignored[req[q].who]
  BY <1>3 DEF SilentInv, Settling, IsSettle
<1>12. new.who \in overlapped' \/ Doing(new.who) = {}
  BY <1>3, <1>6
<1>13. Moves(r, new, {m})
  BY <1>9, <1>10 DEF Moves
<1> QED
  BY <1>6, <1>7, <1>8, <1>10, <1>11, <1>12, <1>13, StepKeeps
-----------------------------------------------------------------------------
(* A call about subscriptions.                                              *)
LEMMA ChoiceCalls ==
  ASSUME SilentInv, NEW r \in Requests, IsChoice(req[r]), UNCHANGED <<settings, overlapped>>,
         \/ req' = Finish(r, req[r], req)
         \/ \E i, mode : Become(r, [req[r] EXCEPT !.todo = NotifyCalls(i, mode)])
  PROVE  SilentInv'
<1> DEFINE rq == req[r]
<1>1. ASSUME NEW todo, ChoiceList(todo), Become(r, [rq EXCEPT !.todo = todo])
      PROVE  SilentInv'
  <2>1. PICK new : new = [rq EXCEPT !.todo = todo]
    OBVIOUS
  <2>2. new.stage = "calls" /\ new.who = rq.who /\ new.todo = todo /\ rq.stage = "calls"
        /\ new = [stage |-> "calls", who |-> new.who, todo |-> new.todo]
    BY <2>1 DEF IsChoice
  <2>3. IsChoice(new)
    BY <1>1, <2>2 DEF IsChoice, ChoiceList
  <2>4. ~IsSettle(new) /\ ~IsNotify(new) /\ IsTask(new)
    BY <2>3, KindsDiffer DEF IsTask
  <2>5. Silent(new) /\ Settling(new)'
    BY <2>4 DEF Silent, Settling
  <2> QED
    BY <1>1, <2>1, <2>2, <2>4, <2>5, QuietStep
<1>2. CASE req' = Finish(r, rq, req)
  <2>1. CASE Len(rq.todo) = 1
    <3>1. Become(r, Idle)
      BY <1>2, <2>1 DEF Finish, Become
    <3>2. ~IsSettle(Idle) /\ ~IsNotify(Idle) /\ IsTask(Idle) /\ Idle.stage = "idle"
      BY KindsDiffer DEF IsTask
    <3>3. Silent(Idle) /\ Settling(Idle)'
      BY <3>2 DEF Silent, Settling
    <3> QED
      BY <3>1, <3>2, <3>3, QuietStep
  <2>2. CASE Len(rq.todo) # 1
    <3>1. Become(r, [rq EXCEPT !.todo = Tail(rq.todo)])
      BY <1>2, <2>2 DEF Finish, Rest, Become
    <3>2. Listed(rq.todo) /\ \A n \in 1..Len(rq.todo) : rq.todo[n].op \in ChoiceOps
      BY DEF IsChoice
    <3>3. /\ Len(rq.todo) \in Nat \ {0} /\ Listed(Tail(rq.todo)) /\ Len(Tail(rq.todo)) = Len(rq.todo) - 1
          /\ \A n \in 1..(Len(rq.todo) - 1) : Tail(rq.todo)[n] = rq.todo[n + 1]
      BY <2>2, <3>2, TailFacts
    <3>4. ChoiceList(Tail(rq.todo))
      BY <3>2, <3>3 DEF ChoiceList
    <3> QED
      BY <1>1, <3>1, <3>4
  <2> QED
    BY <2>1, <2>2
<1>3. CASE \E i, mode : Become(r, [rq EXCEPT !.todo = NotifyCalls(i, mode)])
  BY <1>1, <1>3, NotifyLists
<1> QED
  BY <1>2, <1>3

(* The lists that Set makes.                                                *)
LEMMA SetFacts ==
  ASSUME SilentInv, NEW m \in Members, NEW c, c.op \in SettingOps, Set(m, c)
  PROVE  /\ DOMAIN ignored' = Members /\ DOMAIN levels' = Members
         /\ \A k \in Members \ {m} : ignored'[k] = ignored[k] /\ levels'[k] = levels[k]
         /\ \A a : a \in ignored'[m] <=> Gives(c, a) \/ (a \in ignored[m] /\ ~Takes(c, a))
<1>1. CASE c.op = "save_pm_preferences"
  BY <1>1 DEF Set, Gives, Takes, SilentInv
<1>2. CASE c.op = "set_pm_ignore_list"
  BY <1>2 DEF Set, Gives, Takes, SilentInv
<1>3. CASE c.op = "delete_ignored"
  BY <1>3 DEF Set, Gives, Takes, SilentInv
<1>4. CASE c.op = "create_ignored"
  BY <1>4 DEF Set, Gives, Takes, SilentInv
<1> QED
  BY <1>1, <1>2, <1>3, <1>4 DEF SettingOps

(* A call about settings.  The last one tells whom the member ignores.      *)
LEMMA SettingCalls ==
  ASSUME SilentInv, NEW r \in Requests, IsSettle(req[r]), Set(req[r].who, req[r].todo[1]),
         wished' = Settled(req[r], req[r].who), UNCHANGED overlapped,
         req' = Finish(r, req[r], Unsure(req, {req[r].who}))
  PROVE  SilentInv'
<1>0. PICK rq, m, todo, new :
        /\ rq = req[r] /\ m = rq.who /\ todo = rq.todo
        /\ new = IF Len(todo) = 1 THEN Idle ELSE [rq EXCEPT !.todo = Tail(todo)]
  OBVIOUS
<1>1. /\ m \in Members /\ rq.stage = "calls" /\ Listed(todo)
      /\ \A n \in 1..Len(todo) : todo[n].op \in SettingOps
      /\ "list" \in DOMAIN rq /\ ~IsNotify(rq) /\ IsSettle(rq)
  BY <1>0, KindsDiffer DEF IsSettle
<1>2. /\ Len(todo) \in Nat \ {0} /\ Len(Tail(todo)) = Len(todo) - 1
      /\ Len(todo) # 1 => Listed(Tail(todo))
      /\ \A n \in 1..(Len(todo) - 1) : Tail(todo)[n] = todo[n + 1]
  BY <1>1, TailFacts
<1>3. /\ DOMAIN ignored' = Members /\ DOMAIN levels' = Members
      /\ \A k \in Members \ {m} : ignored'[k] = ignored[k] /\ levels'[k] = levels[k]
      /\ \A a : a \in ignored'[m] <=> Gives(todo[1], a) \/ (a \in ignored[m] /\ ~Takes(todo[1], a))
  <2>1. Set(m, todo[1]) /\ todo[1].op \in SettingOps
    BY <1>0, <1>1, <1>2
  <2> QED
    BY <1>1, <2>1, SetFacts
<1>4. wished[m] = {} /\ (m \notin overlapped => \A a \in rq.list : Comes(todo, m, a))
  BY <1>0, <1>1 DEF SilentInv, Settling
<1>5. m \notin overlapped => \A a \in rq.list :
        IF Len(todo) = 1 THEN a \in ignored'[m] ELSE Comes(Tail(todo), m, a)'
  <2>1. ASSUME NEW a, Comes(todo, m, a)
        PROVE  IF Len(todo) = 1 THEN a \in ignored'[m] ELSE Comes(Tail(todo), m, a)'
    BY <1>1, <1>3, <2>1, CallMoves
  <2> QED
    BY <1>4, <2>1
<1>6. /\ DOMAIN wished' = Members
      /\ \A k \in Members \ {m} : wished'[k] = wished[k]
      /\ IF Len(todo) = 1 /\ m \notin overlapped THEN wished'[m] = rq.list ELSE wished' = wished
  BY <1>0, <1>1 DEF Settled, SilentInv
<1>7. \A k \in Members : wished'[k] \subseteq ignored'[k]
  <2>1. wished'[m] \subseteq ignored'[m]
    BY <1>1, <1>4, <1>5, <1>6
  <2> QED
    BY <1>3, <1>6, <2>1 DEF SilentInv
<1>8. IsTask(new) /\ Silent(new)' /\ Settling(new)' /\ (new.stage = "calls" => new.who = m)
  <2>1. CASE Len(todo) = 1
    <3>1. new = Idle
      BY <1>0, <2>1
    <3>2. new.stage = "idle" /\ ~IsSettle(new) /\ ~IsNotify(new)
      BY <3>1, KindsDiffer
    <3> QED
      BY <3>1, <3>2 DEF IsTask, Silent, Settling
  <2>2. CASE Len(todo) # 1
    <3>1. /\ new.stage = "calls" /\ new.who = m /\ new.todo = Tail(todo) /\ new.list = rq.list
          /\ new = [stage |-> "calls", who |-> new.who, todo |-> new.todo, list |-> new.list]
      <4>1. new = [rq EXCEPT !.todo = Tail(todo)]
        BY <1>0, <2>2
      <4> QED
        BY <1>0, <1>1, <4>1 DEF IsSettle
    <3>2. \A n \in 1..Len(Tail(todo)) : Tail(todo)[n].op \in SettingOps
      BY <1>1, <1>2
    <3>3. IsSettle(new)
      BY <1>1, <1>2, <2>2, <3>1, <3>2 DEF IsSettle
    <3>4. ~IsNotify(new) /\ IsTask(new)
      BY <3>3, KindsDiffer DEF IsTask
    <3>5. wished'[m] = {} /\ (m \notin overlapped' => \A a \in rq.list : Comes(Tail(todo), m, a)')
      BY <1>4, <1>5, <1>6, <2>2
    <3>6. Settling(new)'
      BY <3>1, <3>5 DEF Settling
    <3>7. Silent(new)'
      BY <3>4 DEF Silent
    <3> QED
      BY <3>1, <3>4, <3>6, <3>7
  <2> QED
    BY <2>1, <2>2
<1>9. DOMAIN req' = Requests /\ \A q \in Requests : req'[q] = IF q = r THEN new ELSE Later(req[q], {m})
  <2>1. PICK unsure : unsure = Unsure(req, {m})
    OBVIOUS
  <2>2. DOMAIN unsure = Requests /\ \A q \in Requests : unsure[q] = Later(req[q], {m})
    BY <2>1 DEF Unsure, Later
  <2>3. req' = [unsure EXCEPT ![r] = new]
    BY <1>0, <2>1 DEF Finish, Rest
  <2> QED
    BY <2>2, <2>3
<1>10. \A q \in Requests \ {r} : IsSettle(req[q]) =>
         /\ wished'[req[q].who] = {}
         /\ req[q].who \notin overlapped' => ignored'[req[q].who] = ignored[req[q].who]
  <2>1. ASSUME NEW q \in Requests \ {r}, IsSettle(req[q])
        PROVE  /\ wished'[req[q].who] = {}
               /\ req[q].who \notin overlapped' => ignored'[req[q].who] = ignored[req[q].who]
    <3>1. req[q].who \in Members /\ wished[req[q].who] = {} /\ req[q].stage = "calls"
      BY <2>1, KindsDiffer DEF SilentInv, Settling, IsSettle
    <3>2. req[q].who = m => m \in overlapped
      BY <1>0, <1>1, <3>1 DEF SilentInv, Doing
    <3> QED
      BY <1>3, <1>6, <3>1, <3>2
  <2> QED
    BY <2>1
<1>11. new.stage = "calls" => req[r].stage = "calls" /\ new.who = req[r].who
  BY <1>0, <1>1, <1>8
<1>12. Moves(r, new, {m})
  BY <1>3, <1>9 DEF Moves
<1> QED
  BY <1>3, <1>6, <1>7, <1>8, <1>10, <1>11, <1>12, StepKeeps

(* A call that fails ends its request, and nothing is known any more.       *)
LEMMA FailuresKeep ==
  ASSUME SilentInv, NEW r \in Requests, CallFails(r)
  PROVE  SilentInv'
<1>0. PICK m : m = req[r].who
  OBVIOUS
<1>1. /\ req[r].stage = "calls" /\ overlapped' = overlapped \cup {m} /\ UNCHANGED wished
      /\ req' = Unsure([req EXCEPT ![r] = Idle], {m})
      /\ UNCHANGED settings \/ Set(m, req[r].todo[1])
  BY <1>0 DEF CallFails, Choose, settings
<1>2. IsChoice(req[r]) \/ IsSettle(req[r])
  BY <1>1, KindsDiffer DEF SilentInv, IsTask
<1>3. m \in Members /\ Listed(req[r].todo)
  BY <1>0, <1>2 DEF IsChoice, IsSettle
<1>4. 1 \in 1..Len(req[r].todo)
  BY <1>3, TailFacts
<1>5. ASSUME UNCHANGED settings
      PROVE  /\ DOMAIN ignored' = Members /\ DOMAIN levels' = Members
             /\ \A k \in Members \ {m} : ignored'[k] = ignored[k] /\ levels'[k] = levels[k]
             /\ \A k \in Members : wished'[k] \subseteq ignored'[k]
  <2>1. \A k \in Members : ignored'[k] = ignored[k] /\ levels'[k] = levels[k]
    BY <1>5 DEF settings
  <2>2. DOMAIN ignored' = Members /\ DOMAIN levels' = Members /\ \A k \in Members : wished'[k] \subseteq ignored'[k]
    BY <1>5 DEF settings, SilentInv
  <2> QED
    BY <2>1, <2>2
<1>6. ASSUME Set(m, req[r].todo[1])
      PROVE  /\ DOMAIN ignored' = Members /\ DOMAIN levels' = Members
             /\ \A k \in Members \ {m} : ignored'[k] = ignored[k] /\ levels'[k] = levels[k]
             /\ \A k \in Members : wished'[k] \subseteq ignored'[k]
  <2>1. req[r].todo[1].op \in SettingOps
    BY <1>6 DEF Set, SettingOps
  <2>2. IsSettle(req[r])
    BY <1>2, <1>4, <2>1 DEF IsChoice, ChoiceOps, SettingOps
  <2>3. wished[m] = {}
    BY <1>0, <2>2 DEF SilentInv, Settling
  <2>4. /\ DOMAIN ignored' = Members /\ DOMAIN levels' = Members
        /\ \A k \in Members \ {m} : ignored'[k] = ignored[k] /\ levels'[k] = levels[k]
    BY <1>3, <1>6, <2>1, SetFacts
  <2>5. \A k \in Members : wished'[k] \subseteq ignored'[k]
    BY <1>1, <2>3, <2>4 DEF SilentInv
  <2> QED
    BY <2>4, <2>5
<1>7. /\ DOMAIN ignored' = Members /\ DOMAIN levels' = Members /\ DOMAIN wished' = Members
      /\ \A k \in Members \ {m} : ignored'[k] = ignored[k] /\ levels'[k] = levels[k]
      /\ \A k \in Members : wished'[k] \subseteq ignored'[k]
  <2>1. DOMAIN wished' = Members
    BY <1>1 DEF SilentInv
  <2> QED
    BY <1>1, <1>5, <1>6, <2>1
<1>8. /\ Idle.stage = "idle" /\ IsTask(Idle) /\ Silent(Idle)' /\ Settling(Idle)'
  BY KindsDiffer DEF IsTask, Silent, Settling
<1>9. Moves(r, Idle, {m})
  <2>1. /\ DOMAIN req' = Requests
        /\ \A q \in Requests : req'[q] = IF q = r THEN Idle ELSE Later(req[q], {m})
    BY <1>1, <1>8 DEF Unsure, Later, SilentInv
  <2> QED
    BY <1>7, <2>1 DEF Moves
<1>10. \A q \in Requests \ {r} : IsSettle(req[q]) =>
         /\ wished'[req[q].who] = {}
         /\ req[q].who \notin overlapped' => ignored'[req[q].who] = ignored[req[q].who]
  BY <1>1, <1>7 DEF SilentInv, Settling, IsSettle
<1> QED
  BY <1>1, <1>7, <1>8, <1>9, <1>10, StepKeeps

(* Settings that change without a request.                                  *)
LEMMA AllKeep ==
  ASSUME SilentInv, NEW ms, req' = Unsure(req, ms),
         DOMAIN ignored' = Members, DOMAIN levels' = Members, DOMAIN wished' = Members,
         \A m \in Members \ ms : \A a : a \notin ms => (a \in ignored'[m] <=> a \in ignored[m]),
         \A m \in Members \ ms : levels'[m] = levels[m],
         \A m \in Members : wished'[m] \subseteq ignored'[m], overlapped \subseteq overlapped',
         \A m \in Members : wished[m] = {} => wished'[m] = {},
         \A m \in Members : Doing(m) # {} /\ m \notin overlapped' => ignored'[m] = ignored[m]
  PROVE  SilentInv'
<1>1. DOMAIN req' = Requests /\ \A q \in Requests : req'[q] = Later(req[q], ms)
  BY DEF Unsure, Later, SilentInv
<1>2. ASSUME NEW q \in Requests
      PROVE  /\ IsTask(req'[q]) /\ Silent(req[q])' /\ Settling(req[q])'
             /\ req'[q].stage = "calls" => req[q].stage = "calls" /\ req'[q].who = req[q].who
  <2>1. IsSettle(req[q]) =>
          /\ wished'[req[q].who] = {}
          /\ req[q].who \notin overlapped' => req[q].who \notin overlapped /\ ignored'[req[q].who] = ignored[req[q].who]
    <3>1. ASSUME IsSettle(req[q]) PROVE req[q].who \in Members /\ wished[req[q].who] = {} /\ q \in Doing(req[q].who)
      BY <3>1, KindsDiffer DEF SilentInv, Settling, IsSettle, Doing
    <3> QED
      BY <3>1
  <2> QED
    BY <1>1, <2>1, OtherKeeps
<1>3. \A m \in Members \ overlapped' : \A p, q \in Doing(m)' : p = q
  BY <1>2 DEF SilentInv, Doing
<1> QED
  BY <1>1, <1>2, <1>3, SubscriptionsAssumption DEF SilentInv

(* The page of alerts, and the deletion of members.                         *)
LEMMA SettingsChange ==
  ASSUME SilentInv, NEW m \in Members, (\E level : save(m, level)) \/ cleanup_pm_ignore_lists({m})
  PROVE  SilentInv'
<1>1. ASSUME NEW level, save(m, level)
      PROVE  SilentInv'
  <2>1. /\ levels' = [levels EXCEPT ![m] = level] /\ req' = Unsure(req, {m})
        /\ UNCHANGED <<ignored, wished, overlapped>>
    BY <1>1 DEF save
  <2>2. /\ DOMAIN ignored' = Members /\ DOMAIN levels' = Members /\ DOMAIN wished' = Members
        /\ \A k \in Members : wished'[k] \subseteq ignored'[k]
        /\ \A k \in Members \ {m} : levels'[k] = levels[k]
    BY <2>1 DEF SilentInv
  <2> QED
    BY <2>1, <2>2, AllKeep
<1>2. ASSUME cleanup_pm_ignore_lists({m})
      PROVE  SilentInv'
  <2>1. /\ ignored' = [k \in Members |-> IF k \in {m} THEN {} ELSE ignored[k] \ {m}]
        /\ wished' = [k \in Members |-> IF k \in {m} THEN {} ELSE wished[k] \ {m}]
        /\ overlapped' = overlapped \cup {k \in Members : Doing(k) # {}}
        /\ req' = Unsure(req, {m}) /\ UNCHANGED levels
    BY <1>2 DEF cleanup_pm_ignore_lists
  <2>2. /\ DOMAIN ignored' = Members /\ DOMAIN levels' = Members /\ DOMAIN wished' = Members
        /\ \A k \in Members : wished'[k] \subseteq ignored'[k]
        /\ \A k \in Members \ {m} : \A a : a \notin {m} => (a \in ignored'[k] <=> a \in ignored[k])
        /\ \A k \in Members : wished[k] = {} => wished'[k] = {}
    BY <2>1 DEF SilentInv
  <2>3. \A k \in Members : Doing(k) # {} /\ k \notin overlapped' => ignored'[k] = ignored[k]
    BY <2>1
  <2> QED
    BY <2>1, <2>2, <2>3, AllKeep
<1> QED
  BY <1>1, <1>2

(* A post asks its readers.                                                 *)
LEMMA PostsBegin ==
  ASSUME SilentInv, NEW r \in Requests, NEW a, NEW readers, NEW like,
         notify_new_post(r, a, readers, like)
  PROVE  SilentInv'
<1>1. PICK new : new = [stage |-> "notify", author |-> a, left |-> readers, next |-> "ignored",
                        like |-> like, notified |-> {}, unwilling |-> Unwilling(a)]
  OBVIOUS
<1>2. Become(r, new) /\ UNCHANGED <<settings, overlapped>>
  BY <1>1 DEF notify_new_post
<1>3. /\ new.stage = "notify" /\ new.author = a /\ new.next = "ignored" /\ new.notified = {}
      /\ new.unwilling = Unwilling(a) /\ IsNotify(new)
  BY <1>1 DEF IsNotify
<1>4. IsTask(new) /\ ~IsSettle(new)
  BY <1>3, KindsDiffer DEF IsTask
<1>5. Silent(new)
  BY <1>3 DEF Silent, Unwilling, SilentInv
<1> QED
  BY <1>2, <1>3, <1>4, <1>5, QuietStep DEF Settling

(* The request of a post whose readers are being asked.                     *)
Post(a, left, next, like, notified, unwilling) ==
  [stage |-> "notify", author |-> a, left |-> left, next |-> next, like |-> like,
   notified |-> notified, unwilling |-> unwilling]

(* A reader is asked.                                                       *)
LEMMA ReadersKeep ==
  ASSUME SilentInv, NEW r \in Requests, AskReader(r)
  PROVE  SilentInv'
<1>0. PICK rq, m, a, l, n, k, d, u :
        /\ rq = req[r] /\ m = Head(rq.left) /\ a = rq.author /\ l = rq.left /\ n = rq.next
        /\ k = rq.like /\ d = rq.notified /\ u = rq.unwilling
  OBVIOUS
<1>1. rq.stage = "notify" /\ UNCHANGED <<settings, overlapped>>
  BY <1>0 DEF AskReader
<1>2. IsNotify(rq) /\ Silent(rq)
  BY <1>0, <1>1, KindsDiffer DEF SilentInv, IsTask
<1>3. /\ \A x \in u : x \in Members /\ (a \in ignored[x] \/ ~levels[x])
      /\ n = "level" /\ m \in u => ~levels[m]
      /\ d \cap u = {}
  BY <1>0, <1>2 DEF Silent
<1>4. rq = Post(a, l, n, k, d, u) /\ m = Head(l)
  BY <1>0, <1>2 DEF IsNotify, Post
<1>5. ASSUME NEW left, NEW next, NEW notified, NEW unwilling, next \in {"ignored", "level", "done"},
             Become(r, Post(a, left, next, k, notified, unwilling)),
             unwilling \subseteq u,
             notified = d \/ (n = "level" /\ levels[m] /\ notified = d \cup {m}),
             next = "level" => n = "ignored" /\ left = l /\ (a \notin ignored[m] \/ m \notin unwilling)
      PROVE  SilentInv'
  <2>1. PICK new : new = Post(a, left, next, k, notified, unwilling)
    OBVIOUS
  <2>2. /\ new.stage = "notify" /\ new.author = a /\ new.left = left /\ new.next = next
        /\ new.like = k /\ new.notified = notified /\ new.unwilling = unwilling
    BY <2>1 DEF Post
  <2>3. IsNotify(new)
    BY <1>5, <2>1, <2>2 DEF IsNotify, Post
  <2>4. Silent(new)
    BY <1>3, <1>4, <1>5, <2>2 DEF Silent
  <2>5. IsTask(new) /\ ~IsSettle(new)
    BY <2>3, KindsDiffer DEF IsTask
  <2> QED
    BY <1>1, <1>5, <2>1, <2>2, <2>4, <2>5, QuietStep DEF Settling
<1>6. PICK onward, left, next :
        /\ onward = IF Len(l) = 1 THEN [rq EXCEPT !.left = <<>>, !.next = "done"]
                    ELSE [rq EXCEPT !.left = Tail(l), !.next = "ignored"]
        /\ left = IF Len(l) = 1 THEN <<>> ELSE Tail(l)
        /\ next = IF Len(l) = 1 THEN "done" ELSE "ignored"
  OBVIOUS
<1>7. onward = Post(a, left, next, k, d, u) /\ next \in {"ignored", "done"}
  <2>1. \A x, y : [rq EXCEPT !.left = x, !.next = y] = Post(a, x, y, k, d, u)
    <3>1. ASSUME NEW x, NEW y PROVE [rq EXCEPT !.left = x, !.next = y] = Post(a, x, y, k, d, u)
      <4>1. [rq EXCEPT !.left = x, !.next = y] = [[rq EXCEPT !.left = x] EXCEPT !.next = y]
        BY <1>4 DEF Post
      <4>2. [rq EXCEPT !.left = x] = Post(a, x, n, k, d, u)
        BY <1>4 DEF Post
      <4>3. [Post(a, x, n, k, d, u) EXCEPT !.next = y] = Post(a, x, y, k, d, u)
        BY DEF Post
      <4> QED
        BY <4>1, <4>2, <4>3
    <3> QED
      BY <3>1
  <2>2. CASE Len(l) = 1
    <3>1. onward = [rq EXCEPT !.left = <<>>, !.next = "done"] /\ left = <<>> /\ next = "done"
      BY <1>6, <2>2
    <3>2. [rq EXCEPT !.left = <<>>, !.next = "done"] = Post(a, <<>>, "done", k, d, u)
      BY <2>1
    <3> QED
      BY <3>1, <3>2
  <2>3. CASE Len(l) # 1
    <3>1. onward = [rq EXCEPT !.left = Tail(l), !.next = "ignored"] /\ left = Tail(l) /\ next = "ignored"
      BY <1>6, <2>3
    <3>2. [rq EXCEPT !.left = Tail(l), !.next = "ignored"] = Post(a, Tail(l), "ignored", k, d, u)
      BY <2>1
    <3> QED
      BY <3>1, <3>2
  <2> QED
    BY <2>2, <2>3
<1>8. CASE Become(r, onward)
  BY <1>5, <1>7, <1>8
<1>9. CASE n = "ignored" /\ a \notin ignored[m] /\ Become(r, [rq EXCEPT !.next = "level"])
  <2>1. Become(r, Post(a, l, "level", k, d, u))
    <3>1. [rq EXCEPT !.next = "level"] = Post(a, l, "level", k, d, u)
      BY <1>4 DEF Post
    <3> QED
      BY <1>9, <3>1
  <2> QED
    BY <1>5, <1>9, <2>1
<1>10. CASE n = "ignored" /\ Become(r, [rq EXCEPT !.next = "level", !.unwilling = u \ {m}])
  <2>1. Become(r, Post(a, l, "level", k, d, u \ {m}))
    <3>1. [rq EXCEPT !.next = "level", !.unwilling = u \ {m}]
            = [[rq EXCEPT !.next = "level"] EXCEPT !.unwilling = u \ {m}]
      BY <1>4 DEF Post
    <3>2. [rq EXCEPT !.next = "level"] = Post(a, l, "level", k, d, u)
      BY <1>4 DEF Post
    <3>3. [Post(a, l, "level", k, d, u) EXCEPT !.unwilling = u \ {m}] = Post(a, l, "level", k, d, u \ {m})
      BY DEF Post
    <3> QED
      BY <1>10, <3>1, <3>2, <3>3
  <2>2. u \ {m} \subseteq u /\ m \notin u \ {m}
    OBVIOUS
  <2> QED
    BY <1>5, <1>10, <2>1, <2>2
<1>11. CASE n = "level" /\ levels[m] /\ Become(r, [onward EXCEPT !.notified = d \cup {m}])
  <2>1. Become(r, Post(a, left, next, k, d \cup {m}, u))
    <3>1. [onward EXCEPT !.notified = d \cup {m}] = Post(a, left, next, k, d \cup {m}, u)
      BY <1>7 DEF Post
    <3> QED
      BY <1>11, <3>1
  <2> QED
    BY <1>5, <1>7, <1>11, <2>1
<1>12. CASE Become(r, Idle)
  <2>1. Idle.stage = "idle" /\ IsTask(Idle) /\ Silent(Idle) /\ Settling(Idle)'
    BY KindsDiffer DEF IsTask, Silent, Settling
  <2> QED
    BY <1>1, <1>12, <2>1, QuietStep
<1>13. onward.notified = d /\ rq.left = l /\ rq.unwilling = u /\ rq.next = n /\ rq.author = a
  BY <1>0, <1>7 DEF Post
<1>14. \/ n = "ignored" /\ Become(r, IF a \in ignored[m] THEN onward ELSE [rq EXCEPT !.next = "level"])
       \/ n = "ignored" /\ Become(r, [rq EXCEPT !.next = "level", !.unwilling = u \ {m}])
       \/ n = "level" /\ \E tell \in BOOLEAN : /\ tell => levels[m]
                                               /\ Become(r, IF tell THEN [onward EXCEPT !.notified = d \cup {m}] ELSE onward)
       \/ Become(r, onward)
       \/ Become(r, Idle)
  <2>1. rq.stage = "notify" /\
        \/ n = "ignored" /\ Become(r, IF a \in ignored[m] THEN onward ELSE [rq EXCEPT !.next = "level"])
        \/ n = "ignored" /\ Become(r, [rq EXCEPT !.next = "level", !.unwilling = u \ {m}])
        \/ n = "level" /\ Become(r, IF levels[m] /\ (rq.like \/ pm_link(a, m))
                                    THEN [onward EXCEPT !.notified = d \cup {m}] ELSE onward)
        \/ Become(r, onward)
        \/ Become(r, Idle)
    BY <1>0, <1>6, <1>13 DEF AskReader, get_pm_ignore_list
  <2> QED
    BY <2>1
<1> QED
  BY <1>8, <1>9, <1>10, <1>11, <1>12, <1>14

(* The operations of the two kinds of requests are different.               *)
LEMMA OpsTell ==
  ASSUME NEW rq, IsChoice(rq) \/ IsSettle(rq)
  PROVE  /\ rq.todo[1].op \in ChoiceOps => IsChoice(rq)
         /\ rq.todo[1].op \in SettingOps => IsSettle(rq)
<1>1. Listed(rq.todo)
  BY DEF IsChoice, IsSettle
<1>2. 1 \in 1..Len(rq.todo)
  BY <1>1, TailFacts
<1>3. IsChoice(rq) => rq.todo[1].op \in ChoiceOps
  BY <1>2 DEF IsChoice
<1>4. IsSettle(rq) => rq.todo[1].op \in SettingOps
  BY <1>2 DEF IsSettle
<1>5. ChoiceOps \cap SettingOps = {}
  BY DEF ChoiceOps, SettingOps
<1> QED
  BY <1>3, <1>4, <1>5

(* A call of a request.                                                     *)
LEMMA CallsKeep ==
  ASSUME SilentInv, NEW r \in Requests, Call(r)
  PROVE  SilentInv'
<1>1. req[r].stage = "calls"
  BY DEF Call
<1>2. IsChoice(req[r]) \/ IsSettle(req[r])
  BY <1>1, KindsDiffer DEF SilentInv, IsTask
<1>3. CASE normalize_mode(r, req[r])
  <2>1. req[r].todo[1].op \in ChoiceOps
    BY <1>3 DEF normalize_mode, ChoiceOps
  <2>2. UNCHANGED <<settings, overlapped>>
    BY <1>3 DEF normalize_mode
  <2>3. \E i, mode : Become(r, [req[r] EXCEPT !.todo = NotifyCalls(i, mode)])
    BY <1>3 DEF normalize_mode
  <2> QED
    BY <1>2, <2>1, <2>2, <2>3, OpsTell, ChoiceCalls
<1>4. CASE Choose(req[r].who, req[r].todo[1]) /\ req' = Finish(r, req[r], req) /\ UNCHANGED overlapped
  <2>1. req[r].todo[1].op \in ChoiceOps /\ UNCHANGED settings
    BY <1>4 DEF Choose, ChoiceOps
  <2> QED
    BY <1>2, <1>4, <2>1, OpsTell, ChoiceCalls
<1>5. CASE /\ Set(req[r].who, req[r].todo[1]) /\ wished' = Settled(req[r], req[r].who)
           /\ req' = Finish(r, req[r], Unsure(req, {req[r].who})) /\ UNCHANGED overlapped
  <2>1. req[r].todo[1].op \in SettingOps
    BY <1>5 DEF Set, SettingOps
  <2> QED
    BY <1>2, <1>5, <2>1, OpsTell, SettingCalls
<1> QED
  BY <1>3, <1>4, <1>5 DEF Call

(* Every step keeps the invariant.                                          *)
LEMMA NextKeeps ==
  ASSUME SilentInv, [SubscriptionsNext]_subscriptionsVars
  PROVE  SilentInv'
<1>1. ASSUME NEW r \in Requests, NEW m \in Subscribers, NEW i, NEW mode, NEW link,
             board_notify(r, m, i, mode, link) \/ topic_notify(r, m, i, mode, link)
      PROVE  SilentInv'
  <2>1. m \in Members /\ Begin(r, m, NotifyStart(i, mode)) /\ UNCHANGED settings
    BY <1>1, SubscriptionsAssumption DEF board_notify, topic_notify, SilentInv
  <2> QED
    BY <2>1, NotifyLists, ChoicesBegin
<1>2. ASSUME NEW r \in Requests, NEW m \in Subscribers, NEW items, NEW edit,
             \/ items \in SUBSET Boards /\ process_board_changes(r, m, items, edit)
             \/ items \in SUBSET Topics /\ process_topic_changes(r, m, items, edit)
      PROVE  SilentInv'
  <2>1. items # {} /\ IsFiniteSet(items)
    BY <1>2, FS_Subset, SubscriptionsAssumption DEF process_board_changes, process_topic_changes, SilentInv
  <2>2. m \in Members /\ UNCHANGED settings
    BY <1>2, SubscriptionsAssumption DEF process_board_changes, process_topic_changes, SilentInv
  <2>3. PICK todo : Begin(r, m, todo) /\ ChoiceList(todo)
    BY <1>2, <2>1, RemovalLists DEF process_board_changes, process_topic_changes
  <2> QED
    BY <2>2, <2>3, ChoicesBegin
<1>3. ASSUME NEW r \in Requests, NEW m \in Members, NEW level, NEW list \in SUBSET (Members \ {m}),
             save_pm_settings(r, m, level, list)
      PROVE  SilentInv'
  <2>1. list \in SUBSET Members
    OBVIOUS
  <2> QED
    BY <1>3, <2>1, SettlesBegin
<1>4. ASSUME NEW m, NEW user, NEW outcome, NEW n,
             create_notification(m, user, outcome) \/ mark_notification_read(n)
      PROVE  SilentInv'
  <2>1. UNCHANGED <<settings, overlapped, req>>
    BY <1>4 DEF create_notification, mark_notification_read, Noted
  <2> QED
    BY <2>1, SubscriptionsAssumption DEF SilentInv, IsTask, Silent, Settling, Comes, Doing, settings
<1>5. CASE UNCHANGED subscriptionsVars
  BY <1>5, SubscriptionsAssumption DEF subscriptionsVars, SilentInv, IsTask, Silent, Settling, Comes, Doing, settings
<1> QED
  BY <1>1, <1>2, <1>3, <1>4, <1>5, PostsBegin, CallsKeep, FailuresKeep, ReadersKeep, SettingsChange
     DEF SubscriptionsNext
-----------------------------------------------------------------------------
(* What members ignore and the readers of posts, under every step.          *)
THEOREM SilentInvariant == SubscriptionsSpec => []SilentInv
<1>1. SubscriptionsInit => SilentInv
  <2> SUFFICES ASSUME SubscriptionsInit PROVE SilentInv
    OBVIOUS
  <2>1. Idle.stage = "idle" /\ ~IsSettle(Idle) /\ ~IsNotify(Idle) /\ IsTask(Idle)
    BY KindsDiffer DEF IsTask
  <2> QED
    BY <2>1 DEF SubscriptionsInit, SilentInv, Silent, Settling, Doing
<1>2. SilentInv /\ [SubscriptionsNext]_subscriptionsVars => SilentInv'
  BY NextKeeps
<1> QED
  BY <1>1, <1>2, PTL DEF SubscriptionsSpec

(* tasks.rs notifies nobody of a post by somebody whom he ignores, or while  *)
(* he has alerts switched off.                                              *)
THEOREM IgnoredAreSilentHolds == SubscriptionsSpec => []IgnoredAreSilent
<1>1. SilentInv => IgnoredAreSilent
  BY KindsDiffer DEF SilentInv, Silent, IgnoredAreSilent, IsTask
<1> QED
  BY <1>1, SilentInvariant, PTL
-----------------------------------------------------------------------------
(* What handlers of subscriptions make of an item.                          *)
Fine(m, i) ==
  /\ <<m, i>> \in subs => prefs[m][i] # 0
  /\ i \in Topics /\ prefs[m][i] > 0 => <<m, i>> \in subs

NotifyTail(i, v) == IF v > 0 THEN PutOn(i) ELSE TakeOff({i}, TRUE)

(* Calls before any of which all items are fine.                            *)
Calm(todo) ==
  \/ \E i \in Items : todo = <<Normalize(i)>>
  \/ \E i \in Items, v \in {0, 1, 3} : todo = <<SetPrefs({i}, v), NotifyTail(i, v)>>
  \/ \E t \in Items, unwatched \in BOOLEAN, v \in {0, 1, 3} :
       todo = <<SaveLog(t, unwatched)>> \o <<SetPrefs({t}, v), NotifyTail(t, v)>>
  \/ \E items \in SUBSET Items : todo = <<DeletePrefs(items)>>
  \/ \A n \in 1..Len(todo) : todo[n].op = "remove" /\ todo[n].items \subseteq Boards

(* Topics of ts are taken off, then their preferences are set.              *)
Leaving(m, todo, ts) ==
  /\ todo[Len(todo)] = SetPrefs(ts, 0)
  /\ \A n \in 1..(Len(todo) - 1) : todo[n].op = "remove" /\ todo[n].items \subseteq ts
  /\ \A t \in ts : <<m, t>> \in subs => \E n \in 1..(Len(todo) - 1) : t \in todo[n].items

(* After the calls of todo all items of m are fine.                         *)
Ahead(m, todo) ==
  \/ Calm(todo) /\ \A i \in Items : Fine(m, i)
  \/ \E i \in Items, v \in {0, 1, 3} :
       /\ todo = <<NotifyTail(i, v)>> /\ prefs[m][i] \in {v, None}
       /\ \A j \in Items \ {i} : Fine(m, j)
  \/ \E ts \in SUBSET Topics :
       Leaving(m, todo, ts) /\ \A j \in Items \ ts : Fine(m, j)

Prefs == [Items -> {None, 0, 1, 3}]

PrefsInv ==
  /\ DOMAIN prefs = Members
  /\ \A m \in Members \ overlapped : prefs[m] \in Prefs
  /\ ~has_prefs => \A m \in Members : \A i \in Items : prefs[m][i] = None
  /\ \A r \in Requests : IsChoice(req[r]) /\ req[r].who \notin overlapped =>
       Ahead(req[r].who, req[r].todo)
  /\ \A m \in Members \ overlapped :
       (\A r \in Requests : IsChoice(req[r]) => req[r].who # m) => \A i \in Items : Fine(m, i)
-----------------------------------------------------------------------------
(* The preferences and subscriptions of other members are left alone.       *)
LEMMA OthersAlone ==
  ASSUME NEW m \in Members, NEW c, Choose(m, c), PrefsInv
  PROVE  /\ DOMAIN prefs' = Members
         /\ \A k \in Members \ {m} : /\ prefs'[k] = prefs[k]
                                     /\ \A i : <<k, i>> \in subs' <=> <<k, i>> \in subs
         /\ ~has_prefs => \A k \in Members : \A i \in Items : prefs'[k][i] = None
<1>1. CASE c.op = "set_alert_prefs"
  BY <1>1 DEF Choose, set_alert_prefs, PrefsInv
<1>2. CASE c.op = "delete_alert_prefs"
  BY <1>2 DEF Choose, delete_alert_prefs, PrefsInv
<1>3. CASE c.op = "save_topic_log"
  BY <1>3 DEF Choose, PrefsInv
<1>4. CASE c.op = "add"
  BY <1>4 DEF Choose, add_notification, PrefsInv
<1>5. CASE c.op = "remove"
  BY <1>5 DEF Choose, remove_notifications, PrefsInv
<1> QED
  BY <1>1, <1>2, <1>3, <1>4, <1>5 DEF Choose

(* What each call does for its member.                                      *)
LEMMA SetPrefsFacts ==
  ASSUME PrefsInv, NEW m \in Members, prefs[m] \in Prefs, NEW items, NEW v \in {0, 1, 3},
         Choose(m, SetPrefs(items, v))
  PROVE  /\ subs' = subs /\ prefs'[m] \in Prefs
         /\ \A i \in Items : IF i \in items THEN prefs'[m][i] \in {v, None}
                             ELSE prefs'[m][i] \in {prefs[m][i], None}
<1>1. set_alert_prefs(m, items, v) /\ subs' = subs
  BY DEF Choose, SetPrefs
<1>2. CASE ~has_prefs
  BY <1>1, <1>2 DEF set_alert_prefs, PrefsInv
<1>3. CASE has_prefs
  <2>1. prefs'[m] = [i \in Items |-> IF i \in items THEN v
                                     ELSE IF store = "memory" THEN prefs[m][i] ELSE None]
    BY <1>1, <1>3 DEF set_alert_prefs, PrefsInv
  <2> QED
    BY <1>1, <2>1 DEF Prefs
<1> QED
  BY <1>2, <1>3

LEMMA DeletePrefsFacts ==
  ASSUME PrefsInv, NEW m \in Members, prefs[m] \in Prefs, NEW items, Choose(m, DeletePrefs(items))
  PROVE  /\ subs' = subs /\ prefs'[m] \in Prefs
         /\ \A i \in Items : prefs'[m][i] \in {prefs[m][i], None}
<1>1. delete_alert_prefs(m, items) /\ subs' = subs
  BY DEF Choose, DeletePrefs
<1>2. prefs'[m] = [i \in Items |-> IF i \in items THEN None ELSE prefs[m][i]]
  BY <1>1 DEF delete_alert_prefs, PrefsInv
<1> QED
  BY <1>1, <1>2 DEF Prefs

LEMMA SubscribeFacts ==
  ASSUME NEW m, NEW c, Choose(m, c)
  PROVE  /\ \A t, u : c = SaveLog(t, u) => subs' = subs /\ prefs' = prefs
         /\ \A i : c = PutOn(i) => subs' = subs \cup {<<m, i>>} /\ prefs' = prefs
         /\ c.op = "remove" =>
              prefs' = prefs /\ \A i : <<m, i>> \in subs' <=> <<m, i>> \in subs /\ i \notin c.items
         /\ \A i : c # Normalize(i)
<1>1. ASSUME NEW t, NEW u, c = SaveLog(t, u) PROVE subs' = subs /\ prefs' = prefs
  BY <1>1 DEF Choose, SaveLog
<1>2. ASSUME NEW i, c = PutOn(i) PROVE subs' = subs \cup {<<m, i>>} /\ prefs' = prefs
  BY <1>2 DEF Choose, PutOn, add_notification
<1>3. ASSUME c.op = "remove"
      PROVE  prefs' = prefs /\ \A i : <<m, i>> \in subs' <=> <<m, i>> \in subs /\ i \notin c.items
  BY <1>3 DEF Choose, remove_notifications
<1>4. ASSUME NEW i, c = Normalize(i) PROVE FALSE
  BY <1>4 DEF Choose, Normalize
<1> QED
  BY <1>1, <1>2, <1>3, <1>4

(* The two calls of board_notify, and what is left after the first.         *)
LEMMA TailOfTwo ==
  ASSUME NEW a, NEW b
  PROVE  /\ Len(<<a>>) = 1 /\ <<a>>[1] = a
         /\ Len(<<a, b>>) = 2 /\ <<a, b>>[1] = a /\ Tail(<<a, b>>) = <<b>>
<1>1. Len(<<a>>) = 1 /\ <<a>>[1] = a /\ Len(<<a, b>>) = 2 /\ <<a, b>>[1] = a
  OBVIOUS
<1>2. Tail(<<a, b>>) = <<b>>
  OBVIOUS
<1> QED
  BY <1>1, <1>2

(* The same for topic_notify.                                               *)
OneAndTwo(s, a, b, c) == s = <<a>> \o <<b, c>>

LEMMA TailOfThree ==
  ASSUME NEW a, NEW b, NEW c, NEW s, OneAndTwo(s, a, b, c)
  PROVE  Len(s) = 3 /\ s[1] = a /\ Tail(s) = <<b, c>>
<1>1. s = <<a>> \o <<b, c>>
  BY DEF OneAndTwo
<1>3. s = <<a, b, c>>
  <2>1. <<a>> \in Seq({a, b, c}) /\ <<b, c>> \in Seq({a, b, c}) /\ <<a, b, c>> \in Seq({a, b, c})
    OBVIOUS
  <2>3. s \in Seq({a, b, c}) /\ Len(s) = 3
    BY <1>1, <2>1, ConcatProperties
  <2>4. s[1] = a /\ s[2] = b /\ s[3] = c
    BY <1>1, <2>1, ConcatProperties
  <2>5. \A i \in 1..3 : s[i] = <<a, b, c>>[i]
    BY <2>4
  <2> QED
    BY <1>1, <2>1, <2>3, <2>5, SeqEqual
<1>4. Len(<<a, b, c>>) = 3 /\ <<a, b, c>>[1] = a /\ Tail(<<a, b, c>>) = <<b, c>>
  OBVIOUS
<1> QED
  BY <1>3, <1>4

(* The last call for one item.                                              *)
LEMMA TailMoves ==
  ASSUME PrefsInv, NEW m \in Members, prefs[m] \in Prefs, NEW i \in Items, NEW v \in {0, 1, 3},
         prefs[m][i] \in {v, None}, \A j \in Items \ {i} : Fine(m, j), Choose(m, NotifyTail(i, v))
  PROVE  prefs'[m] \in Prefs /\ \A j \in Items : Fine(m, j)'
<1>1. CASE v > 0
  <2>1. NotifyTail(i, v) = PutOn(i)
    BY <1>1 DEF NotifyTail
  <2>2. subs' = subs \cup {<<m, i>>} /\ prefs' = prefs
    BY <2>1, SubscribeFacts
  <2>3. prefs[m][i] # 0
    BY <1>1 DEF None
  <2> QED
    BY <2>2, <2>3 DEF Fine
<1>2. CASE ~(v > 0)
  <2>1. NotifyTail(i, v) = TakeOff({i}, TRUE) /\ v = 0
    BY <1>2 DEF NotifyTail
  <2>2. PICK c : c = NotifyTail(i, v)
    OBVIOUS
  <2>3. c.op = "remove" /\ c.items = {i} /\ Choose(m, c)
    <3>1. c = TakeOff({i}, TRUE)
      BY <2>1, <2>2
    <3>2. c.op = "remove" /\ c.items = {i}
      BY <3>1 DEF TakeOff
    <3> QED
      BY <2>2, <3>2
  <2>4. prefs' = prefs /\ \A j : <<m, j>> \in subs' <=> <<m, j>> \in subs /\ j \notin {i}
    BY <2>3, SubscribeFacts
  <2>5. Fine(m, i)'
    BY <2>1, <2>4 DEF Fine, None
  <2>6. \A j \in Items \ {i} : Fine(m, j)'
    BY <2>4 DEF Fine
  <2> QED
    BY <2>4, <2>5, <2>6
<1> QED
  BY <1>1, <1>2

(* Calls before any of which all items are fine.                            *)
LEMMA CalmMoves ==
  ASSUME PrefsInv, NEW m \in Members, prefs[m] \in Prefs, NEW todo, Listed(todo),
         Boards \cap Topics = {}, Calm(todo), \A i \in Items : Fine(m, i), Choose(m, todo[1])
  PROVE  prefs'[m] \in Prefs /\ IF Len(todo) = 1 THEN \A i \in Items : Fine(m, i)'
                                ELSE Ahead(m, Tail(todo))'
<1>1. ASSUME NEW i \in Items, todo = <<Normalize(i)>> PROVE FALSE
  BY <1>1, TailOfTwo, SubscribeFacts
<1>2. ASSUME NEW i \in Items, NEW v \in {0, 1, 3}, todo = <<SetPrefs({i}, v), NotifyTail(i, v)>>
      PROVE  prefs'[m] \in Prefs /\ Len(todo) # 1 /\ Ahead(m, Tail(todo))'
  <2>1. Len(todo) = 2 /\ todo[1] = SetPrefs({i}, v) /\ Tail(todo) = <<NotifyTail(i, v)>>
    BY <1>2, TailOfTwo
  <2>2. /\ subs' = subs /\ prefs'[m] \in Prefs
        /\ \A j \in Items : IF j \in {i} THEN prefs'[m][j] \in {v, None}
                            ELSE prefs'[m][j] \in {prefs[m][j], None}
    BY <2>1, SetPrefsFacts
  <2>3. \A j \in Items \ {i} : Fine(m, j)'
    BY <2>2 DEF Fine, None
  <2> QED
    BY <2>1, <2>2, <2>3 DEF Ahead
<1>3. ASSUME NEW t \in Items, NEW u \in BOOLEAN, NEW v \in {0, 1, 3},
             todo = <<SaveLog(t, u)>> \o <<SetPrefs({t}, v), NotifyTail(t, v)>>
      PROVE  prefs'[m] \in Prefs /\ Len(todo) # 1 /\ Ahead(m, Tail(todo))'
  <2>1. /\ Len(todo) = 3 /\ todo[1] = SaveLog(t, u)
        /\ Tail(todo) = <<SetPrefs({t}, v), NotifyTail(t, v)>>
    <3>1. PICK a, b, c : a = SaveLog(t, u) /\ b = SetPrefs({t}, v) /\ c = NotifyTail(t, v)
      OBVIOUS
    <3>2. OneAndTwo(todo, a, b, c)
      BY <1>3, <3>1 DEF OneAndTwo
    <3>3. Len(todo) = 3 /\ todo[1] = a /\ Tail(todo) = <<b, c>>
      BY <3>2, TailOfThree
    <3> QED
      BY <3>1, <3>3
  <2>2. subs' = subs /\ prefs' = prefs
    BY <2>1, SubscribeFacts
  <2>3. Calm(Tail(todo)) /\ \A j \in Items : Fine(m, j)'
    BY <2>1, <2>2 DEF Fine, Calm
  <2> QED
    BY <2>1, <2>2, <2>3 DEF Ahead
<1>4. ASSUME NEW items, todo = <<DeletePrefs(items)>>
      PROVE  prefs'[m] \in Prefs /\ Len(todo) = 1 /\ \A j \in Items : Fine(m, j)'
  <2>1. Len(todo) = 1 /\ todo[1] = DeletePrefs(items)
    BY <1>4, TailOfTwo
  <2>2. /\ subs' = subs /\ prefs'[m] \in Prefs
        /\ \A j \in Items : prefs'[m][j] \in {prefs[m][j], None}
    BY <2>1, DeletePrefsFacts
  <2>3. \A j \in Items : Fine(m, j)'
    BY <2>2 DEF Fine, None
  <2> QED
    BY <2>1, <2>2, <2>3
<1>5. ASSUME \A n \in 1..Len(todo) : todo[n].op = "remove" /\ todo[n].items \subseteq Boards
      PROVE  prefs'[m] \in Prefs /\ IF Len(todo) = 1 THEN \A i \in Items : Fine(m, i)'
                                    ELSE Ahead(m, Tail(todo))'
  <2>1. /\ Len(todo) \in Nat \ {0} /\ Len(Tail(todo)) = Len(todo) - 1
        /\ \A n \in 1..(Len(todo) - 1) : Tail(todo)[n] = todo[n + 1]
    BY TailFacts
  <2>2. todo[1].op = "remove" /\ todo[1].items \subseteq Boards
    BY <1>5, <2>1
  <2>3. prefs' = prefs /\ \A i : <<m, i>> \in subs' <=> <<m, i>> \in subs /\ i \notin todo[1].items
    BY <2>2, SubscribeFacts
  <2>4. \A j \in Items : Fine(m, j)'
    BY <1>5, <2>2, <2>3 DEF Fine
  <2>5. Calm(Tail(todo))
    BY <1>5, <2>1 DEF Calm
  <2> QED
    BY <2>3, <2>4, <2>5 DEF Ahead
<1> QED
  BY <1>1, <1>2, <1>3, <1>4, <1>5 DEF Calm

(* Topics that are being left.                                              *)
LEMMA LeavingMoves ==
  ASSUME PrefsInv, NEW m \in Members, prefs[m] \in Prefs, NEW todo, Listed(todo),
         NEW ts \in SUBSET Topics, Leaving(m, todo, ts), \A j \in Items \ ts : Fine(m, j),
         Choose(m, todo[1])
  PROVE  prefs'[m] \in Prefs /\ IF Len(todo) = 1 THEN \A i \in Items : Fine(m, i)'
                                ELSE Ahead(m, Tail(todo))'
<1>1. /\ Len(todo) \in Nat \ {0} /\ Len(Tail(todo)) = Len(todo) - 1
      /\ \A n \in 1..(Len(todo) - 1) : Tail(todo)[n] = todo[n + 1]
  BY TailFacts
<1>2. CASE Len(todo) = 1
  <2>1. todo[1] = SetPrefs(ts, 0) /\ \A t \in ts : <<m, t>> \notin subs
    BY <1>2 DEF Leaving
  <2>2. /\ subs' = subs /\ prefs'[m] \in Prefs
        /\ \A i \in Items : IF i \in ts THEN prefs'[m][i] \in {0, None}
                            ELSE prefs'[m][i] \in {prefs[m][i], None}
    BY <2>1, SetPrefsFacts
  <2>3. \A i \in Items : Fine(m, i)'
    BY <2>1, <2>2 DEF Fine, None
  <2> QED
    BY <1>2, <2>2, <2>3
<1>3. CASE Len(todo) # 1
  <2>1. todo[1].op = "remove" /\ todo[1].items \subseteq ts
    BY <1>1, <1>3 DEF Leaving
  <2>2. prefs' = prefs /\ \A i : <<m, i>> \in subs' <=> <<m, i>> \in subs /\ i \notin todo[1].items
    BY <2>1, SubscribeFacts
  <2>3. \A j \in Items \ ts : Fine(m, j)'
    BY <2>1, <2>2 DEF Fine
  <2>4. Tail(todo)[Len(Tail(todo))] = SetPrefs(ts, 0)
    BY <1>1, <1>3 DEF Leaving
  <2>5. \A n \in 1..(Len(Tail(todo)) - 1) : Tail(todo)[n].op = "remove" /\ Tail(todo)[n].items \subseteq ts
    BY <1>1, <1>3 DEF Leaving
  <2>6. ASSUME NEW t \in ts, <<m, t>> \in subs'
        PROVE  \E n \in 1..(Len(Tail(todo)) - 1) : t \in Tail(todo)[n].items
    <3>1. <<m, t>> \in subs /\ t \notin todo[1].items
      BY <2>2, <2>6
    <3>2. PICK n \in 1..(Len(todo) - 1) : t \in todo[n].items
      BY <3>1 DEF Leaving
    <3>3. n - 1 \in 1..(Len(Tail(todo)) - 1) /\ Tail(todo)[n - 1] = todo[n]
      BY <1>1, <3>1, <3>2
    <3> QED
      BY <3>2, <3>3
  <2>7. Leaving(m, Tail(todo), ts)'
    BY <2>4, <2>5, <2>6 DEF Leaving
  <2> QED
    BY <1>3, <2>2, <2>3, <2>7 DEF Ahead
<1> QED
  BY <1>2, <1>3

(* A call leaves its member ready for the rest.                             *)
LEMMA AheadMoves ==
  ASSUME PrefsInv, Boards \cap Topics = {}, NEW m \in Members, prefs[m] \in Prefs,
         NEW todo, Listed(todo), Ahead(m, todo), Choose(m, todo[1])
  PROVE  prefs'[m] \in Prefs /\ IF Len(todo) = 1 THEN \A i \in Items : Fine(m, i)'
                                ELSE Ahead(m, Tail(todo))'
<1>1. CASE Calm(todo) /\ \A i \in Items : Fine(m, i)
  BY <1>1, CalmMoves
<1>2. ASSUME NEW i \in Items, NEW v \in {0, 1, 3}, todo = <<NotifyTail(i, v)>>,
             prefs[m][i] \in {v, None}, \A j \in Items \ {i} : Fine(m, j)
      PROVE  prefs'[m] \in Prefs /\ Len(todo) = 1 /\ \A j \in Items : Fine(m, j)'
  <2>1. Len(todo) = 1 /\ todo[1] = NotifyTail(i, v)
    BY <1>2, TailOfTwo
  <2> QED
    BY <1>2, <2>1, TailMoves
<1>3. ASSUME NEW ts \in SUBSET Topics, Leaving(m, todo, ts), \A j \in Items \ ts : Fine(m, j)
      PROVE  prefs'[m] \in Prefs /\ IF Len(todo) = 1 THEN \A i \in Items : Fine(m, i)'
                                    ELSE Ahead(m, Tail(todo))'
  BY <1>3, LeavingMoves
<1> QED
  BY <1>1, <1>2, <1>3 DEF Ahead
-----------------------------------------------------------------------------
(* What is left alone for a member stays as it is.                          *)
Apart(k) == prefs'[k] = prefs[k] /\ \A i : <<k, i>> \in subs' <=> <<k, i>> \in subs

LEMMA AloneKeeps ==
  ASSUME NEW k, Apart(k)
  PROVE  /\ \A i : Fine(k, i)' <=> Fine(k, i)
         /\ \A todo : Ahead(k, todo) => Ahead(k, todo)'
<1>1. \A i : Fine(k, i)' <=> Fine(k, i)
  BY DEF Apart, Fine
<1>2. ASSUME NEW todo, Ahead(k, todo)
      PROVE  Ahead(k, todo)'
  <2>1. CASE Calm(todo) /\ \A i \in Items : Fine(k, i)
    BY <1>1, <2>1 DEF Ahead
  <2>2. ASSUME NEW i \in Items, NEW v \in {0, 1, 3}, todo = <<NotifyTail(i, v)>>,
               prefs[k][i] \in {v, None}, \A j \in Items \ {i} : Fine(k, j)
        PROVE  Ahead(k, todo)'
    <3>1. prefs'[k][i] \in {v, None} /\ \A j \in Items \ {i} : Fine(k, j)'
      BY <1>1, <2>2 DEF Apart
    <3> QED
      BY <2>2, <3>1 DEF Ahead
  <2>3. ASSUME NEW ts \in SUBSET Topics, Leaving(k, todo, ts), \A j \in Items \ ts : Fine(k, j)
        PROVE  Ahead(k, todo)'
    <3>1. Leaving(k, todo, ts)' /\ \A j \in Items \ ts : Fine(k, j)'
      BY <1>1, <2>3 DEF Apart, Leaving
    <3> QED
      BY <3>1 DEF Ahead
  <2> QED
    BY <1>2, <2>1, <2>2, <2>3 DEF Ahead
<1> QED
  BY <1>1, <1>2

(* Requests about subscriptions stay as they are.                           *)
SameChoice(q) == IsChoice(req[q]) \/ IsChoice(req'[q]) => req'[q] = req[q]

(* A step that concerns the subscriptions of one member.                    *)
LEMMA MemberStep ==
  ASSUME PrefsInv, NEW r \in Requests, NEW m \in Members, NEW new, req'[r] = new,
         \A q \in Requests \ {r} : SameChoice(q), \A k \in Members \ {m} : Apart(k),
         DOMAIN prefs' = Members, has_prefs' = has_prefs, overlapped \subseteq overlapped',
         ~has_prefs => \A k \in Members : \A i \in Items : prefs'[k][i] = None,
         IsChoice(new) => new.who = m, IsChoice(req[r]) => req[r].who = m,
         m \notin overlapped' =>
           /\ prefs'[m] \in Prefs
           /\ \A q \in Requests \ {r} : IsChoice(req[q]) => req[q].who # m
           /\ IsChoice(new) => Ahead(m, new.todo)'
           /\ ~IsChoice(new) => \A i \in Items : Fine(m, i)'
  PROVE  PrefsInv'
<1>1. ASSUME NEW k \in Members \ overlapped' PROVE prefs'[k] \in Prefs
  BY <1>1 DEF PrefsInv, Apart
<1>2. ASSUME NEW q \in Requests, IsChoice(req'[q]), req'[q].who \notin overlapped'
      PROVE  Ahead(req[q].who, req[q].todo)'
  <2>1. CASE q = r
    <3>1. Ahead(m, new.todo)' /\ new.who = m
      BY <1>2, <2>1
    <3> QED
      BY <2>1, <3>1
  <2>2. CASE q # r
    <3>1. req'[q] = req[q] /\ IsChoice(req[q]) /\ req[q].who \notin overlapped
      BY <1>2, <2>2 DEF SameChoice
    <3>2. req[q].who \in Members \ {m}
      BY <1>2, <2>2, <3>1 DEF IsChoice
    <3>3. Ahead(req[q].who, req[q].todo)
      BY <3>1 DEF PrefsInv
    <3>4. PICK k, todo : k = req[q].who /\ todo = req[q].todo
      OBVIOUS
    <3>5. Ahead(k, todo)'
      BY <3>2, <3>3, <3>4, AloneKeeps
    <3> QED
      BY <3>1, <3>4, <3>5
  <2> QED
    BY <2>1, <2>2
<1>3. ASSUME NEW k \in Members \ overlapped', \A q \in Requests : IsChoice(req'[q]) => req'[q].who # k
      PROVE  \A i \in Items : Fine(k, i)'
  <2>1. CASE k = m
    BY <1>3, <2>1
  <2>2. CASE k # m
    <3>1. \A q \in Requests : IsChoice(req[q]) => req[q].who # k
      BY <1>3, <2>2 DEF SameChoice
    <3>2. \A i \in Items : Fine(k, i)
      BY <1>3, <3>1 DEF PrefsInv
    <3> QED
      BY <2>2, <3>2, AloneKeeps
  <2> QED
    BY <2>1, <2>2
<1> QED
  BY <1>1, <1>2, <1>3 DEF PrefsInv

(* A step that concerns none.                                               *)
LEMMA NoMemberStep ==
  ASSUME PrefsInv, UNCHANGED <<subs, prefs, has_prefs>>, \A q \in Requests : SameChoice(q),
         overlapped \subseteq overlapped'
  PROVE  PrefsInv'
<1>1. \A k : Apart(k)
  BY DEF Apart
<1>2. \A k : \A todo : Ahead(k, todo) => Ahead(k, todo)'
  BY <1>1, AloneKeeps
<1>3. \A k : \A i : Fine(k, i)' <=> Fine(k, i)
  BY <1>1, AloneKeeps
<1>4. \A q \in Requests : IsChoice(req'[q]) <=> IsChoice(req[q])
  BY DEF SameChoice
<1>5. \A q \in Requests : IsChoice(req[q]) => req'[q] = req[q]
  BY DEF SameChoice
<1> QED
  BY <1>2, <1>3, <1>4, <1>5 DEF PrefsInv

(* Changes of settings leave requests about subscriptions as they are.      *)
LEMMA UnsureSame ==
  ASSUME SilentInv, NEW ms
  PROVE  /\ DOMAIN Unsure(req, ms) = Requests
         /\ \A q \in Requests : /\ Unsure(req, ms)[q] = Later(req[q], ms)
                                /\ ~IsNotify(req[q]) => Later(req[q], ms) = req[q]
                                /\ IsNotify(req[q]) => IsNotify(Later(req[q], ms))
<1>1. DOMAIN Unsure(req, ms) = Requests /\ \A q \in Requests : Unsure(req, ms)[q] = Later(req[q], ms)
  BY DEF Unsure, Later
<1>2. \A q \in Requests : IsTask(req[q])
  BY DEF SilentInv
<1> QED
  BY <1>1, <1>2, LaterFacts

LEMMA LaterSame ==
  ASSUME SilentInv, NEW ms, NEW q \in Requests, req'[q] = Later(req[q], ms)
  PROVE  SameChoice(q)
<1>1. ~IsNotify(req[q]) => Later(req[q], ms) = req[q]
  BY UnsureSame
<1>2. IsNotify(req[q]) => IsNotify(Later(req[q], ms))
  BY UnsureSame
<1> QED
  BY <1>1, <1>2, KindsDiffer DEF SameChoice
-----------------------------------------------------------------------------
(* A member whose request is at work and who did not mix has no other.      *)
LEMMA SoleTask ==
  ASSUME SilentInv, NEW r \in Requests, req[r].stage = "calls", req[r].who \notin overlapped
  PROVE  \A q \in Requests \ {r} : IsChoice(req[q]) => req[q].who # req[r].who
<1> SUFFICES ASSUME NEW q \in Requests \ {r}, IsChoice(req[q]), req[q].who = req[r].who
             PROVE  FALSE
  OBVIOUS
<1>1. req[q].stage = "calls" /\ req[q].who \in Members
  BY KindsDiffer DEF IsChoice
<1>2. q \in Doing(req[r].who) /\ r \in Doing(req[r].who)
  BY <1>1 DEF Doing
<1> QED
  BY <1>1, <1>2 DEF SilentInv

(* Requests begin when everything is fine, unless they mix.                 *)
LEMMA BeginKeepsPrefs ==
  ASSUME SilentInv, PrefsInv, NEW r \in Requests, NEW m \in Members, NEW todo,
         ChoiceList(todo), Begin(r, m, todo), UNCHANGED choices,
         (\A i \in Items : Fine(m, i)) => Ahead(m, todo)
  PROVE  PrefsInv'
<1>1. PICK new : new = [stage |-> "calls", who |-> m, todo |-> todo]
  OBVIOUS
<1>2. /\ Become(r, new) /\ overlapped' = (IF Doing(m) = {} THEN overlapped ELSE overlapped \cup {m})
      /\ req[r] = Idle /\ has_prefs' = has_prefs
  BY <1>1 DEF Begin
<1>3. IsChoice(new) /\ new.who = m /\ new.todo = todo
  BY <1>1 DEF IsChoice, ChoiceList
<1>4. \A k : Apart(k)
  BY DEF choices, Apart
<1>5. req'[r] = new /\ \A q \in Requests \ {r} : SameChoice(q)
  BY <1>2 DEF Become, SilentInv, SameChoice
<1>6. ~IsChoice(req[r])
  BY <1>2, KindsDiffer
<1>7. ASSUME m \notin overlapped'
      PROVE  /\ prefs'[m] \in Prefs
             /\ \A q \in Requests \ {r} : IsChoice(req[q]) => req[q].who # m
             /\ Ahead(m, new.todo)'
  <2>1. m \notin overlapped /\ Doing(m) = {}
    BY <1>2, <1>7
  <2>2. \A q \in Requests : IsChoice(req[q]) => req[q].who # m
    BY <2>1, KindsDiffer DEF Doing
  <2>3. \A i \in Items : Fine(m, i)
    BY <2>1, <2>2 DEF PrefsInv
  <2>4. Ahead(m, todo)'
    BY <1>4, <2>3, AloneKeeps
  <2> QED
    BY <1>3, <2>1, <2>2, <2>4 DEF PrefsInv, choices
<1>8. DOMAIN prefs' = Members /\ (~has_prefs => \A k \in Members : \A i \in Items : prefs'[k][i] = None)
  BY DEF PrefsInv, choices
<1> QED
  BY <1>2, <1>3, <1>4, <1>5, <1>6, <1>7, <1>8, MemberStep

(* Calls for subscriptions.                                                 *)
LEMMA CallKeepsPrefs ==
  ASSUME SilentInv, PrefsInv, Boards \cap Topics = {}, NEW r \in Requests, IsChoice(req[r]),
         Choose(req[r].who, req[r].todo[1]), req' = Finish(r, req[r], req),
         UNCHANGED <<overlapped, has_prefs>>
  PROVE  PrefsInv'
<1>0. PICK rq, m, todo, new :
        /\ rq = req[r] /\ m = rq.who /\ todo = rq.todo
        /\ new = IF Len(todo) = 1 THEN Idle ELSE [rq EXCEPT !.todo = Tail(todo)]
  OBVIOUS
<1>1. m \in Members /\ Listed(todo) /\ Choose(m, todo[1]) /\ rq.stage = "calls"
  BY <1>0, KindsDiffer DEF IsChoice
<1>2. req' = [req EXCEPT ![r] = new]
  BY <1>0 DEF Finish, Rest
<1>3. req'[r] = new /\ \A q \in Requests \ {r} : SameChoice(q)
  BY <1>2 DEF SilentInv, SameChoice
<1>4. /\ DOMAIN prefs' = Members /\ \A k \in Members \ {m} : Apart(k)
      /\ ~has_prefs => \A k \in Members : \A i \in Items : prefs'[k][i] = None
  BY <1>1, OthersAlone DEF Apart
<1>5. CASE Len(todo) = 1
  <2>1. ~IsChoice(new)
    BY <1>0, <1>5, KindsDiffer
  <2>2. ASSUME m \notin overlapped
        PROVE  prefs'[m] \in Prefs /\ \A i \in Items : Fine(m, i)'
    BY <1>0, <1>1, <1>5, <2>2, AheadMoves DEF PrefsInv
  <2>3. m \notin overlapped => \A q \in Requests \ {r} : IsChoice(req[q]) => req[q].who # m
    BY <1>0, <1>1, SoleTask
  <2> QED
    BY <1>0, <1>1, <1>3, <1>4, <2>1, <2>2, <2>3, MemberStep
<1>6. CASE Len(todo) # 1
  <2>1. new.who = m /\ new.todo = Tail(todo)
    BY <1>0, <1>6 DEF IsChoice
  <2>2. ASSUME m \notin overlapped
        PROVE  prefs'[m] \in Prefs /\ Ahead(m, Tail(todo))'
    BY <1>0, <1>1, <1>6, <2>2, AheadMoves DEF PrefsInv
  <2>3. m \notin overlapped => \A q \in Requests \ {r} : IsChoice(req[q]) => req[q].who # m
    BY <1>0, <1>1, SoleTask
  <2>4. IsChoice(new)
    <3>1. /\ Len(todo) \in Nat \ {0} /\ Listed(Tail(todo)) /\ Len(Tail(todo)) = Len(todo) - 1
          /\ \A n \in 1..(Len(todo) - 1) : Tail(todo)[n] = todo[n + 1]
      BY <1>1, <1>6, TailFacts
    <3>2. new = [rq EXCEPT !.todo = Tail(todo)]
      BY <1>0, <1>6
    <3>3. /\ new.stage = "calls" /\ new.who = m /\ new.todo = Tail(todo)
          /\ new = [stage |-> "calls", who |-> new.who, todo |-> new.todo]
      <4>1. PICK rest : rest = Tail(todo)
        OBVIOUS
      <4>2. rq = [stage |-> "calls", who |-> m, todo |-> rq.todo] /\ new = [rq EXCEPT !.todo = rest]
        BY <1>0, <3>2, <4>1 DEF IsChoice
      <4>3. /\ new.stage = "calls" /\ new.who = m /\ new.todo = rest
            /\ new = [stage |-> "calls", who |-> new.who, todo |-> new.todo]
        BY <4>2
      <4> QED
        BY <4>1, <4>3
    <3>4. PICK rest : rest = Tail(todo)
      OBVIOUS
    <3>5. /\ Listed(rest) /\ Len(rest) = Len(todo) - 1 /\ Len(todo) \in Nat
          /\ \A n \in 1..(Len(todo) - 1) : rest[n] = todo[n + 1]
      BY <3>1, <3>4
    <3>6. \A n \in 1..Len(todo) : todo[n].op \in ChoiceOps
      BY <1>0 DEF IsChoice
    <3>7. \A n \in 1..Len(rest) : rest[n].op \in ChoiceOps
      BY <3>5, <3>6
    <3>8. new.todo = rest /\ new.who \in Members /\ new = [stage |-> "calls", who |-> new.who, todo |-> new.todo]
      BY <1>1, <3>3, <3>4
    <3> QED
      BY <3>5, <3>7, <3>8 DEF IsChoice
  <2>5. overlapped \subseteq overlapped'
    BY <1>0, <1>1, <1>3, <1>4
  <2>6. m \notin overlapped' =>
          /\ prefs'[m] \in Prefs
          /\ \A q \in Requests \ {r} : IsChoice(req[q]) => req[q].who # m
          /\ IsChoice(new) /\ Ahead(m, new.todo)'
    BY <2>1, <2>2, <2>3, <2>4, <2>5
  <2>7. IsChoice(new) => new.who = m
    BY <2>1
  <2>8. req[r].who = m /\ has_prefs' = has_prefs
    BY <1>0
  <2> QED
    BY <1>1, <1>3, <1>4, <2>5, <2>6, <2>7, <2>8, MemberStep
<1> QED
  BY <1>5, <1>6

(* The calls that normalize_mode chooses.                                   *)
LEMMA NotifyIsCalm ==
  ASSUME NEW i \in Items, NEW mode \in Int
  PROVE  Calm(NotifyCalls(i, mode)) /\ Calm(NotifyStart(i, mode))
<1>1. PICK v : v = alert_value(mode)
  OBVIOUS
<1>2. v \in {0, 1, 3} /\ (v > 0 <=> mode > 1)
  BY <1>1 DEF alert_value
<1>3. board_notify_calls(i, mode) = <<SetPrefs({i}, v), NotifyTail(i, v)>>
  BY <1>1, <1>2 DEF board_notify_calls, NotifyTail
<1>4. Calm(NotifyCalls(i, mode))
  <2>1. CASE i \in Topics
    <3>1. NotifyCalls(i, mode) = <<SaveLog(i, mode = 0)>> \o <<SetPrefs({i}, v), NotifyTail(i, v)>>
      BY <1>3, <2>1 DEF NotifyCalls, topic_notify_calls
    <3>2. (mode = 0) \in BOOLEAN
      OBVIOUS
    <3> QED
      BY <1>2, <3>1, <3>2 DEF Calm
  <2>2. CASE i \notin Topics
    <3>1. NotifyCalls(i, mode) = <<SetPrefs({i}, v), NotifyTail(i, v)>>
      BY <1>3, <2>2 DEF NotifyCalls
    <3> QED
      BY <1>2, <3>1 DEF Calm
  <2> QED
    BY <2>1, <2>2
<1> QED
  BY <1>4 DEF NotifyStart, Calm

(* Who has a mode to normalize has only that to do, and all is fine.        *)
LEMMA NormalizeIsFirst ==
  ASSUME NEW m, NEW todo, Listed(todo), Ahead(m, todo), todo[1].op = "normalize_mode"
  PROVE  todo[1].item \in Items /\ \A i \in Items : Fine(m, i)
<1>0. Len(todo) \in Nat \ {0}
  BY TailFacts
<1>1. ASSUME NEW i \in Items, todo = <<Normalize(i)>>, \A j \in Items : Fine(m, j)
      PROVE  todo[1].item \in Items /\ \A j \in Items : Fine(m, j)
  <2>1. todo[1] = Normalize(i)
    BY <1>1, TailOfTwo
  <2> QED
    BY <1>1, <2>1 DEF Normalize
<1>2. ASSUME NEW i, NEW v, NEW b, todo = <<SetPrefs(i, v), b>> PROVE FALSE
  <2>1. todo[1] = SetPrefs(i, v)
    BY <1>2, TailOfTwo
  <2> QED
    BY <2>1 DEF SetPrefs
<1>3. ASSUME NEW t, NEW u, NEW b, NEW c, todo = <<SaveLog(t, u)>> \o <<b, c>> PROVE FALSE
  <2>1. PICK a : a = SaveLog(t, u)
    OBVIOUS
  <2>2. OneAndTwo(todo, a, b, c)
    BY <1>3, <2>1 DEF OneAndTwo
  <2>3. todo[1] = a
    BY <2>2, TailOfThree
  <2> QED
    BY <2>1, <2>3 DEF SaveLog
<1>4. ASSUME NEW items, todo = <<DeletePrefs(items)>> PROVE FALSE
  <2>1. todo[1] = DeletePrefs(items)
    BY <1>4, TailOfTwo
  <2> QED
    BY <2>1 DEF DeletePrefs
<1>5. ASSUME \A n \in 1..Len(todo) : todo[n].op = "remove" PROVE FALSE
  BY <1>0, <1>5
<1>6. ASSUME NEW i, NEW v, todo = <<NotifyTail(i, v)>> PROVE FALSE
  <2>1. todo[1] = NotifyTail(i, v)
    BY <1>6, TailOfTwo
  <2>2. todo[1] = PutOn(i) \/ todo[1] = TakeOff({i}, TRUE)
    BY <2>1 DEF NotifyTail
  <2> QED
    BY <2>2 DEF PutOn, TakeOff
<1>7. ASSUME NEW ts, Leaving(m, todo, ts) PROVE FALSE
  <2>1. CASE Len(todo) = 1
    BY <1>7, <2>1 DEF Leaving, SetPrefs
  <2>2. CASE Len(todo) # 1
    <3>1. PICK n : n = Len(todo) /\ n \in Nat \ {0, 1}
      BY <1>0, <2>2
    <3>2. 1 \in 1..(n - 1)
      BY <3>1
    <3>3. 1 \in 1..(Len(todo) - 1)
      BY <3>1, <3>2
    <3>4. todo[1].op = "remove"
      BY <1>7, <3>3 DEF Leaving
    <3> QED
      BY <3>4
  <2> QED
    BY <2>1, <2>2
<1>8. Calm(todo) /\ \A i \in Items : Fine(m, i)
  BY <1>6, <1>7 DEF Ahead
<1>9. PICK i \in Items : todo = <<Normalize(i)>>
  BY <1>2, <1>3, <1>4, <1>5, <1>8 DEF Calm
<1> QED
  BY <1>1, <1>8, <1>9

LEMMA NormalizeKeepsPrefs ==
  ASSUME SilentInv, PrefsInv, NEW r \in Requests, req[r].stage = "calls", normalize_mode(r, req[r])
  PROVE  PrefsInv'
<1>0. PICK rq, m, todo, i :
        rq = req[r] /\ m = rq.who /\ todo = rq.todo /\ i = todo[1].item
  OBVIOUS
<1>1. PICK mode : /\ Become(r, [rq EXCEPT !.todo = NotifyCalls(i, mode)])
                  /\ prefs[m] \in Prefs /\ i \in Items => mode \in Int
  <2>1. PICK unreadable \in BOOLEAN :
          LET current == IF unreadable THEN 0 ELSE get_notify_prefs(m, i)
          IN  Become(r, [rq EXCEPT !.todo = NotifyCalls(i, IF current > 2 THEN 2 ELSE current)])
    BY <1>0 DEF normalize_mode
  <2>2. prefs[m] \in Prefs /\ i \in Items => get_notify_prefs(m, i) \in Int
    BY DEF Prefs, get_notify_prefs, fetch_alert_prefs, None
  <2>3. PICK current : /\ current = IF unreadable THEN 0 ELSE get_notify_prefs(m, i)
                       /\ Become(r, [rq EXCEPT !.todo = NotifyCalls(i, IF current > 2 THEN 2 ELSE current)])
    BY <2>1
  <2>4. prefs[m] \in Prefs /\ i \in Items => (IF current > 2 THEN 2 ELSE current) \in Int
    BY <2>2, <2>3
  <2> QED
    BY <2>3, <2>4
<1>2. PICK new : new = [rq EXCEPT !.todo = NotifyCalls(i, mode)]
  OBVIOUS
<1>3. /\ todo[1].op = "normalize_mode"
      /\ UNCHANGED <<choices, has_prefs, overlapped>>
  BY <1>0 DEF normalize_mode
<1>4. IsChoice(rq)
  <2>1. IsChoice(rq) \/ IsSettle(rq)
    BY <1>0, KindsDiffer DEF SilentInv, IsTask
  <2> QED
    BY <1>0, <1>3, <2>1, OpsTell DEF ChoiceOps
<1>5. /\ new.stage = "calls" /\ new.who = m /\ new.todo = NotifyCalls(i, mode)
      /\ new = [stage |-> "calls", who |-> new.who, todo |-> new.todo]
  BY <1>0, <1>2, <1>4 DEF IsChoice
<1>6. IsChoice(new) /\ m \in Members /\ Listed(todo)
  BY <1>0, <1>4, <1>5, NotifyLists DEF IsChoice, ChoiceList
<1>7. \A k : Apart(k)
  BY <1>3 DEF choices, Apart
<1>8. req'[r] = new /\ \A q \in Requests \ {r} : SameChoice(q)
  BY <1>1, <1>2 DEF Become, SilentInv, SameChoice
<1>9. ASSUME m \notin overlapped
      PROVE  prefs'[m] \in Prefs /\ Ahead(m, new.todo)'
  <2>1. prefs[m] \in Prefs /\ Ahead(m, todo)
    BY <1>0, <1>4, <1>6, <1>9 DEF PrefsInv
  <2>2. i \in Items /\ \A j \in Items : Fine(m, j)
    BY <1>0, <1>3, <1>6, <2>1, NormalizeIsFirst
  <2>3. Calm(NotifyCalls(i, mode))
    BY <1>1, <2>1, <2>2, NotifyIsCalm
  <2>4. \A j \in Items : Fine(m, j)'
    BY <1>7, <2>2, AloneKeeps
  <2> QED
    BY <1>3, <1>5, <2>1, <2>3, <2>4 DEF Ahead, choices
<1>10. m \notin overlapped => \A q \in Requests \ {r} : IsChoice(req[q]) => req[q].who # m
  BY <1>0, SoleTask
<1>11. DOMAIN prefs' = Members /\ (~has_prefs => \A k \in Members : \A j \in Items : prefs'[k][j] = None)
  BY <1>3 DEF PrefsInv, choices
<1> QED
  BY <1>0, <1>3, <1>5, <1>6, <1>7, <1>8, <1>9, <1>10, <1>11, MemberStep

(* A failure mixes.                                                         *)
LEMMA FailKeepsPrefs ==
  ASSUME SilentInv, PrefsInv, NEW r \in Requests, CallFails(r)
  PROVE  PrefsInv'
<1>0. PICK m : m = req[r].who
  OBVIOUS
<1>1. /\ req[r].stage = "calls" /\ overlapped' = overlapped \cup {m} /\ has_prefs' = has_prefs
      /\ req' = Unsure([req EXCEPT ![r] = Idle], {m})
      /\ UNCHANGED choices \/ Choose(m, req[r].todo[1])
  BY <1>0 DEF CallFails, Set
<1>2. IsChoice(req[r]) \/ IsSettle(req[r])
  BY <1>1, KindsDiffer DEF SilentInv, IsTask
<1>3. m \in Members
  BY <1>0, <1>2 DEF IsChoice, IsSettle
<1>4. req'[r] = Idle /\ \A q \in Requests \ {r} : req'[q] = Later(req[q], {m})
  BY <1>1, KindsDiffer DEF Unsure, Later, SilentInv
<1>5. \A q \in Requests \ {r} : SameChoice(q)
  BY <1>4, LaterSame
<1>6. /\ DOMAIN prefs' = Members /\ \A k \in Members \ {m} : Apart(k)
      /\ ~has_prefs => \A k \in Members : \A i \in Items : prefs'[k][i] = None
  <2>1. CASE UNCHANGED choices
    BY <2>1 DEF choices, Apart, PrefsInv
  <2>2. CASE Choose(m, req[r].todo[1])
    BY <1>3, <2>2, OthersAlone DEF Apart
  <2> QED
    BY <1>1, <2>1, <2>2
<1>7. ~IsChoice(Idle)
  BY KindsDiffer
<1> QED
  BY <1>0, <1>1, <1>3, <1>4, <1>5, <1>6, <1>7, MemberStep
-----------------------------------------------------------------------------
(* What the profile page begins with.                                       *)
LEMMA RemovalFacts ==
  ASSUME NEW items, items # {}, IsFiniteSet(items), NEW s, s = Removals(items)
  PROVE  /\ \A n \in 1..Len(s) : s[n].op = "remove" /\ s[n].items \subseteq items
         /\ \A x \in items : \E n \in 1..Len(s) : x \in s[n].items
<1>1. \A j, u : TakeOff(j, u).op = "remove" /\ TakeOff(j, u).items = j
  BY DEF TakeOff
<1>2. CASE store = "memory"
  <2>1. PICK c : c = TakeOff(items, FALSE)
    OBVIOUS
  <2>2. s = <<c>> /\ c.op = "remove" /\ c.items = items
    BY <1>1, <1>2, <2>1 DEF Removals
  <2>3. Len(s) = 1 /\ s[1] = c
    BY <2>2, TailOfTwo
  <2> QED
    BY <2>2, <2>3
<1>3. CASE store # "memory"
  <2>1. PICK list : list = SetToSeq(items)
    OBVIOUS
  <2>2. /\ list \in Seq(items) /\ Len(list) \in Nat /\ DOMAIN list = 1..Len(list)
        /\ \A x \in items : \E n \in 1..Len(list) : list[n] = x
    BY <2>1, SetToSeqFacts
  <2>3. s = [n \in DOMAIN list |-> TakeOff({list[n]}, TRUE)]
    BY <1>3, <2>1 DEF Removals
  <2>4. s \in [1..Len(list) -> {TakeOff({x}, TRUE) : x \in items}]
    <3>1. \A n \in 1..Len(list) : list[n] \in items
      BY <2>2
    <3> QED
      BY <2>2, <2>3, <3>1
  <2>5. ASSUME NEW S, s \in [1..Len(list) -> S] PROVE Len(s) = Len(list)
    BY <2>2, <2>5
  <2>6. Len(s) = Len(list)
    BY <2>4, <2>5
  <2>7. \A n \in 1..Len(s) : s[n] = TakeOff({list[n]}, TRUE) /\ list[n] \in items
    BY <2>2, <2>3, <2>6
  <2>8. ASSUME NEW n \in 1..Len(s) PROVE s[n].op = "remove" /\ s[n].items = {list[n]}
    <3>1. PICK j : j = {list[n]} /\ s[n] = TakeOff(j, TRUE)
      BY <2>7
    <3> QED
      BY <3>1 DEF TakeOff
  <2> QED
    BY <2>2, <2>6, <2>7, <2>8
<1> QED
  BY <1>2, <1>3

LEMMA EditsAreAhead ==
  ASSUME NEW m, NEW items, items # {}, IsFiniteSet(items), \A i \in Items : Fine(m, i)
  PROVE  /\ items \subseteq Boards => Ahead(m, Removals(items))
         /\ items \subseteq Topics => Ahead(m, Append(Removals(items), SetPrefs(items, 0)))
         /\ items \subseteq Items => Ahead(m, <<DeletePrefs(items)>>)
<1>1. PICK s : s = Removals(items)
  OBVIOUS
<1>2. /\ \A n \in 1..Len(s) : s[n].op = "remove" /\ s[n].items \subseteq items
      /\ \A x \in items : \E n \in 1..Len(s) : x \in s[n].items
  BY <1>1, RemovalFacts
<1>3. ASSUME items \subseteq Boards PROVE Ahead(m, s)
  BY <1>2, <1>3 DEF Ahead, Calm
<1>4. ASSUME items \subseteq Topics PROVE Ahead(m, Append(s, SetPrefs(items, 0)))
  <2>1. PICK S : s \in Seq(S)
    BY <1>1, RemovalLists DEF ChoiceList, Listed
  <2>2. PICK c, all : c = SetPrefs(items, 0) /\ all = Append(s, c)
    OBVIOUS
  <2>3. /\ Len(s) \in Nat /\ Len(all) = Len(s) + 1 /\ all[Len(all)] = c
        /\ \A n \in 1..Len(s) : all[n] = s[n]
    BY <2>1, <2>2
  <2>4. Len(all) - 1 = Len(s)
    BY <2>3
  <2>5. Leaving(m, all, items)
    BY <1>2, <2>2, <2>3, <2>4 DEF Leaving
  <2> QED
    BY <1>4, <2>2, <2>5 DEF Ahead
<1>5. ASSUME items \subseteq Items PROVE Ahead(m, <<DeletePrefs(items)>>)
  BY <1>5 DEF Ahead, Calm
<1> QED
  BY <1>1, <1>3, <1>4, <1>5

(* Requests about settings and posts are no choices.                        *)
LEMMA ChoiceDomain ==
  ASSUME NEW rq
  PROVE  /\ IsChoice(rq) => "list" \notin DOMAIN rq /\ "author" \notin DOMAIN rq
         /\ IsNotify(rq) => "author" \in DOMAIN rq
<1>1. ASSUME IsChoice(rq) PROVE "list" \notin DOMAIN rq /\ "author" \notin DOMAIN rq
  <2>1. \A w, t : DOMAIN [stage |-> "calls", who |-> w, todo |-> t] = {"stage", "who", "todo"}
    OBVIOUS
  <2> QED
    BY <1>1, <2>1 DEF IsChoice
<1>2. ASSUME IsNotify(rq) PROVE "author" \in DOMAIN rq
  BY <1>2 DEF IsNotify
<1> QED
  BY <1>1, <1>2

(* Steps that have nothing to do with subscriptions.                        *)
LEMMA SettleKeepsPrefs ==
  ASSUME SilentInv, PrefsInv, NEW r \in Requests, NEW m, NEW level, NEW list,
         save_pm_settings(r, m, level, list)
  PROVE  PrefsInv'
<1>1. PICK new, todo : /\ new = [stage |-> "calls", who |-> m, todo |-> todo, list |-> list]
                       /\ req' = Unsure([req EXCEPT ![r] = new], {m})
  BY DEF save_pm_settings, Settle
<1>2. /\ req[r] = Idle /\ UNCHANGED <<subs, prefs, has_prefs>> /\ overlapped \subseteq overlapped'
  BY DEF save_pm_settings, Settle, choices
<1>3. new.stage = "calls" /\ "list" \in DOMAIN new
  BY <1>1
<1>4. req'[r] = new /\ \A q \in Requests \ {r} : req'[q] = Later(req[q], {m})
  BY <1>1, <1>3 DEF Unsure, Later, SilentInv
<1>5. \A q \in Requests \ {r} : SameChoice(q)
  BY <1>4, LaterSame
<1>6. SameChoice(r)
  BY <1>2, <1>3, <1>4, ChoiceDomain, KindsDiffer DEF SameChoice
<1> QED
  BY <1>2, <1>5, <1>6, NoMemberStep

LEMMA SetKeepsPrefs ==
  ASSUME SilentInv, PrefsInv, NEW r \in Requests, IsSettle(req[r]), Set(req[r].who, req[r].todo[1]),
         req' = Finish(r, req[r], Unsure(req, {req[r].who})), UNCHANGED <<overlapped, has_prefs>>
  PROVE  PrefsInv'
<1>1. PICK new, unsure :
        /\ new = IF Len(req[r].todo) = 1 THEN Idle ELSE [req[r] EXCEPT !.todo = Tail(req[r].todo)]
        /\ unsure = Unsure(req, {req[r].who})
  OBVIOUS
<1>2. /\ DOMAIN unsure = Requests /\ \A q \in Requests : unsure[q] = Later(req[q], {req[r].who})
      /\ req' = [unsure EXCEPT ![r] = new]
  BY <1>1, UnsureSame DEF Finish, Rest
<1>3. req'[r] = new /\ \A q \in Requests \ {r} : req'[q] = Later(req[q], {req[r].who})
  BY <1>2
<1>4. \A q \in Requests \ {r} : SameChoice(q)
  BY <1>3, LaterSame
<1>5. ~IsChoice(new)
  <2>1. CASE Len(req[r].todo) = 1
    BY <1>1, <2>1, KindsDiffer
  <2>2. CASE Len(req[r].todo) # 1
    <3>1. DOMAIN new = DOMAIN req[r]
      BY <1>1, <2>2
    <3>2. "list" \in DOMAIN req[r]
      BY KindsDiffer
    <3> QED
      BY <3>1, <3>2, ChoiceDomain
  <2> QED
    BY <2>1, <2>2
<1>6. SameChoice(r)
  BY <1>3, <1>5, KindsDiffer DEF SameChoice
<1>7. UNCHANGED <<subs, prefs>>
  BY DEF Set, choices
<1> QED
  BY <1>4, <1>6, <1>7, NoMemberStep

LEMMA PostKeepsPrefs ==
  ASSUME SilentInv, PrefsInv, NEW r \in Requests,
         AskReader(r) \/ \E a, readers, like : notify_new_post(r, a, readers, like)
  PROVE  PrefsInv'
<1>1. ASSUME NEW new, Become(r, new), ~IsChoice(new), ~IsChoice(req[r]),
             UNCHANGED <<subs, prefs, has_prefs, overlapped>>
      PROVE  PrefsInv'
  <2>1. \A q \in Requests : SameChoice(q)
    BY <1>1 DEF Become, SilentInv, SameChoice
  <2> QED
    BY <1>1, <2>1, NoMemberStep
<1>2. ASSUME AskReader(r)
      PROVE  PrefsInv'
  <2>1. req[r].stage = "notify" /\ UNCHANGED <<subs, prefs, has_prefs, overlapped>>
    BY <1>2 DEF AskReader, choices
  <2>2. IsNotify(req[r])
    BY <2>1, KindsDiffer DEF SilentInv, IsTask
  <2>3. PICK new : Become(r, new) /\ (new = Idle \/ DOMAIN new = DOMAIN req[r])
    <3>1. PICK rq, onward, level, careless, told :
            /\ rq = req[r] /\ level = [rq EXCEPT !.next = "level"]
            /\ onward = IF Len(rq.left) = 1 THEN [rq EXCEPT !.left = <<>>, !.next = "done"]
                        ELSE [rq EXCEPT !.left = Tail(rq.left), !.next = "ignored"]
            /\ careless = [rq EXCEPT !.next = "level", !.unwilling = rq.unwilling \ {Head(rq.left)}]
            /\ told = [onward EXCEPT !.notified = onward.notified \cup {Head(rq.left)}]
      OBVIOUS
    <3>2. \/ Become(r, onward) \/ Become(r, level) \/ Become(r, careless)
          \/ Become(r, told) \/ Become(r, Idle)
      BY <1>2, <3>1 DEF AskReader
    <3>3. DOMAIN onward = DOMAIN rq
      <4>1. ASSUME NEW left, NEW next
            PROVE  DOMAIN [rq EXCEPT !.left = left, !.next = next] = DOMAIN rq
        OBVIOUS
      <4> QED
        BY <3>1, <4>1
    <3>4. DOMAIN level = DOMAIN rq /\ DOMAIN careless = DOMAIN rq /\ DOMAIN told = DOMAIN onward
      BY <3>1
    <3> QED
      BY <3>1, <3>2, <3>3, <3>4
  <2>4. ~IsChoice(new) /\ ~IsChoice(req[r])
    BY <2>2, <2>3, ChoiceDomain, KindsDiffer
  <2> QED
    BY <1>1, <2>1, <2>3, <2>4
<1>3. ASSUME NEW a, NEW readers, NEW like, notify_new_post(r, a, readers, like)
      PROVE  PrefsInv'
  <2>1. PICK new : /\ new = [stage |-> "notify", author |-> a, left |-> readers, next |-> "ignored",
                             like |-> like, notified |-> {}, unwilling |-> Unwilling(a)]
                   /\ Become(r, new)
    BY <1>3 DEF notify_new_post
  <2>2. req[r] = Idle /\ UNCHANGED <<subs, prefs, has_prefs, overlapped>>
    BY <1>3 DEF notify_new_post, choices
  <2>3. "author" \in DOMAIN new
    BY <2>1
  <2> QED
    BY <1>1, <2>1, <2>2, <2>3, ChoiceDomain, KindsDiffer
<1> QED
  BY <1>2, <1>3

(* A call of a request.                                                     *)
LEMMA CallsKeepPrefs ==
  ASSUME SilentInv, PrefsInv, Boards \cap Topics = {}, NEW r \in Requests, Call(r)
  PROVE  PrefsInv'
<1>1. req[r].stage = "calls" /\ UNCHANGED <<overlapped, has_prefs>>
  BY DEF Call, normalize_mode
<1>2. IsChoice(req[r]) \/ IsSettle(req[r])
  BY <1>1, KindsDiffer DEF SilentInv, IsTask
<1>3. CASE normalize_mode(r, req[r])
  BY <1>1, <1>3, NormalizeKeepsPrefs
<1>4. CASE Choose(req[r].who, req[r].todo[1]) /\ req' = Finish(r, req[r], req)
  <2>1. req[r].todo[1].op \in ChoiceOps
    BY <1>4 DEF Choose, ChoiceOps
  <2> QED
    BY <1>1, <1>2, <1>4, <2>1, OpsTell, CallKeepsPrefs
<1>5. CASE /\ Set(req[r].who, req[r].todo[1])
           /\ req' = Finish(r, req[r], Unsure(req, {req[r].who}))
  <2>1. req[r].todo[1].op \in SettingOps
    BY <1>5 DEF Set, SettingOps
  <2> QED
    BY <1>1, <1>2, <1>5, <2>1, OpsTell, SetKeepsPrefs
<1> QED
  BY <1>3, <1>4, <1>5 DEF Call

(* Every step.                                                              *)
LEMMA NextKeepsPrefs ==
  ASSUME SilentInv, PrefsInv, Boards \cap Topics = {}, [SubscriptionsNext]_subscriptionsVars
  PROVE  PrefsInv'
<1>1. ASSUME NEW r \in Requests, NEW m \in Subscribers, NEW i \in Items, NEW mode \in Modes, NEW link,
             board_notify(r, m, i, mode, link) \/ topic_notify(r, m, i, mode, link)
      PROVE  PrefsInv'
  <2>1. m \in Members /\ Begin(r, m, NotifyStart(i, mode)) /\ UNCHANGED choices
    BY <1>1, SubscriptionsAssumption DEF board_notify, topic_notify, SilentInv
  <2>2. mode \in Int
    BY DEF Modes
  <2>3. (\A j \in Items : Fine(m, j)) => Ahead(m, NotifyStart(i, mode))
    BY <2>2, NotifyIsCalm DEF Ahead
  <2> QED
    BY <2>1, <2>3, NotifyLists, BeginKeepsPrefs
<1>2. ASSUME NEW r \in Requests, NEW m \in Subscribers, NEW items, NEW edit,
             \/ items \in SUBSET Boards /\ process_board_changes(r, m, items, edit)
             \/ items \in SUBSET Topics /\ process_topic_changes(r, m, items, edit)
      PROVE  PrefsInv'
  <2>1. items # {} /\ IsFiniteSet(items) /\ items \subseteq Items
    BY <1>2, FS_Subset, SubscriptionsAssumption
       DEF process_board_changes, process_topic_changes, SilentInv, Items
  <2>2. m \in Members /\ UNCHANGED choices
    BY <1>2, SubscriptionsAssumption DEF process_board_changes, process_topic_changes, SilentInv
  <2>3. PICK todo : /\ Begin(r, m, todo)
                    /\ \/ items \subseteq Boards /\ todo = Removals(items)
                       \/ items \subseteq Topics /\ todo = Append(Removals(items), SetPrefs(items, 0))
                       \/ todo = <<DeletePrefs(items)>>
    BY <1>2 DEF process_board_changes, process_topic_changes
  <2>4. ChoiceList(todo)
    BY <2>1, <2>3, RemovalLists
  <2>5. (\A j \in Items : Fine(m, j)) => Ahead(m, todo)
    BY <2>1, <2>3, EditsAreAhead
  <2> QED
    BY <2>2, <2>3, <2>4, <2>5, BeginKeepsPrefs
<1>3. ASSUME NEW r \in Requests, Call(r) \/ CallFails(r) \/ AskReader(r)
      PROVE  PrefsInv'
  BY <1>3, CallsKeepPrefs, FailKeepsPrefs, PostKeepsPrefs
<1>4. ASSUME NEW ms, NEW m, NEW level,
             \/ save(m, level) /\ ms = {m}
             \/ cleanup_pm_ignore_lists(ms)
      PROVE  PrefsInv'
  <2>1. req' = Unsure(req, ms) /\ UNCHANGED <<subs, prefs, has_prefs>> /\ overlapped \subseteq overlapped'
    BY <1>4 DEF save, cleanup_pm_ignore_lists, choices
  <2>2. \A q \in Requests : SameChoice(q)
    BY <2>1, UnsureSame, LaterSame
  <2> QED
    BY <2>1, <2>2, NoMemberStep
<1>5. ASSUME UNCHANGED <<choices, has_prefs, overlapped, req>>
      PROVE  PrefsInv'
  BY <1>5, NoMemberStep DEF choices, SameChoice
<1>6. ASSUME NEW m, NEW user, NEW outcome, NEW n,
             create_notification(m, user, outcome) \/ mark_notification_read(n)
      PROVE  PrefsInv'
  BY <1>5, <1>6 DEF create_notification, mark_notification_read, Noted
<1>7. CASE UNCHANGED subscriptionsVars
  BY <1>5, <1>7 DEF subscriptionsVars
<1>8. \A i \in Boards \cup Topics : i \in Items
  BY DEF Items
<1>9. ASSUME NEW r \in Requests, NEW m \in Subscribers,
             \/ \E b \in Boards, mode \in Modes, link \in BOOLEAN : board_notify(r, m, b, mode, link)
             \/ \E t \in Topics, mode \in Modes, link \in BOOLEAN : topic_notify(r, m, t, mode, link)
             \/ \E bs \in SUBSET Boards, edit \in BOOLEAN : process_board_changes(r, m, bs, edit)
             \/ \E ts \in SUBSET Topics, edit \in BOOLEAN : process_topic_changes(r, m, ts, edit)
      PROVE  PrefsInv'
  BY <1>1, <1>2, <1>8, <1>9
<1>10. ASSUME NEW r \in Requests, NEW m \in Members,
              \/ \E level \in PmPreferenceState, list \in SUBSET (Members \ {m}) :
                   save_pm_settings(r, m, level, list)
              \/ \E readers \in Readers, like \in BOOLEAN : notify_new_post(r, m, readers, like)
       PROVE  PrefsInv'
  BY <1>10, SettleKeepsPrefs, PostKeepsPrefs
<1> QED
  BY <1>3, <1>4, <1>6, <1>7, <1>9, <1>10 DEF SubscriptionsNext
-----------------------------------------------------------------------------
(* Notifications are numbered.                                              *)
NotesInv == \E S : notes \in Seq(S)

LEMMA NextKeepsNotes ==
  ASSUME NotesInv, [SubscriptionsNext]_subscriptionsVars
  PROVE  NotesInv'
<1>1. PICK S : notes \in Seq(S)
  BY DEF NotesInv
<1>2. ASSUME NEW x, notes' = Append(notes, x)
      PROVE  NotesInv'
  <2>1. notes' \in Seq(S \cup {x})
    BY <1>1, <1>2
  <2> QED
    BY <2>1 DEF NotesInv
<1>3. ASSUME NEW n, notes' = [notes EXCEPT ![n].is_read = TRUE]
      PROVE  NotesInv'
  <2>1. PICK x : x = [notes[n] EXCEPT !.is_read = TRUE]
    OBVIOUS
  <2>a. notes \in [1..Len(notes) -> S] /\ Len(notes) \in Nat
    BY <1>1
  <2>b. notes' = [notes EXCEPT ![n] = x]
    BY <1>3, <2>1
  <2>2. notes' \in [1..Len(notes) -> S \cup {x}]
    BY <2>a, <2>b
  <2>3. Len(notes) \in Nat
    BY <2>a
  <2>4. notes' \in Seq(S \cup {x})
    BY <2>2, <2>3
  <2> QED
    BY <2>4 DEF NotesInv
<1>4. ASSUME UNCHANGED notes
      PROVE  NotesInv'
  BY <1>4 DEF NotesInv
<1>5. ASSUME SubscriptionsNext
      PROVE  \/ UNCHANGED notes \/ (\E x : notes' = Append(notes, x))
             \/ \E n : notes' = [notes EXCEPT ![n].is_read = TRUE]
  <2>1. ASSUME NEW r, NEW m, NEW todo, Begin(r, m, todo) PROVE UNCHANGED notes
    BY <2>1 DEF Begin
  <2>2. ASSUME NEW r, NEW m, NEW i, NEW edit, NEW mode,
               \/ board_notify(r, m, i, mode, edit) \/ topic_notify(r, m, i, mode, edit)
               \/ process_board_changes(r, m, i, edit) \/ process_topic_changes(r, m, i, edit)
        PROVE  UNCHANGED notes
    BY <2>1, <2>2
       DEF board_notify, topic_notify, process_board_changes, process_topic_changes
  <2>3. ASSUME NEW r, NEW m, NEW level, NEW list,
               save_pm_settings(r, m, level, list) \/ notify_new_post(r, m, level, list)
        PROVE  UNCHANGED notes
    BY <2>3 DEF save_pm_settings, Settle, notify_new_post
  <2>4. ASSUME NEW r, Call(r) \/ CallFails(r) PROVE UNCHANGED notes
    BY <2>4 DEF Call, normalize_mode, CallFails, Settle
  <2>5. ASSUME NEW r, AskReader(r) PROVE UNCHANGED notes \/ \E x : notes' = Append(notes, x)
    BY <2>5 DEF AskReader
  <2>6. ASSUME NEW m, NEW level, save(m, level) \/ cleanup_pm_ignore_lists({m})
        PROVE  UNCHANGED notes
    BY <2>6 DEF save, cleanup_pm_ignore_lists
  <2>7. ASSUME NEW m, NEW user, NEW outcome, create_notification(m, user, outcome)
        PROVE  UNCHANGED notes \/ \E x : notes' = Append(notes, x)
    BY <2>7 DEF create_notification
  <2>8. ASSUME NEW n, mark_notification_read(n)
        PROVE  \E k : notes' = [notes EXCEPT ![k].is_read = TRUE]
    BY <2>8 DEF mark_notification_read
  <2> DEFINE Turns == \/ UNCHANGED notes \/ \E x : notes' = Append(notes, x)
                      \/ \E k : notes' = [notes EXCEPT ![k].is_read = TRUE]
  <2>9. Turns
    <3> HIDE DEF Turns
    <3>1. UNCHANGED notes => Turns
      BY DEF Turns
    <3>2. (\E x : notes' = Append(notes, x)) => Turns
      BY DEF Turns
    <3>3. (\E k : notes' = [notes EXCEPT ![k].is_read = TRUE]) => Turns
      BY DEF Turns
    <3> QED
      BY <1>5, <2>2, <2>3, <2>4, <2>5, <2>6, <2>7, <2>8, <3>1, <3>2, <3>3 DEF SubscriptionsNext
  <2> QED
    BY <2>9
<1>6. CASE UNCHANGED subscriptionsVars
  BY <1>4, <1>6 DEF subscriptionsVars
<1> QED
  BY <1>2, <1>3, <1>4, <1>5, <1>6

(* A page is full of newer notifications, or a notification is on it.       *)
LEMMA PagesShow ==
  ASSUME NotesInv, PageSize \in Int
  PROVE  NotesAreFound
<1>1. PICK S : notes \in Seq(S)
  BY DEF NotesInv
<1>2. IsFiniteSet(1..Len(notes))
  BY <1>1, FS_Interval
<1>3. \A n : Newer(n) \subseteq 1..Len(notes)
  BY <1>1 DEF Newer
<1>4. \A n : Cardinality(Newer(n)) \in Nat
  BY <1>2, <1>3, FS_Subset, FS_CardinalityType
<1>5. \A n : Cardinality(Newer(n)) = Cardinality(Newer(n))
  BY DEF Cardinality, Cardinality
<1> QED
  BY <1>4, <1>5 DEF NotesAreFound, list_notifications
-----------------------------------------------------------------------------
(* Subscriptions, and the notifications of members.                         *)
AnswersInv == PrefsInv /\ NotesInv

(* Subscriptions and preferences, and what requests have still to do.       *)
THEOREM AnswersInvariant == SubscriptionsSpec => []AnswersInv
<1>1. SubscriptionsInit => AnswersInv
  <2> SUFFICES ASSUME SubscriptionsInit PROVE AnswersInv
    OBVIOUS
  <2>1. ~IsChoice(Idle)
    BY KindsDiffer
  <2>2. \A m \in Members : \A i \in Items : prefs[m][i] = None /\ Fine(m, i)
    BY DEF SubscriptionsInit, Fine, None
  <2>3. \A m \in Members : prefs[m] \in Prefs
    BY DEF SubscriptionsInit, Prefs
  <2>4. PrefsInv
    BY <2>1, <2>2, <2>3 DEF SubscriptionsInit, PrefsInv
  <2>5. NotesInv
    <3>1. notes \in Seq({})
      BY DEF SubscriptionsInit
    <3> QED
      BY <3>1 DEF NotesInv
  <2> QED
    BY <2>4, <2>5 DEF AnswersInv
<1>2. SilentInv /\ AnswersInv /\ [SubscriptionsNext]_subscriptionsVars => AnswersInv'
  BY NextKeepsPrefs, NextKeepsNotes, SubscriptionsAssumption DEF AnswersInv
<1> QED
  BY <1>1, <1>2, SilentInvariant, PTL DEF SubscriptionsSpec

(* Subscriptions and alert preferences of a member go together once his     *)
(* requests are done, unless they overlapped or failed; and a notification  *)
(* answered 201 is on the page, or newer ones fill it.                      *)
THEOREM AnswersHoldAlways == SubscriptionsSpec => []AnswersHold
<1>1. AnswersInv => AnswersHold
  <2> SUFFICES ASSUME AnswersInv PROVE AnswersHold
    OBVIOUS
  <2>1. NotesAreFound
    BY PagesShow, SubscriptionsAssumption DEF AnswersInv
  <2>2. ASSUME NEW m \in Members \ overlapped, Doing(m) = {}
        PROVE  \A i \in Items : Fine(m, i)
    <3>1. \A r \in Requests : IsChoice(req[r]) => req[r].who # m
      BY <2>2, KindsDiffer DEF Doing
    <3> QED
      BY <3>1 DEF AnswersInv, PrefsInv
  <2>3. PrefsAgree
    BY <2>2
       DEF PrefsAgree, Fine, Items, list_board_notifications, list_topic_notifications,
           fetch_alert_prefs
  <2> QED
    BY <2>1, <2>3 DEF AnswersHold
<1> QED
  BY <1>1, AnswersInvariant, PTL
=============================================================================
