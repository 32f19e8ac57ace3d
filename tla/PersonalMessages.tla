-------------------------- MODULE PersonalMessages --------------------------
(***************************************************************************)
(* Personal messages: how they are sent by the three front ends (the API,  *)
(* agents and the controller), how the two stores keep them, and the       *)
(* labels their owners put on them.                                        *)
(*                                                                         *)
(* Each owner has a row per message and folder.  In memory a message is    *)
(* one record with marks of who has deleted it, and goes when nobody holds *)
(* it any more (maybe_remove_pm); what a member sees of it are the same    *)
(* rows.  There every call is one step, under a mutex; with SurrealDB each *)
(* query is one, and nothing holds a request's queries together.           *)
(*                                                                         *)
(* An hour is one tick of the clock.  Subjects, texts, read marks and the  *)
(* names of labels are left out.                                           *)
(***************************************************************************)
EXTENDS Calls, SequencesExt

CONSTANTS
  Senders,        \* the members who send
  Labellers,      \* the members who use labels
  Nobody,         \* a recipient that is not a member
  System,         \* the sender of admin_notify, whose id 0 is no member's
  Lists,          \* sequences of recipients that are entered
  Labels,         \* identifiers of labels
  PerHour,        \* pm_posts_per_hour, for each store
  MaxRecipients,  \* max_pm_recipients
  MaxMessages,    \* bound on messages, for each store
  MaxClock        \* bound on the clock

(***************************************************************************)
(* refused:    a query fails and has no effect; the request answers 500.   *)
(* unreadable: a count fails to decode and reads as zero.                  *)
(* unnoticed:  a statement fails inside a response that nobody looks into: *)
(*             it has no effect, or reads nothing, and the request goes on *)
(*             and answers as if it had.                                   *)
(* A crash is the failure of every request there is.                       *)
(***************************************************************************)
ASSUME MailAssumption ==
  /\ Stores \subseteq {"memory", "surreal"}
  /\ Nobody \notin Members /\ System \notin Members \cup {Nobody} /\ Senders \cup Labellers \subseteq Members
  /\ Lists \subseteq Seq(Members \cup {Nobody}) \ {<<>>}
  /\ PerHour \in [Stores -> Nat \ {0}] /\ MaxRecipients \in Nat \ {0}
  /\ MaxMessages \in [Stores -> Nat] /\ MaxClock \in Nat /\ MaxActs \in Nat
  /\ Faults \subseteq {"refused", "unreadable", "unnoticed"}

VARIABLES
  clock,
  rows,      \* the rows there are, each with its labels
  msgs,      \* history: every message, the rows it got or lost and whether it counts
  sent_log,  \* pm_sent_log of the in-memory store: times of sending
  labels,    \* the labels each member has
  used,      \* labels that have been given out
  put,       \* history: the labels on messages, as each member has asked for them
  mixed      \* history: members whose label requests overlapped or failed

mailVars == <<store, clock, rows, msgs, sent_log, labels, used, put, mixed, req, acts>>
-----------------------------------------------------------------------------

Of(m) == {k \in DOMAIN rows : k.owner = m}

\* What a member sees in a folder.
personal_message_page(m, folder) == {k \in Of(m) : k.folder = folder}

Without(keys) == [k \in DOMAIN rows \ keys |-> rows[k]]

NewKey(n, m, folder) ==
  [n |-> n, owner |-> m, folder |-> folder,
   copy |-> IF [n |-> n, owner |-> m, folder |-> folder, copy |-> 1] \in msgs[n].keys THEN 2 ELSE 1]

Added(keys) ==
  [k \in DOMAIN rows \cup keys |-> IF k \in keys THEN {} ELSE rows[k]]

MailInit ==
  /\ store \in Stores
  /\ clock = 0
  /\ rows = <<>>
  /\ msgs = <<>>
  /\ sent_log = [m \in Members |-> {}]
  /\ labels = [m \in Members |-> {}]
  /\ used = labels
  /\ put = [m \in Members |-> {}]
  /\ mixed = [m \in Members |-> FALSE]
  /\ req = [r \in Requests |-> Idle]
  /\ acts = 0

Sending == UNCHANGED <<store, clock, labels, used, put, mixed>>
-----------------------------------------------------------------------------
(* Sending.                                                                *)

\* resolve_recipients: unknown names are dropped, each is taken once per
\* list; the first list is to, the rest of the sequence bcc.
resolve_recipients(list) ==
  LET known == {i \in DOMAIN list : list[i] # Nobody}
  IN [n \in 1..Cardinality(known) |->
       list[CHOOSE i \in known : Cardinality({j \in known : j <= i}) = n]]

\* Only the controller has settings, and with them limits.
Letter(m, to, by) ==
  [stage |-> IF by = "controller" THEN "count" ELSE "write", who |-> m, to |-> to,
   counted |-> FALSE]

Message(rq, keys) ==
  [from |-> rq.who, to |-> Range(rq.to), at |-> clock, counted |-> rq.counted,
   keys |-> keys, lost |-> {}, answered |-> FALSE]

\* In memory: all rows at once, a recipient who is named twice gets one.
send_in_memory(r, rq) ==
  /\ store = "memory" /\ Len(msgs) < MaxMessages[store]
  /\ LET n == Len(msgs) + 1
         keys == {[n |-> n, owner |-> m, folder |-> "Inbox", copy |-> 1] : m \in Range(rq.to)}
                 \cup {[n |-> n, owner |-> rq.who, folder |-> "Sent", copy |-> 1]}
     IN /\ msgs' = Append(msgs, Message(rq, keys))
        /\ rows' = Added(keys)
        /\ Become(r, [stage |-> "record", who |-> rq.who, n |-> n])
  /\ Sending /\ UNCHANGED sent_log

\* SurrealDB: the identifier is taken from the clock, and the rows of the
\* recipients are created one by one, the sender's own row last.
send_personal_message(r, rq) ==
  /\ store = "surreal" /\ Len(msgs) < MaxMessages[store]
  /\ msgs' = Append(msgs, Message(rq, {}))
  /\ Become(r, [stage |-> "rows", who |-> rq.who, n |-> Len(msgs) + 1, todo |-> rq.to])
  /\ Sending /\ UNCHANGED <<rows, sent_log>>

Write(r, rq) == send_in_memory(r, rq) \/ send_personal_message(r, rq)

\* The API takes no message with an unknown recipient.
send_personal_message_api(r, m, list) ==
  /\ req[r] = Idle
  /\ Nobody \notin Range(list)
  /\ send_personal_message(r, Letter(m, list, "api"))

\* Administrators write to any numbers, which nobody looks up.
admin_notify(r, list) ==
  /\ req[r] = Idle
  /\ send_personal_message(r, Letter(System, list, "api"))

\* Agents send through send_pm; their context has no settings, so no limits.
agent_send(r, m, list) ==
  /\ req[r] = Idle
  /\ resolve_recipients(list) # <<>>
  /\ send_personal_message(r, Letter(m, resolve_recipients(list), "agent"))

\* So does the controller, whose context has them.
controller_send(r, m, list) ==
  /\ req[r] = Idle
  /\ resolve_recipients(list) # <<>>
  /\ Len(resolve_recipients(list)) <= MaxRecipients
  /\ Become(r, Letter(m, resolve_recipients(list), "controller"))
  /\ Sending /\ UNCHANGED <<rows, msgs, sent_log>>

\* As if the rows in the inbox were counted.
CountInbox(m) ==
  IF store = "memory"
  THEN Cardinality({e \in sent_log[m] : e.at = clock})
  ELSE IF \E k \in personal_message_page(m, "Inbox") : msgs[k.n].at = clock THEN 1 ELSE 0

\* The in-memory store keeps times.  SurrealDB has the rows in the folder
\* Sent, which their owner may have deleted; its count() is not grouped, so
\* it is one for each row, and the row that is taken says one.
count_pm_sent_since(m) ==
  IF store = "memory"
  THEN Cardinality({e \in sent_log[m] : e.at = clock})
  ELSE IF \E k \in personal_message_page(m, "Sent") : msgs[k.n].at = clock THEN 1 ELSE 0

\* The sender has no other message on its way.
Alone(r) ==
  \A s \in Requests \ {r} :
    req[s].stage \in {"write", "rows", "record"} => req[s].who # req[r].who

send_pm(r) ==
  /\ req[r].stage = "count"
  /\ \/ /\ count_pm_sent_since(req[r].who) < PerHour[store]
        /\ Become(r, [req[r] EXCEPT !.stage = "write", !.counted = Alone(r)])
     \/ /\ count_pm_sent_since(req[r].who) >= PerHour[store]
        /\ Become(r, Idle)
     \/ store = "surreal" /\ "refused" \in Faults /\ Become(r, Idle)
     \/ /\ store = "surreal" /\ "unreadable" \in Faults
        /\ Become(r, [req[r] EXCEPT !.stage = "write"])
  /\ Sending /\ UNCHANGED <<rows, msgs, sent_log>>

CreateRow(n, key, answered) ==
  /\ rows' = Added({key})
  /\ msgs' = [msgs EXCEPT ![n].keys = @ \cup {key}, ![n].answered = answered]
  /\ UNCHANGED acts

\* As if the sender's own row came first.
DeliverSentFirst(r) ==
  /\ req[r].stage = "rows"
  /\ LET rq == req[r]
         own == NewKey(rq.n, rq.who, "Sent")
     IN IF own \in msgs[rq.n].keys \/ own.copy = 2
        THEN /\ CreateRow(rq.n, NewKey(rq.n, Head(rq.todo), "Inbox"), FALSE)
             /\ Become(r, IF Len(rq.todo) = 1 THEN Idle ELSE [rq EXCEPT !.todo = Tail(@)])
        ELSE CreateRow(rq.n, own, FALSE) /\ UNCHANGED req
  /\ Sending /\ UNCHANGED sent_log

\* The failures of these statements are counted with the acts, to bound them.
LoseRow(n, members, answered) ==
  /\ "unnoticed" \in Faults
  /\ msgs' = [msgs EXCEPT ![n].lost = @ \cup members, ![n].answered = answered]
  /\ UNCHANGED rows
  /\ Act

Deliver(r) ==
  /\ req[r].stage = "rows"
  /\ LET rq == req[r]
     IN IF rq.todo # <<>>
        THEN /\ \/ CreateRow(rq.n, NewKey(rq.n, Head(rq.todo), "Inbox"), FALSE)
                \/ LoseRow(rq.n, {Head(rq.todo)}, FALSE)
             /\ Become(r, [rq EXCEPT !.todo = Tail(@)])
        ELSE /\ \/ CreateRow(rq.n, NewKey(rq.n, rq.who, "Sent"), TRUE)
                \/ LoseRow(rq.n, {}, TRUE)
             /\ Become(r, Idle)
  /\ Sending /\ UNCHANGED sent_log

\* The last call of send_pm, and the answer; entries older than an hour go.
\* SurrealDB's log is never read and is left out: the last row is answered.
record_pm_sent(r) ==
  /\ req[r].stage = "record"
  /\ msgs' = [msgs EXCEPT ![req[r].n].answered = TRUE]
  /\ sent_log' = [sent_log EXCEPT ![req[r].who] =
       {e \in @ : e.at = clock} \cup {[n |-> req[r].n, at |-> clock]}]
  /\ Become(r, Idle)
  /\ Sending /\ UNCHANGED rows

Fail(r) ==
  /\ store = "surreal" /\ "refused" \in Faults
  /\ req[r].stage \in {"rows", "strip", "label"}
  /\ mixed' = IF req[r].stage \in {"strip", "label"}
              THEN [mixed EXCEPT ![req[r].who] = TRUE] ELSE mixed
  /\ Become(r, Idle)
  /\ UNCHANGED <<store, clock, rows, msgs, sent_log, labels, used, put>>
-----------------------------------------------------------------------------
(* What members do with their rows: one query, or one call in memory.      *)

\* The rows of SurrealDB are found by pm_id, the time of sending.
delete_personal_messages(m, folder, ns) ==
  rows' = Without({k \in personal_message_page(m, folder) : k.n \in ns})

\* The API has its members delete from their inbox only.
delete_personal_messages_api(m, ns) ==
  store = "surreal" /\ delete_personal_messages(m, "Inbox", ns)

prune_personal_messages(m, cutoff) ==
  rows' = Without({k \in Of(m) : msgs[k.n].at < cutoff})

clear_personal_messages(m, folder) ==
  rows' = Without(personal_message_page(m, folder))

\* When a member is removed.
cleanup_pm_recipients(m) == rows' = Without(Of(m))

Tidy ==
  /\ \E m \in Members :
       \/ \E folder \in {"Inbox", "Sent"} :
            \/ \E k \in Of(m) : delete_personal_messages(m, folder, {k.n})
            \/ clear_personal_messages(m, folder)
       \/ \E k \in Of(m) : delete_personal_messages_api(m, {k.n})
       \/ \E cutoff \in 1..clock : prune_personal_messages(m, cutoff)
       \/ cleanup_pm_recipients(m)
  /\ UNCHANGED <<store, clock, msgs, sent_log, labels, used, put, mixed, req>>
-----------------------------------------------------------------------------
(* Labels.                                                                 *)

create_pm_label(m) ==
  /\ \E l \in Labels \ used[m] :
       /\ \/ labels' = [labels EXCEPT ![m] = @ \cup {l}]
          \/ store = "surreal" /\ "unnoticed" \in Faults /\ UNCHANGED labels
       /\ used' = [used EXCEPT ![m] = @ \cup {l}]
  /\ UNCHANGED <<store, clock, rows, msgs, sent_log, put, mixed, req>>

Overlaps(r, m) ==
  \E s \in Requests \ {r} : req[s].stage \in {"strip", "label"} /\ req[s].who = m

Mix(r, m) == mixed' = [mixed EXCEPT ![m] = @ \/ Overlaps(r, m)]

\* A statement of the request has failed and nobody knows.
Unnoticed(m) ==
  /\ "unnoticed" \in Faults
  /\ mixed' = [mixed EXCEPT ![m] = TRUE]

Labelled(ls, l, add) == IF add THEN ls \cup {l} ELSE ls \ {l}

Writing(m, plan) == IF plan = {} THEN Idle ELSE [stage |-> "label", who |-> m, plan |-> plan]

\* The labels of the messages are read, all at once; nobody looks whether
\* there is such a label, or whose it is.  In memory only recipients have
\* labels ...
label_personal_messages(r, m, ns, l, add) ==
  /\ req[r] = Idle
  /\ put' = [put EXCEPT ![m] = IF add THEN @ \cup (ns \X {l}) ELSE @ \ (ns \X {l})]
  /\ LET chosen == {k \in Of(m) : k.n \in ns}
     IN \/ /\ store = "memory"
           /\ rows' = [k \in DOMAIN rows |->
                IF k \in chosen /\ k.folder = "Inbox" THEN Labelled(rows[k], l, add) ELSE rows[k]]
           /\ UNCHANGED <<req, mixed>>
        \/ /\ store = "surreal"
           /\ Become(r, Writing(m, {<<k.n, Labelled(rows[k], l, add)>> : k \in chosen}))
           /\ Mix(r, m)
           /\ UNCHANGED rows
        \/ store = "surreal" /\ Unnoticed(m) /\ UNCHANGED <<req, rows>>
  /\ UNCHANGED <<store, clock, msgs, sent_log, labels, used>>

\* A label is taken from the list first, if it is there, ...
delete_pm_labels(r, m, l) ==
  /\ req[r] = Idle
  /\ put' = [put EXCEPT ![m] = {p \in @ : p[2] # l}]
  /\ \/ /\ store = "memory"
        /\ labels' = [labels EXCEPT ![m] = @ \ {l}]
        /\ rows' = [k \in DOMAIN rows |-> IF k.owner = m THEN rows[k] \ {l} ELSE rows[k]]
        /\ UNCHANGED <<req, mixed>>
     \/ /\ store = "surreal"
        /\ \/ labels' = [labels EXCEPT ![m] = @ \ {l}] /\ Mix(r, m)
           \/ Unnoticed(m) /\ UNCHANGED labels
        /\ Become(r, [stage |-> "strip", who |-> m, label |-> l])
        /\ UNCHANGED rows
  /\ UNCHANGED <<store, clock, msgs, sent_log, used>>

\* As if only messages in the inbox were stripped.
StripInbox(r) ==
  /\ req[r].stage = "strip"
  /\ LET marked == {k \in Of(req[r].who) : req[r].label \in rows[k] /\ k.folder = "Inbox"}
     IN Become(r, Writing(req[r].who, {<<k.n, rows[k] \ {req[r].label}>> : k \in marked}))
  /\ UNCHANGED <<store, clock, rows, msgs, sent_log, labels, used, put, mixed>>

\* ... then the messages that have it are read ...
StripLabel(r) ==
  /\ req[r].stage = "strip"
  /\ LET marked == {k \in Of(req[r].who) : req[r].label \in rows[k]}
     IN \/ /\ Become(r, Writing(req[r].who, {<<k.n, rows[k] \ {req[r].label}>> : k \in marked}))
           /\ UNCHANGED mixed
        \/ Become(r, Idle) /\ Unnoticed(req[r].who)
  /\ UNCHANGED <<store, clock, rows, msgs, sent_log, labels, used, put>>

\* ... and written back one by one, in both folders.
WriteLabels(r) ==
  /\ req[r].stage = "label"
  /\ \E entry \in req[r].plan :
       /\ Become(r, Writing(req[r].who, req[r].plan \ {entry}))
       /\ \/ /\ rows' = [k \in DOMAIN rows |->
                 IF k.owner = req[r].who /\ k.n = entry[1] THEN entry[2] ELSE rows[k]]
             /\ UNCHANGED mixed
          \/ Unnoticed(req[r].who) /\ UNCHANGED rows
  /\ UNCHANGED <<store, clock, msgs, sent_log, labels, used, put>>
-----------------------------------------------------------------------------
Tick ==
  /\ clock < MaxClock
  /\ clock' = clock + 1
  /\ UNCHANGED <<store, rows, msgs, sent_log, labels, used, put, mixed, req>>

SendStep(r) ==
  \/ \E m \in Senders, list \in Lists :
       \/ send_personal_message_api(r, m, list)
       \/ agent_send(r, m, list)
       \/ controller_send(r, m, list)
  \/ send_pm(r) \/ (req[r].stage = "write" /\ Write(r, req[r])) \/ record_pm_sent(r) \/ Fail(r)

LabelStep(r) ==
  \E m \in Labellers, l \in Labels :
    \/ \E n \in 1..Len(msgs), add \in BOOLEAN : label_personal_messages(r, m, {n}, l, add)
    \/ delete_pm_labels(r, m, l)

MailNext ==
  \/ \E r \in Requests : (SendStep(r) \/ StripLabel(r) \/ WriteLabels(r)) /\ UNCHANGED acts
  \/ \E r \in Requests : Deliver(r)
  \/ \E r \in Requests : LabelStep(r) /\ Act
  \/ \E r \in Requests, list \in Lists : admin_notify(r, list) /\ Act
  \/ (\E m \in Labellers : create_pm_label(m)) /\ Act
  \/ Tidy /\ Act
  \/ Tick /\ Act

MailSpec == MailInit /\ [][MailNext]_mailVars
-----------------------------------------------------------------------------
(***************************************************************************)
(* A message that its sender finds under Sent, or was told is sent, is or  *)
(* has been in the inbox of every recipient whose own row did not fail to  *)
(* be stored without anybody noticing, and of nobody else; a query that    *)
(* fails, a crash and the other rows make no difference.                   *)
(***************************************************************************)
SentIsDelivered ==
  \A n \in DOMAIN msgs :
    LET got == {k.owner : k \in {key \in msgs[n].keys : key.folder = "Inbox"}}
    IN \/ ~msgs[n].answered /\ \A k \in msgs[n].keys : k.folder = "Inbox"
       \/ msgs[n].to \ msgs[n].lost \subseteq got /\ got \subseteq msgs[n].to

(***************************************************************************)
(* The hourly limit is checked before the message is written.  Of the      *)
(* messages that were let through while no other message of the sender was *)
(* on its way, no more than the limit are sent in an hour; only requests   *)
(* that race exceed it.  With SurrealDB messages that are gone from the    *)
(* folder Sent do not count, and no limit but one message an hour is kept: *)
(* its count never says more than one.                                     *)
(***************************************************************************)
HourlyLimit ==
  store = "memory" \/ PerHour[store] = 1 =>
    \A m \in Members :
      Cardinality({n \in DOMAIN msgs :
        /\ msgs[n].from = m /\ msgs[n].at = clock /\ msgs[n].counted
        /\ store = "memory" \/ \E k \in Of(m) : k.n = n /\ k.folder = "Sent"}) <= PerHour[store]

\* The list of labels: SurrealDB's takes those on messages for labels, too.
personal_message_labels(m) ==
  labels[m] \cup IF store = "memory" THEN {} ELSE UNION {rows[k] : k \in Of(m)}

(***************************************************************************)
(* A label that a member has taken off a message, or deleted, is gone from *)
(* every row there is of the message, and from the list of labels, until   *)
(* it is asked for again, although rows are read, stripped and written     *)
(* back in queries that no transaction holds together.  This is for        *)
(* members whose label requests neither overlapped nor failed, and no      *)
(* longer have one under way.                                              *)
(***************************************************************************)
TakenOffIsGone ==
  \A m \in Members :
    \/ mixed[m]
    \/ \E r \in Requests : req[r].stage \in {"strip", "label"} /\ req[r].who = m
    \/ /\ \A k \in Of(m) : {k.n} \X rows[k] \subseteq put[m]
       /\ personal_message_labels(m) \subseteq labels[m] \cup {p[2] : p \in put[m]}
=============================================================================
