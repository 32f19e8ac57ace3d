------------------------------- MODULE Points -------------------------------
(***************************************************************************)
(* The points ledger (src/points.rs): create_points_event, called once by  *)
(* the handlers that create topics and replies (src/api/forum_routes.rs),  *)
(* and up to three times by create_points_event_api                        *)
(* (src/api/points_routes.rs), which signs in again, then connects anew,   *)
(* when the database says that the session is not authorized.              *)
(*                                                                         *)
(* A call looks its idempotency key up, runs one transaction that writes   *)
(* the event and the balance, reads the event back and reads the balance;  *)
(* each query is a step.  The two axes of a balance, karma and merit, are  *)
(* treated alike and are one number here.                                  *)
(***************************************************************************)
EXTENDS Integers, SequencesExt

CONSTANTS
  Requests,     \* calls of one of the handlers, each used once
  Members,      \* target_member_id
  Keys,         \* idempotency keys
  NoKey,        \* a payload without one
  Deltas,       \* karma_delta
  MaxTime,      \* bound of the clock, in milliseconds
  ComparesIds,  \* whether `meta::id(id) = type::thing(..)` can be true
  Faults        \* what may go wrong, see FaultKinds

(***************************************************************************)
(* unauthorized: a query is refused because the session has expired.       *)
(* lost:         a query reports another error; a transaction may have     *)
(*               committed all the same.                                   *)
(* aborted:      the transaction is cancelled by the database and the      *)
(*               query is reported Ok: its response is not looked at.      *)
(* unreadable:   the rows of a response cannot be decoded; the code takes  *)
(*               that for no rows.                                         *)
(* disconnect:   the client goes away and the handler is dropped; the      *)
(*               query it was sending may still be carried out.            *)
(***************************************************************************)
FaultKinds == {"unauthorized", "lost", "aborted", "unreadable", "disconnect"}

ASSUME PointsAssumption ==
  /\ NoKey \notin Keys
  /\ Deltas \subseteq Int
  /\ MaxTime \in Nat
  /\ ComparesIds \in BOOLEAN
  /\ Faults \subseteq FaultKinds

VARIABLES
  ledger,   \* points_events in the order of their transactions
  balance,  \* user_points
  now,      \* the clock of the server
  pc,       \* the query each request is about to make
  payload,  \* CreatePointsEventPayload of each request
  stamp,    \* the instant in the event_id of a payload without a key
  tries,    \* calls of create_points_event so far
  reply     \* what the request came to

vars == <<ledger, balance, now, pc, payload, stamp, tries, reply>>
-----------------------------------------------------------------------------
Kinds == {"award", "event"}

Payload == [kind: Kinds, member: Members, delta: Deltas, key: Keys \cup {NoKey}]

\* A request that has not arrived.
NoPayload == [kind |-> "none", member |-> "none", delta |-> 0, key |-> NoKey]

Steps == {"idle", "lookup", "write", "reload", "balance", "done"}

\* "created" is the 201 of the points API, "posted" that of a topic or reply.
Replies == {"none", "created", "posted", "invalid", "error", "gone"}

Keyed(r) == payload[r].key # NoKey

\* event_id: the key, or the payload with the instant.
EventIds ==
  [key: Keys \cup {NoKey}, of: Payload \cup {NoPayload}, at: 0..MaxTime]

EventId(r) ==
  IF Keyed(r)
  THEN [key |-> payload[r].key, of |-> NoPayload, at |-> 0]
  ELSE [key |-> NoKey, of |-> payload[r], at |-> stamp[r]]

Init ==
  /\ ledger = <<>>
  /\ balance = [m \in Members |-> 0]
  /\ now = 0
  /\ pc = [r \in Requests |-> "idle"]
  /\ payload = [r \in Requests |-> NoPayload]
  /\ stamp = [r \in Requests |-> 0]
  /\ tries = [r \in Requests |-> 0]
  /\ reply = [r \in Requests |-> "none"]

Tick ==
  /\ now < MaxTime
  /\ now' = now + 1
  /\ UNCHANGED <<ledger, balance, pc, payload, stamp, tries, reply>>

-----------------------------------------------------------------------------
(* How a call goes on. *)

GoTo(r, step) == pc' = [pc EXCEPT ![r] = step] /\ UNCHANGED <<tries, reply>>

\* The errors of an award are only logged: the topic is there.
End(r, what) ==
  /\ pc' = [pc EXCEPT ![r] = "done"]
  /\ reply' = [reply EXCEPT ![r] =
       IF payload[r].kind = "award" THEN "posted" ELSE what]
  /\ UNCHANGED tries

\* create_points_event starts: without a key there is nothing to look up.
FirstQuery(p) == IF p.key = NoKey THEN "write" ELSE "lookup"

MaxTries(p) == IF p.kind = "award" THEN 1 ELSE 3

\* Mutant of Unauthorized: signing in again is tried without an end.
UnauthorizedForever(r) ==
  /\ "unauthorized" \in Faults
  /\ GoTo(r, FirstQuery(payload[r]))
  /\ stamp' = [stamp EXCEPT ![r] = now]
  /\ UNCHANGED <<ledger, balance, now, payload>>

\* The session has expired: the API handler calls create_points_event again
\* from its start, the award does not.
Unauthorized(r) ==
  /\ "unauthorized" \in Faults
  /\ \/ /\ tries[r] < MaxTries(payload[r])
        /\ pc' = [pc EXCEPT ![r] = FirstQuery(payload[r])]
        /\ tries' = [tries EXCEPT ![r] = @ + 1]
        /\ stamp' = [stamp EXCEPT ![r] = now]
        /\ UNCHANGED reply
     \/ /\ tries[r] = MaxTries(payload[r])
        /\ End(r, "error") /\ UNCHANGED stamp
  /\ UNCHANGED <<ledger, balance, now, payload>>

\* Any other error of a read.
Lost(r) ==
  /\ "lost" \in Faults
  /\ End(r, "error")
  /\ UNCHANGED <<ledger, balance, now, payload, stamp>>

-----------------------------------------------------------------------------
(* The handlers. *)

\* A handler calls create_points_event; validate_points_event refuses zero.
Arrive(r, p) ==
  /\ pc[r] = "idle"
  /\ payload' = [payload EXCEPT ![r] = p]
  /\ p.kind = "award" => p.key # NoKey /\ p.delta > 0
  /\ \/ /\ p.delta = 0
        /\ pc' = [pc EXCEPT ![r] = "done"]
        /\ reply' = [reply EXCEPT ![r] = "invalid"]
        /\ UNCHANGED <<tries, stamp>>
     \/ /\ p.delta # 0
        /\ pc' = [pc EXCEPT ![r] = FirstQuery(p)]
        /\ tries' = [tries EXCEPT ![r] = 1]
        /\ stamp' = [stamp EXCEPT ![r] = now]
        /\ UNCHANGED reply
  /\ UNCHANGED <<ledger, balance, now>>

HasKey(key) == \E i \in DOMAIN ledger : ledger[i].key = key

\* The first query: an event that has the key is answered as it is.
Lookup(r) ==
  /\ pc[r] = "lookup"
  /\ \/ /\ \/ HasKey(payload[r].key) /\ GoTo(r, "balance")
           \/ /\ ~HasKey(payload[r].key) \/ "unreadable" \in Faults
              /\ GoTo(r, "write")
        /\ UNCHANGED <<ledger, balance, now, payload, stamp>>
     \/ Unauthorized(r)
     \/ Lost(r)

\* Mutant of Fresh: the transaction relies on the lookup before it.
FreshAssumed(r) == TRUE

\* The transaction's own test of the key, its unique index and the record id:
\* what CREATE needs.
Fresh(r) ==
  \A i \in DOMAIN ledger :
    /\ ledger[i].id # EventId(r)
    /\ Keyed(r) => ledger[i].key # payload[r].key

\* Mutant of Clamped: a loss may lead below zero.
Unclamped(n) == n

Clamped(n) == IF n < 0 THEN 0 ELSE n

Event(r) ==
  [id |-> EventId(r), key |-> payload[r].key, member |-> payload[r].member,
   delta |-> payload[r].delta]

\* Mutant of Commit: the balance is written after the IF of the transaction.
CommitOutside(r) ==
  LET p == payload[r] IN
  /\ ledger' = IF Fresh(r) THEN Append(ledger, Event(r)) ELSE ledger
  /\ balance' = [balance EXCEPT ![p.member] = Clamped(@ + p.delta)]

\* The transaction: event and balance, or neither.
Commit(r) ==
  LET p == payload[r] IN
  IF Fresh(r)
  THEN /\ ledger' = Append(ledger, Event(r))
       /\ balance' = [balance EXCEPT ![p.member] = Clamped(@ + p.delta)]
  ELSE UNCHANGED <<ledger, balance>>

Write(r) ==
  /\ pc[r] = "write"
  /\ \/ /\ Commit(r) \/ ("aborted" \in Faults /\ UNCHANGED <<ledger, balance>>)
        /\ GoTo(r, "reload")
        /\ UNCHANGED <<now, payload, stamp>>
     \/ Unauthorized(r)
     \/ Lost(r)
     \/ /\ "lost" \in Faults
        /\ Commit(r) /\ End(r, "error")
        /\ UNCHANGED <<now, payload, stamp>>

\* The event as the third query asks for it.
Reloadable(r) ==
  \E i \in DOMAIN ledger :
    \/ Keyed(r) /\ ledger[i].key = payload[r].key
    \/ ComparesIds /\ ledger[i].id = EventId(r)

\* Mutant of Reload: an event that is not found is answered from the payload.
ReloadTrusting(r) ==
  /\ pc[r] = "reload"
  /\ \/ /\ GoTo(r, "balance")
        /\ UNCHANGED <<ledger, balance, now, payload, stamp>>
     \/ Unauthorized(r)
     \/ Lost(r)

\* The third query: no row is an error.
Reload(r) ==
  /\ pc[r] = "reload"
  /\ \/ /\ Reloadable(r)
        /\ GoTo(r, "balance")
        /\ UNCHANGED <<ledger, balance, now, payload, stamp>>
     \/ /\ ~Reloadable(r) \/ "unreadable" \in Faults
        /\ End(r, "error")
        /\ UNCHANGED <<ledger, balance, now, payload, stamp>>
     \/ Unauthorized(r)
     \/ Lost(r)

\* get_points_balance, the last query; an unreadable row reads as zero.
Balance(r) ==
  /\ pc[r] = "balance"
  /\ \/ /\ End(r, "created")
        /\ UNCHANGED <<ledger, balance, now, payload, stamp>>
     \/ Unauthorized(r)
     \/ Lost(r)

Running(r) == pc[r] \notin {"idle", "done"}

\* The future is dropped, together with the query it may have sent.
Disconnect(r) ==
  /\ "disconnect" \in Faults
  /\ Running(r)
  /\ pc' = [pc EXCEPT ![r] = "done"]
  /\ reply' = [reply EXCEPT ![r] = "gone"]
  /\ \/ pc[r] = "write" /\ Commit(r)
     \/ UNCHANGED <<ledger, balance>>
  /\ UNCHANGED <<now, payload, stamp, tries>>

ServerStep(r) == Lookup(r) \/ Write(r) \/ Reload(r) \/ Balance(r)

Next ==
  \/ Tick
  \/ \E r \in Requests, p \in Payload : Arrive(r, p)
  \/ \E r \in Requests : ServerStep(r) \/ Disconnect(r)

Spec == Init /\ [][Next]_vars

\* The database answers every query, with a result or an error.
FairSpec == Spec /\ \A r \in Requests : WF_vars(ServerStep(r))
-----------------------------------------------------------------------------
\* Every variable has its type; no call is repeated more than MaxTries allows.
TypeOK ==
  /\ ledger \in Seq([id: EventIds, key: Keys \cup {NoKey}, member: Members,
                     delta: Deltas \ {0}])
  /\ balance \in [Members -> Nat]
  /\ now \in 0..MaxTime
  /\ pc \in [Requests -> Steps]
  /\ payload \in [Requests -> Payload \cup {NoPayload}]
  /\ stamp \in [Requests -> 0..MaxTime]
  /\ tries \in [Requests -> 0..3]
  /\ reply \in [Requests -> Replies]

\* However many requests carry an idempotency key, and however often each of
\* them is repeated, one event has it (create_points_event).
KeyCountedOnce ==
  \A i, j \in DOMAIN ledger :
    ledger[i].key # NoKey /\ ledger[i].key = ledger[j].key => i = j

\* A balance is what the events of the member, in their order, make of zero:
\* it never moves without an event, whatever queries fail or are repeated.
BalanceIsLedger ==
  \A m \in Members :
    LET running[n \in 0..Len(ledger)] ==
          IF n = 0 THEN 0
          ELSE IF ledger[n].member = m THEN Clamped(running[n - 1] + ledger[n].delta)
          ELSE running[n - 1]
    IN  balance[m] = running[Len(ledger)]

\* A 201 of the points API is the truth: the ledger has an event of its key, or
\* of the very payload, even if the transaction was cancelled unnoticed.
CreatedIsInLedger ==
  \A r \in Requests :
    reply[r] = "created" \/ pc[r] = "balance" =>
      \E i \in DOMAIN ledger :
        \/ Keyed(r) /\ ledger[i].key = payload[r].key
        \/ /\ ~Keyed(r)
           /\ ledger[i].member = payload[r].member
           /\ ledger[i].delta = payload[r].delta

\* Every request comes to an end: repeating a call has one.
EveryRequestEnds == \A r \in Requests : Running(r) ~> pc[r] = "done"
=============================================================================
