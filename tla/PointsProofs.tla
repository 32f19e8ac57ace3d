---------------------------- MODULE PointsProofs ----------------------------
(* Proofs about the points ledger, for any requests, members, keys, deltas  *)
(* and faults.                                                              *)
EXTENDS Points, SequenceTheorems, TLAPS

EventRows ==
  [id: EventIds, key: Keys \cup {NoKey}, member: Members, delta: Deltas \ {0}]

\* A request under way has a payload that validate_points_event has let pass,
\* and looks a key up only if it has one.
ArgsInv ==
  \A r \in Requests :
    /\ pc[r] # "done" => reply[r] = "none"
    /\ Running(r) => payload[r] \in Payload /\ payload[r].delta # 0
    /\ pc[r] = "lookup" => Keyed(r)

\* The id of an event tells its key or its payload.
IdsTell ==
  \A i \in DOMAIN ledger :
    /\ ledger[i].id.key = ledger[i].key
    /\ ledger[i].key = NoKey =>
         /\ ledger[i].member = ledger[i].id.of.member
         /\ ledger[i].delta = ledger[i].id.of.delta

\* What a 201 about the payload of r says of the ledger.
Recorded(r) ==
  \E i \in DOMAIN ledger :
    \/ Keyed(r) /\ ledger[i].key = payload[r].key
    \/ /\ ~Keyed(r)
       /\ ledger[i].member = payload[r].member
       /\ ledger[i].delta = payload[r].delta

\* The rows of the ledger that a step finds are still there.
LedgerGrows == \A i \in DOMAIN ledger : i \in DOMAIN ledger' /\ ledger'[i] = ledger[i]

PointsInv == TypeOK /\ ArgsInv /\ IdsTell /\ KeyCountedOnce /\ CreatedIsInLedger

-----------------------------------------------------------------------------
\* The ledger only grows, by at most one event.
LEMMA CommitAppends ==
  ASSUME TypeOK, NEW r \in Requests, Commit(r)
  PROVE  ledger' = ledger \/ (Fresh(r) /\ ledger' = Append(ledger, Event(r)))
  BY DEF Commit

\* An event that a running request writes is a row of the table.
LEMMA EventType ==
  ASSUME TypeOK, NEW r \in Requests, payload[r] \in Payload, payload[r].delta # 0
  PROVE  /\ Event(r) \in EventRows
         /\ Event(r).id.key = Event(r).key
         /\ Event(r).key = NoKey =>
              /\ Event(r).member = Event(r).id.of.member
              /\ Event(r).delta = Event(r).id.of.delta
  BY PointsAssumption
  DEF Event, EventRows, EventId, EventIds, Keyed, TypeOK, Payload

\* A clamped balance is a natural number.
LEMMA ClampedType ==
  ASSUME NEW n \in Int
  PROVE  Clamped(n) \in Nat
  BY DEF Clamped

\* A commit keeps what is known of the rows, and whatever the ledger had.
LEMMA CommitKeeps ==
  ASSUME TypeOK, IdsTell, KeyCountedOnce, NEW r \in Requests,
         payload[r] \in Payload, payload[r].delta # 0, Commit(r)
  PROVE  /\ ledger' \in Seq(EventRows)
         /\ balance' \in [Members -> Nat]
         /\ IdsTell' /\ KeyCountedOnce'
         /\ LedgerGrows
  <1> DEFINE e == Event(r)
  <1>1. ledger \in Seq(EventRows)
    BY DEF TypeOK, EventRows
  <1>2. CASE ~Fresh(r)
    BY <1>1, <1>2 DEF Commit, TypeOK, IdsTell, KeyCountedOnce, LedgerGrows
  <1>3. CASE Fresh(r)
    <2>1. ledger' = Append(ledger, e)
      BY <1>3 DEF Commit
    <2>2. e \in EventRows
      BY EventType
    <2>3. /\ ledger' \in Seq(EventRows)
          /\ Len(ledger') = Len(ledger) + 1
          /\ \A i \in 1..Len(ledger) : ledger'[i] = ledger[i]
          /\ ledger'[Len(ledger) + 1] = e
      BY <1>1, <2>1, <2>2, AppendProperties
    <2>4. /\ DOMAIN ledger = 1..Len(ledger)
          /\ DOMAIN ledger' = 1..(Len(ledger) + 1)
          /\ Len(ledger) \in Nat
      BY <1>1, <2>3, LenProperties
    <2>5. balance' \in [Members -> Nat]
      <3>1. Clamped(balance[payload[r].member] + payload[r].delta) \in Nat
        <4>1. /\ payload[r].member \in Members
              /\ payload[r].delta \in Int
          BY PointsAssumption DEF Payload
        <4>2. balance[payload[r].member] + payload[r].delta \in Int
          BY <4>1 DEF TypeOK
        <4>3. QED
          BY <4>2, ClampedType
      <3>2. QED
        BY <1>3, <3>1 DEF Commit, TypeOK
    <2>6. IdsTell'
      BY <2>3, <2>4, EventType DEF IdsTell
    <2>7. KeyCountedOnce'
      <3>1. \A i \in DOMAIN ledger : e.key # NoKey => ledger[i].key # e.key
        BY <1>3 DEF Fresh, Event, Keyed
      <3>2. SUFFICES ASSUME NEW i \in DOMAIN ledger', NEW j \in DOMAIN ledger',
                            ledger'[i].key # NoKey,
                            ledger'[i].key = ledger'[j].key
                     PROVE  i = j
        BY DEF KeyCountedOnce
      <3>3. CASE i \in DOMAIN ledger /\ j \in DOMAIN ledger
        BY <3>2, <3>3, <2>3, <2>4 DEF KeyCountedOnce
      <3>4. CASE i \notin DOMAIN ledger \/ j \notin DOMAIN ledger
        BY <3>1, <3>2, <3>4, <2>3, <2>4
      <3>5. QED
        BY <3>3, <3>4
    <2>8. QED
      BY <2>3, <2>4, <2>5, <2>6, <2>7 DEF LedgerGrows
  <1>4. QED
    BY <1>2, <1>3

-----------------------------------------------------------------------------
\* The types of what belongs to the requests, and of the clock.
LocalOK ==
  /\ now \in 0..MaxTime
  /\ pc \in [Requests -> Steps]
  /\ payload \in [Requests -> Payload \cup {NoPayload}]
  /\ stamp \in [Requests -> 0..MaxTime]
  /\ tries \in [Requests -> 0..3]
  /\ reply \in [Requests -> Replies]

\* A query that is refused leaves the ledger alone and is not answered by 201.
LEMMA UnauthorizedStep ==
  ASSUME TypeOK, ArgsInv, NEW r \in Requests, Running(r), Unauthorized(r)
  PROVE  /\ LocalOK' /\ ArgsInv'
         /\ UNCHANGED <<ledger, balance, payload>>
         /\ pc'[r] # "balance" /\ reply'[r] # "created"
         /\ \A q \in Requests \ {r} : pc'[q] = pc[q] /\ reply'[q] = reply[q]
  <1>1. payload[r] \in Payload /\ payload[r].delta # 0 /\ reply[r] = "none"
    BY DEF ArgsInv, Running
  <1>2. CASE /\ tries[r] < MaxTries(payload[r])
             /\ pc' = [pc EXCEPT ![r] = FirstQuery(payload[r])]
             /\ tries' = [tries EXCEPT ![r] = @ + 1]
             /\ stamp' = [stamp EXCEPT ![r] = now]
             /\ UNCHANGED reply
    <2>1. tries[r] + 1 \in 0..3
      <3>1. tries[r] \in 0..3 /\ MaxTries(payload[r]) \in {1, 3}
        BY DEF MaxTries, TypeOK
      <3>2. QED
        BY <1>2, <3>1
    <2>2. /\ FirstQuery(payload[r]) \in {"lookup", "write"}
          /\ FirstQuery(payload[r]) = "lookup" => Keyed(r)
      BY DEF FirstQuery, Keyed
    <2>3. UNCHANGED <<ledger, balance, now, payload>>
      BY DEF Unauthorized
    <2>4. tries' \in [Requests -> 0..3] /\ stamp' \in [Requests -> 0..MaxTime]
      BY <1>2, <2>1 DEF TypeOK
    <2>5. QED
      BY <1>1, <1>2, <2>2, <2>3, <2>4
      DEF TypeOK, LocalOK, ArgsInv, Running, Steps, Keyed
  <1>3. CASE End(r, "error")
    BY <1>1, <1>3
    DEF Unauthorized, End, TypeOK, LocalOK, ArgsInv, Running, Steps, Replies, Keyed
  <1>4. QED
    BY <1>2, <1>3 DEF Unauthorized

\* Going on to the next query keeps the types.
LEMMA GoToStep ==
  ASSUME TypeOK, ArgsInv, NEW r \in Requests, Running(r),
         NEW step \in {"write", "reload", "balance"}, GoTo(r, step),
         UNCHANGED <<now, payload, stamp>>
  PROVE  /\ LocalOK' /\ ArgsInv'
         /\ pc'[r] = step /\ reply'[r] # "created"
         /\ \A q \in Requests \ {r} : pc'[q] = pc[q] /\ reply'[q] = reply[q]
  BY DEF GoTo, TypeOK, LocalOK, ArgsInv, Running, Steps, Keyed

\* So does the end of a request.
LEMMA EndStep ==
  ASSUME TypeOK, ArgsInv, NEW r \in Requests, Running(r),
         NEW what \in {"created", "error"}, End(r, what),
         UNCHANGED <<now, payload, stamp>>
  PROVE  /\ LocalOK' /\ ArgsInv'
         /\ pc'[r] = "done" /\ (reply'[r] = "created" => what = "created")
         /\ \A q \in Requests \ {r} : pc'[q] = pc[q] /\ reply'[q] = reply[q]
  BY DEF End, TypeOK, LocalOK, ArgsInv, Running, Steps, Replies, Keyed

\* What a growing ledger has recorded stays recorded.
LEMMA CreatedKept ==
  ASSUME CreatedIsInLedger, LedgerGrows, payload' = payload,
         NEW r \in Requests,
         \A q \in Requests \ {r} : pc'[q] = pc[q] /\ reply'[q] = reply[q],
         reply'[r] = "created" \/ pc'[r] = "balance" => Recorded(r)
  PROVE  CreatedIsInLedger'
  BY DEF CreatedIsInLedger, LedgerGrows, Recorded, Keyed

-----------------------------------------------------------------------------
LEMMA PointsInit == Init => PointsInv
  BY PointsAssumption, EmptySeq
  DEF Init, PointsInv, TypeOK, ArgsInv, IdsTell, KeyCountedOnce,
      CreatedIsInLedger, Running, Steps, Replies, NoPayload

\* A step that leaves the ledger alone.
LEMMA LedgerStays ==
  ASSUME PointsInv, UNCHANGED <<ledger, balance>>, LocalOK', ArgsInv',
         CreatedIsInLedger'
  PROVE  PointsInv'
  BY DEF PointsInv, TypeOK, LocalOK, IdsTell, KeyCountedOnce

\* A step that commits.
LEMMA LedgerCommits ==
  ASSUME PointsInv, NEW r \in Requests, Running(r), Commit(r), LocalOK', ArgsInv',
         payload' = payload,
         \A q \in Requests \ {r} : pc'[q] = pc[q] /\ reply'[q] = reply[q],
         reply'[r] # "created" /\ pc'[r] # "balance"
  PROVE  PointsInv'
  <1>1. payload[r] \in Payload /\ payload[r].delta # 0
    BY DEF PointsInv, ArgsInv
  <1>2. /\ ledger' \in Seq(EventRows) /\ balance' \in [Members -> Nat]
        /\ IdsTell' /\ KeyCountedOnce' /\ LedgerGrows
    BY <1>1, CommitKeeps DEF PointsInv
  <1>3. CreatedIsInLedger'
    BY <1>2, CreatedKept DEF PointsInv
  <1>4. QED
    BY <1>2, <1>3 DEF PointsInv, TypeOK, LocalOK, EventRows

\* Each query of a request keeps the invariant.
LEMMA ServerStepKeeps ==
  ASSUME PointsInv, NEW r \in Requests, ServerStep(r)
  PROVE  PointsInv'
  <1> USE DEF PointsInv
  <1>r. Running(r) /\ payload[r] \in Payload /\ payload[r].delta # 0
    BY DEF ServerStep, Lookup, Write, Reload, Balance, Running, ArgsInv
  <1>g. UNCHANGED ledger => LedgerGrows
    BY DEF LedgerGrows
  <1>u. CASE Unauthorized(r)
    <2>1. CreatedIsInLedger'
      BY <1>u, <1>r, <1>g, UnauthorizedStep, CreatedKept
    <2>2. QED
      BY <1>u, <1>r, <2>1, UnauthorizedStep, LedgerStays
  <1>e. ASSUME End(r, "error"), UNCHANGED <<ledger, balance, now, payload, stamp>>
        PROVE  PointsInv'
    <2>1. CreatedIsInLedger'
      BY <1>e, <1>r, <1>g, EndStep, CreatedKept
    <2>2. QED
      BY <1>e, <1>r, <2>1, EndStep, LedgerStays
  <1>s. ASSUME NEW step \in {"write", "reload", "balance"}, GoTo(r, step),
               UNCHANGED <<ledger, balance, now, payload, stamp>>,
               step = "balance" => Recorded(r)
        PROVE  PointsInv'
    <2>1. CreatedIsInLedger'
      BY <1>s, <1>r, <1>g, GoToStep, CreatedKept
    <2>2. QED
      BY <1>s, <1>r, <2>1, GoToStep, LedgerStays
  <1>l. CASE Lost(r)
    BY <1>l, <1>e DEF Lost
  <1>1. CASE Lookup(r)
    <2>1. HasKey(payload[r].key) => Recorded(r)
      BY <1>1 DEF Lookup, HasKey, Recorded, ArgsInv
    <2>2. QED
      BY <1>1, <1>u, <1>l, <1>s, <2>1 DEF Lookup
  <1>2. CASE Write(r)
    <2>1. CASE GoTo(r, "reload") /\ Commit(r) /\ UNCHANGED <<now, payload, stamp>>
      BY <2>1, <1>r, GoToStep, LedgerCommits
    <2>2. CASE End(r, "error") /\ Commit(r) /\ UNCHANGED <<now, payload, stamp>>
      <3>1. /\ LocalOK' /\ ArgsInv' /\ pc'[r] = "done" /\ reply'[r] # "created"
            /\ \A q \in Requests \ {r} : pc'[q] = pc[q] /\ reply'[q] = reply[q]
        BY <2>2, <1>r, EndStep
      <3>2. QED
        BY <2>2, <3>1, <1>r, LedgerCommits
    <2>3. QED
      BY <1>2, <1>u, <1>l, <1>s, <2>1, <2>2 DEF Write
  <1>3. CASE Reload(r)
    <2>1. Reloadable(r) => Recorded(r)
      <3>1. EventId(r).key = payload[r].key
        BY DEF EventId, Keyed
      <3>2. ~Keyed(r) => EventId(r).of = payload[r]
        BY DEF EventId
      <3>3. QED
        BY <3>1, <3>2 DEF Reloadable, Recorded, IdsTell, Keyed
    <2>2. QED
      BY <1>3, <1>u, <1>l, <1>s, <1>e, <2>1 DEF Reload
  <1>4. CASE Balance(r)
    <2>1. CASE End(r, "created") /\ UNCHANGED <<ledger, balance, now, payload, stamp>>
      <3>1. Recorded(r)
        BY <1>4 DEF Balance, CreatedIsInLedger, Recorded
      <3>2. CreatedIsInLedger'
        BY <2>1, <3>1, <1>r, <1>g, EndStep, CreatedKept
      <3>3. QED
        BY <2>1, <3>2, <1>r, EndStep, LedgerStays
    <2>2. QED
      BY <1>4, <1>u, <1>l, <2>1 DEF Balance
  <1>5. QED
    BY <1>1, <1>2, <1>3, <1>4 DEF ServerStep

\* The invariant is inductive.
LEMMA PointsStep == PointsInv /\ [Next]_vars => PointsInv'
  <1> SUFFICES ASSUME PointsInv, [Next]_vars PROVE PointsInv'
    OBVIOUS
  <1>1. CASE Tick
    BY <1>1, PointsAssumption
    DEF Tick, PointsInv, TypeOK, ArgsInv, IdsTell, KeyCountedOnce, CreatedIsInLedger,
        Running, Keyed
  <1>2. ASSUME NEW r \in Requests, NEW p \in Payload, Arrive(r, p)
        PROVE  PointsInv'
    <2>1. /\ payload' = [payload EXCEPT ![r] = p]
          /\ UNCHANGED <<ledger, balance, now>>
          /\ payload'[r] = p
      BY <1>2 DEF Arrive, PointsInv, TypeOK
    <2>2. /\ FirstQuery(p) \in {"lookup", "write"}
          /\ FirstQuery(p) = "lookup" => p.key # NoKey
      BY DEF FirstQuery
    <2>3. LocalOK' /\ ArgsInv'
      <3>1. LocalOK /\ ArgsInv
        BY DEF PointsInv, TypeOK, LocalOK
      <3>2. CASE /\ p.delta = 0
                 /\ pc' = [pc EXCEPT ![r] = "done"]
                 /\ reply' = [reply EXCEPT ![r] = "invalid"]
                 /\ UNCHANGED <<tries, stamp>>
        BY <2>1, <3>1, <3>2 DEF LocalOK, ArgsInv, Running, Steps, Replies, Keyed
      <3>3. CASE /\ p.delta # 0
                 /\ pc' = [pc EXCEPT ![r] = FirstQuery(p)]
                 /\ tries' = [tries EXCEPT ![r] = 1]
                 /\ stamp' = [stamp EXCEPT ![r] = now]
                 /\ UNCHANGED reply
        <4>1. pc[r] = "idle"
          BY <1>2 DEF Arrive
        <4>2. LocalOK'
          BY <2>1, <2>2, <3>1, <3>3 DEF LocalOK, Steps
        <4>3. ArgsInv'
          BY <2>1, <2>2, <3>1, <3>3, <4>1 DEF LocalOK, ArgsInv, Running, Keyed
        <4>4. QED
          BY <4>2, <4>3
      <3>4. QED
        BY <1>2, <3>2, <3>3 DEF Arrive
    <2>4. reply'[r] # "created" /\ pc'[r] # "balance"
      BY <1>2, <2>2 DEF Arrive, PointsInv, TypeOK, ArgsInv
    <2>5. \A q \in Requests \ {r} :
            pc'[q] = pc[q] /\ reply'[q] = reply[q] /\ payload'[q] = payload[q]
      BY <1>2 DEF Arrive, PointsInv, TypeOK
    <2>6. CreatedIsInLedger'
      BY <2>1, <2>4, <2>5 DEF PointsInv, CreatedIsInLedger, Keyed
    <2>7. QED
      BY <2>1, <2>3, <2>6, LedgerStays
  <1>3. ASSUME NEW r \in Requests, ServerStep(r)
        PROVE  PointsInv'
    BY <1>3, ServerStepKeeps
  <1>4. ASSUME NEW r \in Requests, Disconnect(r)
        PROVE  PointsInv'
    <2>1. /\ LocalOK' /\ ArgsInv' /\ payload' = payload
          /\ pc'[r] = "done" /\ reply'[r] = "gone"
          /\ \A q \in Requests \ {r} : pc'[q] = pc[q] /\ reply'[q] = reply[q]
      BY <1>4
      DEF Disconnect, PointsInv, TypeOK, LocalOK, ArgsInv, Running, Steps, Replies, Keyed
    <2>2. CASE Commit(r)
      BY <1>4, <2>1, <2>2, LedgerCommits DEF Disconnect
    <2>3. CASE UNCHANGED <<ledger, balance>>
      <3>1. CreatedIsInLedger'
        BY <2>1, <2>3, CreatedKept DEF PointsInv, LedgerGrows
      <3>2. QED
        BY <2>1, <2>3, <3>1, LedgerStays
    <2>4. QED
      BY <1>4, <2>2, <2>3 DEF Disconnect
  <1>5. CASE UNCHANGED vars
    BY <1>5
    DEF vars, PointsInv, TypeOK, ArgsInv, IdsTell, KeyCountedOnce, CreatedIsInLedger,
        Running, Keyed
  <1>6. QED
    BY <1>1, <1>2, <1>3, <1>4, <1>5 DEF Next

\* The inductive invariant of ledger and requests.
THEOREM PointsInvariant == Spec => []PointsInv
  BY PointsInit, PointsStep, PTL DEF Spec

\* Every variable keeps its type: no call is repeated beyond MaxTries and no
\* balance falls below zero.
THEOREM PointsTypes == Spec => []TypeOK
  BY PointsInvariant, PTL DEF PointsInv

\* One event has an idempotency key, whatever races and fails.
THEOREM KeyCountedOnceHolds == Spec => []KeyCountedOnce
  BY PointsInvariant, PTL DEF PointsInv

\* A 201 tells the truth about the ledger.
THEOREM CreatedIsInLedgerHolds == Spec => []CreatedIsInLedger
  BY PointsInvariant, PTL DEF PointsInv
-----------------------------------------------------------------------------
(* The balances.  That the running balances of a member exist, and that the *)
(* last of them is his balance, goes through the steps with the ledger: so  *)
(* no induction over its length is needed.                                  *)

\* What event n of a ledger makes of the running balances f of m before it.
After(rows, m, n, f) ==
  IF rows[n].member = m THEN Clamped(f[n - 1] + rows[n].delta) ELSE f[n - 1]

\* f are the running balances of m.
Runs(rows, m, f) ==
  f = [n \in 0..Len(rows) |-> IF n = 0 THEN 0 ELSE After(rows, m, n, f)]

\* Every member has running balances, and they all end with his balance.
BalanceInv ==
  \A m \in Members :
    /\ \E f : Runs(ledger, m, f)
    /\ \A f : Runs(ledger, m, f) => f[Len(ledger)] = balance[m]

\* The recursive function of BalanceIsLedger is one of them.
LEMMA BalanceInvGives == BalanceInv => BalanceIsLedger
  <1> SUFFICES ASSUME BalanceInv, NEW m \in Members
               PROVE  LET running[n \in 0..Len(ledger)] ==
                            IF n = 0 THEN 0
                            ELSE IF ledger[n].member = m
                                 THEN Clamped(running[n - 1] + ledger[n].delta)
                            ELSE running[n - 1]
                      IN  balance[m] = running[Len(ledger)]
    BY DEF BalanceIsLedger
  <1> DEFINE running[n \in 0..Len(ledger)] ==
               IF n = 0 THEN 0
               ELSE IF ledger[n].member = m
                    THEN Clamped(running[n - 1] + ledger[n].delta)
               ELSE running[n - 1]
  <1>1. PICK g : Runs(ledger, m, g)
    BY DEF BalanceInv
  <1>2. Runs(ledger, m, running)
    BY <1>1 DEF Runs, After
  <1>3. QED
    BY <1>2 DEF BalanceInv

\* The running balances of a longer ledger begin with those of the shorter.
LEMMA RunsGrow ==
  ASSUME NEW rows \in Seq(EventRows), NEW e \in EventRows, NEW m \in Members, NEW f
  PROVE  LET g == [n \in 0..Len(rows) |-> f[n]]
         IN  /\ Runs(Append(rows, e), m, f) =>
                  /\ Runs(rows, m, g)
                  /\ f[Len(rows) + 1] = IF e.member = m THEN Clamped(f[Len(rows)] + e.delta)
                                        ELSE f[Len(rows)]
             /\ Runs(rows, m, f) => \E h : Runs(Append(rows, e), m, h)
  <1> DEFINE more == Append(rows, e)
             k == Len(rows)
             last == IF e.member = m THEN Clamped(f[k] + e.delta) ELSE f[k]
             g == [n \in 0..k |-> f[n]]
             h == [n \in 0..(k + 1) |-> IF n <= k THEN f[n] ELSE last]
  <1>1. /\ k \in Nat /\ Len(more) = k + 1 /\ more[k + 1] = e
        /\ \A n \in 1..k : more[n] = rows[n]
    BY AppendProperties, LenProperties
  <1> HIDE DEF more, k
  <1>2. ASSUME Runs(more, m, f)
        PROVE  Runs(rows, m, g) /\ f[k + 1] = last
    <2>1. \A n \in 0..(k + 1) : f[n] = IF n = 0 THEN 0 ELSE After(more, m, n, f)
      BY <1>1, <1>2 DEF Runs
    <2>2. f[k + 1] = After(more, m, k + 1, f)
      BY <1>1, <2>1
    <2>3. f[k + 1] = last
      BY <1>1, <2>2 DEF After
    <2>4. ASSUME NEW n \in 0..k
          PROVE  g[n] = IF n = 0 THEN 0 ELSE After(rows, m, n, g)
      BY <1>1, <2>1 DEF After
    <2>5. QED
      BY <1>1, <2>3, <2>4 DEF Runs, k
  <1>3. ASSUME Runs(rows, m, f)
        PROVE  Runs(more, m, h)
    <2>1. \A n \in 0..k : f[n] = IF n = 0 THEN 0 ELSE After(rows, m, n, f)
      BY <1>1, <1>3 DEF Runs, k
    <2>2. ASSUME NEW n \in 0..(k + 1)
          PROVE  h[n] = IF n = 0 THEN 0 ELSE After(more, m, n, h)
      <3>1. CASE n <= k
        BY <1>1, <2>1, <3>1 DEF After
      <3>2. CASE n = k + 1
        BY <1>1, <3>2 DEF After
      <3>3. QED
        BY <1>1, <3>1, <3>2
    <2>3. QED
      BY <1>1, <2>2 DEF Runs
  <1>4. QED
    BY <1>2, <1>3 DEF more, k

\* A commit extends the running balances of its member as it does the balance.
LEMMA CommitBalances ==
  ASSUME TypeOK, BalanceInv, NEW r \in Requests,
         payload[r] \in Payload, payload[r].delta # 0, Commit(r)
  PROVE  BalanceInv'
  <1> DEFINE e == Event(r)
             k == Len(ledger)
  <1>1. CASE ~Fresh(r)
    BY <1>1 DEF Commit, BalanceInv
  <1>2. CASE Fresh(r)
    <2>1. /\ ledger' = Append(ledger, e)
          /\ balance' = [balance EXCEPT ![e.member] = Clamped(@ + e.delta)]
      BY <1>2 DEF Commit, Event
    <2>2. ledger \in Seq(EventRows) /\ e \in EventRows /\ e.member \in Members
      BY EventType DEF TypeOK, EventRows
    <2>3. Len(ledger') = k + 1 /\ k \in Nat
      BY <2>1, <2>2, AppendProperties, LenProperties
    <2> HIDE DEF e
    <2>4. ASSUME NEW m \in Members
          PROVE  /\ \E f : Runs(ledger', m, f)
                 /\ \A f : Runs(ledger', m, f) => f[Len(ledger')] = balance'[m]
      <3>1. balance'[m] = IF e.member = m THEN Clamped(balance[m] + e.delta)
                          ELSE balance[m]
        BY <2>1, <2>2 DEF TypeOK
      <3>2. \E f : Runs(ledger', m, f)
        <4>1. PICK f : Runs(ledger, m, f)
          BY DEF BalanceInv
        <4>2. QED
          BY <2>1, <2>2, <4>1, RunsGrow
      <3>3. ASSUME NEW f, Runs(ledger', m, f)
            PROVE  f[Len(ledger')] = balance'[m]
        <4> DEFINE g == [n \in 0..k |-> f[n]]
        <4>1. /\ Runs(ledger, m, g)
              /\ f[k + 1] = IF e.member = m THEN Clamped(f[k] + e.delta) ELSE f[k]
          BY <2>1, <2>2, <3>3, RunsGrow
        <4>2. g[k] = f[k] /\ g[k] = balance[m]
          BY <2>3, <4>1 DEF BalanceInv
        <4>3. QED
          BY <2>3, <3>1, <4>1, <4>2
      <3>4. QED
        BY <3>2, <3>3
    <2>5. QED
      BY <2>4 DEF BalanceInv
  <1>3. QED
    BY <1>1, <1>2

\* Every step commits or leaves ledger and balances alone.
LEMMA BalanceStep == PointsInv /\ BalanceInv /\ [Next]_vars => BalanceInv'
  <1> SUFFICES ASSUME PointsInv, BalanceInv, [Next]_vars PROVE BalanceInv'
    OBVIOUS
  <1>1. \/ UNCHANGED <<ledger, balance>>
        \/ \E r \in Requests : Running(r) /\ Commit(r)
    BY DEF Next, Tick, Arrive, ServerStep, Lookup, Write, Reload, Balance, Disconnect,
           Unauthorized, Lost, Running, vars
  <1>2. CASE UNCHANGED <<ledger, balance>>
    BY <1>2 DEF BalanceInv
  <1>3. ASSUME NEW r \in Requests, Running(r), Commit(r)
        PROVE  BalanceInv'
    BY <1>3, CommitBalances DEF PointsInv, ArgsInv
  <1>4. QED
    BY <1>1, <1>2, <1>3

\* A balance is what the events of its member make of zero, in their order and
\* with every loss clamped, whatever is repeated and whatever fails.
THEOREM BalanceIsLedgerHolds == Spec => []BalanceIsLedger
  <1>1. Init => BalanceInv
    <2> SUFFICES ASSUME Init, NEW m \in Members
                 PROVE  /\ \E f : Runs(ledger, m, f)
                        /\ \A f : Runs(ledger, m, f) => f[Len(ledger)] = balance[m]
      BY DEF BalanceInv
    <2>1. ledger = <<>> /\ Len(ledger) = 0 /\ balance[m] = 0
      BY EmptySeq DEF Init
    <2>2. Runs(ledger, m, [n \in 0..0 |-> 0])
      BY <2>1 DEF Runs
    <2>3. ASSUME NEW f, Runs(ledger, m, f)
          PROVE  f[Len(ledger)] = balance[m]
      BY <2>1, <2>3 DEF Runs
    <2>4. QED
      BY <2>2, <2>3
  <1>2. QED
    BY <1>1, BalanceStep, BalanceInvGives, PointsInvariant, PTL DEF Spec
=============================================================================
