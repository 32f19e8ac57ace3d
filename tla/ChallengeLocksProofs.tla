------------------------ MODULE ChallengeLocksProofs ------------------------
(* Proofs about the lock registry, for any requests, codes and locks. *)
EXTENDS ChallengeLocks, SequenceTheorems, TLAPS

\* Taking one element out of a queue: the others keep their order.
LEMMA RemoveAtFacts ==
  ASSUME NEW S, NEW s \in Seq(S), NEW i \in 1..Len(s)
  PROVE  /\ RemoveAt(s, i) \in Seq(S)
         /\ Len(RemoveAt(s, i)) = Len(s) - 1
         /\ \A j \in 1..(Len(s) - 1) :
              RemoveAt(s, i)[j] = IF j < i THEN s[j] ELSE s[j + 1]
  <1> DEFINE a == SubSeq(s, 1, i - 1)
             b == SubSeq(s, i + 1, Len(s))
  <1>1. /\ a \in Seq(S) /\ Len(a) = i - 1
        /\ \A j \in 1..(i - 1) : a[j] = s[j]
    OBVIOUS
  <1>2. /\ b \in Seq(S) /\ Len(b) = Len(s) - i
        /\ \A j \in 1..(Len(s) - i) : b[j] = s[i + j]
    OBVIOUS
  <1>3. RemoveAt(s, i) = a \o b
    BY DEF RemoveAt
  <1> HIDE DEF a, b
  <1>4. /\ a \o b \in Seq(S) /\ Len(a \o b) = Len(s) - 1
    <2>1. a \o b \in Seq(S) /\ Len(a \o b) = Len(a) + Len(b)
      BY <1>1, <1>2, ConcatProperties
    <2>2. (i - 1) + (Len(s) - i) = Len(s) - 1
      OBVIOUS
    <2>3. QED
      BY <1>1, <1>2, <2>1, <2>2
  <1>5. ASSUME NEW j \in 1..(Len(s) - 1)
        PROVE  (a \o b)[j] = IF j < i THEN s[j] ELSE s[j + 1]
    <2>1. CASE j < i
      BY <2>1, <1>1, <1>2
    <2>2. CASE ~(j < i)
      <3>1. (a \o b)[j] = b[j - Len(a)]
        BY <2>2, <1>1, <1>2
      <3>2. j - Len(a) \in 1..(Len(s) - i)
        BY <2>2, <1>1
      <3>3. b[j - Len(a)] = s[i + (j - Len(a))]
        BY <3>2, <1>2
      <3>4. i + (j - Len(a)) = j + 1
        BY <1>1
      <3>5. QED
        BY <3>1, <3>3, <3>4, <2>2
    <2>3. QED
      BY <2>1, <2>2
  <1>6. QED
    BY <1>3, <1>4, <1>5
-----------------------------------------------------------------------------
\* Every step keeps the types.
LEMMA TypeStep == LocksInv /\ [Next]_vars => TypeOK'
  <1> SUFFICES ASSUME LocksInv, [Next]_vars PROVE TypeOK'
    OBVIOUS
  <1> USE LocksAssumption DEF LocksInv, TypeOK, ReferencesInv, Steps
  <1>1. ASSUME NEW r \in Requests, NEW c \in Codes, Lookup(r, c)
        PROVE  TypeOK'
    BY <1>1 DEF Lookup
  <1>2. ASSUME NEW r \in Requests, Poll(r)
        PROVE  TypeOK'
    <2>1. lockOf[r] \in Locks
      BY <1>2 DEF Poll
    <2>2. Append(queue[lockOf[r]], r) \in Seq(Requests)
      BY <2>1
    <2>3. /\ registry' = registry /\ code' = code /\ lockOf' = lockOf
          /\ pc' \in [Requests -> Steps]
      BY <1>2 DEF Poll
    <2>4. owner' \in [Locks -> Requests \cup {None}]
      BY <1>2, <2>1 DEF Poll
    <2>5. queue' \in [Locks -> Seq(Requests)]
      BY <1>2, <2>1, <2>2 DEF Poll
    <2>6. QED
      BY <2>3, <2>4, <2>5
  <1>3. ASSUME NEW r \in Requests, Wake(r)
        PROVE  TypeOK'
    BY <1>3 DEF Wake
  <1>4. ASSUME NEW l \in Locks, HandOver(l)
        PROVE  /\ owner' \in [Locks -> Requests \cup {None}]
               /\ queue' \in [Locks -> Seq(Requests)]
    <2>1. CASE queue[l] = <<>>
      BY <1>4, <2>1 DEF HandOver
    <2>2. CASE queue[l] # <<>>
      <3>1. Head(queue[l]) \in Requests /\ Tail(queue[l]) \in Seq(Requests)
        BY <2>2
      <3>2. owner' = [owner EXCEPT ![l] = Head(queue[l])]
        BY <1>4, <2>2 DEF HandOver
      <3>3. queue' = [queue EXCEPT ![l] = Tail(queue[l])]
        BY <1>4, <2>2 DEF HandOver
      <3>4. owner' \in [Locks -> Requests \cup {None}]
        BY <3>1, <3>2
      <3>5. queue' \in [Locks -> Seq(Requests)]
        BY <3>1, <3>3
      <3>6. QED
        BY <3>4, <3>5
    <2>3. QED
      BY <2>1, <2>2
  <1>5. ASSUME NEW r \in Requests, Release(r)
        PROVE  TypeOK'
    <2>1. lockOf[r] \in Locks
      BY <1>5 DEF Release
    <2>2. QED
      BY <1>5, <2>1, <1>4 DEF Release
  <1>6. ASSUME NEW r \in Requests, DropCheck(r)
        PROVE  TypeOK'
    BY <1>6 DEF DropCheck
  <1>7. ASSUME NEW r \in Requests, FreeReference(r)
        PROVE  TypeOK'
    BY <1>7 DEF FreeReference
  <1>8. ASSUME NEW r \in Requests, Cancel(r)
        PROVE  TypeOK'
    <2> DEFINE l == lockOf[r]
    <2>1. l \in Locks
      BY <1>8 DEF Cancel
    <2>2. ASSUME NEW i \in 1..Len(queue[l])
          PROVE  RemoveAt(queue[l], i) \in Seq(Requests)
      BY <2>1, RemoveAtFacts
    <2>3. CASE owner[l] = r
      BY <1>8, <2>1, <2>3, <1>4 DEF Cancel
    <2>4. CASE owner[l] # r
      <3>1. PICK i \in 1..Len(queue[l]) :
              queue' = [queue EXCEPT ![l] = RemoveAt(queue[l], i)]
        BY <1>8, <2>1, <2>4 DEF Cancel
      <3>2. queue' \in [Locks -> Seq(Requests)]
        BY <2>2, <3>1
      <3>3. QED
        BY <1>8, <2>1, <2>4, <3>2 DEF Cancel
    <2>5. QED
      BY <2>3, <2>4
  <1>9. CASE UNCHANGED vars
    BY <1>9 DEF vars
  <1>10. QED
    BY <1>1, <1>2, <1>3, <1>5, <1>6, <1>7, <1>8, <1>9 DEF Next
-----------------------------------------------------------------------------
\* What a hand-over leaves: the mutex is free, or assigned to the request that
\* was first in the queue, and the others have moved up.
LEMMA HandOverFacts ==
  ASSUME LocksInv, NEW l \in Locks, HandOver(l)
  PROVE  /\ \A k \in Locks \ {l} : owner'[k] = owner[k] /\ queue'[k] = queue[k]
         /\ Len(queue'[l]) \in Nat
         /\ owner'[l] = None \/ /\ queue[l] # <<>>
                                /\ owner'[l] = queue[l][1]
         /\ \A i \in 1..Len(queue'[l]) :
              /\ i + 1 \in 1..Len(queue[l])
              /\ queue'[l][i] = queue[l][i + 1]
              /\ owner'[l] = queue[l][1]
              /\ 1 \in 1..Len(queue[l])
  <1> USE DEF LocksInv, TypeOK
  <1>1. queue[l] \in Seq(Requests)
    OBVIOUS
  <1>2. CASE queue[l] = <<>>
    BY <1>1, <1>2 DEF HandOver
  <1>3. CASE queue[l] # <<>>
    <2>1. /\ Head(queue[l]) = queue[l][1]
          /\ Len(Tail(queue[l])) = Len(queue[l]) - 1
          /\ Len(queue[l]) \in Nat /\ Len(queue[l]) > 0
          /\ \A i \in 1..(Len(queue[l]) - 1) : Tail(queue[l])[i] = queue[l][i + 1]
      BY <1>1, <1>3
    <2>2. queue'[l] = Tail(queue[l]) /\ owner'[l] = Head(queue[l])
      BY <1>3 DEF HandOver
    <2>3. \A k \in Locks \ {l} : owner'[k] = owner[k] /\ queue'[k] = queue[k]
      BY <1>3 DEF HandOver
    <2>4. QED
      BY <2>1, <2>2, <2>3, <1>3
  <1>4. QED
    BY <1>2, <1>3

\* After a hand-over of l by a request r that is neither waiting in a queue
\* nor served by another mutex, the mutexes are consistent again.
LEMMA HandOverKeeps ==
  ASSUME LocksInv, NEW r \in Requests, NEW l \in Locks, l = lockOf[r],
         HandOver(l), owner[l] = r,
         \A q \in Requests \ {r} : pc'[q] = pc[q] /\ lockOf'[q] = lockOf[q],
         pc'[r] \notin {"wait", "hold"}
  PROVE  OwnerInv' /\ HolderInv' /\ QueueInv'
  <1> USE LocksAssumption DEF LocksInv, TypeOK
  <1>1. /\ \A k \in Locks \ {l} : owner'[k] = owner[k] /\ queue'[k] = queue[k]
        /\ Len(queue'[l]) \in Nat
        /\ owner'[l] = None \/ (queue[l] # <<>> /\ owner'[l] = queue[l][1])
        /\ \A i \in 1..Len(queue'[l]) :
             /\ i + 1 \in 1..Len(queue[l]) /\ queue'[l][i] = queue[l][i + 1]
             /\ owner'[l] = queue[l][1] /\ 1 \in 1..Len(queue[l])
    BY HandOverFacts
  <1>2. queue[l] # <<>> => 1 \in 1..Len(queue[l])
    OBVIOUS
  <1>3. \A k \in Locks : \A i \in 1..Len(queue[k]) :
          queue[k][i] \in Requests \ {r} /\ pc'[queue[k][i]] = "wait"
          /\ lockOf'[queue[k][i]] = k
    BY DEF QueueInv
  <1>4. OwnerInv'
    <2> SUFFICES ASSUME NEW k \in Locks, owner'[k] # None
                 PROVE  lockOf'[owner'[k]] = k /\ pc'[owner'[k]] \in {"wait", "hold"}
      BY DEF OwnerInv
    <2>1. CASE k = l
      BY <1>1, <1>2, <1>3, <2>1
    <2>2. CASE k # l
      <3>1. owner'[k] = owner[k] /\ owner[k] \in Requests
        BY <1>1, <2>2
      <3>2. owner[k] # r /\ lockOf[owner[k]] = k /\ pc[owner[k]] \in {"wait", "hold"}
        BY <3>1, <2>2 DEF OwnerInv
      <3>3. QED
        BY <3>1, <3>2
    <2>3. QED
      BY <2>1, <2>2
  <1>5. HolderInv'
    <2> SUFFICES ASSUME NEW q \in Requests, pc'[q] = "hold"
                 PROVE  owner'[lockOf'[q]] = q
      BY DEF HolderInv
    <2>1. q # r /\ pc[q] = "hold" /\ lockOf'[q] = lockOf[q]
      OBVIOUS
    <2>2. owner[lockOf[q]] = q /\ lockOf[q] \in Locks
      BY <2>1 DEF HolderInv, ReferencesInv
    <2>3. lockOf[q] # l
      BY <2>1, <2>2
    <2>4. QED
      BY <1>1, <2>1, <2>2, <2>3
  <1>6. QueueInv'
    <2> SUFFICES ASSUME NEW k \in Locks
                 PROVE  /\ \A i \in 1..Len(queue'[k]) :
                             /\ pc'[queue'[k][i]] = "wait" /\ lockOf'[queue'[k][i]] = k
                             /\ owner'[k] # queue'[k][i]
                        /\ \A i, j \in 1..Len(queue'[k]) :
                             queue'[k][i] = queue'[k][j] => i = j
      BY DEF QueueInv
    <2>1. CASE k = l
      <3>1. ASSUME NEW i \in 1..Len(queue'[l])
            PROVE  /\ pc'[queue'[l][i]] = "wait" /\ lockOf'[queue'[l][i]] = l
                   /\ owner'[l] # queue'[l][i]
        <4>1. /\ i + 1 \in 1..Len(queue[l]) /\ queue'[l][i] = queue[l][i + 1]
              /\ owner'[l] = queue[l][1] /\ 1 \in 1..Len(queue[l])
          BY <1>1
        <4>2. queue[l][1] # queue[l][i + 1]
          BY <4>1, i + 1 # 1 DEF QueueInv
        <4>3. QED
          BY <1>3, <4>1, <4>2
      <3>2. ASSUME NEW i \in 1..Len(queue'[l]), NEW j \in 1..Len(queue'[l]),
                   queue'[l][i] = queue'[l][j]
            PROVE  i = j
        <4>1. /\ i + 1 \in 1..Len(queue[l]) /\ j + 1 \in 1..Len(queue[l])
              /\ queue[l][i + 1] = queue[l][j + 1]
          BY <1>1, <3>2
        <4>2. i + 1 = j + 1
          BY <4>1 DEF QueueInv
        <4>3. QED
          BY <4>2, <1>1
      <3>3. QED
        BY <2>1, <3>1, <3>2
    <2>2. CASE k # l
      <3>1. owner'[k] = owner[k] /\ queue'[k] = queue[k]
        BY <1>1, <2>2
      <3>2. QED
        BY <1>3, <3>1 DEF QueueInv
    <2>3. QED
      BY <2>1, <2>2
  <1>7. QED
    BY <1>4, <1>5, <1>6

\* Every step keeps the invariant.
LEMMA LocksStep == LocksInv /\ [Next]_vars => LocksInv'
  <1> SUFFICES ASSUME LocksInv, [Next]_vars PROVE LocksInv'
    OBVIOUS
  <1>0. TypeOK'
    BY TypeStep
  <1> USE LocksAssumption DEF LocksInv
  <1>1. ASSUME NEW r \in Requests, NEW c \in Codes, Lookup(r, c)
        PROVE  LocksInv'
    <2>a. pc[r] = "idle"
      BY <1>1 DEF Lookup
    <2>2. \A k \in Locks : owner[k] # r
      <3> SUFFICES ASSUME NEW k \in Locks, owner[k] = r PROVE FALSE
        OBVIOUS
      <3>1. r # None
        OBVIOUS
      <3>2. QED
        BY <2>a, <3>1 DEF OwnerInv
    <2> USE <1>1 DEF Lookup, TypeOK
    <2>1. PICK l \in Locks :
            /\ IF registry[c] = None THEN Fresh(l) ELSE l = registry[c]
            /\ registry' = [registry EXCEPT ![c] = l]
            /\ lockOf' = [lockOf EXCEPT ![r] = l]
      OBVIOUS
    <2>3. \A k \in Locks : \A i \in 1..Len(queue[k]) : queue[k][i] # r
      BY DEF QueueInv
    <2>4. ReferencesInv'
      BY <2>1 DEF ReferencesInv
    <2>5. OwnerInv'
      BY <2>1, <2>2 DEF OwnerInv
    <2>6. HolderInv'
      BY <2>1 DEF HolderInv
    <2>7. QueueInv'
      BY <2>1, <2>3 DEF QueueInv
    <2>8. RegistryKeepsUsed'
      <3> SUFFICES ASSUME NEW q \in Requests, pc'[q] \in InUse
                   PROVE  registry'[code'[q]] = lockOf'[q]
        BY DEF RegistryKeepsUsed
      <3>1. CASE q = r
        BY <2>1, <3>1
      <3>2. CASE q # r
        <4>1. pc[q] \in InUse /\ code'[q] = code[q] /\ lockOf'[q] = lockOf[q]
          BY <3>2, <2>1
        <4>2. /\ registry[code[q]] = lockOf[q] /\ lockOf[q] \in Locks
              /\ code[q] \in Codes
          BY <4>1 DEF RegistryKeepsUsed, ReferencesInv, InUse
        <4>3. QED
          BY <2>1, <4>1, <4>2
      <3>3. QED
        BY <3>1, <3>2
    <2>9. QED
      BY <1>0, <2>4, <2>5, <2>6, <2>7, <2>8
  <1>2. ASSUME NEW r \in Requests, Poll(r)
        PROVE  LocksInv'
    <2> USE <1>2 DEF Poll, TypeOK
    <2> DEFINE l == lockOf[r]
    <2>1. l \in Locks /\ queue[l] \in Seq(Requests)
      BY DEF ReferencesInv
    <2>2. (\A k \in Locks : owner[k] # r)
          /\ (\A k \in Locks : \A i \in 1..Len(queue[k]) : queue[k][i] # r)
      BY DEF OwnerInv, QueueInv
    <2>3. ReferencesInv' /\ RegistryKeepsUsed'
      BY DEF ReferencesInv, RegistryKeepsUsed, InUse
    <2>4. CASE owner[l] = None
      <3>1. \A i \in 1..Len(queue[l]) : pc[queue[l][i]] = "wait"
        BY <2>1 DEF QueueInv
      <3>2. /\ owner'[l] = r /\ pc'[r] = "hold" /\ lockOf' = lockOf
            /\ \A k \in Locks \ {l} : owner'[k] = owner[k]
            /\ \A q \in Requests \ {r} : pc'[q] = pc[q]
        BY <2>1, <2>4
      <3>a. OwnerInv'
        BY <2>1, <2>2, <3>2 DEF OwnerInv
      <3>b. HolderInv'
        <4> SUFFICES ASSUME NEW q \in Requests, pc'[q] = "hold"
                     PROVE  owner'[lockOf[q]] = q
          BY <3>2 DEF HolderInv
        <4>1. CASE q = r
          BY <3>2, <4>1
        <4>2. CASE q # r
          <5>1. owner[lockOf[q]] = q /\ lockOf[q] \in Locks
            BY <3>2, <4>2 DEF HolderInv, ReferencesInv
          <5>2. lockOf[q] # l
            BY <5>1, <2>4, q # None
          <5>3. QED
            BY <3>2, <5>1, <5>2
        <4>3. QED
          BY <4>1, <4>2
      <3>3. QueueInv'
        BY <2>1, <2>2, <2>4 DEF QueueInv
      <3>4. QED
        BY <1>0, <2>3, <3>a, <3>b, <3>3
    <2>5. CASE owner[l] # None
      <3>1. /\ queue'[l] = Append(queue[l], r)
            /\ \A k \in Locks \ {l} : queue'[k] = queue[k]
            /\ owner' = owner /\ lockOf' = lockOf
            /\ pc'[r] = "wait" /\ \A q \in Requests \ {r} : pc'[q] = pc[q]
        BY <2>1, <2>5
      <3>2. /\ Len(queue'[l]) = Len(queue[l]) + 1 /\ Len(queue[l]) \in Nat
            /\ queue'[l][Len(queue[l]) + 1] = r
            /\ \A i \in 1..Len(queue[l]) : queue'[l][i] = queue[l][i]
        BY <2>1, <3>1
      <3>3. \A k \in Locks : \A i \in 1..Len(queue[k]) : queue[k][i] \in Requests
        OBVIOUS
      <3>4. OwnerInv' /\ HolderInv'
        BY <2>2, <3>1 DEF OwnerInv, HolderInv
      <3>5. QueueInv'
        <4> SUFFICES ASSUME NEW k \in Locks
                     PROVE  /\ \A i \in 1..Len(queue'[k]) :
                                 /\ pc'[queue'[k][i]] = "wait"
                                 /\ lockOf[queue'[k][i]] = k
                                 /\ owner[k] # queue'[k][i]
                            /\ \A i, j \in 1..Len(queue'[k]) :
                                 queue'[k][i] = queue'[k][j] => i = j
          BY <3>1 DEF QueueInv
        <4>1. \A i \in 1..Len(queue[k]) :
                pc'[queue[k][i]] = "wait" /\ queue[k][i] # r
          BY <2>2, <3>1, <3>3 DEF QueueInv
        <4>2. CASE k # l
          BY <4>1, <4>2, <3>1 DEF QueueInv
        <4>3. CASE k = l
          <5>1. \A i \in 1..Len(queue'[k]) :
                  \/ i \in 1..Len(queue[k]) /\ queue'[k][i] = queue[k][i]
                  \/ i = Len(queue[k]) + 1 /\ queue'[k][i] = r
            BY <3>2, <4>3
          <5>2. QED
            <6>1. ASSUME NEW i \in 1..Len(queue'[k])
                  PROVE  /\ pc'[queue'[k][i]] = "wait" /\ lockOf[queue'[k][i]] = k
                         /\ owner[k] # queue'[k][i]
              BY <2>2, <3>1, <4>1, <4>3, <5>1 DEF QueueInv
            <6>2. ASSUME NEW i \in 1..Len(queue'[k]), NEW j \in 1..Len(queue'[k]),
                         queue'[k][i] = queue'[k][j]
                  PROVE  i = j
              <7>1. CASE i \in 1..Len(queue[k]) /\ j \in 1..Len(queue[k])
                <8>1. queue[k][i] = queue[k][j]
                  BY <3>2, <4>3, <6>2, <7>1
                <8>2. QED
                  BY <7>1, <8>1 DEF QueueInv
              <7>2. CASE ~(i \in 1..Len(queue[k]) /\ j \in 1..Len(queue[k]))
                BY <4>1, <5>1, <6>2, <7>2, <4>3
              <7>3. QED
                BY <7>1, <7>2
            <6>3. QED
              BY <6>1, <6>2
        <4>4. QED
          BY <4>2, <4>3
      <3>6. QED
        BY <1>0, <2>3, <3>4, <3>5
    <2>6. QED
      BY <2>4, <2>5
  <1>3. ASSUME NEW r \in Requests, Wake(r)
        PROVE  LocksInv'
    <2> USE <1>3 DEF Wake, TypeOK
    <2>1. ReferencesInv' /\ RegistryKeepsUsed'
      BY DEF ReferencesInv, RegistryKeepsUsed, InUse
    <2>2. OwnerInv' /\ HolderInv'
      BY DEF OwnerInv, HolderInv, ReferencesInv
    <2>3. QueueInv'
      BY DEF QueueInv
    <2>4. QED
      BY <1>0, <2>1, <2>2, <2>3
  <1>4. ASSUME NEW r \in Requests, Release(r)
        PROVE  LocksInv'
    <2> USE <1>4 DEF Release
    <2>1. lockOf[r] \in Locks /\ owner[lockOf[r]] = r
      BY DEF ReferencesInv, HolderInv
    <2>2. /\ pc'[r] = "check" /\ lockOf' = lockOf
          /\ \A q \in Requests \ {r} : pc'[q] = pc[q]
      BY DEF TypeOK
    <2>3. OwnerInv' /\ HolderInv' /\ QueueInv'
      BY <2>1, <2>2, HandOverKeeps
    <2>4. ReferencesInv' /\ RegistryKeepsUsed'
      BY DEF ReferencesInv, RegistryKeepsUsed, InUse, TypeOK
    <2>5. QED
      BY <1>0, <2>3, <2>4
  <1>5. ASSUME NEW r \in Requests, DropCheck(r)
        PROVE  LocksInv'
    <2> USE <1>5 DEF DropCheck, TypeOK
    <2>1. ReferencesInv' /\ OwnerInv' /\ HolderInv'
      BY DEF ReferencesInv, OwnerInv, HolderInv
    <2>2. QueueInv'
      BY DEF QueueInv
    <2>3. RegistryKeepsUsed'
      <3> SUFFICES ASSUME NEW q \in Requests, pc'[q] \in InUse
                   PROVE  registry'[code[q]] = lockOf[q]
        BY DEF RegistryKeepsUsed
      <3>1. q # r /\ pc[q] \in InUse
        BY DEF InUse
      <3>2. registry[code[q]] = lockOf[q] /\ code[q] \in Codes
        BY <3>1 DEF RegistryKeepsUsed, ReferencesInv, InUse
      <3>3. CASE OnlyReferences(r)
        <4>1. code[q] # code[r]
          BY <3>1, <3>2, <3>3 DEF OnlyReferences
        <4>2. QED
          BY <3>2, <4>1
      <3>4. CASE ~OnlyReferences(r)
        BY <3>2, <3>4
      <3>5. QED
        BY <3>3, <3>4
    <2>4. QED
      BY <1>0, <2>1, <2>2, <2>3
  <1>6. ASSUME NEW r \in Requests, FreeReference(r)
        PROVE  LocksInv'
    <2> USE <1>6 DEF FreeReference, TypeOK
    <2>1. ReferencesInv' /\ RegistryKeepsUsed' /\ OwnerInv' /\ HolderInv'
      BY DEF ReferencesInv, RegistryKeepsUsed, OwnerInv, HolderInv, InUse
    <2>2. QueueInv'
      BY DEF QueueInv
    <2>3. QED
      BY <1>0, <2>1, <2>2
  <1>7. ASSUME NEW r \in Requests, Cancel(r)
        PROVE  LocksInv'
    <2> USE <1>7 DEF Cancel
    <2> DEFINE l == lockOf[r]
    <2>1. l \in Locks /\ queue[l] \in Seq(Requests)
      BY DEF ReferencesInv, TypeOK
    <2>2. ReferencesInv' /\ RegistryKeepsUsed'
      BY DEF ReferencesInv, RegistryKeepsUsed, InUse, TypeOK
    <2>3. /\ pc'[r] = "idle"
          /\ \A q \in Requests \ {r} : pc'[q] = pc[q] /\ lockOf'[q] = lockOf[q]
      BY DEF TypeOK
    <2>4. CASE owner[l] = r
      <3>1. OwnerInv' /\ HolderInv' /\ QueueInv'
        BY <2>1, <2>3, <2>4, HandOverKeeps
      <3>2. QED
        BY <1>0, <2>2, <3>1
    <2>5. CASE owner[l] # r
      <3>1. PICK i \in 1..Len(queue[l]) :
              queue[l][i] = r /\ queue' = [queue EXCEPT ![l] = RemoveAt(@, i)]
        BY <2>5
      <3>2. /\ owner' = owner
            /\ \A k \in Locks \ {l} : queue'[k] = queue[k]
            /\ queue'[l] = RemoveAt(queue[l], i)
        BY <2>1, <2>5, <3>1 DEF TypeOK
      <3>3. /\ Len(queue[l]) \in Nat /\ Len(queue'[l]) = Len(queue[l]) - 1
            /\ \A j \in 1..(Len(queue[l]) - 1) :
                 queue'[l][j] = IF j < i THEN queue[l][j] ELSE queue[l][j + 1]
        <4>1. Len(queue[l]) \in Nat
          BY <2>1
        <4>2. QED
          <5> HIDE DEF l
          <5>1. /\ Len(RemoveAt(queue[l], i)) = Len(queue[l]) - 1
                /\ \A j \in 1..(Len(queue[l]) - 1) :
                     RemoveAt(queue[l], i)[j] =
                       IF j < i THEN queue[l][j] ELSE queue[l][j + 1]
            BY <2>1, RemoveAtFacts
          <5>2. QED
            BY <3>2, <4>1, <5>1
      <3>4. \A k \in Locks : \A j \in 1..Len(queue[k]) :
              /\ queue[k][j] \in Requests
              /\ queue[k][j] = r => k = l /\ j = i
        BY <3>1 DEF QueueInv, TypeOK
      <3>5. OwnerInv' /\ HolderInv'
        BY <2>3, <2>5, <3>2 DEF OwnerInv, HolderInv, TypeOK
      <3>6. ASSUME NEW k \in Locks, NEW j \in 1..Len(queue'[k])
            PROVE  \E m \in 1..Len(queue[k]) :
                     /\ queue'[k][j] = queue[k][m] /\ queue[k][m] # r
                     /\ m = IF k = l /\ ~(j < i) THEN j + 1 ELSE j
        <4>1. CASE k # l
          BY <3>2, <3>4, <4>1
        <4>2. CASE k = l /\ j < i
          <5>1. j \in 1..Len(queue[l]) /\ queue'[l][j] = queue[l][j] /\ j # i
            BY <3>3, <4>2
          <5>2. QED
            BY <3>4, <4>2, <5>1
        <4>3. CASE k = l /\ ~(j < i)
          <5>1. /\ j + 1 \in 1..Len(queue[l]) /\ queue'[l][j] = queue[l][j + 1]
                /\ j + 1 # i
            BY <3>3, <4>3
          <5>2. QED
            BY <3>4, <4>3, <5>1
        <4>4. QED
          BY <4>1, <4>2, <4>3
      <3>7. QueueInv'
        <4> SUFFICES ASSUME NEW k \in Locks
                     PROVE  /\ \A j \in 1..Len(queue'[k]) :
                                 /\ pc'[queue'[k][j]] = "wait"
                                 /\ lockOf'[queue'[k][j]] = k
                                 /\ owner[k] # queue'[k][j]
                            /\ \A j, m \in 1..Len(queue'[k]) :
                                 queue'[k][j] = queue'[k][m] => j = m
          BY <3>2 DEF QueueInv
        <4>1. ASSUME NEW j \in 1..Len(queue'[k])
              PROVE  /\ pc'[queue'[k][j]] = "wait"
                     /\ lockOf'[queue'[k][j]] = k
                     /\ owner[k] # queue'[k][j]
          BY <2>3, <3>4, <3>6 DEF QueueInv
        <4>2. ASSUME NEW j \in 1..Len(queue'[k]), NEW m \in 1..Len(queue'[k]),
                     queue'[k][j] = queue'[k][m]
              PROVE  j = m
          <5>1. PICK x \in 1..Len(queue[k]) :
                  /\ queue'[k][j] = queue[k][x]
                  /\ x = IF k = l /\ ~(j < i) THEN j + 1 ELSE j
            BY <3>6
          <5>2. PICK y \in 1..Len(queue[k]) :
                  /\ queue'[k][m] = queue[k][y]
                  /\ y = IF k = l /\ ~(m < i) THEN m + 1 ELSE m
            BY <3>6
          <5>3. x = y
            <6>1. queue[k][x] = queue[k][y]
              BY <4>2, <5>1, <5>2
            <6>2. QED
              BY <6>1 DEF QueueInv
          <5>4. j \in Int /\ m \in Int /\ i \in Int
            OBVIOUS
          <5>5. QED
            BY <5>1, <5>2, <5>3, <5>4
        <4>3. QED
          BY <4>1, <4>2
      <3>8. QED
        BY <1>0, <2>2, <3>5, <3>7
    <2>6. QED
      BY <2>4, <2>5
  <1>8. CASE UNCHANGED vars
    BY <1>8 DEF vars, TypeOK, ReferencesInv, OwnerInv, HolderInv, QueueInv,
                RegistryKeepsUsed
  <1>9. QED
    BY <1>1, <1>2, <1>3, <1>4, <1>5, <1>6, <1>7, <1>8 DEF Next

\* The invariant holds in every reachable state.
THEOREM LocksInvariant == Spec => []LocksInv
  <1>1. Init => LocksInv
    BY LocksAssumption DEF Init, LocksInv, TypeOK, Steps, ReferencesInv, OwnerInv,
       HolderInv, QueueInv, RegistryKeepsUsed, InUse
  <1>2. QED
    BY <1>1, LocksStep, PTL DEF Spec

\* acquire_challenge_lock and ChallengeLockGuard let only one request per code
\* through, for any number of requests, codes and locks, although entries come
\* and go: both would hold the lock the registry names for their code.
THEOREM MutualExclusionHolds == Spec => []MutualExclusion
  <1>1. LocksInv => MutualExclusion
    BY DEF LocksInv, MutualExclusion, RegistryKeepsUsed, HolderInv, InUse
  <1>2. QED
    BY <1>1, LocksInvariant, PTL
-----------------------------------------------------------------------------
\* A step either lets requests into the critical section or out of it, never
\* both: a hand-over takes two steps, with nobody inside in between.
LEMMA InOrOut ==
  ASSUME TypeOK, [Next]_vars
  PROVE  \/ \A q \in Requests :
              pc'[q] = "hold" => pc[q] = "hold" /\ code'[q] = code[q]
         \/ \A q \in Requests :
              pc[q] = "hold" => pc'[q] = "hold" /\ code'[q] = code[q]
  <1> USE DEF TypeOK
  <1>1. CASE \E r \in Requests : (\E c \in Codes : Lookup(r, c)) \/ Poll(r) \/ Wake(r)
    BY <1>1 DEF Lookup, Poll, Wake
  <1>2. CASE \E r \in Requests :
               Release(r) \/ DropCheck(r) \/ FreeReference(r) \/ Cancel(r)
    BY <1>2 DEF Release, DropCheck, FreeReference, Cancel
  <1>3. CASE UNCHANGED vars
    BY <1>3 DEF vars
  <1>4. QED
    BY <1>1, <1>2, <1>3 DEF Next

\* What Holder says of the critical section.
LEMMA HolderFacts ==
  ASSUME MutualExclusion, NEW c \in Codes
  PROVE  /\ Holder(c) \in Requests \cup {None}
         /\ \A r \in Requests : pc[r] = "hold" /\ code[r] = c => Holder(c) = r
         /\ Holder(c) # None => pc[Holder(c)] = "hold" /\ code[Holder(c)] = c
                                /\ Holder(c) \in Requests
  BY DEF MutualExclusion, Holder

\* The registry and its counted mutexes implement one lock per code: the
\* abstract lock that Verification uses.
THEOREM ImplementsMutexHolds == Spec => ImplementsMutex
  <1> DEFINE held == [c \in Codes |-> Holder(c)]
  <1>1. Init => Promise!Init
    BY DEF Init, Promise!Init, Holder
  <1>2. LocksInv /\ LocksInv' /\ MutualExclusion /\ MutualExclusion' /\ [Next]_vars
          => [Promise!Next]_held
    <2> SUFFICES ASSUME LocksInv, MutualExclusion, MutualExclusion', [Next]_vars
                 PROVE  Promise!Next
      OBVIOUS
    <2>1. ASSUME NEW c \in Codes
          PROVE  /\ Holder(c)' \in Requests \cup {None}
                 /\ \A r \in Requests : pc'[r] = "hold" /\ code'[r] = c => Holder(c)' = r
                 /\ Holder(c)' # None =>
                      /\ pc'[Holder(c)'] = "hold" /\ code'[Holder(c)'] = c
                      /\ Holder(c)' \in Requests
      BY DEF MutualExclusion, Holder
    <2>2. ASSUME NEW c \in Codes, Holder(c) # None, Holder(c)' # None
          PROVE  Holder(c)' = Holder(c)
      <3>1. /\ Holder(c) \in Requests /\ pc[Holder(c)] = "hold"
            /\ code[Holder(c)] = c
        BY <2>2, HolderFacts
      <3>2. /\ Holder(c)' \in Requests /\ pc'[Holder(c)'] = "hold"
            /\ code'[Holder(c)'] = c
        BY <2>1, <2>2
      <3>3. CASE \A q \in Requests :
                   pc'[q] = "hold" => pc[q] = "hold" /\ code'[q] = code[q]
        BY <3>2, <3>3, HolderFacts
      <3>4. CASE \A q \in Requests :
                   pc[q] = "hold" => pc'[q] = "hold" /\ code'[q] = code[q]
        BY <3>1, <3>4, <2>1
      <3>5. QED
        BY <3>3, <3>4, InOrOut DEF LocksInv
    <2>3. QED
      BY <2>1, <2>2 DEF Promise!Next
  <1>3. QED
    BY <1>1, <1>2, LocksInvariant, MutualExclusionHolds, PTL
       DEF Spec, ImplementsMutex, Promise!Spec
=============================================================================
