--------------------------- MODULE ChallengeLocks ---------------------------
(***************************************************************************)
(* The registry of per-challenge locks, VERIFICATION_CHALLENGE_LOCKS, with *)
(* acquire_challenge_lock and the Drop of ChallengeLockGuard               *)
(* (src/agent/verification.rs).  The registry maps a code to a counted     *)
(* reference (Arc) to an async mutex; a request clones the reference under *)
(* the registry's own mutex, waits for the async mutex in the order of     *)
(* arrival, and its guard removes the entry again when the count says that *)
(* nobody else has the reference.  Each critical section of the registry's *)
(* mutex is one step.  The async mutex itself is tokio's: it hands over to *)
(* the first waiter when it is released, or when that waiter gives up.     *)
(***************************************************************************)
EXTENDS Naturals, Sequences, SequencesExt

CONSTANTS
  Requests,     \* requests, each of which may come again and again
  Codes,        \* verification codes
  Locks,        \* identities of async mutexes
  Disconnects,  \* whether a waiting client may go away
  None          \* no lock, no request

ASSUME LocksAssumption ==
  /\ None \notin Requests \cup Locks
  /\ Disconnects \in BOOLEAN

VARIABLES
  registry,  \* VERIFICATION_CHALLENGE_LOCKS: Codes -> Locks or None
  pc,        \* the step of each request
  code,      \* the code a request asked for
  lockOf,    \* the lock a request has a reference to, or None
  owner,     \* the request an async mutex is assigned to, or None
  queue      \* the requests that wait for an async mutex, in order

vars == <<registry, pc, code, lockOf, owner, queue>>

(***************************************************************************)
(* idle   outside acquire_challenge_lock                                   *)
(* poll   has cloned the Arc, is about to call lock_owned                  *)
(* wait   queued in lock_owned                                             *)
(* hold   has the guard                                                    *)
(* check  the guard is taken, the registry not yet looked at               *)
(* free   Drop::drop is over, the field `lock` not yet released            *)
(***************************************************************************)
Steps == {"idle", "poll", "wait", "hold", "check", "free"}

TypeOK ==
  /\ registry \in [Codes -> Locks \cup {None}]
  /\ pc \in [Requests -> Steps]
  /\ code \in [Requests -> Codes \cup {None}]
  /\ lockOf \in [Requests -> Locks \cup {None}]
  /\ owner \in [Locks -> Requests \cup {None}]
  /\ queue \in [Locks -> Seq(Requests)]

Init ==
  /\ registry = [c \in Codes |-> None]
  /\ pc = [r \in Requests |-> "idle"]
  /\ code = [r \in Requests |-> None]
  /\ lockOf = [r \in Requests |-> None]
  /\ owner = [l \in Locks |-> None]
  /\ queue = [l \in Locks |-> <<>>]

\* Arc::new: an identity that no reference has.
Fresh(l) == (\A c \in Codes : registry[c] # l) /\ (\A r \in Requests : lockOf[r] # l)

\* Mutant of Lookup: every request inserts a mutex of its own.
LookupAnew(r, c) ==
  /\ pc[r] = "idle"
  /\ \E l \in Locks :
       /\ Fresh(l)
       /\ registry' = [registry EXCEPT ![c] = l]
       /\ lockOf' = [lockOf EXCEPT ![r] = l]
  /\ code' = [code EXCEPT ![r] = c]
  /\ pc' = [pc EXCEPT ![r] = "poll"]
  /\ UNCHANGED <<owner, queue>>

\* entry(code).or_insert_with(Arc::new).clone() under the registry's mutex.
Lookup(r, c) ==
  /\ pc[r] = "idle"
  /\ \E l \in Locks :
       /\ IF registry[c] = None THEN Fresh(l) ELSE l = registry[c]
       /\ registry' = [registry EXCEPT ![c] = l]
       /\ lockOf' = [lockOf EXCEPT ![r] = l]
  /\ code' = [code EXCEPT ![r] = c]
  /\ pc' = [pc EXCEPT ![r] = "poll"]
  /\ UNCHANGED <<owner, queue>>

\* The first poll of lock_owned takes a free mutex or joins its queue.
Poll(r) ==
  LET l == lockOf[r] IN
  /\ pc[r] = "poll"
  /\ IF owner[l] = None
     THEN /\ owner' = [owner EXCEPT ![l] = r]
          /\ pc' = [pc EXCEPT ![r] = "hold"]
          /\ UNCHANGED queue
     ELSE /\ queue' = [queue EXCEPT ![l] = Append(@, r)]
          /\ pc' = [pc EXCEPT ![r] = "wait"]
          /\ UNCHANGED owner
  /\ UNCHANGED <<registry, code, lockOf>>

\* The mutex has been assigned to a waiter, which is polled again.
Wake(r) ==
  /\ pc[r] = "wait"
  /\ owner[lockOf[r]] = r
  /\ pc' = [pc EXCEPT ![r] = "hold"]
  /\ UNCHANGED <<registry, code, lockOf, owner, queue>>

\* tokio gives the mutex l to the first waiter, or to nobody.
HandOver(l) ==
  IF queue[l] = <<>>
  THEN /\ owner' = [owner EXCEPT ![l] = None]
       /\ UNCHANGED queue
  ELSE /\ owner' = [owner EXCEPT ![l] = Head(queue[l])]
       /\ queue' = [queue EXCEPT ![l] = Tail(@)]

\* Mutant of Release: the guard of the mutex is leaked.
ReleaseForgets(r) ==
  /\ pc[r] = "hold"
  /\ pc' = [pc EXCEPT ![r] = "check"]
  /\ UNCHANGED <<registry, code, lockOf, owner, queue>>

\* self.guard.take() in Drop::drop.
Release(r) ==
  /\ pc[r] = "hold"
  /\ HandOver(lockOf[r])
  /\ pc' = [pc EXCEPT ![r] = "check"]
  /\ UNCHANGED <<registry, code, lockOf>>

\* Mutant of OnlyReferences: Arc::strong_count is not looked at.
OnlyReferencesUncounted(r) == registry[code[r]] = lockOf[r]

\* Arc::ptr_eq and Arc::strong_count == 2: the registry's reference to the
\* lock of r and r's own are the only ones.
OnlyReferences(r) ==
  /\ registry[code[r]] = lockOf[r]
  /\ \A q \in Requests \ {r} : lockOf[q] # lockOf[r]

\* The rest of Drop::drop, under the registry's mutex.
DropCheck(r) ==
  /\ pc[r] = "check"
  /\ registry' = IF OnlyReferences(r) THEN [registry EXCEPT ![code[r]] = None]
                                      ELSE registry
  /\ pc' = [pc EXCEPT ![r] = "free"]
  /\ UNCHANGED <<code, lockOf, owner, queue>>

\* The fields of the guard are dropped after Drop::drop has returned.
FreeReference(r) ==
  /\ pc[r] = "free"
  /\ lockOf' = [lockOf EXCEPT ![r] = None]
  /\ code' = [code EXCEPT ![r] = None]
  /\ pc' = [pc EXCEPT ![r] = "idle"]
  /\ UNCHANGED <<registry, owner, queue>>

\* The client of a waiting request goes away: lock_owned is dropped in the
\* middle.  There is no guard yet, so nobody looks at the registry.
Cancel(r) ==
  LET l == lockOf[r] IN
  /\ Disconnects
  /\ pc[r] = "wait"
  /\ IF owner[l] = r
     THEN HandOver(l)
     ELSE /\ \E i \in 1..Len(queue[l]) :
               queue[l][i] = r /\ queue' = [queue EXCEPT ![l] = RemoveAt(@, i)]
          /\ UNCHANGED owner
  /\ lockOf' = [lockOf EXCEPT ![r] = None]
  /\ code' = [code EXCEPT ![r] = None]
  /\ pc' = [pc EXCEPT ![r] = "idle"]
  /\ UNCHANGED registry

Next == \E r \in Requests :
  \/ \E c \in Codes : Lookup(r, c)
  \/ Poll(r) \/ Wake(r) \/ Release(r) \/ DropCheck(r) \/ FreeReference(r)
  \/ Cancel(r)

Spec == Init /\ [][Next]_vars

\* The runtime polls what it has woken, and a submission always ends
\* (EveryRequestEnds of Verification), so a holder lets go.
Fairness == \A r \in Requests :
  WF_vars(Poll(r) \/ Wake(r) \/ Release(r) \/ DropCheck(r) \/ FreeReference(r))

FairSpec == Spec /\ Fairness
-----------------------------------------------------------------------------
\* The inductive invariant behind MutualExclusion.  Whoever waits or holds has
\* the lock the registry names for the code; the mutex is assigned to somebody
\* who waits for it or holds it; its queue has each waiter once.
InUse == {"poll", "wait", "hold"}

ReferencesInv == \A r \in Requests :
  pc[r] # "idle" => lockOf[r] \in Locks /\ code[r] \in Codes

OwnerInv == \A l \in Locks : owner[l] # None =>
  lockOf[owner[l]] = l /\ pc[owner[l]] \in {"wait", "hold"}

HolderInv == \A r \in Requests : pc[r] = "hold" => owner[lockOf[r]] = r

QueueInv == \A l \in Locks :
  /\ \A i \in 1..Len(queue[l]) :
       /\ pc[queue[l][i]] = "wait" /\ lockOf[queue[l][i]] = l
       /\ owner[l] # queue[l][i]
  /\ \A i, j \in 1..Len(queue[l]) : queue[l][i] = queue[l][j] => i = j

\* Two requests for one code are never both past acquire_challenge_lock, even
\* though entries are removed from the registry and made anew.
MutualExclusion ==
  \A r, q \in Requests :
    pc[r] = "hold" /\ pc[q] = "hold" /\ code[r] = code[q] => r = q

\* The registry never forgets a lock somebody waits for or holds, so that a
\* newcomer always meets the requests that came before it.
RegistryKeepsUsed ==
  \A r \in Requests :
    pc[r] \in InUse => registry[code[r]] = lockOf[r]

LocksInv ==
  TypeOK /\ ReferencesInv /\ OwnerInv /\ HolderInv /\ QueueInv /\ RegistryKeepsUsed

\* Whoever waits for a lock is served in turn or gives up, however many
\* newcomers ask for the same lock.
WaitersAreServed == \A r \in Requests : pc[r] = "wait" ~> pc[r] # "wait"

\* What the locks promise (module KeyedMutex): the request at "hold" is the
\* holder.
Holder(c) ==
  IF \E r \in Requests : pc[r] = "hold" /\ code[r] = c
  THEN CHOOSE r \in Requests : pc[r] = "hold" /\ code[r] = c
  ELSE None

Promise == INSTANCE KeyedMutex WITH holder <- [c \in Codes |-> Holder(c)]

\* The registry and its mutexes behave like one lock per code.
ImplementsMutex == Promise!Spec
=============================================================================
