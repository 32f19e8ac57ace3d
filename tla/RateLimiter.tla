----------------------------- MODULE RateLimiter -----------------------------
(***************************************************************************)
(* The rate limiter of the API (src/api/state.rs): per key a window that   *)
(* begins with the first call it admits, and the number of calls since.    *)
(* A call of the limiter is one step, under its mutex.                     *)
(***************************************************************************)
EXTENDS Integers, Sequences, FiniteSets

CONSTANTS
  MaxCalls,  \* calls that a window admits, by key
  Window,    \* its length
  MaxClock   \* bound on the clock

Keys == DOMAIN MaxCalls

ASSUME RateAssumption ==
  /\ \A key \in Keys : MaxCalls[key] \in Nat \ {0}
  /\ Window \in Nat \ {0} /\ MaxClock \in Nat

VARIABLES
  now,
  limits,    \* count and start of the window of each key
  admitted   \* history: when the calls of each key were admitted

limiter == <<now, limits, admitted>>

LimiterInit ==
  /\ now = 0
  /\ limits = [key \in Keys |-> [count |-> 0, start |-> 0]]
  /\ admitted = [key \in Keys |-> <<>>]

IsOver(key) == now - limits[key].start >= Window

\* As if a new window did not count the call that begins it.
WindowUncounted(key) ==
  IF IsOver(key) \/ limits[key].count = 0 THEN [count |-> 0, start |-> now]
  ELSE [limits[key] EXCEPT !.count = @ + 1]

\* The window after a call; an entry that has not counted any is made by it.
NextWindow(key) ==
  IF IsOver(key) \/ limits[key].count = 0 THEN [count |-> 1, start |-> now]
  ELSE [limits[key] EXCEPT !.count = @ + 1]

\* The call is admitted; one that is not leaves everything as it is.
allow(key) ==
  /\ IsOver(key) \/ limits[key].count < MaxCalls[key]
  /\ limits' = [limits EXCEPT ![key] = NextWindow(key)]
  /\ admitted' = [admitted EXCEPT ![key] = Append(@, now)]
  /\ now' = now

Tick ==
  /\ now < MaxClock
  /\ now' = now + 1
  /\ UNCHANGED <<limits, admitted>>
-----------------------------------------------------------------------------
Within(key, t) == {n \in DOMAIN admitted[key] : admitted[key][n] \in t..(t + Window - 1)}

(***************************************************************************)
(* The windows are fixed and a period of their length may lie across two   *)
(* of them; but as each begins with a call, no period sees twice the       *)
(* limit.                                                                  *)
(***************************************************************************)
RateKept ==
  \A key \in Keys : \A t \in 0..MaxClock : Cardinality(Within(key, t)) <= 2 * MaxCalls[key] - 1
=============================================================================
