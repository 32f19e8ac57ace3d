----------------------------- MODULE KeyedMutex -----------------------------
(***************************************************************************)
(* What the lock of a verification challenge promises: per code at most    *)
(* one request holds it, and it is free in between two holders.            *)
(***************************************************************************)
CONSTANTS Requests, Codes, None

VARIABLE holder  \* holder[c]: the request that holds the lock of c, or None

Init == holder = [c \in Codes |-> None]

\* Any number of locks are taken or given back; none changes hands.
Next ==
  /\ holder' \in [Codes -> Requests \cup {None}]
  /\ \A c \in Codes :
       holder'[c] = holder[c] \/ holder[c] = None \/ holder'[c] = None

Spec == Init /\ [][Next]_holder
=============================================================================
