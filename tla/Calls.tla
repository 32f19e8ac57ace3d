-------------------------------- MODULE Calls --------------------------------
(***************************************************************************)
(* What the modules about members have in common: requests that go on call *)
(* by call with a store, kept in memory or in SurrealDB (the two           *)
(* implementations of ForumService), as long as there are acts left.       *)
(* "api" is the server of the API (bin/api.rs), a process of its own with  *)
(* SurrealDB, in the one module that has it beside classic controllers.    *)
(***************************************************************************)
EXTENDS Integers, Sequences, FiniteSets

CONSTANTS
  Members,
  Requests,
  Stores,    \* some of "memory", "surreal" and "api"
  MaxActs,   \* bound on what requests and others begin
  Faults     \* what may go wrong, as each module has it

VARIABLES
  store,     \* one of Stores
  req,       \* how far each request is
  acts       \* what has begun so far

Idle == [stage |-> "idle"]

Become(r, state) == req' = [req EXCEPT ![r] = state]

Act == acts < MaxActs /\ acts' = acts + 1
=============================================================================
