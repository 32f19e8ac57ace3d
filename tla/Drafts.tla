-------------------------------- MODULE Drafts --------------------------------
(***************************************************************************)
(* Drafts of posts and of personal messages (src/drafts.rs) and polls      *)
(* (src/poll.rs), in the stores of the classic controllers.                *)
(*                                                                         *)
(* A draft is known by a number that its author sends again to replace it. *)
(* With SurrealDB the number is that of a record, with which a comparison  *)
(* of `id` never agrees: what deletes by it deletes nothing.               *)
(*                                                                         *)
(* Permissions are left out, and so are the fields of a poll that no vote  *)
(* looks at, its lock among them; and polls that SurrealDB made in one     *)
(* millisecond, which have their options in common.                        *)
(***************************************************************************)
EXTENDS Uploads

CONSTANTS
  Options,  \* options of a poll, one at least
  Ballots   \* sequences of options that are voted for at once

ASSUME DraftsAssumption ==
  /\ IsFiniteSet(Options) /\ Options # {}
  /\ Ballots \subseteq Seq(Options)

VARIABLES
  drafts,      \* author and text by kind, number and, it may be, author
  next_draft,  \* next_draft_id and next_pm_draft_id, or the clock
  kept,        \* history: drafts as their authors saved them last
  lent,        \* history: drafts that others named, of unknown outcome, or that
               \* failed unnoticed
  polls,       \* votes by poll and option
  alive,       \* history: polls that were answered and not removed
  asked,       \* history: votes that were asked for, by poll and option
  counted,     \* history: votes that were answered
  missed       \* history: queries for a vote or an option that had no effect

drafting == <<drafts, next_draft, kept, lent>>
polling == <<polls, alive, asked, counted, missed>>
-----------------------------------------------------------------------------
Kinds == {"post", "pm"}

Nobody == "nobody"

\* In memory personal messages have the drafts of each author apart.
Slot(kind, m, id) == <<kind, IF kind = "pm" /\ store = "memory" THEN m ELSE Nobody, id>>

DraftsInit ==
  /\ drafts = <<>> /\ kept = {} /\ lent = {}
  /\ next_draft = [kind \in Kinds |-> 1]
  /\ polls = <<>> /\ alive = {} /\ asked = <<>> /\ counted = <<>> /\ missed = <<>>

\* A query may fail before or after it has its effect, or without telling.
Outcomes ==
  {"ok"} \cup
    (IF store = "surreal" THEN Faults \cap {"refused", "lost", "unnoticed"} ELSE {})

\* The number of a new draft: counted, or told by the clock.
NewIds(kind) ==
  {next_draft[kind]}
    \cup (IF store = "surreal" /\ "same_tick" \in Faults
          THEN (1..(next_draft[kind] - 1)) \cap {next_draft[kind] - 1} ELSE {})

Counter(kind, id) == [next_draft EXCEPT ![kind] = IF id = @ THEN @ + 1 ELSE @]

Saved(slot, draft, named) ==
  {k \in kept : named => k.slot # slot} \cup {[slot |-> slot, draft |-> draft]}

HeldBy(slot, m) == \E k \in kept : k.slot = slot /\ k.draft.author = m

\* Saves a draft under the number id, or under a new one.
save_draft_record(kind, m, id, outcome) ==
  LET slot == Slot(kind, m, id)
      draft == [author |-> m, text |-> acts + 1]
  IN drafts' = IF outcome \in {"refused", "unnoticed"} THEN drafts
               ELSE Put(drafts, slot, draft)

Save(kind, m, named, id, outcome) ==
  LET slot == Slot(kind, m, id) IN
  /\ Act
  /\ outcome \in Outcomes
  /\ named \/ id \in NewIds(kind)
  /\ save_draft_record(kind, m, id, outcome)
  /\ next_draft' = IF named THEN next_draft ELSE Counter(kind, id)
  /\ kept' = IF outcome \in {"ok", "unnoticed"}
             THEN Saved(slot, [author |-> m, text |-> acts + 1], named) ELSE kept
  /\ lent' = IF \/ outcome \in {"lost", "unnoticed"}
                \/ outcome = "ok" /\ named /\ ~HeldBy(slot, m)
                \/ ~named /\ id # next_draft[kind]
             THEN lent \cup {slot} ELSE lent
  /\ UNCHANGED <<store, polling, req>>

save_draft(m, named, id, outcome) == Save("post", m, named, id, outcome)

save_pm_draft(m, named, id, outcome) == Save("pm", m, named, id, outcome)

Delete(kind, m, id) ==
  LET slot == Slot(kind, m, id) IN
  /\ Act
  /\ drafts' = IF store = "memory" THEN [s \in DOMAIN drafts \ {slot} |-> drafts[s]] ELSE drafts
  /\ kept' = {k \in kept : k.slot # slot}
  /\ UNCHANGED <<store, next_draft, lent, polling, req>>

\* Anybody may delete the draft of a post.
delete_draft(m, id) == Delete("post", m, id)

delete_pm_draft(m, id) == Delete("pm", m, id)

\* What is read.  SurrealDB answers with nothing: either no number agrees,
\* or the rows have an `id` that is no number, and all of them are dropped.
Readable(slots) ==
  {drafts[slot] : slot \in IF store = "memory" THEN slots \cap DOMAIN drafts ELSE {}}

read_draft(id) == Readable({Slot("post", Nobody, id)})

read_pm_draft(m, id) == Readable({Slot("pm", m, id)})

list_pm_drafts(m) == Readable({slot \in DOMAIN drafts : slot[1] = "pm" /\ slot[2] = m})
-----------------------------------------------------------------------------
(* Polls, by the number of the call that made them. *)

NoVotes == [o \in Options |-> 0]

Tally(votes, ballot) ==
  [o \in DOMAIN votes |-> votes[o] + Cardinality({n \in DOMAIN ballot : ballot[n] = o})]

Count(histories, id, ballot) == [histories EXCEPT ![id] = Tally(@, ballot)]

create_poll_in_memory ==
  /\ store = "memory" /\ Act
  /\ polls' = Put(polls, acts + 1, NoVotes)
  /\ alive' = alive \cup {acts + 1}
  /\ asked' = Put(asked, acts + 1, NoVotes)
  /\ counted' = Put(counted, acts + 1, NoVotes)
  /\ missed' = Put(missed, acts + 1, NoVotes)
  /\ UNCHANGED <<store, drafting, req>>

\* The row of the poll, then those of its options.
create_poll(r) ==
  /\ store = "surreal"
  /\ Start(r, [stage |-> "options", poll |-> acts + 1, left |-> SetToSeq(Options)])
  /\ polls' = Put(polls, acts + 1, <<>>)
  /\ asked' = Put(asked, acts + 1, NoVotes)
  /\ counted' = Put(counted, acts + 1, NoVotes)
  /\ missed' = Put(missed, acts + 1, NoVotes)
  /\ UNCHANGED <<store, drafting, alive>>

\* Nobody looks whether the statement succeeded.
create_option(r) ==
  LET rq == req[r] IN
  /\ rq.stage = "options"
  /\ \/ /\ polls' = [polls EXCEPT ![rq.poll] = Put(@, Head(rq.left), 0)]
        /\ missed' = missed
     \/ /\ "unnoticed" \in Faults
        /\ missed' = Count(missed, rq.poll, <<Head(rq.left)>>)
        /\ polls' = polls
  /\ alive' = IF Len(rq.left) = 1 THEN alive \cup {rq.poll} ELSE alive
  /\ Onward(r)
  /\ UNCHANGED <<store, drafting, asked, counted, acts>>

cast_vote_in_memory(votes, ballot) == Tally(votes, ballot)

\* Anybody may vote any number of times; a poll that was removed refuses.
vote_in_memory(id, ballot) ==
  /\ store = "memory" /\ id \in DOMAIN polls /\ Act
  /\ polls' = [polls EXCEPT ![id] = cast_vote_in_memory(@, ballot)]
  /\ asked' = Count(asked, id, ballot)
  /\ counted' = Count(counted, id, ballot)
  /\ UNCHANGED <<store, drafting, alive, missed, req>>

vote(r, id, ballot) ==
  /\ store = "surreal" /\ ballot # <<>>
  /\ Start(r, [stage |-> "votes", poll |-> id, left |-> ballot, ballot |-> ballot])
  /\ asked' = Count(asked, id, ballot)
  /\ UNCHANGED <<store, drafting, polls, alive, counted, missed>>

\* One query per option; where there is no row, or the statement fails, two
\* votes at once for one, nothing is counted and nobody looks.
cast_vote(r) ==
  LET rq == req[r]
      option == <<Head(rq.left)>>
      there == Head(rq.left) \in DOMAIN polls[rq.poll]
  IN
  /\ rq.stage = "votes"
  /\ \/ /\ there
        /\ polls' = [polls EXCEPT ![rq.poll] = Tally(@, option)]
        /\ missed' = missed
     \/ /\ ~there \/ "unnoticed" \in Faults
        /\ missed' = Count(missed, rq.poll, option)
        /\ polls' = polls
  /\ counted' = IF Len(rq.left) = 1 THEN Count(counted, rq.poll, rq.ballot) ELSE counted
  /\ Onward(r)
  /\ UNCHANGED <<store, drafting, alive, asked, acts>>

\* SurrealDB keeps the row of the poll and loses those of its options, or
\* not these either.
remove_poll(id) ==
  /\ Act
  /\ \/ polls' = IF store = "memory" THEN [p \in DOMAIN polls \ {id} |-> polls[p]]
                 ELSE Put(polls, id, <<>>)
     \/ store = "surreal" /\ "unnoticed" \in Faults /\ polls' = polls
  /\ alive' = alive \ {id}
  /\ UNCHANGED <<store, drafting, asked, counted, missed, req>>

\* The request answers with an error; the query may have had its effect.
PollFails(r) ==
  LET rq == req[r] IN
  /\ \/ rq.stage = "options" /\ UNCHANGED polls
     \/ rq.stage = "votes" /\ "refused" \in Faults /\ UNCHANGED polls
     \/ /\ rq.stage = "votes" /\ "lost" \in Faults
        /\ polls' = [polls EXCEPT ![rq.poll] = Tally(@, <<Head(rq.left)>>)]
  /\ Become(r, Idle)
  /\ UNCHANGED <<store, drafting, alive, asked, counted, missed, acts>>

DraftsNext ==
  \/ \E m \in Members, id \in 1..MaxActs :
       \/ \E named \in BOOLEAN, outcome \in Outcomes :
            save_draft(m, named, id, outcome) \/ save_pm_draft(m, named, id, outcome)
       \/ delete_draft(m, id) \/ delete_pm_draft(m, id)
  \/ create_poll_in_memory
  \/ \E r \in Requests : create_poll(r) \/ create_option(r) \/ cast_vote(r) \/ PollFails(r)
  \/ \E id \in DOMAIN asked :
       \/ \E ballot \in Ballots : vote_in_memory(id, ballot)
       \/ id \in alive /\ remove_poll(id)
  \/ \E r \in Requests, id \in alive, ballot \in Ballots : vote(r, id, ballot)
-----------------------------------------------------------------------------
(***************************************************************************)
(* A draft that was answered is as its author saved it last, though all    *)
(* drafts of posts, and with SurrealDB all drafts of a kind, have their    *)
(* numbers in common: unless somebody named it to whom it was not given,   *)
(* two were made in one millisecond, an answer was lost, or the statement  *)
(* failed in a response that nobody looks at.  In memory it is read as it  *)
(* is kept, and of personal messages alone by its author.                  *)
(***************************************************************************)
DraftsKept ==
  \A k \in kept : k.slot \notin lent =>
    /\ k.slot \in DOMAIN drafts /\ drafts[k.slot] = k.draft
    /\ store = "memory" => \A m \in Members :
         IF k.slot[1] = "post" THEN read_draft(k.slot[3]) = {k.draft}
         ELSE k.draft \in read_pm_draft(m, k.slot[3]) \cap list_pm_drafts(m) <=> m = k.draft.author

(***************************************************************************)
(* However many vote at once, the votes that were answered and not counted *)
(* are no more than the queries for them that failed unnoticed (cast_vote  *)
(* looks at none of its responses, services/surreal.rs:1855-1870); every   *)
(* vote that is counted was asked for; and a poll that was answered has    *)
(* each option unless the query for that option failed in the same way.    *)
(***************************************************************************)
VotesAreCounted ==
  \A id \in alive : \A o \in Options :
    IF o \in DOMAIN polls[id]
    THEN /\ counted[id][o] <= polls[id][o] + missed[id][o]
         /\ polls[id][o] <= asked[id][o]
    ELSE missed[id][o] > 0 /\ counted[id][o] <= missed[id][o]
=============================================================================
