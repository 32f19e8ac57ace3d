---------------------------- MODULE ClassicPosting ----------------------------
(***************************************************************************)
(* Posting by the classic controller (src/controller/post.rs) and the      *)
(* members that posts mention, with drafts, polls and attachments beside   *)
(* it.                                                                     *)
(*                                                                         *)
(* In memory a post is one call of the store, whether it is new or an      *)
(* edit.  With SurrealDB every post is a new row, after that of its topic  *)
(* (the rows are those of module Posting, and left out here); the number   *)
(* of a new post is read from an identifier that is none, and is 0.        *)
(* Mentions are read, deleted and inserted afterwards.                     *)
(*                                                                         *)
(* A body is the set of the members it mentions; subjects, permissions,    *)
(* approval and icons are left out, and that a member may be deleted.      *)
(***************************************************************************)
EXTENDS Drafts

CONSTANTS
  Bodies,     \* sets of members
  TopicIds,   \* numbers of topics that requests name
  MessageIds  \* numbers of messages that requests name

VARIABLES
  topics,    \* first and last message of each topic
  messages,  \* topic of each message
  mentions,  \* rows: their number, the message and the member
  next_mention,  \* next_mention_id, or the clock
  strange,   \* history: topics that were named too early or for an edit
  saved,     \* history: the last body with mentions, by message
  unsure     \* history: messages whose mentions were saved at once or in part,
             \* or overwritten

noted == <<mentions, next_mention>>
posting == <<topics, messages, noted, strange, saved, unsure>>
vars == <<store, limiter, uploads, attached, drafting, polling, posting, req, acts>>
-----------------------------------------------------------------------------
NoNumber == 0

\* The sample of the store in memory; SurrealDB starts empty.
PostingInit ==
  /\ topics = IF store = "memory" THEN <<[first |-> 1, last |-> 1]>> ELSE <<>>
  /\ messages = IF store = "memory" THEN <<1>> ELSE <<>>
  /\ mentions = {} /\ next_mention = 1
  /\ strange = {} /\ saved = <<>> /\ unsure = {}

Init == UploadsInit /\ DraftsInit /\ PostingInit

\* A topic that can be found; the query of SurrealDB compares the key of a
\* record with its whole name, and finds none.
fetch_topic_posting_context(topic) == store = "memory" /\ topic \in DOMAIN topics

\* board: whether the request names one.
determine_board_id(board, topic) == board \/ fetch_topic_posting_context(topic)

Started(stage, key, body) ==
  [stage |-> stage, key |-> key, body |-> body, at |-> "list", removed |-> {}, added |-> {}]

\* Requests that are saving the mentions of a message.
Mentioning(key) == {r \in Requests : req[r].stage = "mention" /\ req[r].key = key}

\* process_mentions looks at bodies with mentions only.
process_mentions(r, key, body) ==
  /\ Become(r, IF body = {} THEN Idle ELSE Started("mention", key, body))
  /\ unsure' = IF body # {} /\ Mentioning(key) # {} THEN unsure \cup {key} ELSE unsure
-----------------------------------------------------------------------------
(* In memory. *)

NewTopic == Cardinality(DOMAIN topics) + 1
NewMessage == Cardinality(DOMAIN messages) + 1

\* Message i is written under topic t, where that exists.
Led(t, i) ==
  LET known == IF t \in DOMAIN topics THEN topics[t] ELSE [first |-> i, last |-> i]
  IN [known EXCEPT !.last = i]

\* No topic makes a new one, for an edit too; an edit of a message that does
\* not exist writes its number alone.
persist_post_in_memory(topic, msg) ==
  LET t == IF topic = NoNumber THEN NewTopic ELSE topic
      i == IF msg = NoNumber THEN NewMessage ELSE msg
  IN /\ topics' = IF topic # NoNumber /\ topic \notin DOMAIN topics THEN topics
                  ELSE Put(topics, t, Led(t, i))
     /\ messages' = IF msg = NoNumber THEN Put(messages, i, t) ELSE messages
     /\ strange' = IF \/ t \notin DOMAIN topics /\ topic # NoNumber
                      \/ msg # NoNumber /\ ~(msg \in DOMAIN messages /\ messages[msg] = t)
                   THEN strange \cup {t} ELSE strange

post_in_memory(r, board, topic, msg, body) ==
  /\ store = "memory" /\ determine_board_id(board, topic)
  /\ Act /\ req[r] = Idle
  /\ persist_post_in_memory(topic, msg)
  /\ process_mentions(r, IF msg = NoNumber THEN NewMessage ELSE msg, body)
  /\ UNCHANGED <<store, noted, saved>>

(* With SurrealDB. *)

post2(r, board, topic, msg, body) ==
  /\ store = "surreal" /\ determine_board_id(board, topic)
  /\ Start(r, Started("post", msg, body))
  /\ UNCHANGED <<store, posting>>

\* The row of the topic, if none is named, and that of the post.
persist_post(r) ==
  LET rq == req[r] IN
  /\ rq.stage = "post"
  /\ process_mentions(r, rq.key, rq.body)
  /\ UNCHANGED <<store, topics, messages, noted, strange, saved, acts>>
-----------------------------------------------------------------------------
(* Mentions, in either store. *)

Mentioned(key) == {row.who : row \in {x \in mentions : x.key = key}}

\* What get_mentions_by_content may find; rows or members of SurrealDB that
\* do not decode read as none.
get_mentions_by_content(key) ==
  {Mentioned(key)}
    \cup (IF store = "surreal" /\ "unreadable" \in Faults THEN {{}} ELSE {})

\* As if all of the body were new.
AddedAll(body, existing) == body

Added(body, existing) == body \ existing

Proceeds(rq) ==
  IF rq.removed # {} THEN [rq EXCEPT !.at = "delete"]
  ELSE IF rq.added # {} THEN [rq EXCEPT !.at = "insert"] ELSE Idle

Goes(r, rq) ==
  /\ Become(r, Proceeds(rq))
  /\ saved' = IF Proceeds(rq) = Idle THEN Put(saved, rq.key, rq.body) ELSE saved

modify_mentions(r) ==
  LET rq == req[r] IN
  /\ rq.stage = "mention" /\ rq.at = "list"
  /\ \E existing \in get_mentions_by_content(rq.key) :
       Goes(r, [rq EXCEPT !.removed = existing \ rq.body, !.added = Added(rq.body, existing)])
  /\ UNCHANGED <<store, topics, messages, noted, strange, unsure, acts>>

delete_mentions(r) ==
  LET rq == req[r] IN
  /\ rq.stage = "mention" /\ rq.at = "delete"
  /\ mentions' = {row \in mentions : ~(row.key = rq.key /\ row.who \in rq.removed)}
  /\ Goes(r, [rq EXCEPT !.removed = {}])
  /\ UNCHANGED <<store, topics, messages, next_mention, strange, unsure, acts>>

Row(id, key, who) == [id |-> id, key |-> key, who |-> who]

insert_mentions_in_memory(r) ==
  LET rq == req[r]
      last == next_mention + Cardinality(rq.added)
  IN
  /\ rq.stage = "mention" /\ rq.at = "insert" /\ store = "memory"
  /\ \E id \in Injection(rq.added, next_mention..(last - 1)) :
       mentions' = mentions \cup {Row(id[who], rq.key, who) : who \in rq.added}
  /\ next_mention' = last
  /\ Goes(r, [rq EXCEPT !.added = {}])
  /\ UNCHANGED <<store, topics, messages, strange, unsure, acts>>

\* The number is that of the clock: the second of a millisecond overwrites
\* the first.
MentionIds ==
  {next_mention}
    \cup (IF "same_tick" \in Faults /\ next_mention > 1 THEN {next_mention - 1} ELSE {})

\* One row by one.
insert_mentions(r) ==
  LET rq == req[r] IN
  /\ rq.stage = "mention" /\ rq.at = "insert" /\ store = "surreal"
  /\ \E who \in rq.added, id \in MentionIds :
       LET gone == {row \in mentions : row.id = id} IN
       /\ mentions' = (mentions \ gone) \cup {Row(id, rq.key, who)}
       /\ next_mention' = IF id = next_mention THEN id + 1 ELSE next_mention
       /\ unsure' = unsure \cup {row.key : row \in gone}
       /\ Goes(r, [rq EXCEPT !.added = @ \ {who}])
  /\ UNCHANGED <<store, topics, messages, strange, acts>>

\* A statement of delete_mentions or insert_mentions fails in its response:
\* the rows stay as they are and the request goes on.
MentionsMissed(r) ==
  LET rq == req[r] IN
  /\ rq.stage = "mention" /\ store = "surreal" /\ "unnoticed" \in Faults
  /\ \/ rq.at = "delete" /\ Goes(r, [rq EXCEPT !.removed = {}])
     \/ rq.at = "insert" /\ \E who \in rq.added : Goes(r, [rq EXCEPT !.added = @ \ {who}])
  /\ unsure' = unsure \cup {rq.key}
  /\ UNCHANGED <<store, topics, messages, noted, strange, acts>>

\* The request answers with an error, whatever it has done.
PostFails(r) ==
  LET rq == req[r] IN
  /\ rq.stage \in {"post", "mention"} /\ store = "surreal"
  /\ "refused" \in Faults
  /\ unsure' = IF rq.stage = "mention" THEN unsure \cup {rq.key} ELSE unsure
  /\ Become(r, Idle)
  /\ UNCHANGED <<store, topics, messages, noted, strange, saved, acts>>

PostingNext ==
  \/ \E r \in Requests, board \in BOOLEAN, topic \in TopicIds \cup {NoNumber},
        msg \in MessageIds \cup {NoNumber}, body \in Bodies :
       \/ post_in_memory(r, board, topic, msg, body)
       \/ post2(r, board, topic, msg, body)
  \/ \E r \in Requests :
       \/ persist_post(r) \/ modify_mentions(r) \/ delete_mentions(r)
       \/ insert_mentions_in_memory(r) \/ insert_mentions(r)
       \/ MentionsMissed(r) \/ PostFails(r)
-----------------------------------------------------------------------------
Next ==
  \/ UploadsNext(MessageIds) /\ UNCHANGED <<drafting, polling, posting>>
  \/ store # "api" /\ DraftsNext /\ UNCHANGED <<limiter, uploads, attached, posting>>
  \/ PostingNext /\ UNCHANGED <<limiter, uploads, attached, drafting, polling>>

Spec == Init /\ [][Next]_vars
-----------------------------------------------------------------------------
Times(key, m) ==
  Cardinality({row \in mentions : row.key = key /\ row.who = m})

(***************************************************************************)
(* Who was mentioned by the last body of a message that mentions anybody   *)
(* is told so, and in memory once, and nobody else is: unless two requests *)
(* saved the mentions of one message at once, or one failed, noticed or    *)
(* not, or rows had one number.                                            *)
(***************************************************************************)
MentionsKept ==
  \A key \in DOMAIN saved \ unsure : Mentioning(key) = {} =>
    /\ saved[key] \subseteq Mentioned(key)
    /\ store = "memory" =>
         /\ Mentioned(key) \subseteq saved[key]
         /\ \A m \in saved[key] : Times(key, m) = 1

(***************************************************************************)
(* In memory a topic starts with its first message and its last is one of  *)
(* its own, unless it was named before it was made, or for an edit of a    *)
(* message of another.                                                     *)
(***************************************************************************)
TopicsLead ==
  store = "memory" =>
    \A t \in DOMAIN topics \ strange :
      LET own == {i \in DOMAIN messages : messages[i] = t} IN
      /\ topics[t].last \in own
      /\ topics[t].first \in own /\ \A i \in own : topics[t].first <= i

\* What members saved is kept, in its four kinds.
SavedIsKept == DraftsKept /\ VotesAreCounted /\ MentionsKept /\ TopicsLead
=============================================================================
