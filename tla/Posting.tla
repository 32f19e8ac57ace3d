------------------------------ MODULE Posting -------------------------------
(***************************************************************************)
(* Requests that read and write in boards, with everything that decides    *)
(* whether they may: bans, the groups allowed on a board, permissions.     *)
(* A handler is the sequence of its calls (src/api/forum_routes.rs,        *)
(* src/agent/handlers/); each call is a step, and the rules may change     *)
(* between any two of them.  No request writes what another reads, except  *)
(* the rules, which administrators change.                                 *)
(*                                                                         *)
(* Two calls of the limiter, the checks of the content and of the CSRF     *)
(* token are one step that may refuse.  The rows of users are AdminRole's; *)
(* here a member has a role.                                               *)
(***************************************************************************)
EXTENDS Bans, Sequences

CONSTANTS
  Requests,
  Boards,      \* boards that payloads name
  Elsewhere,   \* the board of other topics, which lets in administrators only
  Role,        \* of each member and of the guest: "member", "mod" or "admin"
  Guest,       \* who calls without a token
  General,     \* permissions that rows of membergroups give to members
  Handlers,    \* names of the handlers that are called
  Faults,      \* what may go wrong with a call of the database
  AccessLists, \* what administrators enter: groups allowed on a board, ...
  Grants,      \* ... and permissions of members there
  MaxEdits     \* bound on what administrators change

(***************************************************************************)
(* refused:    the call fails and has no effect.                           *)
(* unreadable: rows fail to decode and read as none.                       *)
(* lost:       a write takes effect and reports failure.                   *)
(* disconnect: the client goes away, the handler ends where it is.         *)
(***************************************************************************)
FaultKinds == {"refused", "unreadable", "lost", "disconnect"}

Callers == Members \cup {Guest}
Permissions == {"post_new", "post_reply_any"}

ASSUME PostingAssumption ==
  /\ Guest \notin Members /\ Elsewhere \notin Boards
  /\ Role \in [Callers -> {"member", "mod", "admin"}] /\ Role[Guest] = "member"
  /\ General \subseteq Permissions /\ Grants \subseteq SUBSET Permissions
  /\ AccessLists \subseteq SUBSET {0, 2, 4}
  /\ Faults \subseteq FaultKinds
  /\ MaxEdits \in Nat

VARIABLES
  access,   \* allowed groups of each board; no groups and no row are the same
  perms,    \* what each board's row of board_permissions allows to members;
            \* administrators and moderators pass without one
  req,      \* the request records
  written,  \* what each request has written or shown
  since,    \* history: the rules that have let each request through some time
  edits     \* the number of changes so far

boardVars == <<access, perms>>
vars == <<banVars, boardVars, req, written, since, edits>>
-----------------------------------------------------------------------------
(* The handlers, as the calls they make in turn.                           *)

create_surreal_topic ==
  <<"bans", "guards", "access", "load", "general", "board", "topic", "post">>

create_surreal_topic_post ==
  <<"bans", "guards", "access", "load", "general", "board", "post">>

surreal_post == <<"bans", "guards", "access", "load", "general", "board", "post">>

agent_create_topic == <<"bans", "access", "guards", "bypass", "topic", "post">>

agent_create_reply ==
  <<"bans", "get_topic", "same_board", "access", "guards", "bypass", "post">>

list_surreal_topics == <<"guest", "access", "show">>

list_surreal_posts_for_topic == <<"guest", "topic_board", "access", "show">>

agent_list_topics == <<"bans", "access", "show">>

agent_get_topic == <<"bans", "get_topic", "access", "show">>

surreal_boards == <<"guest", "rules_if_any", "show">>

agent_list_boards == <<"bans", "rules", "show">>

Calls ==
  [create_topic |-> create_surreal_topic, create_post |-> create_surreal_topic_post,
   demo_post |-> surreal_post, agent_topic |-> agent_create_topic,
   agent_reply |-> agent_create_reply, topics |-> list_surreal_topics,
   posts |-> list_surreal_posts_for_topic, agent_topics |-> agent_list_topics,
   agent_get |-> agent_get_topic, boards |-> surreal_boards,
   agent_boards |-> agent_list_boards]

ASSUME HandlersAssumption == Handlers \subseteq DOMAIN Calls

Humans == {"create_topic", "create_post", "demo_post"}
Replies == {"create_post", "agent_reply"}
Needs(h) == IF h = "create_post" THEN "post_reply_any" ELSE "post_new"

\* A payload names a board, a topic, which is in some board, or both.
Idle == [todo |-> <<>>, reply |-> "none"]

IsAdmin(rq) == Role[rq.who] = "admin" /\ ~rq.guest

user_groups(rq) ==
  CASE rq.guest -> {4} [] IsAdmin(rq) -> {0} [] Role[rq.who] = "mod" -> {2} [] OTHER -> {4}

\* No entry, or an empty one, lets everybody in.
LetsIn(b, groups) == access[b] = {} \/ groups \cap access[b] # {}

At(r, call) == req[r].todo # <<>> /\ Head(req[r].todo) = call

Continue(r, changed) == req' = [req EXCEPT ![r] = [changed EXCEPT !.todo = Tail(@)]]

Answer(r, code) == req' = [req EXCEPT ![r].todo = <<>>, ![r].reply = code]

Fails(r, code) == "refused" \in Faults /\ Answer(r, code)

Reads == UNCHANGED <<banVars, boardVars, written, edits>>

PostingInit ==
  /\ BansInit
  /\ access \in [Boards -> AccessLists]
  /\ perms \in [Boards -> Grants]
  /\ req = [r \in Requests |-> Idle]
  /\ written = [r \in Requests |-> {}]
  /\ since = [r \in Requests |-> {}]
  /\ edits = 0
-----------------------------------------------------------------------------
(* Calls.                                                                  *)

\* require_auth: those who only read may come without a token.  The payload of
\* a reply names a board beside the topic, and it need not be the topic's.
Start(r, h, m, b, t) ==
  /\ req[r] = Idle
  /\ m = Guest => Head(Calls[h]) = "guest"
  /\ h \notin Replies => t = b
  /\ req' = [req EXCEPT ![r] =
       [handler |-> h, who |-> m, board |-> b, topic |-> t, session |-> NewSession,
        guest |-> m = Guest, grants |-> {}, unchecked |-> {},
        todo |-> Calls[h], reply |-> "none"]]
  /\ Reads

\* What a check of bans that is not answered from the session comes to.
is_not_banned(rq) ==
  {[rq EXCEPT !.session = s, !.unchecked = @ \ {"ban"}] : s \in Checks(rq.who)} \cup
  {[rq EXCEPT !.session = [NewSession EXCEPT !.checked = clock],
              !.unchecked = @ \cup {"ban"}] : f \in Faults \cap {"unreadable"}}

\* As if the context of the failed check was kept, which is marked as checked.
EnrichKeepsContext(rq) ==
  IF Role[rq.who] = "admin" THEN {rq}
  ELSE is_not_banned(rq) \cup
       {[rq EXCEPT !.session.checked = clock, !.unchecked = @ \cup {"unenforced"}] :
          f \in Faults \cap {"refused"}}

\* A failed check lets the request go on, with a session not yet checked.
enrich_ctx_with_ban_state(rq) ==
  IF Role[rq.who] = "admin" THEN {rq}
  ELSE is_not_banned(rq) \cup
       {[rq EXCEPT !.unchecked = @ \cup {"unenforced"}] : f \in Faults \cap {"refused"}}

ensure_user_ctx(r) ==
  /\ At(r, "bans")
  /\ \/ \E rq \in enrich_ctx_with_ban_state(req[r]) :
          IF rq.session.cannot_access THEN Answer(r, "403") ELSE Continue(r, rq)
     \/ Fails(r, "500")
  /\ Reads

\* Readers whose context cannot be had, the banned among them, read as guests.
ensure_guest_ctx(r) ==
  /\ At(r, "guest")
  /\ \/ /\ ~req[r].guest
        /\ \E rq \in enrich_ctx_with_ban_state(req[r]) :
             Continue(r, [rq EXCEPT !.guest = rq.session.cannot_access])
     \/ /\ req[r].guest \/ "refused" \in Faults
        /\ Continue(r, [req[r] EXCEPT !.guest = TRUE])
  /\ Reads

\* enforce_rate, validate_content and verify_csrf.
Guards(r) ==
  /\ At(r, "guards")
  /\ Continue(r, req[r]) \/ Answer(r, "400")
  /\ Reads

ensure_board_access(r) ==
  /\ At(r, "access")
  /\ \/ /\ IsAdmin(req[r]) \/ LetsIn(req[r].board, user_groups(req[r]))
        /\ Continue(r, req[r])
     \/ /\ ~IsAdmin(req[r])
        /\ \/ ~LetsIn(req[r].board, user_groups(req[r])) /\ Answer(r, "403")
           \/ Fails(r, "500")
           \/ /\ "unreadable" \in Faults
              /\ Continue(r, [req[r] EXCEPT !.unchecked = @ \cup {"access"}])
  /\ Reads

\* load_permissions asks for bans once more and mostly finds the answer the
\* same request has got.  Any ban is a denial then, even one without effect.
load_permissions(r) ==
  /\ At(r, "load")
  /\ LET rq == req[r]
     IN \/ Role[rq.who] = "admin" /\ Continue(r, rq)
        \/ /\ Role[rq.who] # "admin" /\ Fresh(rq.session)
           /\ IF rq.session.active THEN Answer(r, "403") ELSE Continue(r, rq)
        \/ /\ Role[rq.who] # "admin" /\ ~Fresh(rq.session)
           /\ \/ \E checked \in is_not_banned(rq) :
                   IF checked.session.cannot_access
                   THEN Answer(r, "403") ELSE Continue(r, checked)
              \/ Fails(r, "500")
  /\ Reads

general_permissions(r) ==
  /\ At(r, "general")
  /\ \/ Continue(r, [req[r] EXCEPT !.grants = General])
     \/ "unreadable" \in Faults /\ Continue(r, req[r])
     \/ Fails(r, "500")
  /\ Reads

allowed_to(rq, grants) ==
  \/ Role[rq.who] \in {"admin", "mod"}
  \/ Needs(rq.handler) \in grants /\ Allows(rq.session, Needs(rq.handler))

\* Rows that deny are read as well; they count only under a setting that
\* contexts of the API never have.
board_permissions(r) ==
  /\ At(r, "board")
  /\ \/ \E more \in {perms[req[r].board]} \cup {{} : f \in Faults \cap {"unreadable"}} :
          IF allowed_to(req[r], req[r].grants \cup more)
          THEN Continue(r, req[r]) ELSE Answer(r, "403")
     \/ Fails(r, "500")
  /\ Reads

get_topic(r) ==
  /\ At(r, "get_topic")
  /\ Continue(r, req[r]) \/ Answer(r, "404") \/ Fails(r, "500")
  /\ Reads

\* Only agents are asked for the board of the topic they reply to.
same_board(r) ==
  /\ At(r, "same_board")
  /\ IF req[r].board = req[r].topic THEN Continue(r, req[r]) ELSE Answer(r, "400")
  /\ Reads

\* Agents other than administrators are asked to verify; see Verification.
admin_bypass(r) ==
  /\ At(r, "bypass")
  /\ IF Role[req[r].who] = "admin" THEN Continue(r, req[r]) ELSE Answer(r, "202")
  /\ Reads

\* A topic whose board cannot be found is not protected.
fetch_topic_board_id(r) ==
  /\ At(r, "topic_board")
  /\ \/ Continue(r, req[r])
     \/ /\ Faults \cap {"refused", "unreadable"} # {}
        /\ req' = [req EXCEPT ![r].todo = <<"show">>, ![r].unchecked = @ \cup {"access"}]
  /\ Reads

\* Lists of boards, as one of the boards sees them: it is shown or left out.
load_board_access(r) ==
  /\ At(r, "rules") \/ At(r, "rules_if_any")
  /\ \/ IF IsAdmin(req[r]) \/ LetsIn(req[r].board, user_groups(req[r]))
        THEN Continue(r, req[r]) ELSE Answer(r, "200")
     \/ At(r, "rules") /\ Fails(r, "500")
     \/ /\ \/ "unreadable" \in Faults
           \/ At(r, "rules_if_any") /\ "refused" \in Faults
        /\ Continue(r, [req[r] EXCEPT !.unchecked = @ \cup {"access"}])
  /\ Reads

\* The last query of a reader.
Show(r) ==
  /\ At(r, "show")
  /\ \/ /\ Answer(r, "200")
        /\ written' = [written EXCEPT ![r] = @ \cup {"shown"}]
     \/ Fails(r, "500") /\ UNCHANGED written
  /\ UNCHANGED <<banVars, boardVars, edits>>

-----------------------------------------------------------------------------
(* Writing.  Humans are awarded points when all is written; a failure of    *)
(* that (see Points) is only logged.                                       *)

Failed(r) == Answer(r, IF req[r].handler = "demo_post" THEN "500" ELSE "400")

create_topic(r) ==
  /\ At(r, "topic")
  /\ \/ /\ Continue(r, req[r]) \/ ("lost" \in Faults /\ Failed(r))
        /\ written' = [written EXCEPT ![r] = @ \cup {"topic"}]
     \/ "refused" \in Faults /\ Failed(r) /\ UNCHANGED written
  /\ UNCHANGED <<banVars, boardVars, edits>>

\* As if a failed first post was taken for a topic without one.
CreatePostOptional(r) ==
  /\ At(r, "post")
  /\ \/ /\ Answer(r, "201") \/ ("lost" \in Faults /\ Failed(r))
        /\ written' = [written EXCEPT ![r] = @ \cup {"post"}]
     \/ "refused" \in Faults /\ Answer(r, "201") /\ UNCHANGED written
  /\ UNCHANGED <<banVars, boardVars, edits>>

create_post_in_topic(r) ==
  /\ At(r, "post")
  /\ \/ /\ Answer(r, "201") \/ ("lost" \in Faults /\ Failed(r))
        /\ written' = [written EXCEPT ![r] = @ \cup {"post"}]
     \/ "refused" \in Faults /\ Failed(r) /\ UNCHANGED written
  /\ UNCHANGED <<banVars, boardVars, edits>>

Disconnect(r) ==
  /\ "disconnect" \in Faults
  /\ req[r].todo # <<>>
  /\ Answer(r, "gone")
  /\ Reads
-----------------------------------------------------------------------------
(* Administrators.                                                         *)

update_board_access(b, groups) ==
  /\ access' = [access EXCEPT ![b] = groups]
  /\ UNCHANGED <<banVars, perms>>

update_board_permissions(b, allow) ==
  /\ perms' = [perms EXCEPT ![b] = allow]
  /\ UNCHANGED <<banVars, access>>

Administration ==
  /\ edits < MaxEdits
  /\ edits' = edits + 1
  /\ \/ BansChange /\ UNCHANGED boardVars
     \/ \E b \in Boards, groups \in AccessLists : update_board_access(b, groups)
     \/ \E b \in Boards, allow \in Grants : update_board_permissions(b, allow)
  /\ UNCHANGED <<req, written>>

-----------------------------------------------------------------------------
(* The rules a request is subject to, and whether they let it through now.  *)

\* Agents are only refused access, moderators post whatever else a rule says.
Forbids(rule, rq) ==
  \/ rule.cannot_access
  \/ rule.cannot_post /\ rq.handler \in Humans /\ Role[rq.who] = "member"

\* Replies are read with their topic, whatever board their own row names.  But
\* nothing compares the board that a human's reply names with its topic's.
Misplaced(rq) == rq.handler = "create_post" /\ rq.board # rq.topic

\* The board whose rules a request is held to.
RuledBy(rq) == IF rq.handler \in Replies /\ ~Misplaced(rq) THEN rq.topic ELSE rq.board

LetsThrough(rule, rq) ==
  \/ Role[rq.who] = "admin"
  \/ rule = "ban" /\ (Hits(rq.who) = {} \/ \E id \in FirstHits(rq.who) : ~Forbids(rules[id], rq))
  \/ /\ rule = "access" /\ RuledBy(rq) # Elsewhere
     /\ LetsIn(RuledBy(rq), user_groups(rq))
  \/ /\ rule = "permission"
     /\ \/ Role[rq.who] = "mod"
        \/ RuledBy(rq) # Elsewhere /\ Needs(rq.handler) \in General \cup perms[RuledBy(rq)]

Required(rq) ==
  CASE rq.handler \in Humans -> {"ban", "access", "permission"}
    [] Head(Calls[rq.handler]) = "guest" -> {"access"}
    [] OTHER -> {"ban", "access"}

Deciding(r) == req[r] # Idle /\ req[r].reply = "none" /\ written[r] = {}

Watch ==
  since' = [r \in Requests |->
    IF Deciding(r)' THEN since[r] \cup {rule \in Required(req[r])' : LetsThrough(rule, req[r])'}
    ELSE since[r]]

Step(r) ==
  \/ ensure_user_ctx(r) \/ ensure_guest_ctx(r) \/ Guards(r)
  \/ ensure_board_access(r) \/ load_permissions(r) \/ general_permissions(r)
  \/ board_permissions(r) \/ get_topic(r) \/ same_board(r) \/ admin_bypass(r)
  \/ fetch_topic_board_id(r) \/ load_board_access(r) \/ Show(r)
  \/ create_topic(r) \/ create_post_in_topic(r) \/ Disconnect(r)

PostingNext ==
  /\ \/ \E r \in Requests : Step(r)
     \/ \E r \in Requests, h \in Handlers, m \in Callers, b \in Boards, t \in Boards \cup {Elsewhere} :
          Start(r, h, m, b, t)
     \/ Administration
     \/ Tick /\ UNCHANGED <<boardVars, req, written, edits>>
  /\ Watch

PostingSpec == PostingInit /\ [][PostingNext]_vars
-----------------------------------------------------------------------------
(***************************************************************************)
(* What is written or shown was let through by every rule that applies at  *)
(* some moment between the arrival of the request and the write, although  *)
(* bans, boards and permissions are looked up one after the other, bans    *)
(* once or twice, and all of them may change in between.  The rules are    *)
(* those of the board where it is read; only a human's reply that names    *)
(* another board than its topic's obeys the rules of the one it names, and *)
(* may be read in a board that denies its author (Misplaced).  Other       *)
(* exceptions are the ones the code makes: rows it could not read count as *)
(* no rules, and agents are served when the check of bans fails.  Humans   *)
(* who post are not, for their bans are then looked up a second time.      *)
(***************************************************************************)
RulesAreObeyed ==
  \A r \in Requests : written[r] # {} =>
    \A rule \in Required(req[r]) :
      \/ rule \in since[r] \cup req[r].unchecked
      \/ rule = "ban" /\ req[r].handler \notin Humans /\ "unenforced" \in req[r].unchecked

(***************************************************************************)
(* Answers tell what has been written: everything the request asked for    *)
(* after 201, nothing after a refusal.  Only a request that ends in 400,   *)
(* or one nobody waits for, may leave a topic without its first post.      *)
(***************************************************************************)
AnswersAreTrue ==
  \A r \in Requests :
    req[r] # Idle =>
    LET asked == {call \in {"topic", "post"} :
                    \E i \in DOMAIN Calls[req[r].handler] : Calls[req[r].handler][i] = call}
    IN /\ req[r].reply = "201" => written[r] = asked
       /\ req[r].reply \in {"202", "403", "404"} => written[r] = {}
       /\ written[r] = {"topic"} /\ req[r].reply # "none" => req[r].reply \in {"400", "gone"}
=============================================================================
