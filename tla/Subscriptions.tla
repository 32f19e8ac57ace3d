---------------------------- MODULE Subscriptions ----------------------------
(***************************************************************************)
(* What members want to hear of: subscriptions of boards and topics with   *)
(* their alert preferences, whom they ignore and how they are alerted, and *)
(* the notifications of the API.                                           *)
(*                                                                         *)
(* Handlers are sequences of calls of the store.  In memory each call is   *)
(* one step, under a mutex; with SurrealDB a call may be several queries,  *)
(* and nothing holds a handler's calls together.  A query whose text the   *)
(* server does not accept is one that is refused every time.               *)
(*                                                                         *)
(* Dropped: last_msg_id of topic logs, which no handler changes; who may   *)
(* send to a member (receive_from); the defaults of alert preferences,     *)
(* which have no entry for a single board or topic; templates and texts.   *)
(***************************************************************************)
EXTENDS Calls, SequencesExt

CONSTANTS
  Subscribers,  \* members whose subscriptions change
  Admin,      \* may address a notification to anybody
  Boards, Topics,
  Readers,    \* sequences of members to notify of a post
  PageSize,   \* notifications in a list
  MaxNotes    \* bound on notifications

Items == Boards \cup Topics

(***************************************************************************)
(* refused:    a query fails and has no effect; the request answers so.    *)
(* lost:       a query has its effect and reports failure.                 *)
(* unreadable: rows that were read fail to decode and read as none.        *)
(***************************************************************************)
ASSUME SubscriptionsAssumption ==
  /\ Admin \in Members /\ Subscribers \subseteq Members
  /\ Boards \cap Topics = {}
  /\ IsFiniteSet(Members) /\ IsFiniteSet(Boards) /\ IsFiniteSet(Topics)
  /\ Stores \subseteq {"memory", "surreal"}
  /\ Readers \subseteq Seq(Members)
  /\ PageSize \in Nat \ {0} /\ MaxNotes \in Nat /\ MaxActs \in Nat
  /\ Faults \subseteq {"refused", "lost", "unreadable"}

VARIABLES
  has_prefs,  \* whether members have a row in alert_prefs of SurrealDB
  subs,       \* board_notifications and topic_notifications
  log,        \* topic_logs: whether a topic is unwatched
  prefs,      \* alert_prefs, by board or topic
  ignored,    \* pm_ignore_lists
  levels,     \* notify_level of pm_preferences: who is alerted
  notes,      \* notifications of the API, in the order of their creation
  wished,     \* history: whom members ignore, as far as answers tell
  overlapped  \* history: members whose requests overlapped or failed

settings == <<ignored, levels, wished>>
choices == <<subs, log, prefs>>
subscriptionsVars == <<store, has_prefs, choices, settings, notes, overlapped, req, acts>>
-----------------------------------------------------------------------------
None == -1     \* no entry

\* TopicLogEntry, as far as it matters.
TopicLogEntry == {"none", "watched", "unwatched"}

\* PmPreferenceState: the bit of notify_level for alerts (the other, for
\* e-mail, sends nothing).
PmPreferenceState == BOOLEAN

\* SurrealNotification; told: its author was answered 201.
Notification == [user: Members, is_read: BOOLEAN, told: BOOLEAN]

\* Without a row the stores disagree on the level.
get_pm_preferences == store = "memory"

SubscriptionsInit ==
  /\ store \in Stores
  /\ has_prefs \in BOOLEAN
  /\ store = "memory" => has_prefs
  /\ subs = {}
  /\ log = [m \in Members |-> [t \in Topics |-> "none"]]
  /\ prefs = [m \in Members |-> [i \in Items |-> None]]
  /\ ignored = [m \in Members |-> {}]
  /\ levels = [m \in Members |-> get_pm_preferences]
  /\ notes = <<>>
  /\ wished = ignored
  /\ overlapped = {}
  /\ req = [r \in Requests |-> Idle]
  /\ acts = 0

\* A request that makes the calls of todo for a member.
Doing(m) == {r \in Requests : req[r].stage = "calls" /\ req[r].who = m}

Begin(r, m, todo) ==
  /\ Act /\ req[r] = Idle
  /\ Become(r, [stage |-> "calls", who |-> m, todo |-> todo])
  /\ overlapped' = IF Doing(m) = {} THEN overlapped ELSE overlapped \cup {m}
  /\ UNCHANGED <<store, has_prefs, notes>>
-----------------------------------------------------------------------------
(* Subscriptions: notify.rs and profile_notifications.rs. *)

SetPrefs(items, value) == [op |-> "set_alert_prefs", items |-> items, value |-> value]
DeletePrefs(items) == [op |-> "delete_alert_prefs", items |-> items]
SaveLog(t, unwatched) == [op |-> "save_topic_log", topic |-> t, unwatched |-> unwatched]
PutOn(i) == [op |-> "add", item |-> i]
TakeOff(items, alone) == [op |-> "remove", items |-> items, alone |-> alone]
Normalize(i) == [op |-> "normalize_mode", item |-> i]

\* As if a mode of 1 were a preference too.
AlertOfOne(mode) == IF mode <= 0 THEN 0 ELSE IF mode <= 2 THEN 1 ELSE 3

alert_value(mode) == IF mode <= 1 THEN 0 ELSE IF mode = 2 THEN 1 ELSE 3

board_notify_calls(i, mode) ==
  <<SetPrefs({i}, alert_value(mode)), IF mode > 1 THEN PutOn(i) ELSE TakeOff({i}, TRUE)>>

topic_notify_calls(i, mode) == <<SaveLog(i, mode = 0)>> \o board_notify_calls(i, mode)

NotifyCalls(i, mode) ==
  IF i \in Topics THEN topic_notify_calls(i, mode) ELSE board_notify_calls(i, mode)

\* A mode of -1 depends on the preference; `off` asks for it.
NotifyStart(i, mode) == IF mode = -1 THEN <<Normalize(i)>> ELSE NotifyCalls(i, mode)

\* A link carries a token for one member and one board or topic.  With
\* SurrealDB no member has an e-mail address, and no token is accepted.
resolve_member(link) == link => store = "memory"

board_notify(r, m, b, mode, link) ==
  /\ resolve_member(link)
  /\ Begin(r, m, NotifyStart(b, mode))
  /\ UNCHANGED <<choices, settings>>

topic_notify(r, m, t, mode, link) ==
  /\ resolve_member(link)
  /\ Begin(r, m, NotifyStart(t, mode))
  /\ UNCHANGED <<choices, settings>>

\* remove_board_notifications and remove_topic_notifications: one call in
\* memory, one for each with SurrealDB.
Removals(items) ==
  IF store = "memory" THEN <<TakeOff(items, FALSE)>>
  ELSE LET list == SetToSeq(items) IN [n \in DOMAIN list |-> TakeOff({list[n]}, TRUE)]

\* The profile page takes boards off, or forgets their preferences.
process_board_changes(r, m, bs, edit) ==
  /\ bs # {}
  /\ Begin(r, m, IF edit THEN Removals(bs) ELSE <<DeletePrefs(bs)>>)
  /\ UNCHANGED <<choices, settings>>

process_topic_changes(r, m, ts, edit) ==
  /\ ts # {}
  /\ Begin(r, m, IF edit THEN Append(Removals(ts), SetPrefs(ts, 0)) ELSE <<DeletePrefs(ts)>>)
  /\ UNCHANGED <<choices, settings>>

\* SurrealDB replaces all preferences of a member who has a row, and makes
\* no row for one who has none.
set_alert_prefs(m, items, value) ==
  prefs' = IF ~has_prefs THEN prefs
           ELSE [prefs EXCEPT ![m] = [i \in Items |->
                   IF i \in items THEN value ELSE IF store = "memory" THEN @[i] ELSE None]]

delete_alert_prefs(m, items) ==
  prefs' = [prefs EXCEPT ![m] = [i \in Items |-> IF i \in items THEN None ELSE @[i]]]

save_topic_log(m, t, unwatched) ==
  log' = [log EXCEPT ![m][t] = IF unwatched THEN "unwatched" ELSE "watched"]

add_notification(m, i) == subs' = subs \cup {<<m, i>>}

\* In memory a single removal leaves the log of the topic.
remove_notifications(m, items, alone) ==
  /\ subs' = subs \ {<<m, i>> : i \in items}
  /\ log' = IF store = "memory" /\ alone THEN log
            ELSE [log EXCEPT ![m] = [t \in Topics |-> IF t \in items THEN "none" ELSE @[t]]]

fetch_alert_prefs(m, i) == prefs[m][i]

\* No preference is one of 0.
get_notify_prefs(m, i) == IF fetch_alert_prefs(m, i) = None THEN 0 ELSE fetch_alert_prefs(m, i)

list_board_notifications(m) == {b \in Boards : <<m, b>> \in subs}

list_topic_notifications(m) == {t \in Topics : <<m, t>> \in subs}

Choose(m, c) ==
  /\ \/ /\ c.op = "set_alert_prefs"
        /\ set_alert_prefs(m, c.items, c.value)
        /\ UNCHANGED <<subs, log>>
     \/ /\ c.op = "delete_alert_prefs"
        /\ delete_alert_prefs(m, c.items)
        /\ UNCHANGED <<subs, log>>
     \/ /\ c.op = "save_topic_log"
        /\ save_topic_log(m, c.topic, c.unwatched)
        /\ UNCHANGED <<subs, prefs>>
     \/ /\ c.op = "add"
        /\ add_notification(m, c.item)
        /\ UNCHANGED <<log, prefs>>
     \/ /\ c.op = "remove"
        /\ remove_notifications(m, c.items, c.alone)
        /\ UNCHANGED prefs
  /\ UNCHANGED settings
-----------------------------------------------------------------------------
(* Whom members ignore and how they are alerted: profile_actions.rs. *)

\* Posts whose readers are being asked no longer know what m wishes.
Unsure(reqs, ms) ==
  [r \in Requests |->
    IF reqs[r].stage = "notify"
    THEN [reqs[r] EXCEPT !.unwilling = IF reqs[r].author \in ms THEN {} ELSE @ \ ms]
    ELSE reqs[r]]

SavePreferences(level) == [op |-> "save_pm_preferences", level |-> level]
SetIgnored(list) == [op |-> "set_pm_ignore_list", list |-> list]
Clear == [op |-> "delete_ignored"]
Ignore(x) == [op |-> "create_ignored", who |-> x]

\* As if the loop over the members ended before the last.
IgnoreButLast(list) ==
  IF store = "memory" THEN <<SetIgnored(list)>>
  ELSE LET s == SetToSeq(list)
       IN <<Clear>> \o [n \in 1..(IF s = <<>> THEN 0 ELSE Len(s) - 1) |-> Ignore(s[n])]

\* In memory one call; with SurrealDB the list is deleted, then made anew.
set_pm_ignore_list(list) ==
  IF store = "memory" THEN <<SetIgnored(list)>>
  ELSE LET s == SetToSeq(list) IN <<Clear>> \o [n \in DOMAIN s |-> Ignore(s[n])]

Settle(r, m, todo, list) ==
  /\ Act /\ req[r] = Idle
  /\ req' = Unsure([req EXCEPT ![r] =
              [stage |-> "calls", who |-> m, todo |-> todo, list |-> list]], {m})
  /\ overlapped' = IF Doing(m) = {} THEN overlapped ELSE overlapped \cup {m}
  /\ wished' = [wished EXCEPT ![m] = {}]
  /\ UNCHANGED <<store, has_prefs, choices, ignored, levels, notes>>

save_pm_settings(r, m, level, list) ==
  Settle(r, m, <<SavePreferences(level)>> \o set_pm_ignore_list(list), list)

\* The page of alerts saves the level alone.
save(m, level) ==
  /\ Act
  /\ levels' = [levels EXCEPT ![m] = level]
  /\ req' = Unsure(req, {m})
  /\ UNCHANGED <<store, has_prefs, choices, ignored, wished, notes, overlapped>>

Set(m, c) ==
  /\ \/ /\ c.op = "save_pm_preferences"
        /\ levels' = [levels EXCEPT ![m] = c.level]
        /\ UNCHANGED ignored
     \/ /\ c.op = "set_pm_ignore_list"
        /\ ignored' = [ignored EXCEPT ![m] = c.list]
        /\ UNCHANGED levels
     \/ /\ c.op = "delete_ignored"
        /\ ignored' = [ignored EXCEPT ![m] = {}]
        /\ UNCHANGED levels
     \/ /\ c.op = "create_ignored"
        /\ ignored' = [ignored EXCEPT ![m] = @ \cup {c.who}]
        /\ UNCHANGED levels
  /\ UNCHANGED choices

\* Members who are deleted leave all lists.
cleanup_pm_ignore_lists(ms) ==
  /\ Act
  /\ ignored' = [m \in Members |-> IF m \in ms THEN {} ELSE ignored[m] \ ms]
  /\ wished' = [m \in Members |-> IF m \in ms THEN {} ELSE wished[m] \ ms]
  /\ overlapped' = overlapped \cup {m \in Members : Doing(m) # {}}
  /\ req' = Unsure(req, ms)
  /\ UNCHANGED <<store, has_prefs, choices, levels, notes>>
-----------------------------------------------------------------------------
(* The calls of a request, one at a time. *)

Rest(rq) == [rq EXCEPT !.todo = Tail(@)]

\* At the end of save_pm_settings it is known whom its member ignores.
Settled(rq, m) ==
  IF Len(rq.todo) = 1 /\ "list" \in DOMAIN rq /\ m \notin overlapped
  THEN [wished EXCEPT ![m] = rq.list] ELSE wished

Finish(r, rq, after) ==
  IF Len(rq.todo) = 1 THEN [after EXCEPT ![r] = Idle] ELSE [after EXCEPT ![r] = Rest(rq)]

\* normalize_mode: `off` lowers a preference of 3 to one of 2.
normalize_mode(r, rq) ==
  /\ rq.todo[1].op = "normalize_mode"
  /\ \E unreadable \in BOOLEAN :
       /\ unreadable => store = "surreal" /\ "unreadable" \in Faults
       /\ LET i == rq.todo[1].item
              current == IF unreadable THEN 0 ELSE get_notify_prefs(rq.who, i)
          IN Become(r, [rq EXCEPT !.todo = NotifyCalls(i, IF current > 2 THEN 2 ELSE current)])
  /\ UNCHANGED <<store, has_prefs, choices, settings, notes, overlapped, acts>>

Call(r) ==
  LET rq == req[r] IN
  /\ rq.stage = "calls"
  /\ \/ normalize_mode(r, rq)
     \/ /\ Choose(rq.who, rq.todo[1])
        /\ req' = Finish(r, rq, req)
        /\ UNCHANGED <<store, has_prefs, notes, overlapped, acts>>
     \/ /\ Set(rq.who, rq.todo[1])
        /\ wished' = Settled(rq, rq.who)
        /\ req' = Finish(r, rq, Unsure(req, {rq.who}))
        /\ UNCHANGED <<store, has_prefs, notes, overlapped, acts>>

\* The request answers with an error, and is not repeated.
CallFails(r) ==
  LET rq == req[r] IN
  /\ rq.stage = "calls" /\ store = "surreal"
  /\ \/ /\ "refused" \in Faults
        /\ UNCHANGED <<choices, settings>>
     \/ /\ "lost" \in Faults
        /\ \/ Choose(rq.who, rq.todo[1])
           \/ Set(rq.who, rq.todo[1]) /\ UNCHANGED wished
  /\ req' = Unsure([req EXCEPT ![r] = Idle], {rq.who})
  /\ overlapped' = overlapped \cup {rq.who}
  /\ UNCHANGED <<store, has_prefs, notes, acts>>
-----------------------------------------------------------------------------
(* Who is notified of a post or a like: tasks.rs. *)

Unwilling(a) == {m \in Members : a \in wished[m] \/ ~levels[m]}

\* like: of a like, which asks for no link to the author's page.
notify_new_post(r, a, readers, like) ==
  /\ Act /\ req[r] = Idle
  /\ like => Len(readers) = 1
  /\ readers # <<>>
  /\ Become(r, [stage |-> "notify", author |-> a, left |-> readers, next |-> "ignored",
                like |-> like, notified |-> {}, unwilling |-> Unwilling(a)])
  /\ UNCHANGED <<store, has_prefs, choices, settings, notes, overlapped>>

pm_link(a, m) == a # m

get_pm_ignore_list(m, a) == a \in ignored[m]

\* Rows that cannot be read ignore nobody, and ask for nothing.
AskReader(r) ==
  LET rq == req[r]
      m == Head(rq.left)
      onward == IF Len(rq.left) = 1 THEN [rq EXCEPT !.left = <<>>, !.next = "done"]
                ELSE [rq EXCEPT !.left = Tail(@), !.next = "ignored"]
  IN
  /\ rq.stage = "notify"
  /\ \/ /\ rq.next = "ignored"
        /\ Become(r, IF get_pm_ignore_list(m, rq.author) THEN onward ELSE [rq EXCEPT !.next = "level"])
     \/ /\ rq.next = "ignored" /\ store = "surreal" /\ "unreadable" \in Faults
        /\ Become(r, [rq EXCEPT !.next = "level", !.unwilling = @ \ {m}])
     \/ /\ rq.next = "level"
        /\ Become(r, IF levels[m] /\ (rq.like \/ pm_link(rq.author, m))
                     THEN [onward EXCEPT !.notified = @ \cup {m}] ELSE onward)
     \/ /\ rq.next = "level" /\ store = "surreal" /\ "unreadable" \in Faults
        /\ Become(r, onward)
     \/ /\ \/ rq.next = "done"
           \/ store = "surreal" /\ "refused" \in Faults
        /\ Become(r, Idle)
  /\ UNCHANGED <<store, has_prefs, choices, settings, notes, overlapped, acts>>
-----------------------------------------------------------------------------
(* Notifications of the API, one query each. *)

Noted == UNCHANGED <<store, has_prefs, choices, settings, overlapped, req>>

\* Whose name a notification gets.
TargetUser(m, user) == IF m = Admin THEN user ELSE m

create_notification(m, user, outcome) ==
  /\ Act /\ Len(notes) < MaxNotes
  /\ outcome \in {"ok"} \cup (Faults \cap {"refused", "lost"})
  /\ notes' = IF outcome = "refused" THEN notes
              ELSE Append(notes, [user |-> TargetUser(m, user), is_read |-> FALSE,
                                  told |-> outcome = "ok"])
  /\ Noted

\* Anybody marks any notification.
mark_notification_read(n) ==
  /\ Act /\ n \in DOMAIN notes
  /\ notes' = [notes EXCEPT ![n].is_read = TRUE]
  /\ Noted

Newer(n) == {k \in DOMAIN notes : k > n /\ notes[k].user = notes[n].user}

\* The list of a member, by the API or by an agent.
list_notifications(m) == {n \in DOMAIN notes : notes[n].user = m /\ Cardinality(Newer(n)) < PageSize}
-----------------------------------------------------------------------------
Modes == {-1, 0, 1, 2, 3}

SubscriptionsNext ==
  \/ \E r \in Requests, m \in Subscribers :
       \/ \E b \in Boards, mode \in Modes, link \in BOOLEAN : board_notify(r, m, b, mode, link)
       \/ \E t \in Topics, mode \in Modes, link \in BOOLEAN : topic_notify(r, m, t, mode, link)
       \/ \E bs \in SUBSET Boards, edit \in BOOLEAN : process_board_changes(r, m, bs, edit)
       \/ \E ts \in SUBSET Topics, edit \in BOOLEAN : process_topic_changes(r, m, ts, edit)
  \/ \E r \in Requests, m \in Members :
       \/ \E level \in PmPreferenceState, list \in SUBSET (Members \ {m}) :
            save_pm_settings(r, m, level, list)
       \/ \E readers \in Readers, like \in BOOLEAN : notify_new_post(r, m, readers, like)
  \/ \E r \in Requests : Call(r) \/ CallFails(r) \/ AskReader(r)
  \/ \E m \in Members, level \in PmPreferenceState : save(m, level)
  \/ \E m \in Members : cleanup_pm_ignore_lists({m})
  \/ \E m, user \in Members, outcome \in {"ok", "refused", "lost"} :
       create_notification(m, user, outcome)
  \/ \E n \in 1..MaxNotes : mark_notification_read(n)

SubscriptionsSpec == SubscriptionsInit /\ [][SubscriptionsNext]_subscriptionsVars
-----------------------------------------------------------------------------
(***************************************************************************)
(* Subscriptions and alert preferences are kept in different tables, which *)
(* handlers write one after the other.  Whoever is subscribed has not      *)
(* switched the alerts off, and alerts of a topic come with a subscription *)
(* (the page of boards leaves those of boards).  Not so for members whose  *)
(* requests overlapped or failed.                                          *)
(***************************************************************************)
PrefsAgree ==
  \A m \in Members \ overlapped : Doing(m) = {} =>
    /\ \A i \in list_board_notifications(m) \cup list_topic_notifications(m) :
         fetch_alert_prefs(m, i) # 0
    /\ \A t \in Topics : fetch_alert_prefs(m, t) > 0 => t \in list_topic_notifications(m)

\* A notification whose author was answered 201 is in the list of the member
\* it is for, unless the page is full of newer ones.
NotesAreFound ==
  \A n \in DOMAIN notes : notes[n].told =>
    \/ n \in list_notifications(notes[n].user)
    \/ Cardinality(Newer(n)) >= PageSize

\* What the handlers of subscriptions and notifications answered is so.
AnswersHold == PrefsAgree /\ NotesAreFound

(***************************************************************************)
(* Nobody is notified of a post or a like by somebody whom he ignores, or  *)
(* who has alerts switched off, and was so from before the post was made:  *)
(* unless his settings were being saved meanwhile, or could not be read.   *)
(***************************************************************************)
IgnoredAreSilent ==
  \A r \in Requests : req[r].stage = "notify" => req[r].notified \cap req[r].unwilling = {}
=============================================================================
