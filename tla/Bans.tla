-------------------------------- MODULE Bans --------------------------------
(***************************************************************************)
(* The rules that ban members (BanRule in src/services/mod.rs), the        *)
(* handlers that write them and the check each session makes               *)
(* (src/security.rs).  One clock stands for all units of time: a rule runs *)
(* out after hours, a check is good for a minute, and the identifier of a  *)
(* rule in SurrealDB is the millisecond it was made in.                    *)
(*                                                                         *)
(* Contexts built by the API know the number of a member but neither the   *)
(* e-mail address nor the address of the connection, so only conditions on *)
(* accounts ever match and a rule is about a set of members.               *)
(***************************************************************************)
EXTENDS Integers, FiniteSets

CONSTANTS
  Members,
  Stores,     \* implementations of ForumService to start with
  Hours,      \* how long a ban may last
  MaxClock,   \* bound on the clock
  MaxRules,   \* bound on the identifiers of the in-memory store
  OldRules,   \* rules one of which may be there already
  CheckLife   \* how long a check is good for; 60 seconds in the code

Forever == 2 * MaxClock + 1  \* the expiry of a rule that has none

ASSUME BansAssumption ==
  /\ Stores \subseteq {"memory", "surreal"}
  /\ MaxClock \in Nat /\ MaxRules \in Nat /\ CheckLife \in Nat
  /\ Hours \subseteq 0..MaxClock

\* The conditions of a rule expire with it, whichever handler makes it.
BanRule == [about: SUBSET Members, until: 0..Forever,
            cannot_post: BOOLEAN, cannot_access: BOOLEAN]

ASSUME OldRulesAssumption == OldRules \subseteq BanRule

VARIABLES
  store,   \* the store in use
  clock,
  rules,   \* a function from identifiers to rules
  next_ban_rule_id  \* the counter of the in-memory store

banVars == <<store, clock, rules, next_ban_rule_id>>
-----------------------------------------------------------------------------
Ids == 1..(MaxClock + MaxRules + 1)

\* A rule bites up to and including the instant it expires at.
Bites(rule, m) == m \in rule.about /\ rule.until >= clock

Hits(m) == {id \in DOMAIN rules : Bites(rules[id], m)}

\* The rules come in the order of their record ids, or of a hash map.
FirstHits(m) ==
  IF store = "memory" THEN Hits(m)
  ELSE {id \in Hits(m) : \A other \in Hits(m) : id <= other}

BansInit ==
  /\ store \in Stores
  /\ clock = 0
  /\ rules \in {<<>>} \cup {<<rule>> : rule \in OldRules}
  /\ next_ban_rule_id = Cardinality(DOMAIN rules) + 1

-----------------------------------------------------------------------------
(* The session of a request: what is_not_banned and ban_permissions keep.  *)

NewSession ==
  [checked |-> -1, active |-> FALSE, cannot_post |-> FALSE, cannot_access |-> FALSE]

\* apply_ban_context; the reason is only shown.
Apply(rule) ==
  [checked |-> clock, active |-> TRUE,
   cannot_post |-> rule.cannot_post, cannot_access |-> rule.cannot_access]

\* is_not_banned answers from the session, whatever the rule would say.
Fresh(s) == s.checked # -1 /\ clock - s.checked < CheckLife

\* What is_not_banned makes of the rules read: the first that bites is
\* applied, without one the marks of an earlier check go.
Checks(m) ==
  IF Hits(m) = {} THEN {[NewSession EXCEPT !.checked = clock]}
  ELSE {Apply(rules[id]) : id \in FirstHits(m)}

\* ban_permissions; the API sets no limits for warnings.
Allows(s, permission) ==
  ~s.cannot_access /\ ~(s.cannot_post /\ permission \in {"post_new", "post_reply_any"})
-----------------------------------------------------------------------------
\* The in-memory store counts; SurrealDB takes the clock, so that two rules
\* of the same instant share an identifier and the second replaces the first.
save_ban_rule(id, rule) ==
  /\ id # 0 => id \in DOMAIN rules
  /\ LET new == IF store = "memory" THEN next_ban_rule_id ELSE clock + 1
         key == IF id = 0 THEN new ELSE id
     IN /\ rules' = [k \in DOMAIN rules \cup {key} |->
                      IF k = key THEN rule ELSE rules[k]]
        /\ IF store = "memory" /\ id = 0
           THEN next_ban_rule_id <= MaxRules /\ next_ban_rule_id' = next_ban_rule_id + 1
           ELSE UNCHANGED next_ban_rule_id
  /\ UNCHANGED <<store, clock>>

\* An administrator bans a member.  A ban from access is one from posting;
\* a ban without any effect is accepted.
apply_ban(m, hours, post, access) ==
  save_ban_rule(0, [about |-> {m}, until |-> clock + hours,
                    cannot_post |-> post \/ access, cannot_access |-> access])

\* An agent does; here a ban has an effect.
agent_apply_ban(m, hours, post, access) ==
  /\ post \/ access
  /\ apply_ban(m, hours, post, access)

\* The ban form: several members, from posting only, with or without expiry.
save_ban(id, ms, until) ==
  /\ ms # {}
  /\ save_ban_rule(id, [about |-> ms, until |-> until,
                        cannot_post |-> TRUE, cannot_access |-> FALSE])

delete_ban_rule(id) ==
  /\ rules' = [k \in DOMAIN rules \ {id} |-> rules[k]]
  /\ UNCHANGED <<store, clock, next_ban_rule_id>>

\* The scheduled task.  In memory it takes the rules that bite for the last
\* time as well.
cleaned_in_memory == {id \in DOMAIN rules : rules[id].until <= clock}

\* The statement for SurrealDB compares the number of a millisecond with a
\* datetime; a server that orders values by their type finds every number
\* smaller and deletes all rules with an expiry.
cleaned_in_surreal ==
  {{id \in DOMAIN rules : rules[id].until < clock},
   {id \in DOMAIN rules : rules[id].until # Forever}}

clean_expired_bans ==
  /\ \E gone \in IF store = "memory" THEN {cleaned_in_memory} ELSE cleaned_in_surreal :
       rules' = [k \in DOMAIN rules \ gone |-> rules[k]]
  /\ UNCHANGED <<store, clock, next_ban_rule_id>>

Tick ==
  /\ clock < MaxClock
  /\ clock' = clock + 1
  /\ UNCHANGED <<store, rules, next_ban_rule_id>>

\* revoke_ban takes the number of the member for that of the rule when the
\* payload has no ban_id; the numbers of members are identifiers as well.
revoke_ban(id) == delete_ban_rule(id)

\* What people do to the rules, and the task that cleans up.
BansChange ==
  \/ \E m \in Members, h \in Hours, post, access \in BOOLEAN :
        apply_ban(m, h, post, access) \/ agent_apply_ban(m, h, post, access)
  \/ \E id \in {0} \cup DOMAIN rules, ms \in SUBSET Members,
        until \in {clock + h : h \in Hours} \cup {Forever} : save_ban(id, ms, until)
  \/ \E id \in DOMAIN rules : revoke_ban(id)
  \/ clean_expired_bans

=============================================================================
