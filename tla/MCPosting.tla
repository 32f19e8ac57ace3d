------------------------------ MODULE MCPosting ------------------------------
(* Instances of Posting for TLC. *)
EXTENDS Posting, TLC

CONSTANTS m1, m2, m3, guest

MCRole == m1 :> "member" @@ m2 :> "mod" @@ m3 :> "admin" @@ guest :> "member"
MCHours == {0}
MCAccessLists == {{}, {2}, {4}}
MCGrants == {{}, {"post_new", "post_reply_any"}}
MCGeneral == {}
MCOldRules ==
  {[about |-> {m1}, until |-> Forever, cannot_post |-> FALSE, cannot_access |-> FALSE],
   [about |-> {m1, m2}, until |-> Forever, cannot_post |-> TRUE, cannot_access |-> TRUE]}
=============================================================================
