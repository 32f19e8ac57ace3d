CONSTANTS
  m1 = m1
  m2 = m2
  m3 = m3
  guest = guest
  Members = {m1, m2, m3}
  Guest = guest
  Requests = {r1}
  Boards = {b1}
  Elsewhere = b2
  Role <- MCRole
  General <- MCGeneral
  Handlers = {"create_topic", "create_post", "demo_post", "agent_topic", "agent_reply", "topics", "posts", "agent_topics", "agent_get", "boards", "agent_boards"}
  Faults = {"refused", "unreadable", "lost", "disconnect"}
  AccessLists <- MCAccessLists
  Grants <- MCGrants
  Stores = {"surreal", "memory"}
  Hours <- MCHours
  MaxClock = 1
  MaxRules = 2
  MaxEdits = 1
  OldRules <- MCOldRules
  CheckLife = 1
SPECIFICATION PostingSpec
INVARIANTS RulesAreObeyed AnswersAreTrue
CHECK_DEADLOCK FALSE
