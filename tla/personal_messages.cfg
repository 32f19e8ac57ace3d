CONSTANTS
  m1 = m1
  m2 = m2
  Members = {m1, m2}
  Senders = {m1}
  Labellers = {m1}
  Nobody = nobody
  System = system
  Requests = {r1, r2}
  Stores = {"memory", "surreal"}
  Lists <- MCLists
  Labels = {1}
  PerHour <- MCPerHour
  MaxRecipients = 2
  MaxMessages <- MCMaxMessages
  MaxClock = 1
  MaxActs = 2
  Faults = {"refused", "unreadable", "unnoticed"}
SYMMETRY MCSymmetry
SPECIFICATION MailSpec
INVARIANTS SentIsDelivered HourlyLimit TakenOffIsGone
CHECK_DEADLOCK FALSE
