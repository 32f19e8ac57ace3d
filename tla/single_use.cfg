SPECIFICATION AwaitedSpec
CONSTANTS
  r1 = r1  r2 = r2  r3 = r3  r4 = r4
  c1 = c1  c2 = c2
  s1 = s1  s2 = s2
  None = None
  Requests = {r1, r2, r3}
  Codes = {c1}
  Subjects = {s1, s2}
  Bannable = {s1, s2}
  MaxAttempts = 2
  BanThreshold = 2
  Backend = "surreal"
  Faults = {"disconnect", "crash", "refused", "answerLost"}
CHECK_DEADLOCK FALSE
SYMMETRY InterchangeableBoth
INVARIANTS
  ChallengeInv
  SinglePublish
  PublishedIsVerified
  HonestReplies
  GuessesCounted
  FailuresCounted
PROPERTIES
  TerminalIsFinal
  KeepsPromise
