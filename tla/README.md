# Formal models of SoulForum

SoulForum is a forum server in Rust (axum, SurrealDB) with an API for agents.
This directory holds TLA+ models of its stateful parts, TLC configurations that
check them on small instances and TLAPS proofs for all instances.

Paths below are relative to the repository; `verification.rs` is
`src/agent/verification.rs`.

## The system

| part | state | operations | what must hold | status |
|---|---|---|---|---|
| agent verification (`src/agent/verification.rs`, `handlers/verify.rs`) | challenge rows, failure streaks, ban rules, a lock per challenge, one future per request | issue, submit, expire, count failures, ban, publish | a challenge publishes once; three guesses; only its owner; bans are earned | modelled, proved |
| lock registry (`verification.rs:57-151`) | map of code to counted async mutex | acquire, drop, cancel | one holder per code; waiters are served | modelled, proved |
| stores (`src/services/mod.rs`, `src/services/surreal.rs`) | tables or maps behind `ForumService` | single-statement reads and writes | conditional consume; answers match effects | with the parts that use them |
| points (`src/points.rs`, `api/points_routes.rs`, awards in `api/forum_routes.rs`) | balances, ledger | create an event, read balance, list, leaderboard | a key counts once, balance = clamped sum of the ledger, a 201 has its event | modelled, proved |
| users, administrator role (`src/surreal.rs`, `api/auth.rs`, `api/admin_routes.rs`) | user rows, a role kept by the identity service | ensure_user, transfer_admin, appoint and dismiss | who administers is entitled to; a transfer neither loses nor doubles the role; role, groups and permissions of a row agree | modelled except registration, proved |
| bans (`src/security.rs`, `manage_bans.rs`, `handlers/moderation.rs`, `scheduled.rs`) | rules, what a session remembers of a check | apply, save, revoke, clean, check | nobody is served against a rule that held all along | modelled but for the log of hits |
| posting by the API and agents (`api/forum_routes.rs`, `handlers/topic.rs`, `api/guards.rs`) | topics, posts, allowed groups and permissions of boards | eleven handlers, two administrative ones | the same for boards and permissions; answers tell what was written | modelled |
| personal messages (`personal_messages.rs`, `pm_ops.rs`, `handlers/pm.rs`, stores) | rows per owner, labels, times of sending | send, delete, prune, clear, label | delivered to all or not called sent; hourly limit; what is taken off a message is gone | modelled but for read marks, search, names |
| membergroups, members (`subs_membergroups.rs`, `manage_membergroups.rs`, `profile_*.rs`) | groups, records of members | add, delete, join, leave, delete member | groups go everywhere; an administrator stays | modelled |
| subscriptions and notifications (`notify.rs`, `subs_notify.rs`, `tasks.rs`, `api/notification_routes.rs`) | subscriptions, preferences, ignore lists, notifications | subscribe, page saves, announce, list, mark | subscriptions and preferences agree; the ignored are silent | modelled but for announcements and digests |
| rate limiter (`api/state.rs`) | window per key | check | bound per period | modelled |
| attachments (`attachments.rs`, `api/attachment_routes.rs`) | files, rows, usage of a directory | upload, tell, process, assign, remove | files served as they were sent; quota | modelled but for types and thumbnails |
| classic posting, drafts, polls, mentions (`controller/post.rs`, `post_ops.rs`, `drafts.rs`, `poll.rs`, `mentions.rs`) | topics, messages, drafts, polls, mentions | post, edit, save, vote, mention | what was saved is kept, votes count | modelled but for events, approval, locking |
| connection to SurrealDB (`src/surreal.rs`, `bin/api.rs`) | a client, its session and clones | sign in, repeat, reconnect, refresh | a repeated write happens once and at home; errors are earned | modelled, one operation of each form |
| display, calendar, news, templates, settings | none of their own | page assembly, single-record reads and writes | - | not modelled |
| frontend, DTOs, migrations | none | - | - | not modelled |

An HTTP handler runs as a future on a multi-threaded runtime. Handlers share the
database and a few process-wide maps. Calls of `ForumService` block and run in
`spawn_blocking`; they are not cancelled when the client disconnects and the
future is dropped. Calls of the publishing client are awaited directly. Outside
`create_points_event` there are no transactions: a handler is a series of database calls, and anything may
come between two of them. The hazards that follow from this are listed in
`PROJECT.json`.

## Modules

**`Verification`** models `submit_verification` (`verification.rs:62-110`) with
`issue_challenge`, the database calls it makes and the preflight of
`handlers/verify.rs`. Each `await` ends a step. A request is at one of the
steps named after its next call; the early returns of the code are `Answer`
with the status the client gets, which also drops the lock guard. `challenge`,
`streak`, `banned`, `topics` and `posts` are the database; `copy`, `late` and
`seen` are locals of the future; `holder` is the lock.

What may go wrong is chosen by `Faults`: a client disconnects (the future and
its lock go, a blocking job stays), the process dies, a call fails without
effect, a call takes effect and reports failure, a statement fails in a query
that is reported as successful. Reauthentication and reconnection inside one
database call, which module `Connection` has in detail, are folded into these outcomes. The challenge text, parsing of
payloads and answers are abstracted to "the answer is right or not"; time is
abstracted to `past`, the challenge has expired.

`AwaitedSpec` is `Spec` without the behaviours in which a client goes away while a
blocking job of its request is under way (`JobsAwaited`). The code does not prevent
them, and one of them breaks the challenge (see below); `AwaitedSpec` says how much
they cost, since everything else may happen in it: clients leave at any other time,
queries of the publishing client are abandoned half-way, calls fail and the server dies.

**`SingleUse`** is what a challenge promises without requests: issued, guessed at
most `MaxAttempts` times, ended for good, published at most once.
`KeepsPromise` says `Verification` implements it, with the status and attempts
of the rows as the mapping.

**`ChallengeLocks`** models `VERIFICATION_CHALLENGE_LOCKS`: the registry, the
counted references, the queue of each async mutex, the `Drop` of the guard in
its three parts (give the mutex back, look at the registry, drop the
reference), and clients that go away while waiting. tokio's mutex is external
and modelled as a first-come queue. **`KeyedMutex`** is its promise, one lock per
code: `ChallengeLocks` implements it (`ImplementsMutex`), and `Verification`, whose
`holder` is that lock, goes by it (`UsesMutex`). That joins the two modules.

**`Points`** models `create_points_event` (`src/points.rs:192-312`) and its two kinds of
callers: the handlers that award a topic or a reply, which log a failure and go
on, and the points API, which repeats the whole call after signing in again and
once more over a new connection. Each of the four queries (look the key up,
the transaction, reload the event, read the balance) is a step. `ledger` is
`points_events` in the order of the transactions, `balance` is `user_points`
with karma and merit as one number, since the code treats both alike. `Faults`
chooses among refused queries, lost answers, transactions that are cancelled
without the code looking (it drops the response), rows that cannot be decoded
(taken for no rows) and disconnecting clients. The reload compares
`meta::id(id)` with `type::thing(..)`, a string with a record id on some server
versions; `ComparesIds` says whether that is ever true. If it is not, an event
without a key is counted and then answered by an error. Validation is reduced to
the check that a payload changes something.

**`AdminRole`** models `ensure_user` (`src/surreal.rs:812-894`), with which every
handler starts, and the handlers that change the row of another user:
`transfer_admin` (promote, then demote the initiator) and the four that appoint
or dismiss a moderator, by number or by record, which read a row and write its
role back. A row is its role, because the permission `manage_boards` comes and
goes with `admin`; tokens that carry such a permission are left to `Membership`, and the
claim `none` stands for a token with neither role nor permissions. `copy` is the
role a request has read last. A refused session repeats `ensure_user` from its
start; updates of `admin_routes.rs` are taken for done when the query as a whole
succeeds (`Unnoticed`). Three variables are history: `entitled`, who was given
the role by right, `orderly`, no two changes have overlapped and no failure went
unnoticed, and `calm`, no two requests have overlapped and nothing failed. Calls come
again and again; nothing bounds their number.

**`Bans`** models the rules (`BanRule`), the three ways to write one (a ban of a
member by an administrator or an agent, the ban form), revoking, the scheduled
cleaning, and the check `is_not_banned` with what it leaves in the session. In
SurrealDB a rule is named by the millisecond it was made in, so two of one
instant share a name. Contexts of the API carry neither an e-mail address nor
an IP address; conditions on these never match there and are left out.

**`Posting`** extends it by the handlers that read and write in boards. A handler is the
sequence of its calls (`create_surreal_topic == <<"bans", "guards", ...>>`), a
call is a step, and administrators change bans, allowed groups and permissions
between any two. `since` is history: the rules that have let a request through at some
moment since it arrived; `unchecked` are those the code lets pass because a row could not be read.
`RulesAreObeyed` compares the two with what was written or shown. A reply names a board beside its topic. Its
rules are those of the topic's board, where it is read (`RuledBy`); a human's reply for which the two differ is
`Misplaced`, and is only held to the rules of the board that it names.

**`PersonalMessages`** has the four ways to send (API, administrators' notices, agents,
the controller), with SurrealDB row by row and in memory at once, what owners do
with their rows, and labels, whose removal is one query for the list, one to
read the messages that have it, and one for each of them. Nobody asks whether a label that is
put on a message exists. The responses of these statements are dropped unread, so each may fail
without anybody noticing (`LoseRow`, `Unnoticed`). What SurrealDB says of the last hour is none or one
(`count_pm_sent_since`): its `count()` is not grouped and gives one row of one for each message. `msgs`, `put` (the
labels that members have asked for) and `mixed` are history.

**`Membership`** models groups and their members in the in-memory store as the
controllers change them, call by call, and in SurrealDB the rows of users as the
administrators' handlers change them, with the role `docs_admin` that another
service keeps. `AdminRole` has the details of the administrator's role, and
`Membership` takes them as one step. Rows are as `create_user` stores them: a token's role and
permissions go into the row as they are, together or not (`Tokens`, `claimed`), and a token with
`manage_boards` opens the administrators' handlers whatever the row says.

**`Subscriptions`** models subscriptions of boards and topics as the calls a
handler makes (log, preference, list), the pages that change several at once,
ignore lists, alert levels, the announcement of a post to its readers one by
one, and the notifications of the API.

**`Calls`** is what the modules about members share: requests that go on call by call with one of the two
stores (`req`, `store`), and the bound on what they begin (`acts`).

**`RateLimiter`** is `allow` and its windows. **`Uploads`** extends it by the attachments
of the API (a name is looked for, a file and a row are written) and by those of
the classic store with their quota. `fs::write` runs in a thread of its own, so a client that goes away during it
leaves a write behind (`ClientLeaves`). **`Drafts`** extends that by drafts and polls, whose
statements may fail unnoticed (`missed` counts those for options and votes), and
**`ClassicPosting`** by posts and mentions; it has the next-state relation of all four, since
they share the store and its clock. The uploads and the limiter belong to the server of the API, which
is a process of its own and the third value of `store`.

**`Connection`** models the client of SurrealDB: a session has a token and a
database; a request uses a clone, which shares the session or has its own
(`sharing`: the library is external, both are checked). An operation is a record that says
whether it writes, which errors it answers by signing in again and what it does
then; operations of one form are one value. `reauth_from_env` tries its
candidates one after the other, a step each, and the last ones select other databases. A client may lose its
namespace at any time, with a server that is well in every other respect (`Forget`, as the comment at
`surreal.rs:518` has it). `calm` says that the server is reached and accepts the user of the environment, and
`late` that a token or namespace was lost after the last sign-in of a request.

**`MC...`** modules hold model values and symmetry. **`VerificationProofs`**, **`ChallengeLocksProofs`**,
**`PointsProofs`**, **`OfficesProofs`** (of `AdminRole` and `Membership`), **`ConnectionProofs`**,
**`ClassicPostingProofs`**, **`PostingProofs`**, **`MessagesProofs`** (of `PersonalMessages` and `Subscriptions`) hold
the proofs. Proofs about two modules extend both, so the names of the two differ (`RoleNext`, `MembershipNext`).

Operators marked `Mutant of` or `As if` repeat a definition with a plausible mistake; each
property is violated when its mutant takes the definition's place.

## Runs

| run | instance | shows |
|---|---|---|
| `single_use` | 3 requests, 1 code, 2 agents, 2 attempts, ban at 2; disconnects but for awaited jobs, crashes, refused calls and lost answers | the row is used once, is guessed at most twice, terminal rows stay, replies are honest, every 400 is in the streak, `SingleUse` is implemented |
| `all_faults` | 2 requests, 2 agents (one cannot be banned), all faults, fair | no early ban, owner-only verification, every submission ends, a verified challenge is published or somebody was told of an error |
| `replay_after_disconnect` | 3 requests, disconnects | ends in a counterexample, see below |
| `locks` | 3 requests, 2 codes, 4 mutexes, fair | exclusion, the inductive invariant, `KeyedMutex` is implemented, waiters are served |
| `points` | 2 requests, 1 member, 1 key, deltas -2, 0 and 1, two instants, all faults, fair | an idempotency key counts once; the balance is the ledger summed up with clamping; what is answered 201 is in the ledger; repetitions end |
| `admin_role` | 2 calls at a time, any number in a row, 2 users, tokens with and without a role, all faults | administrators are entitled; orderly changes never leave the forum without one; quiet calls never leave two; a transfer answered 200 has happened |
| `posting` | 1 request of any of 11 handlers, 3 members and a guest, 1 board and a topic there or elsewhere, 1 administrative change and 1 tick in between, old rules, both stores, all faults | no rule that held all along is broken; answers are true |
| `personal_messages` | 2 requests, 2 members, 3 messages in memory and 2 with SurrealDB to one or two of them, 1 label, 2 acts (deletions, labellings, lost rows, a tick), both stores, all faults | recipients have what was answered or stands under Sent, but for rows lost unnoticed; an hourly limit of 2 in memory and of 1 with SurrealDB, but for races; labels taken off are gone |
| `membership` | 2 requests and steps in between, 3 calls, 2 members, rows as tokens claim them or not, groups 1 to 5, both stores, all faults | rows of users agree with themselves, answers about the documents' role are true, groups go everywhere, an administrator stays |
| `subscriptions` | 2 requests, 3 calls, 1 board, 2 topics, 2 members, both stores, all faults | subscriptions, preferences and notifications hold; the ignored are silent |
| `classic_posting` | 2 requests, 3 calls beside refused ones, 3 instants with windows of 2, 2 authors, 1 name, 2 sizes, 2 options, all faults | files, quota and rates are kept; drafts, votes and mentions are kept |
| `connection` | 2 requests and the refresh, 4 candidates, 3 calls or expiries, 1 fault, clones of both kinds | a write happens once and in the home database; operations that sign in again fail only by what was lost since, or by an error they do not answer |

Bounds. Three requests are the fewest with which a stale row can hurt: one that
is late with its write, one that verifies, one that replays; and three is one more
than the attempts. One code is enough because the rows of
two codes share only the streak, and `FailuresCounted` speaks of agents who answer one; its proof has any number of
codes. A
threshold of two bans instead of ten keeps the ban within reach of the
submissions; the proofs have no such bound. Four mutexes are one more than three
requests can refer to. Requests in `Verification` submit once, so the
system stops when all are done: its runs do not check deadlock, and neither do those of the modules with a
bounded number of calls. Requests of
`ChallengeLocks` come again and its runs do check it.

`Points` needs two requests, because a key is at risk
from two calls that both find nothing, and a repeated call is a third; a second
member would only have a second, separate sum. The loss is larger than the gain
so that the order of events matters, and a clock of two instants has both
events of one millisecond and later ones.

In `AdminRole` two calls at a time are enough for any pair of them to overlap, and
since calls follow each other without end, histories of any length are covered.
Two users are an initiator and a target. `MaxTries` is 2 instead of 3.

In `Posting` no request writes what another reads, so one at a time is enough:
its opponents are the administrators. One change and one tick suffice to let a
ban, a group or a permission come or go between two calls. In
`PersonalMessages` the messages are one more than the hourly limit of their
store, and two acts are a label put on a message and taken from the list, or a row lost and a tick. In
`Membership`, `Subscriptions` and `ClassicPosting` two requests of several calls
overlap while a third call comes between; three calls are also the
shortest histories that give, change and take (a group, a preference, a
file's name). `ClassicPosting` has two options in a ballot and two sizes that
fit the quota one by one but not together; ticks and calls that are admitted and then refused cost no act, so that a
window expires between admitted calls and the bound of `RateKept` is reached across its border. In `Connection` one fault and three events
reach the last candidates, a token that expires during the retry, and the new
client; more faults only repeat these. All counters are bounded by `MaxActs`, `MaxEdits`, `MaxClock`,
`MaxRules`, `MaxMessages`, `MaxFiles`, `MaxNotes`, `MaxGroup` and `MaxFaults`,
which stand in the guards.

Symmetry is used for requests (and for agents, users or authors where the instance treats them
alike) in runs without liveness properties.

Fairness. The runtime polls every woken future, so each request is weakly fair
in its server steps; database calls return in the end, with a result or an error. `Points` assumes
the same of its queries.
Weak fairness of `Acquire` stands for the queue of the async mutex, which
`ChallengeLocks` models and `WaitersAreServed` checks; with one submission per
request no stream of newcomers exists. Clients, the clock, crashes and failures
promise nothing.

## What disagrees with the documents

`replay_after_disconnect` ends in a counterexample on purpose. `save_challenge`
runs in `spawn_blocking` and writes the whole row. If the client disconnects
meanwhile, the lock is free while the write is under way; another submission can
verify and publish before the stale row arrives, which makes the challenge
pending again, and a third one publishes it a second time.

The models contain more that a reader of the code should know, and that no run
states as a property:

- "Each failure increments the streak", says the design document. The code reads the streak, adds one and
  writes it back while it holds the lock of the challenge; a submission to another challenge of the
  same agent holds another lock, reads the same count and writes the same one. `BanEarned` says what is left of
  the rule in general (nobody is banned early), `FailuresCounted` what the lock makes of it (nothing is lost
  while an agent answers one challenge).
- The design document counts replays and submissions against ended challenges as
  failures, the code does not. It also marks a challenge as verified before it
  publishes, the document says the reverse; a crash in between loses the content.
- Two lock guards dropped together each see the other's reference and leave an
  entry in the registry that nobody uses; the test at `verification.rs:1405`
  expects it gone.
- Identifiers taken from the clock in milliseconds collide (ban rules, messages,
  drafts, mentions, polls).
- The scheduled removal of expired bans compares a number with a datetime in
  SurrealDB; a server that orders values by type removes every rule with an
  expiry. `revoke_ban` takes the number of the member for that of the rule when no `ban_id` is given.
- With SurrealDB, deletions of drafts and attachments by number touch no row, and
  drafts cannot be read back; `delete_attachment_api` never deletes. The usage of a directory is
  counted twice per file in memory.
- Editing a post with SurrealDB creates a new one; removing the last mention
  of a post leaves all of them; votes ignore that a poll is locked.
- The limits on personal messages come from settings that only contexts of the controller have. With SurrealDB
  the messages of the last hour are counted by a `count()` without `GROUP ALL` (`services/surreal.rs:3201`), of whose rows
  one is read: the count is none or one, and a limit above one is never reached.
- `send_personal_message`, the label calls, `cast_vote` and `insert_mentions` await a query without looking at the
  results of its statements: a row that failed to be stored, an option that was not counted are answered as done.
- Labels are put on messages without a look whether they exist or whose they are.
- The handler for replies of humans does not compare the board of the payload with that of the topic
  (`forum_routes.rs:358-439`): a reply may be stored with a topic of a board that denies its author.
- `create_user` stores the role and the permissions of a token as they are, so that a row may say `mod` without
  `moderate_forum`; only a transfer, or becoming the first administrator, puts that right.
- Operations that sign in again at refused tokens only do not get over "Connection uninitialised": a client that lost
  its namespace keeps answering so until somebody else signs it in.
- A client that goes away during `fs::write` leaves the write under way; who finds the name free meanwhile shares the file.
- The limiter's keys are shared by endpoints with different limits.

## Proofs

All proofs hold for any sets of requests, codes, subjects and mutexes, any
`MaxAttempts` and `BanThreshold` above zero, both stores and any choice of faults
except where stated. The assumptions are `VerificationAssumption` and
`LocksAssumption`, which TLC evaluates in every run.

- `TypesHold`: `TypeOK` with `ArgsInv`, under all faults.
- `ChallengeInvariant`: under `AwaitedSpec`, with any faults,
  `ChallengeInv` is inductive. It is what `SinglePublish` needs to be: the
  property alone says nothing about requests on their way. Its parts: who is
  between `Acquire` and `DropLock` holds the lock (`LockInv`); the copy of such a
  request is the row, and what it is about to write is the row with one failure
  or marked as expired (`CopyInv`); at most one request publishes a verified
  challenge, which has no content yet (`PublishInv`); a client that is gone has
  left a query behind at most (`GoneInv`, the use made of `JobsAwaited`). `QuietKeeps` covers the
  steps that touch none of this.
- `SinglePublishHolds`, `PublishedIsVerifiedHolds` follow from it.
- `PatientClientsAwait`: while no client disconnects, `Spec` implies `AwaitedSpec`, so
  what is proved of the latter holds of the program until a future is dropped.
- `UsesMutexHolds`: the locks are used as `KeyedMutex` says under all faults, dropped futures included:
  a lock is taken when it is free, and given back by its holder or with the process. TLC has checked
  it on the instance of the run `all_faults`.
- `TerminalIsFinalHolds`, `KeepsPromiseHolds`: `RowStep` says that each step
  leaves the rows alone, replaces one open row by a successor, or creates the
  first content of a verified challenge; the abstract step follows case by case.
  The run `replay_after_disconnect` shows that the assumption is needed.
- `LocksInvariant`, `MutualExclusionHolds`, `ImplementsMutexHolds`: who waits or
  holds has the lock the registry names (`RegistryKeepsUsed`), because an entry
  goes only when no other request has a reference; a mutex belongs to one of its
  users and its queue has each waiter once.

- `PointsTypes`, `KeyCountedOnceHolds`, `CreatedIsInLedgerHolds` follow from
  `PointsInvariant`, under all faults and for both values of `ComparesIds`. Beside
  the three properties it says that a running request has a valid payload
  (`ArgsInv`) and that the id of an event tells its key or its payload
  (`IdsTell`), which is what a reload by id relies on. The assumption is
  `PointsAssumption`.

- `BalanceIsLedgerHolds`: a balance is the recursive function over the ledger, because each
  transaction appends one event and adds its clamped delta; the old part of the function
  does not change when the ledger grows (`BalanceInv`).

- `RoleTypes`, `AdminsAreEntitledHolds` follow from `RoleInvariant`, under all faults:
  what a request has read and will write back makes nobody administrator who is
  not entitled (`CopyInv`), because entitlement is never lost. `StepKeeps` reduces
  every step to what it does for its own request. After a misread count all users
  are taken to be entitled, so the theorem says nothing of them from then on.
  The assumption is `AdminAssumption`.
- `AdminRemainsHolds`, `TransferHandsOverHolds` follow from `OrderInvariant`: while changes
  have been orderly, one change at most is running, what it has read is still so, and between
  promotion and demotion there are two administrators. `AtMostOneAdminHolds` needs the same for calls
  (`calm`), and that no token claims the role (`NoAdminClaims`): `ensure_user` believes such a token.

- `OnlyOwnerVerifiesHolds`, `BanEarnedHolds` hold under all faults. The first needs that the owner and the kind in a copy are
  those of the row, even when the copy is stale, and that who passes the guards has a copy that
  was open (`KnownInv`); the second that a streak is never longer than the number of submissions
  counted in it, and that a ban has as many as the threshold (`BlameInv`).
- `HonestRepliesHolds`, `GuessesCountedHolds` hold under `AwaitedSpec`, the second while no
  statement fails unnoticed. They add to `ChallengeInv` what a reply of
  200 or 400 leaves behind (`RewardInv`, with the path to it in `PathInv`), and that no more
  requests have been told of a wrong guess than the row has attempts (`GuessInv`).
- `FailuresCountedHolds`, under `AwaitedSpec` and while no statement fails unnoticed: of the submissions that answer
  one challenge one at a time is between `loadStreak` and `saveStreak`, since both are under the lock
  (`LockInv`), so what it has read is still the streak (`StreakInv`). Only a submission whose challenge
  is verified clears the streak (`Copies`), and a copy that is verified stays so (`VerifiedStays`). TLC has checked `StreakInv` on
  the instance of the run `single_use` and, with disconnects and refused calls, on one of two codes and one agent.

- `WritesOnceAtHomeHolds`, `FailuresAreEarnedHolds` hold for any candidates as `HomeCandidates`
  orders them, clones of both kinds, any number of requests and calls. `HomeInv` says that an actor that
  signs in has its candidates before it in order (`InOrder`), that a session in another
  database has `strayed`, i.e. its actor has tried all candidates of the home database
  (`AtHome`), and that an operation which may still be repeated has not written
  (`WroteOnce`). `CalmInv` follows a token and a namespace from the sign-in to the
  error: who repeats has both, or one of them was lost since (`Earned`). What is left besides is an operation
  that does not sign in at "Connection uninitialised" and met it at its first try. TLC has
  checked both on the instance of the run `connection`.

- `RateKeptHolds`: for any clock and limits, as the window starts with an admitted call and no
  other window's calls are as near. `RateInv` ties the window to the last `count` calls that were admitted, and
  says that of any `2 * limit` calls in a row the last comes a window's length
  after the first (`Apart`); a period that saw more would hold such calls.
- `FilesKeptHolds`: for any requests, names and sizes. `ServedInv` says that a request which
  is to write, or whose client has left its write under way, has a name no file has and nobody else is to write, unless
  two found it free. `QuotaInv` says that what a request reckons
  with (what the directory held when it asked, and what it has stored since) is not less than
  the sum of the sizes, while no two attach at once. The sum is a recursive function; `TotalShifts`
  says that it changes by as much as one size does. `QuotaInv` speaks of any function
  that satisfies its equation, and that there is one is part of the invariant.
  Steps of drafts, polls and posts leave all of it alone (`DraftsAmong`, `PostingAmong`).
- `SavedIsKeptHolds`: for any requests, members, numbers, options, ballots and faults, both stores. `SavedInv` has a
  part for each kind. A draft that was answered has the slot of its author and a number that was given out
  before, so that a new one cannot replace it (`DraftInv`). Topics and messages in memory are numbered without gaps, and
  a message whose topic does not exist has made that strange (`TopicInv`). A request that saves mentions is alone
  with its message, and what it has still to remove and to add turns the rows into the members whom the body
  mentions (`Saves`); in memory no two rows are alike (`RowsDiffer`, the reason why mentions are rows with a number here: those
  that SurrealDB gives one number overwrite each other). For polls the property says too little of votes that are
  being cast: with the choices that requests have cast of unfinished ballots, the answered votes are no more than the
  votes of the poll and the queries that failed unnoticed (`missed`), and those of the poll with the choices that are left no more than the
  votes asked for (`Balanced`); each query moves one choice from one side to the other. The choices of all requests are one finite set, whose size changes by what one
  request changes (`OneSwaps`). TLC has checked `SavedInv` on the instance of the run `classic_posting`.
  The assumption is `DraftsAssumption`: ballots are of the poll's options, of which there are finitely many and at
  least one.

- `RulesAreObeyedHolds`, `AnswersAreTrueHolds`: for any requests, members, boards, rules and
  faults, however often the rules change. `RuleInvariant` follows a request from call to call: the calls still to
  do are the rest of its handler's (`Rest`), what it has written is what comes before them (`Wrote`), and
  each call it has made has taught it something (`Passed`): the comparison of agents that the topic is in the
  board they name, a look at the board that the rule of access has let it
  through at some time or could not be read, the check of permissions the same of bans and
  permissions. A session that stops nobody comes from such a time as well (`SessionTrue`). `CallsAreOrdered` is what
  the proof asks of the lists of calls: looks come before writes, the post is
  last. The assumption is `HandlersAssumption`: handlers are called that exist.

- `SentIsDeliveredHolds`, `HourlyLimitHolds`, `TakenOffIsGoneHolds`: for any members, lists,
  labels, limits and faults, both stores. `MailInv` says that a message is either open, i.e.
  unanswered and not under Sent, or has reached every recipient whose row was not lost (`Reaches`), and that what is missing
  is what the one request that delivers it has still to do. `LimitInv` says that a request
  which was let through while alone has room for its message until it counts (`RoomInv`; at the limit
  two such requests would be too many), which `LetThrough` takes from what the code counts: in memory
  because every message of the hour is in the log or about to be (`LogInv`), with SurrealDB and a limit of one
  because a count of none says that no row is under Sent. `LabelInv` says that unless they
  mixed, a member's label requests are one at a time, and that each row `Fits` what he asked for or is
  about to be rewritten so (`RowsFit`). TLC has checked all three on the instance of the run `personal_messages`.
  The assumption is `MailAssumption`.

- `OfficesAgreeHolds`, `MembersAreKeptHolds`: for any members, groups, requests and faults.
  `OfficesInv` says that role, permissions and groups of every row that is not `claimed`, also of a row that a request
  is to write (`persist`), go together (`RowAgrees`); that requests have the shape of their stage;
  and that who is about to delete a member has not counted him among the other administrators, and has seen
  some if he is one. `MembersAreKept` is an action property: groups that go and members that go are two cases of
  every step. TLC has checked `OfficesInv` on the instance of the run `membership`.

- `IgnoredAreSilentHolds`: for any members, boards, topics, readers, requests and faults. The assumption is
  `SubscriptionsAssumption`: among others, members, boards and topics are finite sets, for they are rows. `SilentInv` says that whoever a post takes for
  unwilling still ignores the author or has alerts off, and when asked for his level has them off; that answers
  tell no more than is so (`wished` is part of `ignored`); and that the calls which a request to save settings has
  still to make will make its author ignore everybody he asked for (`Comes`), so that it may say so at the end. Of a member whose
  requests did not overlap, one at most is at work. TLC has checked it on the instance of the run `subscriptions`.
- `AnswersHoldAlways`: the same; no board is also a topic, for they are rows of two tables. The property
  speaks of members who have nothing running, so `PrefsInv` says what is left to do meanwhile: an item is
  `Fine` when subscription and preference agree, and the calls of a request are `Ahead` of all that is not, i.e. they
  are the last call of a notify handler, which follows the preference just written; or they take
  topics off and then set their preferences (`Leaving`), where every topic still subscribed is in a call to come; or
  nothing is amiss between them (`Calm`: deleting preferences or taking boards off cannot disturb an item). Calls of other
  members leave an item alone (`OthersAlone`). Preferences are kept only where members have a row for them (`has_prefs`);
  else all read as absent. That a notification is found rests on their being numbered
  (`NotesInv`), so that the newer ones can be counted. TLC has checked `PrefsInv` on the same instance.

Only model-checked: liveness (`EveryRequestEnds` of `Verification` and `Points`, `VerifiedIsPublished`,
`WaitersAreServed`), which TLAPS does not cover. The
counterexample of `replay_after_disconnect` shows that the hypothesis on jobs is needed.

## Plan

The model is as wide as planned, and every safety property that a passing run checks has a theorem. What
could be added is that `AdminRole` implements the step which `Membership` takes for it; the
theorems about `AdminRole` say of the role itself what such a refinement would carry over.

## Not modelled

- The checks of signatures and passwords keep no state; of the identity service
  only the roles it keeps are (in `Membership`).
- Pages, templates, news, calendar, search, settings: they assemble what is read, or read and
  write one record.
- `subs_boards.rs` reads the lists of all boards and writes them back one by one; no handler
  reaches it. `db.rs` and `db_packages.rs` (PostgreSQL) are not used.
- Statements that fail inside a response in `Subscriptions`: what its properties say of answers is for
  responses whose statements succeed.
- Read marks, the names of labels, logs of bans and actions: nothing that is modelled reads them.
- The frontend, the types it shares with the server, the schema.
