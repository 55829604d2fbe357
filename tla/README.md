# Lethe: specification, model checking and proofs

This directory specifies the Lethe server (Rust, axum, sqlx, PostgreSQL) and the
parts of its browser client (TypeScript) that keep state, in TLA+.  TLC checks small
instances; TLAPS proves the theorems for every value of the constants.

The server keeps all of its state in PostgreSQL.  A handler is an async function
that awaits one SQL statement after another; few of them open a transaction, so
between any two statements of one request the statements of others run, and rows
change.  That is what most of the specifications are about.

## 1. The system

| part | code | state | operations |
|---|---|---|---|
| rooms: membership and keys | `logic/rooms.rs`, `db/rooms.rs` | `rooms`, `room_members`, `room_rosters` | create, join, wrap (grant), leave, remove_and_rekey, post_roster; invite info, members, roster, provenance (reads) |
| rooms: messages | `logic/rooms.rs`, `db/rooms.rs` | `room_messages` | send, list with a history gate and a `seq` cursor |
| replay protection | `db/nonces.rs`, used by every signed handler | `request_nonces` | record, prune |
| public board | `logic/posts.rs`, `logic/reports.rs`, `db/posts.rs`, `db/threads.rs`, `moderation/` | `boards`, `threads`, `posts`, `post_removals`, `reports`, `moderation_actions` | create thread, create post, list, author delete, report |
| vouches | `logic/posts.rs` (validate_vouch), `client/src/lib/vouch.ts` | columns of `posts`; rosters | validate on write, verify on read |
| retention worker | `db/retention.rs`, `lib.rs` | deletes from `threads`, `room_messages`, `request_nonces` | one sweep an hour |
| federation | `federation/pull.rs`, `federation/route.rs`, `db/federation.rs` | `federation_peers` with a cursor each; copies in `posts` | serve the event stream, pull each peer, add and disable peers |
| identity and admin tokens | `federation/identity.rs`, `db/admin_tokens.rs` | a seed file, `instance_identity`, `admin_tokens` | load, create, migrate; mint, revoke, verify |
| feed | `db/feed.rs`, `client/src/pages/feed.ts` | reads `threads` | keyset paging |
| room client | `client/src/pages/room.ts`, `client/src/lib/roomkey.ts` | keys per epoch in localStorage | poll members and messages, adopt an epoch, grant, publish a roster, remove, leave |
| thread client | `client/src/pages/thread.ts`, `client/src/lib/threadkey.ts` | keys per thread | labels, reply tree, vouch filter |
| key file | `client/src/lib/keyfile.ts` | localStorage | export, import |
| CLI, scripts, templates | `lethe-cli`, `infra/`, `tools/` | none | HTTP calls, build and install |

How they interact: the handlers and the two workers (retention, pull) share the
database and nothing else; every interaction is a row that one wrote and another
reads.  The rooms refer to threads (`rooms.origin_thread`), the board's vouches
refer to rosters, every signed request passes through `request_nonces`, and the
sweep deletes under everybody.  Clients poll.

What is hard about it:

- *check, then act.*  Member count then insert; live ring then roster; inviter then
  grant; duplicate search then insert; stored key then scrub; signatures in a thread
  then a room made from it.
- *the few transactions.*  A rekey flips a row, reads the survivors and rewrites
  them one by one under READ COMMITTED, while others leave, join and are granted
  keys; two rekeys can deadlock.
- *dates.*  Timestamps are dates by design, so `ORDER BY joined_at`, `24 hours` and
  history gates have ties a day wide.
- *deliveries.*  A signed request can arrive twice, late, or again after a restart.
- *sweeps.*  Rows are deleted while requests that have just read them go on.
- *clients that poll* and act on what the last poll said: with keys that have been
  rotated meanwhile, with a cursor that two polls share, with a roster that has been
  replaced, on a page that has been told to forget the room.
- *starts.*  The server's identity moves from the database to a file in steps that may
  be cut off, and two starts may overlap.

What makes each part correct (and, in brackets, where it is stated): membership
only moves forward and an epoch costs a removal (`ImplementsMembership`,
`EpochCountsRemovals`); removed members get nothing more (`RemovedMemberFrozen`);
a key on record changes only with the epoch (`KeyChangesWithEpoch`); rosters form
a chain of accepted rings (`RosterChain`, `RosterMembersWereAccepted`); a signed
request acts once (`ImplementsReplayGate`, `SignedRequestOnce`); every request is answered
(`EveryRequestAnswered`); a thread's numbering has no holes and posts keep their
numbers, in the order of their dates, until they are scrubbed or the thread goes
(`ThreadsNumbered`, `ImplementsThreadLog`); a text is repeated within a day only by
requests served together (`RepeatsBounded`); deletion is by the author and
leaves nothing behind (`OnlyAuthorDeletes`, `TombstonesAreScrubbed`); sweeps leave no
dangling row (`ReferencesResolve`); old ciphertext goes (`OldMessagesGoUnlessPinned`);
a federated post has one copy (`OneCopyEach`), which a takedown hides for good in whatever
order the two arrive (`ImplementsReplica`), and cursors move forward only and pass nothing
by that was there on an earlier day (`CursorsOnlyAdvance`, `EarlierDaysArrive`).  In the
browser: no rotated key reaches a removed device, wiped keys stay wiped, and members who
stay catch up (`RemovedNeverKeyed`, `WipedStaysWiped`, `MembersCatchUp`); a page loses only
messages that were committed late, repeats one only when its polls overlap, and shows of
the room's past no more than the day of the join (`OnlyLateOnesAreMissed`,
`TwiceOnlyByOverlap`, `HistoryByTheDay`, `MessagesArrive`); the roster follows the members, a
removed member's stored vouch is from before or just after his removal, and what a reader
sees of vouches fits what he sees of posts (`RosterFollowsMembers`, `RemovedVouchOldRosters`,
`VerdictsMatchThePage`, `OldVouchesStand`, `EveryVouchJudged`).  A server has one identity for
good, whose seed is never lost and leaves the database, and comes up again (`OneIdentity`,
`SeedIsKept`, `SeedLeavesDatabase`, `ServerComesUp`).

## 2. Modules

| module | what it is |
|---|---|
| `RoomTables` | `room_members` and every SQL statement on it as an operator on the rows |
| `Membership` | the abstract specification: a device is a stranger, pending, accepted, removed |
| `RoomServer` | the handlers of `logic/rooms.rs` that change something, one step per await |
| `RoomServerProofs` | its theorems |
| `MCRoomServer` | workloads for TLC |
| `SignedRequests` | window, nonce tuple, pruning, two clocks, restarts |
| `ReplayGate` | the abstract specification: the first request of a tuple passes, for ever no other |
| `SignedRequestsProofs`, `MCSignedRequests` | its theorems; two requests for TLC |
| `BoardTables` | `threads`, `posts` and the statements on them |
| `ThreadLog` | the abstract specification: a thread is a log of numbered posts |
| `PublicBoard` | the handlers of the board, room creation and the sweep's cascade |
| `PublicBoardProofs`, `MCPublicBoard` | its theorems; workloads for TLC |
| `RoomKeys` | the room keys in the members' browsers, composed with the rows of `RoomTables` |
| `RoomKeysProofs`, `MCRoomKeys` | its theorems; three browsers for TLC |
| `RoomMessages` | messages from the sender's request to the reader's page, over `RoomTables` |
| `RoomMessagesProofs`, `MCRoomMessages` | its theorems; the instance for TLC |
| `Vouches` | rosters, vouched posts and the reader's verdicts, over `RoomTables` |
| `VouchesProofs`, `MCVouches` | its theorems; the instance for TLC |
| `Retention` | the sweep as three statements, its failure and its liveness |
| `Identity` | a start of the server up to where it listens: key file, database, stamps |
| `ServerProcess` | the process: `Identity` and `Retention` composed |
| `ServerProcessProofs`, `MCServerProcess` | their theorems; the instance for TLC |
| `FederationPull` | the origin's event stream and the peer's pull worker, one step per statement or event |
| `Replica` | the abstract specification: posts of another server that are shown or withheld |
| `FederationPullProofs`, `MCFederationPull` | its theorems; the instance for TLC |

`RoomServer` and `PublicBoard` extend their tables, and so do `RoomKeys`, `RoomMessages`
and `Vouches`: each composes a client page with the same statements on `room_members` that
`RoomServer` runs one by one.  `Retention` shares `BoardTables` with `PublicBoard` and
abstracts what the handlers write meanwhile; `ServerProcess` extends it, instantiates
`Identity`, and ties the two together: a worker runs while a process listens and is gone
when that one is killed.  `RoomServer` and `RoomKeys` implement `Membership` through the mapping `Stage` of
`RoomTables`: the one statement by statement for any requests, the other with the requests
that the pages make of what they last read.  `PublicBoard` implements `ThreadLog` through
`LogOf`, `FederationPull` implements `Replica` by what a listing shows of the copies, and
`ServerProcess` implements `Retention`.  `SignedRequests` implements
`ReplayGate`, whose table forgets nothing: it is what `RecordNonce` of `RoomServer` and
`PublicBoard` takes `request_nonces` to be.

### How a handler becomes actions

A worker is a request being served.  `pc[w]` names the statement it runs next and
`req[w]` is its request; a step is the code from one await to the next: the
statement's effect on the tables, the tests made on its answer, and the early return
those tests may take (`"err"`, then `Reply`).  `Submit` takes up any request of
`Workload`, any number of times, which also stands for retries and duplicate
deliveries.  In `RoomServer`:

| handler | steps |
|---|---|
| `join` | `JoinCheck` (allowlist, is_member_by_box), `JoinCount`, `JoinInsert` |
| `leave` | `LeaveNonce`, `LeaveMember`, `LeaveRemove` |
| `wrap` | `WrapPair`, `WrapNonce`, `WrapFind` (the UPDATE's snapshot), `WrapStore` (the row, once locked) |
| `remove_and_rekey` | `RemoveNonce`, `RemoveCreator`, then one transaction: `RemoveBegin`, `RemoveCommit` or `RemoveAbort` |
| `post_roster` | `RosterEpoch`, `RosterCreator`, `RosterLive`, `RosterInsert` |

and in `PublicBoard`: `create_thread` is `Moderate`, `ThreadInsert`, `PostSeq`,
`PostInsert`; `create_post` is `PostThread`, `Moderate`, `PostSeq`, `PostInsert`,
`FirstSeq`; a refusal is logged by `LogReject`; `list_posts` is `ListRows` and one
`FirstSeq` per signed row; `delete_post` is `DeleteNonce`, `DeleteAuthor`,
`DeleteCommit`; `report_post` is `ReportPost`, `ReportInsert`; the creation of a room
is `RoomNonce`, `RoomSigned`, `RoomAllowlist`, `RoomInsert`.  `DeleteDueThreads` is
the sweep's first statement with its cascades, `Crash` a restart.

In `FederationPull` two servers share a date.  The origin inserts posts (`BeginPost`
reads the date, `InsertPost` runs the statement), takes them down at their author's
request (`BeginDelete`, `CommitDelete`) and sweeps threads (`ExpireThread`).  At the
puller the operator registers the peer and switches it (`AddPeer`, `set_enabled`),
authors delete copies (`DeleteCopy`) and the sweep takes them (`SweepCopies`).  One
cycle of the pull worker is `Wake` (the cursors are read), `ReadPosts` and
`ReadRemovals` (the origin's two queries), one step for each event (`CopyPost` or
`SkipPost`, then `ApplyRemoval` or `FailRemoval`) and `SaveCursor`; `FetchFails` and
`Crash` end it anywhere before that.

In `RoomKeys` a device has what its browser stores for the room (`stored`: the keys, the
newest, the last epoch seen), what its page remembers (`page`), the poll whose request is
under way (`asking`), the polls whose answer is being acted on (`working`) and the removal it
has sent (`rekey`).  `tickMembers` is `TickStart` (the keys are read), `ReadRows` and
`AnswerKeyed` or `AnswerUnwrap` (the member list's two statements, the second with the answer),
then `GrantPending` per joiner and `AdoptNewEpoch`; `removeMember` is `RemoveMember`,
`RekeyServe` or `RekeyRefused`, `RekeyDone`.  `Join`, `Leave`, `Forget` and `Reload` are the
user's, and any request or answer may be lost (`TickLost`, `GrantLost`, `RekeyLost`,
`LeaveLost`).

In `RoomMessages` a sender's request is `CheckSender` (membership and date), `DrawSeq` (the
INSERT runs and takes its number from the sequence) and `CommitMessage` or `AbortMessage`.
A page's `tickMessages` is `PollStart` (the cursor is read), `PollGate` (the join date) or
`PollRefused`, `PollSelect` (the messages after the cursor, up to the limit) and
`ShowMessage`, one message at a time with the cursor; several polls run at once, and
`PollLost` and `Reload` end them.

In `Vouches` the creator's `maintainVouching` is `ReadMembers`, then `KeepRoster`, `Resign`
or `Enable`; `post_roster` is `CheckRoster` or `RefuseRoster`, then `InsertRoster` or
`ConflictRoster`; several runs are under way at once.  A post is built with the current
roster (`BuildVouch`), compared with it (`CheckVouch`, `RefuseVouch`), inserted
(`InsertPost`) and perhaps removed.  The reader's page sends requests for the posts that
overlap (`ServeList`), shows them in any order (`Render`), asks once for the roster
(`AnswerRoster`, `LoseAnswer`) and judges (`Judge`, `Supersede`).

In `Identity` each process has a step.  `Boot` looks for the key file; `LoadFile` reads it or
refuses it; `ReadLegacy` takes the seed of an older release from the database and `Generate`
draws one; `CreateFile` or `FileExists`, `WriteFile`; `ClearLegacy` or `RecordPubkey`;
`StampThreads`, `StampPosts`; `Listen` or `AddressInUse`.  `Crash` ends a process after any of
them and keeps what was written.  `RemoveFile` is the operator, who is told of a file that
has not 32 bytes.

READ COMMITTED is in the models where it shows: an UPDATE or INSERT that evaluates a
sub-select in its snapshot and then waits for a lock or meets a unique index is two
steps (`WrapFind`/`WrapStore`, `PostSeq`/`PostInsert`); a row locked by an open
transaction stops the statements of others that would write it.

### Reductions

- Requests are well formed, signed by the key they name, inside the ±60 s window and
  carry their proof of work: everything else is refused before any state is touched.
  The window itself is in `SignedRequests`.
- Bodies, keys and names are model values.  The content rules and the classifier are
  a constant set of refused texts (`Refused`).
- `RemoveBegin` and `RemoveCommit` each stand for several statements of one
  transaction; in between only others' commits matter, and `RemoveCommit` reads them.
- `DeleteDueThreads` waits for the foreign-key lock of an INSERT under way.  The lock
  is taken with the INSERT's snapshot, which leaves out only a thread that is deleted
  and created again with the same id inside one INSERT.
- PostgreSQL's session runs in UTC, as `today_utc()` does.
- In `PublicBoard` there is one board; vouches and federated inserts are left out.
- In `Retention` the handlers are given by what they insert, and the retention ages
  are constants.
- In the three modules about pages, changes of membership are single steps; `RoomServer`
  has their statements.  A browser makes one box key and one signing key per room, so one
  value stands for both.
- `RoomKeys`: joins are on one day after the room's creation.  The key file, which can
  bring wiped entries back because the user imports it, is left out.
- `RoomMessages`: senders only ever hold a room key, and one room's messages are numbered
  from 1 (the sequence is shared by all rooms, which leaves gaps; so does `AbortMessage`).
- `Vouches`: a ring signature is the member who made it, and verifies over exactly the ring
  and epoch it was made for.  One life of one reader's page; a reload begins another.
- `Identity`: what is written stays.  Power failures (the file is synced, its directory is
  not), a full disk and a file readable by others are left out, and a seed stands for its
  public key.
- In `FederationPull` there is one origin and one puller.  The origin's own signatures
  hold, so what it sent is what arrives.  Whether the puller's moderation takes a post is
  free, because it depends on everything else that server holds.  An id is given to one
  post.  Lifetimes are a day, or a constant at the puller, and a thread is what its
  posts have in common.  `add_peer` reads the date and inserts in one step.

## 3. What the runs show

| run | shows | instance |
|---|---|---|
| `room_membership` | epochs, nonces, frozen rows, keys, refinement of `Membership` | 3 devices, 2 workers, 11 requests with joins, grants, leaves, two rekeys that remove each other's caller and one whose list names a survivor twice |
| `room_roster` | joins overshoot the cap by less than the number of workers; the rosters' chain, their members and signers | 4 devices in a room capped at 2, 3 publishers, 2 days |
| `room_answers` | every request is answered, under fairness | 3 devices, contending rekeys |
| `signed_requests` | refinement of `ReplayGate`: accepted at most once, and in time refused only if accepted before | 2 tuples, 2 workers, window 2, delay 1, skew 1, pruning age 7 (the bound of the assumption), 14 ticks |
| `board` | numbering, tombstones, references, repeated texts, ownership, refinement of `ThreadLog` | posts, deletes by two keys, a listing, a report and a room around 1 thread that expires; 3 posts of 2 texts, 2 workers |
| `federation` | one copy each, refinement of `Replica`, cursors | 3 posts (one signed) in a thread, pages of 2, 2 copies, 2 days, full backfill |
| `room_keys` | removed devices get no new key, wiped keys stay wiped, refinement of `Membership`; members catch up, under fairness | 3 browsers, 2 of them with a page that stays open, 1 rotation, 1 poll of a page acted on at a time, 1 fault |
| `room_messages` | what a page misses, repeats and shows of the past; messages arrive, under fairness | 3 messages, 1 at a time between its check and its number, 1 reader with 2 polls, answers of 2, 2 days, 1 fault |
| `vouches` | ages of a removed member's vouches, verdicts, the roster follows, under fairness | the creator and a member, 2 runs of `maintainVouching`, 1 post vouched by the member and submitted again and again, 2 lists, 1 fault |
| `server_process` | one identity, its seed, the server comes up, old messages go unless a room pins a due thread, under fairness | 2 processes at once, 2 kills, 2 seeds, 1 room, 1 thread, 3 days |

That states are well typed is a theorem of every module and a property of no run.

Why the bounds are enough for what they are asked: every hazard above is a race of two
requests or of a request and a sweep, and two workers with requests that repeat at
will produce each of them; a third device is the bystander that makes "every
survivor" differ from "the caller".  Two days are enough for a tie and its
absence.  In `federation` three posts fill a page of two and leave one behind, so
pages end in the middle of a day; a horizon of several days would need several more
and is left to the theorems, which hold for every horizon.  In `room_keys` the third browser is
the joiner or the survivor when the first removes the second, and one fault is one too many
for any step that is not repeated; one rotation makes an old key and a new one, and what a
second one may do to a device removed by the first is left to the theorems.  In `board` no
text is refused by the content rules, because the duplicate rule refuses some; the theorems
hold for every set of refused texts.  In `room_messages` three messages make an answer of two that
leaves one behind, and can be committed in an order in which one is late and two are not.  In
`vouches` two devices are a ring that does and does not contain the member, and two runs of
one page are enough to publish a ring that was read before a removal; a third roster is
reached because rings alternate.  The theorems cover larger rooms, more posts and more lists.
In `server_process` two starts race for the file, the first kill leaves a half-made file and
the second the one that repairs it.  The mutants listed in
`PROJECT.json` show that each property fails when the code is changed the way a
plausible bug would change it, in the same instance.
Every safety property is also proved for every instance (section 5).

`CHECK_DEADLOCK` is off in `room_keys` and `vouches`, where everybody may have left for good
and every fault be spent, and on elsewhere.

### Fairness

- `RoomServer!FairSpec`: weak fairness of each worker's handler and reply.  Tokio polls
  every task, each statement returns, and a transaction that waits in a cycle is
  rolled back by PostgreSQL's deadlock detector (`RemoveAbort`, part of `Handler`;
  without it `EveryRequestAnswered` fails, which is its mutant).  Callers and the clock
  are not fair: nobody has to send anything.
- `RoomKeys!FairSpec`: the pages in `Pages` stay open, so their timer fires and their
  polls are answered and acted on.  Rotations, joins and leaves are not fair.  A reload or a
  lost request counts against `MaxFaults`.
- `RoomMessages!FairSpec`: the timer of a reader's page starts polls, and each poll goes
  on.  Senders are not fair.
- `Vouches!FairSpec`: the creator's page stays open and each run of `maintainVouching` goes
  on; enabling vouching is not fair.  The reader's request for the roster is answered or
  fails, and his promises settle.  `RosterFollowsMembers` asks further that from some time on
  the room can keep a roster (`Maintainable`), which takes a creator who stays and no
  first-day tie.
- `ServerProcess!FairLife`: the supervisor starts the server again (`Restart=on-failure`)
  and a start goes on; the operator removes a file that is no key; the worker's timer fires.
  Kills are bounded by `MaxCrashes`, so from some time on the server stays up.

## 4. Where the code does not do what it says

Each is a run whose single property quotes a comment or the README; TLC finds it
violated.  The lines and quotations are in `PROJECT.json` under `findings`.

| run | what happens |
|---|---|
| `room_keys_x_opaque` | the member list reads rows and epoch in two statements; with a rekey between them a survivor stores the old key under the new epoch, never looks again, and goes on sending under a key the removed member holds |
| `federation_x_cursor` | ids are random: a post inserted later on the cursor's day with a smaller id is never served |

The same models have more of them, which have no run of their own, most because a
property that does hold says how far they can go:

- "Only the room's creator may call this" (`logic/rooms.rs:457`, remove_and_rekey): the check
  (`db/rooms.rs:364`) accepts any active row without an inviter, and a pending joiner has none
  yet (`RemoveCreator` with a joiner's request).
- A rekey "overwrites the `wrapped_key` of every still-active member" (`db/rooms.rs:458`): who
  joined and was granted a key after the survivors were read (`db/rooms.rs:495`) keeps the old
  key under the new epoch (`RemoveBegin`, `WrapStore`, `RemoveCommit`).
- "`None` if it never signed in this thread" (`db/posts.rs:150`): MIN over no rows is a NULL
  that the query's result type cannot hold, so the query fails, and with it a listing whose
  author deletes his only post between its two queries (`FirstSeq`).
- "A background **retention worker** runs every hour and deletes" old messages
  (`src/README.md:279`): `rooms.origin_thread` has no ON DELETE clause
  (`migrations/0002_rooms.sql:10`), so one room made from an expiring thread stops every
  sweep at its first statement (`SweepThreads`); `OldMessagesGoUnlessPinned` says what is left.
- "NULL the column so the seed only exists on disk thereafter" (`federation/identity.rs:17`):
  a start that is killed between the file and the UPDATE leaves the seed in the database for
  good, because later starts find the file: `SeedLeavesDatabase` excepts it.
- "A member removed since the last roster signing can't get a fresh vouch stored"
  (`logic/posts.rs:139`): he can until the creator's page publishes a roster without him, and
  with one roster that was compared with the members before the removal
  (`RemovedVouchOldRosters`).
- One lost request for a roster, or one answered before the roster a vouch cites was
  published, marks that room's vouches as failed until the page is loaded again:
  `OldVouchesStand` says when they are not.
- A message whose INSERT commits after one with a greater number is skipped by every page
  that has seen the greater one: `OnlyLateOnesAreMissed`.
- A member reads what was sent on the day he joined before he joined: `HistoryByTheDay`.
- Two polls that overlap show a message twice: `TwiceOnlyByOverlap`.
- A federated copy that loses the race for a number in its thread is not tried again.
- Two deletes by one key in one second share a nonce tuple, and the second is refused as a
  replay (`DeleteNonce`).

- A join counts the members and inserts in two statements, so a room capped at 50 can
  take a 51st: `JoinOvershootBounded` bounds it by the number of requests under way.
- `created_at` is a date, so the duplicate rule's "last 24 hours"
  (`moderation/rules.rs`) end at midnight: `is_recent_duplicate`.
- `creator_sig_pubkey` ("the one member with no inviter") may be a joiner of the
  creator's first day, whose inviter is still NULL and whose date ties:
  `RosterSignerFromFirstDay`.
- A rekey that covers a pending member gives him a key and leaves his inviter NULL for
  good; a creator who has left no longer passes `is_creator_by_sig`, whose comment says
  he does.
- A roster is compared with the live ring two awaits before it is stored:
  `RosterMembersWereAccepted`.
- `grant_wrap` does not look at the recipient's `removed_at`, and takes the inviter's
  membership from its snapshot: `KeyChangesWithEpoch` and `ImplementsMembership` hold
  all the same.
- `remove_and_rekey` compares lengths and tests membership, so a list that names one
  survivor twice passes for two (`RemoveListing` in `MCRoomServer`).
- Two requests with one text are compared before either is inserted: `RepeatsBounded`.
- A reply can take number 1 between a thread's row and its opening post:
  `ThreadsNumbered` says the numbering survives it.
- At a peer a takedown hides the copy and leaves its content in the row, and one that
  finds no copy is dropped; that is enough while posts are applied before the takedowns
  of the same answer: `RemovedStaysHiddenHolds`.
- An event that fails or is refused is not tried again, because the cursor moves past
  it: `EarlierDaysArrive` counts it as ingested.

## 5. What is proved

All theorems hold for every set of devices, keys, workers, threads and texts and
every workload; the named assumptions are on the constants only
(`RoomAssumption`, `WorkloadAssumption`, `BoundsAssumption`, `BoardAssumption`,
`RetentionAssumption`, `ClockAssumption`, `PruningAssumption`, `FederationAssumption`,
`KeysAssumption`, `MessagesAssumption`, `VouchAssumption`, `LifeAssumption`),
and TLC evaluates them on the instances.

- `RoomServerProofs`.  `TypeCorrect` first.  `ReplaysAreStopped` from `NonceInv`: a
  worker past the nonce has stored it, and no other is past the same one.
  `EpochsAreRemovals` from `RekeyInv`: open rekeys hold distinct active targets, so
  committing one removes a row nobody else counts; without that clause two rekeys
  could pay with one removal.  `CapOvershoot` from `CapInv`, which counts the joins that
  have passed the count but not yet inserted.  `RostersFormAChain`,
  `RostersNameAcceptedMembers` and `RostersSignedOnFirstDay` from `RosterInv`, which
  remembers what a publish has checked so far in terms that rows cannot undo.
  `RemovedMembersAreFrozen` and `KeysChangeWithEpochs` are action properties from the
  same invariants.  `RefinesMembership` maps every step to a step of `Membership` or a
  stutter.
- `SignedRequestsProofs`.  `SignedRequestsAcceptedOnce` from `NonceInv`: a tuple that is stored, or that is
  too old for the window, has been accepted at most once, and one that was pruned
  is too old: that is where `PruneAge >= 2*Window + MaxDelay + 2*MaxSkew` is needed.
  With the code's 600 s and 60 s it leaves 480 s for delay and skew.  `RefinesReplayGate` says
  more: a tuple is stored only after an acceptance, so nobody's first delivery is refused as
  a replay, and who waits for the insert of a tuple that was accepted finds it stored.
- `PublicBoardProofs`.  One inductive invariant, `BoardInv`: besides the properties it
  needs `SeqIsCurrent` (a computed seq is in use or the next, because rows are never
  deleted one by one and sweeps wait for inserts) and `DeleteIsOwned` (what a delete
  has compared stays the caller's post, or a scrubbed one, or none, because ids are
  never reused).  From it `ThreadsAreNumbered`, `RemovedPostsAreScrubbed`,
  `ReferencesAreKept`, `PostsStayStable` and `DeletesAreAuthors`.
  `RepeatsAreBounded` from `RepeatInv`: once a text is there with a date, no request passes
  the duplicate search with it on that day, so its posts and the requests that had passed
  before, and may still insert it with that date, are together at most as many as the
  workers.  The bound needs that no post and no request is dated in the future.
  `RefinesThreadLog` needs `LogInv` besides `BoardInv`: a reply that holds the next number of
  its thread is dated no earlier than any post there.  That holds although its date is read
  before its number is taken, because whoever inserts meanwhile takes that number and makes
  it fail; an opening post has its date from before and is the one exception.  Every INSERT
  is then a `Write`, an author's delete a `Scrub`, the sweep an `Expire` of all threads that
  are due, and the rest are stutters.
- `FederationPullProofs`.  `OneCopyEachHolds` from `CopiesInv`: local ids below `minted`
  are the only ones in use, and each names one copy.  `RemovedStaysHiddenHolds` needs to
  know that a post with an applied takedown can arrive only blank: `GoneInv` says that
  the origin never serves its content again, because ids are not reused and tombstone and
  scrub commit together, and `InboxInv` that the worker reads and applies posts first, so
  that no post with content waits in its inbox after its takedown was applied.
  `RefinesReplica` follows from these and from the uniqueness of local ids, without which the
  sweep of one thread could take a tombstone from another's copy.
  `CursorsAdvance` and `EarlierDaysArriveHolds` from `CursorInv`: what lies between the
  stored cursor and the one to be saved is in the inbox, has been ingested, or was committed on the day of the
  new position or later, because a row carries a date no later than its commit's.
- `RoomKeysProofs`.  `RemovedStayOut` (`RemovedNeverKeyed`) from `KeyInv`: what is barred to a
  removed device is not in its hands, polls or row (`RowsInv`, `HandsInv`), no grant under way
  hands such a key to it (`GrantsInv`), and the key of a removal that has not been served is
  in nobody's hands yet (`RekeyInv`).  `KeysRefineMembership`: a grant
  names a row that is pending when it is served, whatever the page had read, and a rekey lists
  exactly the survivors, or neither changes a row.  `WipedIsFinal` (`WipedStaysWiped`) follows from the steps.
- `RoomMessagesProofs`.  `TwiceNeedsOverlap` from `OverlapInv`: while no two polls of a page
  have overlapped, one at most is under way, and it asks from the cursor.  `HistoryGated` from
  `GateInv` and `DayInv`: every poll is gated with the date of its device's row, and dates
  lie in the past.  `NothingElseMissed` from `SeqInv`, `ReachInv` and `CursorInv`: what a page
  lacks lies after its cursor and after that of each of its polls, and is in the answer being
  worked through or after all of it.
- `VouchesProofs`.  `RemovedVouchesAge` from `RosterInv`, which bounds by how many rosters a ring
  that has been compared may outlive a removal; `VerdictsAreCurrent` from `RenderInv`: the
  verdicts being settled for a page are of its own posts; `StoredVouchesHold` from `CacheInv`.
- `ServerProcessProofs`.  `IdentityIsOne`, `SeedNeverLost` and `SeedLeavesUnlessKilled` from
  `IdInv`: the file, once it holds a key, speaks for every identity in use; without one the
  database does; and one start at a time succeeds with `create_new`.  `ImplementsRetention` maps
  every step of the process to a step of `Retention` or a stutter, and `TypeCorrect` is
  `Retention`'s own.
- `KeysTyped`, `MessagesTyped`, `VouchesTyped` and `LifeTyped` are the types of these four, which
  no run checks apart.

Only model-checked: the liveness properties (`EveryRequestAnswered`, `MembersCatchUp`,
`MessagesArrive`, `EveryVouchJudged`, `RosterFollowsMembers`, `ServerComesUp`,
`OldMessagesGoUnlessPinned`), because liveness under fairness is out of the prover's reach,
and the violated statements.  Every safety property that a run checks is a theorem.

## 6. Not modelled

- Cryptography (signatures, sealed boxes, ring signatures, proof of work and ids from it),
  HTML, CSP, base64, configuration and the shell scripts have no state worth a model.  A
  signature is the key it was made with, and a ciphertext the key it opens with.
- The command line tool and the information and constitution of an instance keep no state.
- Admin tokens and the list of peers are rows that single statements change; no handler
  acts on one over several awaits.
- Feed paging only reads: nothing in the code promises that a thread which moves between two
  pages is shown once.
- Labels and the reply tree are functions of one answer, and a key file is exported and
  imported in one synchronous pass that the user asks for.
- A federated insert that races local replies in one thread: `PublicBoard` has the
  numbering of local requests, `FederationPull` that of copies, and the two are not composed.
- Power failures that lose a file after it was written: kills in `Identity` are of the
  process, not of the disk.
- Several boards and several peers, which differ from one only in whose rows they are.

Of federation, that what is posted is eventually copied is not stated: a post behind
the cursor never is, and one that fails once is given up.
