# Formal models of Elektrine

Elektrine is an Elixir umbrella of a dozen applications with browser code beside
them. This directory models, in TLA+, the two kinds of code in it where the order
of events decides and tests hardly reach:

- **Arblarg**, the messaging federation under
  `apps/elektrine/lib/elektrine/messaging/` (specified in `docs/arblarg-1.0.md`):
  servers exchange signed events of numbered streams with at-least-once delivery,
  deduplication, high-water marks, replay, snapshots, flow control and rate
  limits, from many processes that meet only in PostgreSQL and ETS;
- **the JavaScript of the browser**: the password manager's extension, direct
  calls, end-to-end encrypted chat, the encrypted vault and mailbox, and the hooks
  of the pages. All of it is event handlers, promises and timers, each of which
  finds a state that others have changed since it was started.

TLC checks the models on small instances, TLAPS proves the central properties for
all instances. `PROJECT.json` lists components, runs, the source lines of every
definition, mutants, findings, hazards and theorems.

The extension exists twice in the repository, as `clients/nerve-extension/` and as
`apps/elektrine_web/priv/nerve-extension/`, with identical files. One model stands
for both; its definitions name lines of either copy.

## Inventory

Federation (paths relative to `apps/elektrine/lib/elektrine/messaging/`):

| Component | State | Operations | What is hard | Must hold |
|---|---|---|---|---|
| Ingress: `federation/ingress.ex`, `federation/event_tracking.ex`, `federation/inbound.ex` | dedupe claims (`messaging_federation_events`), high-water mark per stream (`..._stream_positions`), mirror tables | `receive_event`: claim, check sequence, apply, store position, in one transaction | redelivery in any order, concurrent handlers, first event of a stream has no row to lock, retention forgets claims | applied at most once, in a gapless prefix; acknowledged means applied |
| Outbox: `federation/dispatch.ex`, `federation/delivery.ex`, `federation_outbox_*.ex` | outbox rows (status, delivered domains, attempts, next retry), Oban jobs | enqueue, process a row and its siblings per domain, record results, rescan, prune | peers called inside a transaction, crashes, partial results, one attempt counter for all domains, duplicate and lost jobs | runs never share a row, statuses are truthful, acknowledgements are never lost, every row settles |
| Stream numbering: `federation/utils.ex`, `federation_stream_counter.ex`, `federation/publisher.ex` | `next_sequence` per stream | allocate, build, enqueue | allocation, commit and enqueue are three separate steps | the receiver converges to the sender |
| Recovery: `federation/snapshots.ex` | none of its own; reads outbox and messages, writes mirror and positions | replay pages, build and import snapshots, retry | replay racing with deliveries and with new events; snapshot built and imported without locks | the mirror is what the high-water mark says; neither goes back |
| Session client: `federation_session_client.ex` | socket, flow control window, in-flight counters and streams, queue, timers | deliver, hello, ack, timeout, loss | late timers, failed sends in the middle of a drain, a changing window | counters exact, one batch of a stream in flight, no lost wakeup |
| Rate limiter: `federation/ingress_rate_limiter.ex` | ETS counters per bucket and minute | reserve, roll back, clean up | every counter update is a step, callers interleave | never over the limit, rejected traffic uses nothing up |
| Retention: `federation/maintenance.ex` | none | archive claims, prune outbox rows and nonces | runs against everything above | nothing is applied twice because of it |
| Authentication, peers, discovery, policies, visibility | keys, nonces, trust, membership | verify, discover, filter | cryptography, data-dependent filtering | not modelled; their outcome is an input |
| Federated voice calls, ephemeral items, extension events, mirror projections other than messages | call sessions, presence with a time to live | per event type | | not modelled yet |
| The other applications on the server (ActivityPub, Bluesky, email, DNS, VPN, uptime, OAuth) | | | | not modelled; `PROJECT.json` has the reason of each |

Browser (`ext/` is the extension, `hooks/` is `apps/elektrine/assets/js/hooks/`):

| Component | State | Operations | What is hard | Must hold |
|---|---|---|---|---|
| Extension worker and content scripts: `ext/background.js`, `ext/content.js`, `ext/lib/` | passphrase and deadline, staged fills and submitted logins per tab, banners and popovers per page | unlock, suggest, fill, stage, save, lock | the browser stops the worker at any await, tabs navigate between question and answer, storage is read and written back | nothing filled after the deadline or in another site; a saved password belongs to its site |
| Extension pages: `ext/options.js`, `popup.js`, `launcher.js`, captures | each page's copy of the settings, the manager's copy of the passphrase, badge | connect, pair, sign out, unlock, capture | pages overwrite each other's settings, the account changes elsewhere | keys in use open the vault; size limit; pages settle |
| Direct calls: `webrtc_client.js`, `hooks/call_hooks.js`, `ringtone_player.js`, `channels/call_channel.ex`, `calls.ex` | clients of all mounts, signals, candidates, timers, ringing, status of the call | start, answer, reject, resume, end, restart ICE | old clients live on, media prompts, candidates before descriptions | no candidate lost, one restart at a time, ringing ends, reports in order |
| Encrypted chat: `hooks/chat_e2ee_*.js`, `chat_messages.ex` | keys in memory and IndexedDB, prepared packages, device lists | prepare, send, decrypt, adopt | devices and conversation change at every await | the audience can read, nobody else, sends end |
| Vault and mailbox: `hooks/vault_*.js`, `hooks/mailbox_private_*.js`, `vault.ex`, `accounts/authentication.ex` | wrapped keys at the server, unlocked keys and forms per tab | set up, unlock, lock, recover, reset, change password | two tabs, slow key derivation, pages rendered before | one key behind both locks, never orphaned, a lock holds |
| Feed: `hooks/timeline_*.js`, `hooks/ui_hooks.js` | dwell trackers and their batch, scroll anchors and timers | look, navigate, patch, restore | hooks share a page and a batch, timers fire after the reader moved | times counted once, the place kept, the reader not pulled back |
| Page hooks: `portal_dropdowns.js`, `email_*.js`, `form_hooks.js`, `file_explorer_hook.js`, `notification_visibility.js` | menus, selections, tokens, marks | clicks, keys, patches | LiveView patches the page under the hook | one menu, a token used once, a selection that exists, every notification reported once |
| Chat pages: `chat_hooks.js`, `chat_voice_recorder_hook.js`, `voice_channel_hook.js`, `channels/voice_channel.ex` | places of conversations, drafts, recordings, peers | open, send, record, join | restores, clearing and tracking run late | place restored, Enter sends once, one recording per message, microphone off, one offer per pair |

Interaction: a chat write commits and is published (`Publisher` -> `Builders`
allocates the sequence -> `Dispatch` inserts the outbox row and its job). A
worker pushes batches over the session client or HTTP and records the peer's
answers. The receiver limits the rate, then calls `process_incoming_event_result`
for each event, which calls `receive_event` and, on a gap, the recovery, which in
turn calls `receive_event` for replayed events and for the event itself. The
receiver's answer decides the sender's outbox row.

In the browser, components meet through messages (content script and worker;
client, channel and peer; hook and LiveView), through storage (extension pages,
tabs of the vault) and through the page itself (hooks that move the same scroll
position). The chat server stores what encrypted chat sends; the vault's key
opens the mailbox.

## Modules

| Module | Models | Notes |
|---|---|---|
| `StreamIngest` | `receive_event` as one atomic step per outcome; claim archiving | the abstract specification of the receiver |
| `IngestTx` | the same statement by statement: claim insert, `SELECT ... FOR UPDATE`, apply, upsert, commit, crash | EXTENDS `StreamIngest`; `ImplementsStreamIngest` is its specification as a property |
| `OutboxDelivery` | rows, jobs, workers, siblings, chunks, results, backoff, rescan, retention | `rows` is committed data, `view` what the lock holder sees |
| `StreamRecovery` | one stream end to end: write, number, enqueue, deliver, replay, snapshot, retry | composes the sender's numbering with the receiver; takes `receive_event` as atomic, which `IngestTx` justifies |
| `SessionClient` | the session GenServer, one callback per step | deliveries are numbered in the order of the calls |
| `IngressRateLimiter` | reservations, rollbacks, windows, cleanup; one ETS operation per step | checked beside `IngestTx` in `MCReceiver` |
| `NerveSession` | passphrase, deadline timer and token of the extension, the account's password | shared by the next two |
| `NerveContent` | worker and content scripts, one step per await | EXTENDS `NerveSession` |
| `NervePages` | options, manager, launcher, file capture | EXTENDS `NerveSession` |
| `ChatE2EE` | one browser's encryption with a changing set of devices, and the server's rows | |
| `CallReports` | what a hook reports of one client: connected at most once, ended last | abstract specification |
| `DirectCall` | clients, hooks, ringing, signalling, the call's status | `ReportsInOrder` is `CallReports` under a mapping |
| `PrivateVault` | vault and mailbox in several tabs, with the server that checks what they wrapped | |
| `PostDwell`, `FeedScroll`, `PortalDropdowns`, `MailShortcuts`, `AtomineForm`, `FileExplorer`, `NotificationMarks` | one page behaviour each | side by side in `MCPages` |
| `PageMenus` | the menus of the feed and of the mail pages together | EXTENDS `PortalDropdowns` and `MailShortcuts`; states `MenusAlone` |
| `MessageList`, `ReplyBox`, `VoiceMesh`, `VoiceRecorder` | one behaviour of the chat pages each | side by side in `MCChatPages` |
| `*Proofs` (eight modules) | theorems of the module they are named after | `ReceiverProofs` has those of `StreamIngest`, `IngestTx` and `IngressRateLimiter`, `DeliveryProofs` those of `OutboxDelivery` and `SessionClient`, `ChatProofs` those of `StreamRecovery`, `ChatE2EE` and `MessageList`, `PageProofs` those of `AtomineForm`, `ReplyBox`, `VoiceRecorder`, `NervePages`, `PostDwell`, `NotificationMarks`, `FileExplorer`, `PageMenus` and `FeedScroll` |
| `MC*` | instances for TLC | |

An `MC` module with several specifications has a variable (`part`,
`shown`) that is chosen at first and never changes: one of them acts, the others
stay where they start. Their state spaces add up and do not multiply, and their
properties are checked in one run. They share no state in the code either.

Operators named `X_Something` directly before an `X`, commented "Mutant", are
plausible bugs of `X`; replacing `X` by one makes TLC report the property named
with it in `PROJECT.json`. No specification uses them.

A property whose name ends in a module's promise as a whole (`PagesHold`,
`VoiceHolds`, `VaultOpens`, `ReplayIsExact`, ...) is a conjunction of named parts,
each of which is stated and commented by itself in the module. A TLC trace for it
shows which part fails.

### How state and actions correspond to the code

*StreamIngest / IngestTx.* `claims` is the events table, `pos` the positions
table (0: no row), `count` and `acked` are history. `ReceiveDuplicate`, `Stale`,
`Applied`, `Rejected` are the exits of `receive_event`; a rejection (gap, failing
projection, invalid payload) rolls everything back. In `IngestTx`, `pc` is the
next statement and `holder` the lock of a position row. An open insert of the
same event id or key makes the claim wait (`MustWait`); the lock of the position
row can only be taken once the row exists (`LockFree`).

*OutboxDelivery.* `TakeJob` to `Commit` is one run of `process_outbox_event`:
`LockRow` is its guarded `FOR UPDATE` read, `StartDomain` the lookup of the peer
and the `SKIP LOCKED` sibling query, `PushChunk` one request and the recording of
its results, `Crash` the end of a worker with its transaction rolled back.
`PushResults` lets a peer answer anything for each event. Jobs are a set: Oban
may hold several for one row, which differ from one only in being discarded.

*StreamRecovery.* A message is the version last written. `Write` commits,
`Allocate` numbers, `Enqueue` inserts the row, `Burn` is every way of not getting
there. A handler at the receiver goes from a gap through pages (`FetchPage` and
`AnswerPage` are the two queries of `export_stream_events`), then the event
again, then the snapshot (`SnapshotContents` and `SnapshotPositions`, two
unprotected reads at the sender), its import (insert, check, store and commit)
and a last retry. `Refresh` is a snapshot without an event. A failed replay falls
through to the snapshot (`ReplayFails`); a failed snapshot or a dying handler
ends it (`Fail`).

*SessionClient.* The variables are the fields of the GenServer's struct. Error
branches that return to the state before the received frame (`maybe_drain_after_ack`
failing half-way) are `HelloThenSendFails` and `AckThenSendFails`. `Cancel`
allows the message of a cancelled timer to be in the mailbox already.

*IngressRateLimiter.* `Reserve`, `Undo` and `Rollback` are single
`:ets.update_counter` calls. A request is assumed to see at most one change of
the minute.

*NerveSession, NerveContent, NervePages.* `pass` is `sessionPassphrase` with its
copy in session storage, `timer` the deadline. The worker is single-threaded, so a
call is a small program whose counter names the await it is suspended at; a step
goes from one await to the next. `WorkerStops` drops the calls and the timer and
keeps storage. A page's own state is `ui`, what it asked the worker a slot of
`call`; an answer to a page that has gone is dropped (`Leave`). `staged` and
`pending` are the maps in session storage, `fills` and `saves` history.
The content model has the reading and writing of `staged` as two steps.

*ChatE2EE.* A key is a number, a device stands for its user, `rows` is the table of
wrapped keys. `task` holds the two asynchronous functions (preparing a key, sending),
`wire` what the server has not handled, `fetch` a key that is being asked for.
Trust on first use is one nondeterministic answer.

*DirectCall.* `cl` is every client ever made, each with its promises (`main`,
`tasks`), its inbox and its peer; `hook` is the one a hook holds. `Relayed` is the
channel's broadcast to all other members of the topic; `Push` also moves the
call's status. An offer and its answer carry the client and the generation of its
peer connection, so that a stale one can be told from a fresh one.

*PrivateVault.* Wrapped keys are pairs of key and secret; AES-GCM authenticates, so
unwrapping succeeds with the right secret only. A tab keeps the page as it was
rendered, its session and its mailbox key; `task` its calls. A field that an
asynchronous call has read is not typed into again before the call ends; without
this assumption the form can store a wrap the password does not open (observations).

*PostDwell, FeedScroll.* Time is in units, heights in posts. A patch is one action
that runs every hook's `beforeUpdate`, the change, and every hook's `updated`, as
LiveView does. Restores by frame or timer are steps of their own.

*MessageList.* `restores` are the restores whose timers still run, the last one that
of the open conversation. A frame comes between two of these timers and draws what was
asked for before.

*The other page modules.* One action per handler, timer and patch, with the fields
of the hook as variables. `hasty`, `rushed`, `clicked`, `early` and `stirred` are
history: the user did something on which the property is silent, named in the
comment of the property and in the observations below.

*VoiceMesh.* `proc` is every channel process, `news` presence diffs on their way
from the tracker, `inbox` what the channel has sent to a page, `toView` what a hook
pushed to its LiveView.

## Runs

| Run | Instance | Shows |
|---|---|---|
| `receiver` | 3 handlers, 2 events of one stream and one of another that shares a key; 4 batches over a peer bucket and two rooms, 4 minutes | exactly once, gapless prefix, no false acknowledgement, the interleaved transactions refine `StreamIngest`, every receive ends; never over the limit, exact counters, no crash |
| `outbox` | 2 rows (one for both domains, one extension row for one), 2 workers, 3 attempts, 1 crash | truthful statuses, no repeated push, every row settles |
| `outbox_stuck` | 1 row, 2 domains, 2 attempts | **violated**: see findings |
| `replay` | 2 handlers, 2 messages, 3 writes, pages of 1 event | the mirror is the prefix, replay repairs every complete gap, convergence |
| `snapshot` | 1 handler, 3 writes, snapshots, burnt sequences, pruning, 1 failure | neither mirror nor mark goes back; every event in the outbox is acknowledged in the end |
| `session` | 5 deliveries, 2 streams and ephemeral items, windows of 1 to 3 batches, 1 hello, 1 loss | exact accounting, one batch per stream, no lost wakeup, the queue empties |
| `nerve_content` | 2 tabs, 2 sites, 2 concurrent calls, 2 account passwords, 3 events | fills go where they were chosen, and not from a session whose deadline had passed; a saved login keeps its site |
| `browser_keys` | extension pages: 2 passwords, 2 tokens, 4 events; chat: 3 devices, a pair and a group, 2 keys, 3 events | manager and worker keys open the vault, size limit, pages settle, an idle vault locks; exactly the audience can read, sends end |
| `private_vault` | 2 tabs with 2 calls each, 2 passwords, 4 more keys, 3 acts of the user | one key behind both locks, the password opens it, a key is kept, a lock holds, nothing waits for nothing |
| `direct_call` | 2 users, 3 clients, 1 restart, 2 events | no candidate lost, ringing only for a call that is neither connected nor over, reports refine `CallReports` |
| `pages` | per page 3 to 7 acts of the user, network and server | dwell, scroll, menus, keys, tokens, selection, marks |
| `chat_pages` | 2 conversations; 2 drafts and 1.3 s; 2 sessions per member; 2 recordings | place, sending, mesh, recording |

`EventuallyAcked`, `Converges`, `QueueMoves` and `ClientsSettle` hold because writes,
calls and what users do are finitely many: something must be true, or be answered,
from some point on.

Deadlock checking is off where the system may come to rest: all rows settled, all
writes delivered, the user does nothing more.

### Bounds and why they suffice

Events, writes, calls, crashes, failures, acts of users (`MaxEvents`, `MaxTurns`)
are finite, each by a named constant that appears only in guards. What the code
does by itself (answers, timers, patches on their way) is never counted.

Federation: two concurrent actors meet every conflict the code resolves pairwise
(row locks, unique index, counters); a third handler lets two wait for one. Three
writes over two messages give a create, an edit and an unrelated message in one
stream, hence a gap in the middle, a page boundary, and an edit a snapshot misses.
Three attempts with two domains let successes and failures share the budget in
every order. The window <<1, 2>> makes every part of `can_send_delivery?` decide
some case.

Browser: a race of a handler needs one call under way and two events between its
steps (change and change back, or navigate and return), which three events give;
two tabs, sites, conversations or devices of others are enough to confuse one with
another. A third client of a call is a client of an earlier mount beside the two
that talk. The thresholds of times (`MinDwell`, `ScrollPast`, the 500 ms of
`SameText`) keep their order and can be reached on both sides. Tabs, sites and
passwords are symmetric where the run says so; no liveness is checked there.

The theorems remove the bounds for the modules they are about.

### Fairness

- `IngestTx`: strong fairness of each handler's statements. The BEAM schedules
  every process and PostgreSQL queues lock waiters, so a handler whose lock
  becomes free again and again gets it. A crash may happen at any time.
- `OutboxDelivery`: weak fairness of each worker's next step (Oban runs queued
  jobs), of the passing of `next_retry_at`, and of the retry worker (a cron job
  every minute). Nothing is assumed of peers.
- `StreamRecovery`: publication goes on; the outbox delivers an event it has no
  acknowledgement for again and again (strong, because deliveries of other events
  may briefly occupy the handler); handlers go on. The retry budget that bounds
  this in reality is the subject of `OutboxDelivery`. Writes, refreshes, pruning
  and failures are not fair.
- `SessionClient`: a delivery in flight is acknowledged or its timer fires.
- `NervePages`, `ChatE2EE`: weak fairness of what is under way: a request of the
  browser is answered or fails, a timer fires. Users and servers elsewhere are not
  fair; whoever must approve a pairing need not.

The other browser modules have no liveness property and no fairness.

## Proofs

Eight proof modules are checked from scratch by `tlapm`, for every value of the
constants that satisfies the named `ASSUME`s of the modules (`EnvelopeAssumption`,
`SequenceAssumption`, `LimiterAssumption`, `RecorderAssumption`, `ListAssumption`,
...): sets that are finite or not empty, bounds that are numbers. Hypotheses beyond these stand in the theorem itself and are named below.

*StreamIngest* (in `ReceiverProofs`). `IInv` strengthens the properties with
`ClaimedIsApplied` (a claim exists only for an applied envelope: a stale one is
below the mark, and everything below the mark was applied) and
`AppliedIsRemembered` (an applied envelope is still claimed or was archived).
`AppliedOnce` alone is not inductive: that an archived envelope is not applied
again follows from `GaplessPrefix`, which needs that a stream's sequences are
distinct (`SequenceAssumption`: the counter is one atomic upsert). Theorems:
`TypeCorrect`, `Invariance`, `ExactlyOnce`, `Prefix`, `NoFalseAck`, `Monotone`.
`KeyOnce` adds that a claim is the only thing that lets a key pass once.

*IngestTx.* `TxIInv` says that from `check_sequence` to the commit the decision
stays right and that two open transactions past the claim have different keys.
The position lock cannot carry this argument for the first event of a stream; what
does is that a competitor for the same sequence is the same envelope, hence waits
for the claim. `Refinement` shows that every statement is a step of
`StreamIngest` or a stutter. `DecisionHolds` and `ClaimsExclusive` are its two
halves.

*OutboxDelivery.* `IInv` relates a run to its rows: locked rows belong to one run
and are committed pending and due; unlocked rows read the same for everyone; what
is to be sent is not acknowledged in the run's own view, although siblings are
chosen anew for every domain. `StatusMeans` needs the last, and that needs
exclusion. From it: `Exclusion`, `StatusIsTruthful`, `NoRepeatedPush`, `AcksKept`,
`TerminalKept`.
`StuckHasSuccess`: a row that the rescans cannot reach has been
acknowledged by some domain (`ViewAgrees` and `RunShape` are the parts of `IInv`
it needs).

*StreamRecovery* (in `ChatProofs`). `ReplayStaysExact`: without snapshots (`~HasSnapshot`, a
direct-message stream) the mirror is exactly the prefix its mark names and replay
repairs every gap whose rows are there, for any messages, handlers, page size,
writes, failures, lost and pruned sequences. `NothingGoesBack`: neither the mark nor
a mirrored message goes back, without snapshots, or with them when one handler
imports (`Alone`; two can move the mark back, see the observations). Both assume
that writes of one message are published one after the other (`~Overlap`).
The invariant has a part for each actor. The sender: sequences follow the versions
of a message, and what is not in the outbox yet is its latest version; that there
are no more sequences than writes is a count of the drafts. The receiver: no event
still to come is older than the mirror. A replay (`Replaying`): while the event is
missing, every row from the mark to the event is in the log, and what is missing
lies in the page or after its last row; pruning cannot take it away, since only what
is acknowledged, hence below the mark, is pruned. An import (`Importing`): an event
older than the contents of the snapshot is at most at its position or below the
mark, although the positions are read after the contents and outside a
transaction; this is where one publication at a time is needed.

*SessionClient* (with *OutboxDelivery* in `DeliveryProofs`). `SessionInvariance`: the accounting of what is in flight is exact,
one batch of a stream at a time, nothing sendable waits, and a delivery in flight
has its timer. The invariant `ClientIInv`, which the run checks too, is inductive as it
stands. The counters are cardinalities of sets of pairs, so that a batch added or
acknowledged is a disjoint union. The drain sends a prefix of the queue; that the
longest sendable prefix exists and is itself sendable is the lemma
`InitialSegmentMax`. `OneBatchPerStream` needs only what is in flight.

*IngressRateLimiter.* `RollbackNeverFails`: the cleanup keeps the counters of the
current and the previous minute, and a request that is still counting is in one of
these (the assumption that a request sees at most one change of the minute is a
guard of the model). `BudgetsAreKept` adds that no bucket admits more than its
limit and that every counter is the sum of what was admitted and what is still
held: what an unfinished request has reserved is counted apart from what was
admitted, and a rollback gives back exactly that.

*ChatE2EE* (in `ChatProofs`). `ChatInvariance`: every key has one set of devices it
was made for. The set is not in the state: the invariant says that some assignment
of sets to keys agrees with the keys in use, the rows of the server, every message,
every waiting task and what is on the wire, and with what an encrypted message was
sent to (`AudienceStays`). A step extends the assignment only to a key that nobody has yet, so a key
that is adopted from the server or used again never changes its devices.

*NerveContent.* `ContentInvariance`: a call whose document is still there began on the
site its tab shows (`CallGood`); the login in a prompt, on screen or on its way, is of
that site, and so is whatever is pending in the worker while the prompt stands; a
call to save carries a login of the tab and of the site of its prompt. From it
`FillsStayOnSite`, `ExpiredFillsNothing` and `SavesStayOnSite`.

*PrivateVault.* `VaultInvariance` says what a page, a form and a call may carry: it
was made from what was stored then, and carries the stored master key for as long as
the vault has not been reset (`Agrees`), however late it is used; a mailbox under
the account password is wrapped with the secret the server will verify; a tab that
was locked with nothing in flight starts nothing by itself (`LocalOK`). From it
`VaultAlwaysOpens`, `MailboxStaysLocked` and the action property `MdkStays`.

*DirectCall.* For any number of clients, restarts and events. What is hard is a
function that waited for the microphone while its client was cleaned up: it still
makes a peer connection. No signal mentions that one, because the channel has been
left; so nobody answers it, and a client that gets connected is live. `Peers(f)`
is the set of connections a description may come from, and `CallInvariance` says
that whatever waits in an inbox or a task comes from one of these. From it
`CandidatesAreKept`, `PhonesRingTruly` and `ReportsAreInOrder`: what the hooks report
of every client refines `CallReports`.

*AtomineForm, ReplyBox, VoiceRecorder* (`PageProofs`). `SpentOnce`: a token in the
field while the work is idle has not been sent, and at most one submit waits.
`EnterOnce`: what was sent is either still in the box and inside the window of
`JustSent`, or its clearing timer is due before that window ends. `RecordingIsKept`:
`RecorderIInv` says that a live microphone is that of the current recording, and a
request for one is pending only while nothing is recorded; `ChunkIInv` that for a
user who waits for a click to be done one recorder runs at a time and what has been
collected are its chunks in order, but for a late last one.

*NervePages* (`PageProofs`). `PagesInvariance`, `PagesKeepKeys`: the password a manager
page holds opens the key it holds, except while a change of either is being checked;
what a page sends to store was opened by what was typed in it; and no file goes out
above the limit, whatever was chosen while the limit was read.

*PostDwell* (`PageProofs`). `TimeIsReported`: for every post, what was told, what is
queued and what its hook still holds (`Held`) add up to no more than the post was seen.
That is inductive only together with when a hook measures: while its post can be seen
on a page that is not hidden, and from a start that is cleared whenever it pauses;
and with the handle of the batch, which is set exactly while its timer runs and
whenever something is queued (`HandleIsTimer`). Every exit of a hook (batch, flush before a
navigation, removal) is a step of its own, since each moves the time on by another way.

*NotificationMarks* (`PageProofs`). `SeenOnce`: the properties are inductive with
their types. What is queued next is disjoint from what is marked, and what is marked
is what was reported or is queued; so a queue appended to what was reported repeats
nothing (`InjectiveConcat`). `Ids` is finite: a card names finitely many.

*FileExplorer* (`PageProofs`). `SelectionStaysTrue`: for a user who waits for answers
one call or one patch is on its way at most, hence the page shows the server's list
whenever it can be clicked (`Waited`), and a selection that arrives is of that list. All
gestures are one case of the proof (`Gestured`). That a range holds the row it reaches
needs no waiting: the row is bounded by the list although the anchor is not
(`RangeFacts`).

*PageMenus* (`PageProofs`). `MenusStayAlone`: `OneMenuOverPage` and `OneGotoMenu` are
inductive, each by itself: a trigger closes what was open before it opens its own,
and a goto menu is the one its page's cleanup names, or it has gone with its page.

*FeedScroll* (`PageProofs`). `PlaceIsKept`: of everything that moves the page in a patch
(the browser, then three hooks one after the other) the last hook that has a place to
keep decides, and all that have one have the same. Where a post is restored to does
not depend on where the page has got to (`ToAnchorFacts`), so the order of the hooks
does not matter. For this there must be a post at the edge of the screen (`EdgePost`:
the heights of the posts add up to the length of the page), which the invariant
`FeedIInv` provides: the page is always scrolled within a feed in its order.

*MessageList* (`ChatProofs`). `PlaceComesBack`: any number of restores may be under way.
Their timers end in order (`InTurn`), so the last to end is that of the open
conversation, and none before it stores a place. A place is that of the reader whenever
the page is at rest (`PlaceKept`), hence when a conversation is left, and stays so until
its own restore has ended (`AsLeft`); and before its last timer a restore has brought
the page there (`There`), unless something else was drawn meanwhile.

*VoiceMesh.* `MembersMeet`: two members who are both on the channel and at rest have a
connection, for any number of joins, leaves and reconnections. A page, its channel
process and the tracker tell the other member of a session at three different times,
so the proof is about what is still to be heard. Each member has one process that
listens, or one whose page has left it (`OneProcess`); whatever a member has heard or
holds of the other is of a process that is still there, or news of its leaving are to
come (`Traced`); and once no leaving of an earlier session is to be heard, the member
who came later either still has to hear of the other or has made an offer that is on
its way or received (`Pairing`). News heard out of turn (`crossed`) break the second
part, and really lose the connection (see the observations). TLC checked this
invariant on the instance of `chat_pages` before it was proved.

The inductive invariants of the proofs, the exclusion of runs (`OneRunPerRow`), the
permanence of acknowledgements and of final statuses (`AcksNeverLost`,
`TerminalIsFinal`), `ExhaustedPendingHasSuccess`, `ClaimExclusive` and
`HighWaterMonotone` are established by the theorems only: what holds for every
instance is not checked again on a small one.

Every safety invariant and every action property of the runs, and both refinements,
are proved. Only model-checked are the liveness properties, since TLAPS has no reasoning
about fairness: `EveryReceiveEnds`, `EventuallySettled`, `Converges`, `EventuallyAcked`,
`QueueMoves` and `ClientsSettle`.

## Findings

`outbox_stuck`, a run that TLC must find violated: successes use up the shared
`attempt_count`, so a row can stay pending with no attempt left, beyond the reach of
rescans and retention (`federation/delivery.ex:258`). `StuckHasSuccess` says which
rows can get there.

## Observations

What the code does in situations the properties above leave out. Where a history
variable or a constant excludes the situation, it is named; setting it shows the
behaviour in TLC.

*Federation.*
- `StreamRecovery` with `HasSnapshot = TRUE` and two handlers: an import compares and
  stores the high-water mark without a lock and can move it back
  (`NothingRegresses`, `federation/snapshots.ex:953`).
- With `HasSnapshot = TRUE`: a snapshot's position covers writes its contents lack,
  whose events are then stale (`AckedIsReflected`, `federation/snapshots.ex:91`).
- With `HasSnapshot = FALSE`, `MayBurn = TRUE`: a sequence lost before the outbox
  blocks a direct-message stream for ever (`EventuallyAcked`, `federation/dispatch.ex:112`).
- With `Overlap = TRUE`: concurrent edits may be numbered against the order of their
  commits (`Converges`, `federation/publisher.ex:135`).
- A delivery that may be sent at once overtakes an earlier one of its stream that is
  queued (`federation_session_client.ex:218`); the receiver turns this into a gap and a
  recovery. A batch being rejected holds budget until its rollback
  (`federation/ingress_rate_limiter.ex:126`); limits are never exceeded.

*Extension.* Two tabs lose or resurrect each other's staged fills
(`lib/storage.js:119`). `clearPendingSave` forgets a newer submission
(`background.js:676`). The existing entry is looked up by user name alone, and an
update with other metadata leaves old notes undecryptable, since metadata is
authenticated with them. A failed unwrap with the old passphrase clears a newer
unlock. Settings that a page read before a sign-out are written back after it, and
the token is not revoked. `hideBanner` after 1.2 s hides a newer banner; an earlier
badge timer clears a later badge. `verifyRemoteFileSize` catches its own refusal, so
only the later checks hold. A worker that restarts has lost submissions that were
not yet stored.

*Calls.* `getUserMedia` granted after `cleanup` leaves camera and microphone on. The
answer to a restart's offer is ignored (`remoteDescriptionSet` stays true). A
`peer_ready` that is lost leaves both sides waiting; one that lands during
`initiateOffer` causes a second offer. An offline `finishCall` tells nobody. A
callee whose LiveView is mounted anew while ringing resumes the call without
answering it. The ring timeout is armed only by an offer.

*Encrypted chat.* A text is sent without encryption when encryption is enabled and
this browser is not ready: the message "Your message was not sent yet"
(`chat_e2ee_hook.js:744`) sits behind a return that is taken first (line 727).
A key adopted from the server counts as sent to the current device list. An answer
clears what was typed meanwhile; a send accepted after its time-out may be
repeated; a key once unavailable stays so until the page is loaded again.

*Vault and mailbox.* A key being derived while the vault is locked is cached
afterwards (`vault_session.js:94`). Setup unlocks the session before the server has
stored. Editing the password between setup and its end stores a wrap that the
password does not open. A mailbox setup from a stale page overwrites the mailbox
key, and a stale password page can bring an old data key back after a reset. A lock
during an unlock or a rendering is followed by a stored key or by plaintext; locking the vault does not
take decrypted mail or the list of entries off the screen.

*Feed.* A navigation flush of a ctrl-click leaves its flag set and tracking paused.
Reports through a removed hook are dropped. A like followed by scrolling and an
unrelated patch yanks the reader back; a patch within 200 ms of the click interrupts
the smooth scroll, and the queued posts may not show.

*Pages.* The trigger of an open dropdown is dead, since the menu is no longer under
its root (`portal_dropdowns.js:80`). `[id^="message-"]` also finds `#message-list`
(`email_hooks.js:88`); new mail shifts the highlighted row against the index. Two
submits during the work submit one token twice (`hasty`). `data-row-selected` never
equals "true" (`file_explorer_hook.js:128`), so dragging one of several selected
rows moves only that one. Reports of notifications without a connection are lost.

*Chat pages.* The place of a conversation is lost if its messages take longer than
600 ms; the restore timers pull a reader back in the first half second (`stirred`).
The retries of `scroll_to_bottom` go on for 1.8 s (`chat_hooks.js:644`), longer than a
restore, and are for whatever conversation is open: when a message has come and the
reader scrolls up, opens another conversation and comes back, a retry that finds the
page near its bottom during the restore takes it to the bottom (four acts of the
reader; `stirred` excludes it). Also,
`scroll_to_bottom` on another member's message moves a reader who scrolled up. Text
typed within 100 ms of sending is cleared; a click followed by Enter sends twice
(`clicked`). A second click on stop within 100 ms sends the start of the next
recording, a double click on record starts two, and leaving the page while the
microphone is asked for leaves it on (`rushed`).

*Voice channels.* When a join diff overtakes one's own presence state, both members
offer (`crossed`), unlike the comment in `voice_channel_hook.js:12`. A late leave
diff closes the connection of a quick rejoin, and nobody offers again. The
confirmation of a leave resets the bar of a join made since (`hasty`). Presence
`muted` is lost at a socket rejoin.

## Not modelled

Signatures, nonces and key rotation (cryptography); discovery, policies and
visibility (their outcome is an arbitrary or constant input); event types other
than message creation and update; the ephemeral lane; websocket framing; the
fallback to sequence 1 when the counter's SQL fails (excluded by
`SequenceAssumption`); federated calls; the other server applications. In the
browser: drawing, theming, recognition of login fields, media, link and text
captures, search tokens, mail composition, page hooks with one handler and one
effect, and in the message list `scroll_to_message` and images that grow.

## Plan

Done: the federation core (`StreamIngest`, `IngestTx`, `OutboxDelivery`,
`StreamRecovery`, `SessionClient`, `IngressRateLimiter`) and the browser modules
listed above, with the proofs described above.

Next, by importance:

1. `Federation`: `OutboxDelivery` composed with `StreamIngest` through lossy pushes,
   showing that `delivered` at the sender implies applied at the receiver.
2. Federated calls (`federation/voice_calls.ex`) beside `DirectCall`.
3. `MirrorState`: reactions, deletions, read cursors and membership events next to
   snapshots, where the import is not additive.
4. ActivityPub delivery: per-domain throttling, retry and the inbox queue.
