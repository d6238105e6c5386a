# multi-guest-live: a TLA+ model

multi-guest-live is a live-streaming service with several guests on stage: a
Fastify API (`src/apps/api`), a Next.js client (`src/apps/web`), a shared package
with roles and protocol constants (`src/packages/shared`), Postgres and Redis for
state, and LiveKit as the media server.  The API never carries media.  It decides
who may publish, tells LiveKit, and learns from LiveKit's webhooks what happened;
browsers learn it from pushes, from polling, or by being disconnected.  Most of what
can go wrong lies between those copies of the truth: the row in Postgres, the sets in
Redis, the room in LiveKit, the page in the browser.

This directory holds the TLA+ modules, the TLC configurations that check them and
the TLAPS proofs.  `PROJECT.json` lists components, runs, theorems, hazards and,
for every definition, the source lines it models.

## Inventory

| Component | State | Operations | Talks to |
|---|---|---|---|
| participation (`routes/rooms.ts`, `services/roomState.ts`, `services/rooms.ts`) | `room_participants(role, state)`, background retry loops | `/token`, `join-requests`, `approve`, `reject`, `role`, `kick`, `ensurePublishPermission`, `participant_joined/left` | LiveKit permissions, clients' tokens |
| host queue (`components/HostQueue.tsx`) | listed requests, counted slots, the busy row | refresh (5 s, signal, click), approve, reject | participation |
| room lifecycle (`routes/rooms.ts`, `routes/webhooks.ts`, `services/roomLifecycle.ts`) | `rooms.status`, the LiveKit room | `POST /rooms`, host's `/token`, `/end`, `room_started`, `room_finished`, `endRoomGracefully` | LiveKit, both sweepers, egress |
| host grace (`services/hostGrace.ts`) | `room:*:host_gone`, its lock, `room:*:present` | `markHostGone`, `clearHostGone`, `sweepHostGraceOnce` every 15 s | webhooks, room lifecycle |
| demo sweeper and room cap (`services/demoSweeper.ts`, `routes/rooms.ts`) | lock per room, all tables | lifetime end, purge of rooms and users, `countActiveRooms` | room lifecycle |
| webhooks (`routes/webhooks.ts`) | none of its own | dispatch; every error is answered 200 | all of the above |
| egress (`services/egress.ts`) | `rooms.egress_status`, `egress_id`, `viewer_mode` | start at the host's join, stop at the end, fall back to WebRTC | LiveKit egress, webhooks, viewers |
| viewer's page and player (`watch/[roomId]/page.tsx`, `HlsPlayer.tsx`) | the room it read, token, egress status, playlist, an instance of hls.js | load, enter, poll `GET /hls`, import and attach | egress, room lifecycle |
| host's page (`broadcast/page.tsx`) | stage of the page, room, token, invite, guide | set up by hand or `?demo=1`, go live, reconnect, end | room lifecycle, invites |
| host's stage (`Stage.tsx`) | page of the grid, spotlight, a badge's listeners | turn pages, spotlight, mute, change role, kick | LiveKit client, participation |
| audio reach (`services/audioReach.ts`, `AudioReach.tsx`) | published tracks, owners, alerts, last reports, the nicknames the host's page keeps | report, re-subscribe signal, alerts, clean-up at leave and unpublish, poll of the alerts | clients, webhooks, host's stage |
| chat, server (`services/chat.ts`) | messages, 1 s cache and its version, bans, rate-limit keys | post, page with cursor, hide, unhide, ban | LiveKit data, clients |
| chat, clients (`components/Chat.tsx`) | list of messages, cursor, text, retry, ban, badge | poll, merge, pushes of messages and moderation; send, retry, scroll, ban | chat, server |
| guest's page (`ReconnectGuard.tsx`, `GuestUpgrade.tsx`, `MuteBanner.tsx`, join page) | attempts, timers, flags, microphone and camera, the banner | classify a disconnect, back off, fetch a token, give up; follow the permission; turn the microphone on | LiveKit client, `/token`, `join-requests` |
| device preview (`DevicePreview.tsx`) | streams, meters, denial | a run of its effect per mounting, device and retry | the browser |
| dialogs, toasts, sheet (`ui.tsx`) | promises, the focus | `confirm`, `toast`, two focus traps | every page |
| sessions (`lib/api.ts`, `routes/auth.ts`, `services/auth.ts`) | `localStorage`, users, 7 days | `ensureSession`, `POST /auth/session`, `verifySession` | every call |
| invites (`services/invite.ts`, `RoomShare.tsx`) | a code and its uses, an hour each | create, resolve, record a use | host's page, `join-requests` |
| API process (`index.ts`) | connections, intervals, requests under way | listen, shut down, hard exit | sweepers, Redis, Postgres |
| LiveKit wrapper (`livekit.ts`, `livekitTimeout.ts`) | none | every call bounded by 10 s; the call itself goes on | LiveKit |
| HLS viewers (`roomState.ts`) | sorted set with last-seen times | heartbeat, count | chat polling |
| rate limits, metrics, health, configuration | counters | single commands | - |

What is hard in each, and what makes it correct:

- *Participation.*  Handlers read a row, await, and write; loops keep a decision
  for 6.4 s; LiveKit calls fail or land late; webhooks come in any order.
  Correct means: nobody publishes without an approval, a kick stands, a viewer
  token costs nobody a role, and slots are not over-committed.
- *Host queue.*  A page that shows what it read some time ago, and whose buttons change
  what it shows.  Correct means: a guest who waits can be decided on, and a row whose
  guest was decided on goes.
- *Room lifecycle and host grace.*  Four ways to end a room race with returns,
  restarts and each other; the row learns of the end from a webhook.  Correct
  means: the end is final, a hostless room ends, presence follows the
  connection, and the LiveKit room does not outlive the row.
- *Egress.*  The start at the host's join is not awaited, the stop reads the id a start
  may be about to write, and webhooks write the same columns.  Correct means: one egress
  at a time, none left when the room is gone, and viewers get the playlist of an egress
  that runs.
- *Audio reach.*  Reports are judged against a record that webhooks rewrite meanwhile.
  Correct means: the record is the room once the webhooks are handled, a missing
  track is asked for again and reported to the host, and an alert about a heard one goes.
- *Chat.*  Rows, a version and a cache are written one after the other, answers and pushes
  overtake one another.  Correct means: a reader is never behind a writer who has
  an answer, and every list ends up right: hidden messages gone, shown ones there.
- *Guest's page.*  Disconnections have reasons, timers fire late, two devices share an
  identity, and the permission changes under a sync.  Correct means: no ping-pong, no page
  left without a word, devices as the permission says, no token after a kick.
- *Viewer's page.*  Two reads of the room and any number of polls answer in any order, and an
  import outlives its screen.  Correct means: one player at most, and it ends up showing
  what there is.
- *Host's page and stage.*  Two ways into a room, calls that are answered after the page has moved
  on, tiles that change under an open dialog.  Correct means: connected to the room that is
  shown, no room forgotten, the kick meets whom the dialog named, badges tell the truth.
- *Device preview, dialogs.*  Effects that run again and again, whose clean-ups come between the
  awaits of the runs before.  Correct means: no camera stays on, the focus is where it belongs.
- *Sessions and invites.*  One `localStorage` for all tabs; keys and their TTLs written by two
  commands.  Correct means: a tab enters as whom it asked, and nothing is kept for ever.
- *API process.*  A shutdown among requests, sweeps and a boot that is not over.  Correct means: it
  ends, and an exit of 0 has lost nobody's answer.
- *Stock of rooms.*  A count and an insert, and a purge that reads one table after the
  other.  Correct means: the cap is exceeded by little, and what has ended goes.

## Modules

| Module | Models | Built on |
|---|---|---|
| `Participation` | one room's rows, tokens, LiveKit permissions, handlers, loops, late calls, participant webhooks | |
| `HostQueue` | the host's queue page, composed with the handlers of `Participation` | EXTENDS `Participation` |
| `RoomLifecycle` | one room's status, LiveKit room, host presence, mark and lock, sweeps, ways to end | |
| `Egress` | one room's egress columns, LiveKit's egresses, starts, stops, egress webhooks, a viewer's HLS player | |
| `FreshReads` | what `GET /chat` promises, caches aside: the abstract specification | |
| `ChatSnapshot` | the chat's routes, with cache, version and rate limit | implements `FreshReads` |
| `ChatClients` | one browser's list of messages | a server as in `FreshReads` |
| `AudioReach` | published tracks, reports, alerts, resubscription | |
| `GuestPage` | the join page on several devices of one user | |
| `RoomStock` | rooms, users and rows that pile up; cap and retention | |
| `WatchPage` | a viewer's page with the HLS player | |
| `HostPage` | the broadcast page: set-up, demo entry, reconnection, end | |
| `HostStage` | the host's stage under changes of the room | |
| `HostAlerts` | reports, their ages, polls of the alerts, marks on tiles | |
| `ChatView` | one user's composer and scrolling, and the host's bans | |
| `Microphone` | one microphone under `GuestUpgrade`, `/mute` and `MuteBanner` | |
| `DevicePreview` | the preview's effect and its overlapping runs | |
| `Dialogs` | `confirm`, toasts, sheet, focus | |
| `Sessions` | the session of a browser's tabs | |
| `Invites` | a room's codes and their uses | |
| `ApiProcess` | one life of the API's process | |
| `ParticipationProofs` | theorems about the handlers, and about the queue's page on top of them | EXTENDS `HostQueue` |
| `RoomLifecycleProofs`, `EgressProofs` | theorems | the module of the name |
| `ChatProofs` | theorems about the chat's server and its cache | EXTENDS `ChatSnapshot` |
| `ChatViewProofs`, `AudioProofs`, `PagesProofs`, `ServicesProofs` | theorems about the components side by side there, each about the component's own `Spec` | EXTENDS `MCChat`, `MCAudio`, `MCPages`, `MCServices` |
| `MCParticipation`, `MCHostQueue`, `MCRoomLifecycle`, `MCEgress`, `MCChatClients` | small instances for TLC | the module of the name |
| `MCRoomFair` | two instances of `RoomLifecycle`: restarts and a lifetime, overlapping sweeps | `RoomLifecycle` |
| `MCChat` | `ChatSnapshot`, `ChatClients` and `ChatView` side by side | all three |
| `MCAudio` | `AudioReach`, `HostAlerts`, `Microphone`, `HostStage` side by side | all four |
| `MCPages` | `GuestPage`, `DevicePreview`, `WatchPage`, `HostPage`, `Dialogs`, `Sessions`, `Invites` side by side | all seven |
| `MCServices` | `RoomStock`, in two instances, and `ApiProcess` side by side | both |

The last four put components that share no state into one run: the variable `part` says which of
them moves in a behaviour, and the others stay in their initial states.  The states of the run are
the sum of the components' states, so nothing is lost and nothing interleaves that could not
matter.  The fairness is that of the modules, of the one that moves.

Statements of the repository that the code does not keep are at the end of `ChatClients`, in
`MCParticipation` and in `MCRoomLifecycle`.

Node.js runs one callback at a time, so **one action is the code between two
awaits**.  A handler in flight is a record with a program counter (`call`, `sweep`,
`start`, `stop`, `read`, `write`, `report`).  What a handler read is kept in that record
only when it is used later: the role of a token request, the subject of a write.
Audit rows (`logModeration`), signals to the host's queue and metrics change
nothing else and are left out; so are bodies that do not validate.  Definitions
that no action uses but that stand next to one that looks alike (`OneTooMany` beside
`HasSlot`, `MergedOnly` beside `FilterHidden`) are deliberate faults: with one put in its place the
property named for it in `PROJECT.json` fails.

### Participation

`row[u]` is the participant's role and state, `NoRow` when there is none.  `token[u]`
is the role of the token the client would connect with, `conn[u]` the permission of
its LiveKit participant.  `hooks[u]` are the webhooks not delivered yet, as a set, so
that any order is possible.  `call[k]` is the handler in slot `k`; the number of slots
is the number of calls in flight.  `loops[u][r]` counts running
`ensurePublishPermission` loops, `late` holds LiveKit calls whose caller timed out.
`granted[u]` is a history variable: the publish roles that approvals gave `u`.

| Actions | Code |
|---|---|
| `BeginToken`, `EnsureTokenRow`, `IssueToken` | `POST /token`: decide the role from the row; upsert (host) or insert if absent (viewer); sign |
| `BeginJoin`, `CountForReentry`, `Reenter`, `Enqueue` | `join-requests`: approved is a no-op, left is tried for re-entry, the rest is queued |
| `BeginApprove`, `BeginRoleChange`, `CountSlots`, `Approve`, `ChangeRole`, `ChangePermission` | slot check, row, LiveKit; a failed permission update is handed to a loop |
| `BeginReject`, `BeginKick`, `ShutOut`, `Revoke` | row first, then revoke or remove, errors ignored |
| `RetryApplies`, `RetryFails` | one try of a loop; the number of tries is nondeterministic |
| `ParticipantJoined`, `ParticipantLeft`, `HookLost` | the webhook handlers' row writes |
| `Connect`, `Drop`, `Expire`, `LateLands`, `Abort`, `Restart` | client, LiveKit, Postgres errors, process restarts |

The room stays open in this module.  A LiveKit update needs a connected participant;
a removed client drops its token (the join page shows its own screen and does not
reconnect).  Only users in `Clients` connect; the others are subjects of the
host's calls and of their own join requests.

### RoomLifecycle

`status` is the row, `lk` the LiveKit room: `absent`, `open`, or `silent` where LiveKit
announces a created room only at its first join (`StartsAtJoin` chooses).  `hooks` is
a sequence, in the order of the events; with `InOrder` a webhook is taken up when the
one before it is done, otherwise any can be, and handlers overlap.  `present` and
`gone` are the Redis set and mark, `gone` being `due` once the grace is over; `lock`
is the sweep's lock.  There can be several sweeps at once, as `setInterval` does not wait
for a sweep that sits out a room's 2.5 s.

| Actions | Code |
|---|---|
| `CreateLiveKitRoom` | `POST /rooms` after the insert; if it throws the client never learns the id |
| `BeginToken`, `MarkLiveForHost`, `IssueToken` | the host's `/token` |
| `BeginEnd`, `EndRecord`, `EndDelete` | `/end` |
| `RoomStarted`, `HostJoined`, `ClearHostGone`, `HostLeft`, `ReadStatus`, `MarkHostGone`, `RoomFinished`, `ClearPresence`, `HookLost` | `webhooks.ts`, an action per await |
| `SweepReadsMark` to `SweepForgets`, `GracePasses`, `LockExpires` | `sweepHostGraceOnce` and `endRoomGracefully` |
| `DemoSelects`, `DemoDeletes`, `LifetimePasses` | the first half of `sweepDemoOnce` |
| `HostConnects`, `HostLeaves`, `GuestsCome`, `GuestsGo`, `EmptyTimeout` | people and LiveKit |
| `Restart` | handlers and sweeps vanish; webhooks without an answer are sent again |

### Egress

`mode`, `est` and `eid` are the columns `viewer_mode`, `egress_status` and `egress_id`;
`run[r]` is what LiveKit's egress `r` does; `start[k]` are `ensureEgressStarted` calls
(several, as nobody awaits them), `stop[o]` are `POST /end` and the `room_finished`
handler, which share `stopEgressForRoom`.  A failed start or a failed egress ends in
`FallbackToWebrtc`.  `RoomLifecycle` has the ways a room ends; here everything but
`/end` is `RoomCloses`, and the room starts in mode B with a token in the host's hands.

| Actions | Code |
|---|---|
| `HostJoined`, `WriteStarting`, `CallLiveKit`, `RecordId`, `StartFallsBack` | `participant_joined` and `ensureEgressStarted`: the row it read decides, status, LiveKit, id; or `notifyFallback` |
| `BeginEnd`, `RoomFinished`, `ReadId`, `StopEgress`, `ForgetId`, `RecordEnd`, `DeleteRoom` | `/end` and `room_finished` |
| `EgressActive`, `EgressComplete`, `EgressFailed`, `HookLost` | egress webhooks |
| `RunActivates`, `RunFails`, `RunCompletes`, `RoomCloses`, `HostConnects`, `HostLeaves` | LiveKit and the host |
| `Enter`, `Poll` | the watch page, which reads the mode once, and the player's poll of `/hls` |
| `Restart` | starts and stops vanish; an unanswered `room_finished` is sent again |

Two switches are assumptions about timing.  `Serial`: a start has written `starting`
before the next webhook is taken up (its query was sent first, and the next handler needs
two more before it reads the row).  `Prompt`: LiveKit answers the start before the
egress's webhooks are handled (an egress takes seconds to become active).

### HostQueue

The page's state is `requests`, `approved` (what it counts) and `busy`; `refresh[q]` is a
refresh whose two GETs read at different moments and that shows both at a third; `click[k]`
is the click whose handler runs in slot `k` of `Participation`.  The handlers are
`Participation`'s own actions: a click starts one and gets its answer when it returns.

| Actions | Code |
|---|---|
| `Refresh`, `ReadRequests`, `ReadDetail`, `Show` | `refresh`, by timer, signal or click |
| `PressApprove`, `PressReject`, `Answered` | the buttons, and the answer that clears `busy` and drops the row |
| `GuestAsks`, `Serve` | `POST /join-requests`; a handler's next step, and the end that is the answer |

### ChatSnapshot and FreshReads

What messages say does not matter to the cache, so the table is `now`, a number of
changes, and a page is how many changes each of its parts shows.  `cache` is keyed by
version and query.  `limit[u]` tells a counter with a TTL from one without.

`FreshReads` says what a client may rely on: each part of an answer shows the table at some
moment, not before the changes that were *settled* when the request came in, and what is
settled stays so.  The refinement mapping computes `settled` from cache and requests: the
oldest page that a request arriving now could still be given.

| Actions | Code |
|---|---|
| `BeginGet`, `Hit`, `Miss`, `Query`, `Store` | `getChatSnapshot`: version, lookup, three parallel queries, store under the version read first |
| `BeginPost`, `CheckBan`, `CountPost`, `StartWindow` | `POST /chat`: ban, `incr`, `pexpire` |
| `ChangeRow`, `BumpVersion`, `AnswerWrite`, `BeginModerate` | the row, the version, the push and answer; hide and unhide |
| `PageExpires`, `LimitExpires`, `ReadFails`, `WriteFails`, `Restart` | Redis' TTLs, rejected calls, restarts |

### ChatClients

`table` is the sequence of changes, `shown` the browser's list, `due` the pushes that may
still come, in any order or never.  `kind` says whether the browser is the host's, a
participant's (`RealtimeChat`) or an HLS viewer's (`PollChat`).  Its GETs overlap, and each
part of an answer is of a moment of its own, as `FreshReads` allows.

| Actions | Code |
|---|---|
| `Ask`, `Apply`, `GetFails` | `reconcile` and `poll`: `listChat`, `getRecentHiddenIds`, `getChatCursor`, `mergeMessages` |
| `OnData` | `onData`, `applyModeration`, the answer to an own message |
| `Post`, `Hide`, `Unhide`, `Settle` | the others in the room; the server |

### AudioReach

`live` are the tracks in the LiveKit room, `published`, `owner` and `alerts` the sets in Redis.
`hook.todo` is what the webhook handler still has to do, a Redis call at a time.  One
receiver's reports are followed; `attempts` is the page's.

| Actions | Code |
|---|---|
| `Publish`, `Unpublish`, `Leave`, `Join`, `Granted`, `Drop` | LiveKit and its webhooks |
| `HookStarts`, `HookStep`, `HookFails` | `addPublishedAudioTrack`, `removePublishedAudioTrack`, `cleanupParticipantAudio`, `clearAlertsForReceiver` |
| `Send`, `Read`, `Judge`, `Signal`, `ReportFails` | `POST /audio-report`, `checkAudioReach`, and `RESUBSCRIBE_AUDIO` on the page |

### GuestPage

`page[d]` is the page on device `d`: the screen, the call it waits for, attempts and banners.
`conn` is the device LiveKit has connected, as it keeps one connection per identity; `grant` its
permission; `row` the participant's.  A route is one step here (`Participation` has their
steps), but for `/token`, whose check and whose signature are two, so that a kick can come between
them; its answer, the connection and the webhook of a departure come later.  `late` records which
pages had a checked token when the user was kicked or rejected, `muted` whether the host has muted the
microphone that is published.

| Actions | Code |
|---|---|
| `Open`, `BackToForm`, `RequestJoin`, `CheckToken`, `IssueToken`, `TakeAnswer`, `CallFails` | the form, `join-requests` and `/token`, their answers |
| `Connect`, `ConnectFails`, `Drop`, `Reissue`, `PressButton` | LiveKitRoom, `onDisconnected`, `reissue`, the button |
| `Sync`, `SetCamera` | `GuestUpgrade` before and after its await |
| `Approve`, `RetryGrants`, `RetryGivesUp`, `ChangeRole`, `Reject`, `Mute`, `Kick`, `SignalEnd`, `End` | the host and the API |
| `ParticipantLeft` | the webhook, which looks at neither session nor connection |

### RoomStock

`status`, `host`, `parts` and `chats` are the tables, `old` the rooms past the retention,
`user[u]` a user's age.  `page[p]` is a broadcast page with its call on the server; several can be of one
user, and a page that is closed during `POST /rooms` only sets `left`, as the handler goes on.  `sweep[k]` is a
sweep between two of its queries.  `peak` records the most calls that were ever between the count and the
insertion together.

| Actions | Code |
|---|---|
| `Start`, `CountActiveRooms`, `InsertRoom`, `InsertHost`, `Token`, `GivesUp`, `Leaves`, `End` | `createAndEnter` and its routes, a failure half way, `end` |
| `RoomStarted`, `RoomFinished`, `Visit`, `RetentionPasses`, `UserAges` | webhooks, the audience, time |
| `PurgeRooms`, `ReadParticipants`, `ReadHosts`, `DeleteOrphans` | the second half of `sweepDemoOnce` |

### WatchPage and HostPage

`WatchPage` has the row of the room as the server has it, the page's copy of it, the calls of
`loadRoom` and of the entry, and the player's polls; `mount` numbers the mountings of the player, and
`importing` and `alive` say which of them wait for hls.js and which have an instance.  `HostPage` has one
host's rooms in the order of their creation, the page's stage, `setup[k]` for each run of
`createAndEnter`, the dialog and call of `end`, one timer or call of `ReconnectGuard`, and the room LiveKit
has connected.  LiveKit knows no rows: a token of an ended room connects as well, and LiveKit makes
that room again (`livekit.yaml` leaves `room.auto_create` at its default, true).

| Actions | Code |
|---|---|
| `Opens`, `Closes`, `LoadAgain`, `LoadServed`, `LoadAnswered`, `LoadFails` | `loadRoom` |
| `Enters`, `EnterServed`, `EnterAnswered`, `TokenAnswered`, `EnterFails` | `enter`: the room, then a token or the player |
| `PollAsked`, `PollServed`, `PollAnswered`, `PollFails`, `Imported` | `HlsPlayer`'s two effects |
| `EgressMoves`, `FallsBack`, `RoomEnds` | the row, as `Egress` has it |
| `SelectMode`, `Start`, `CreateRoom`, `IssueToken`, `Enter`, `Fails`, `Reload` | the form, `?demo=1`, `createAndEnter` |
| `DismissGuide`, `SubmitDevices`, `Connect`, `Drop`, `Reissue`, `TakeToken` | guide, prejoin, connection |
| `AskEnd`, `Cancel`, `Confirm`, `EndRoom`, `LeaveRoom`, `RoomEnds` | `end`, and ends from elsewhere |

### HostStage, HostAlerts and Microphone

`HostStage`: `cameras` in the order of their tiles, roles, microphones, who is heard and who is loud
change at any time; `listens` and `badge` are the state of the big tile's one badge, which is of the
person shown before until `BadgeEffect` has run; `ask` is the dialog about a kick.  `HostAlerts`: a tick is
10 s, ages count ticks, `Never` is a missing field; polls read presence and ages and answer later.
`Microphone`: publications are numbered, as the API mutes the track it found a call earlier.

| Actions | Code |
|---|---|
| `MicrophoneChanges`, `SubscriptionChanges`, `CameraChanges`, `GetsLoud`, `Comes`, `Leaves` | LiveKit's events |
| `Toggle`, `Turn`, `Call`, `AskKick`, `Confirm`, `Answered`, `BadgeEffect` | `Stage.tsx`, `HostPanel.tsx` |
| `Join`, `Leave`, `PageChanges`, `Report`, `Hook`, `Tick` | participants, `POST /audio-report`, webhooks, time |
| `PollStarts`, `Evaluate`, `Answer` | `GET /alerts`, and the page's timer |
| `Enters`, `Breaks`, `SyncStarts`, `SyncMic`, `SyncCam`, `TurnOn` | the guest's page, `GuestUpgrade`, the banner's button |
| `Permission`, `MuteFinds`, `MuteDone` | `/role`, `/mute` |

### ChatView, DevicePreview and Dialogs

`ChatView`: `copies` counts how often each text was stored, `late` the messages stored since a ban.
`DevicePreview`: each mounting, device and retry is a numbered run of the effect, a stream is named after
its run.  `Dialogs`: `before` is what each focus trap would give the focus back to.

| Actions | Code |
|---|---|
| `Types`, `Submit`, `Retry`, `Checks`, `Stores`, `Answered`, `Reloads` | `send` and `POST /chat` |
| `Refresh`, `ScrollsUp`, `ScrollsDown`, `OtherPosts`, `HostHides`, `HostBans`, `HostUnbans` | the list and its reader, the host |
| `Mount`, `Unmount`, `SelectDevice`, `Retry`, `Granted`, `Listed`, `Refused` | the effect of `DevicePreview` and its clean-up |
| `OpenSheet`, `CloseSheet`, `MoveFocus`, `Ask`, `Resolve`, `Toast`, `ToastExpires`, `PageRenders` | `ui.tsx` |

### Sessions, Invites and ApiProcess

`Sessions`: `stored` is `localStorage`, `tab[t]` what a tab has got and waits for; a session stands for
its signed token.  `Invites`: the TTLs of a code and of the set of its users, in ticks.  `ApiProcess`:
requests and sweeps as far as a shutdown can tell them apart.

| Actions | Code |
|---|---|
| `Enter`, `Created`, `Stored`, `Ask`, `Token`, `NextMinute`, `Expires` | `ensureSession`, `POST /auth/session`, `authGuard`, time |
| `CreateInvite`, `Share`, `Ask`, `Resolve`, `Record`, `Requested`, `BreaksOff`, `Tick` | `invite.ts` and its callers |
| `Listens`, `Signal`, `Closed`, `Quits`, `Done`, `CloseFails`, `HardExit` | `main` and `shutdown` in `index.ts` |
| `Arrives`, `Works`, `SweepStarts`, `SweepReads`, `SweepDeletes` | requests and sweeps |

## What the runs check

Runs that hold:

| Run | Shows |
|---|---|
| `Participation_faults` | a guest and the host's account, six routes, one handler at a time with loops, late calls, webhooks and clients in between, everything failing: `GrantsRecorded`, `SlotBound` (here: never too many), `KickStands`, `DemotionNeedsModeration` |
| `Host_queue` | two guests, two handlers and a refresh that interleave: `HostCanDecide`, `GhostsLeave` |
| `Room_faults` | webhooks in order but lost, failing LiveKit calls, rooms created by a join, two sweeps, a restart: `HostPresence`, `EndedIsFinal` |
| `Room_fair` | under fairness, with two connections of the host and rooms LiveKit makes on a join, in two parts, one with a restart and a lifetime, one with overlapping sweeps: a room without a host or past its lifetime ends, unless an older sweep erased the mark (`RoomsEnd`); its mark goes, and its LiveKit room but for two known cases (`EndLeavesNothing`) |
| `Egress_room` | two starts, `/end`, room closings and a fault of any kind: `OneEgress`, `EgressKnown`, `EgressReachesViewer`, `NothingOutlivesRoom` |
| `Chat` | in three parts: two readers and a writer at the routes, with a fault: `ReadsAreFresh` (the refinement), `AnsweredIsSeen`, `FaultsHeal`; two overlapping GETs of each kind of client, lists of one message, late and lost pushes: `ListsConverge`; a composer with two texts, lost answers and bans: `ChatKept` |
| `Audio` | reports against webhooks, with a lost subscription, a return and a fault: `BaselineTrue`, `AlertsFollow`; ages and overlapping polls: `MarksFollow`; a microphone that page and host write: `BannerTrue`; three people's tiles: `BadgeTrue`, `KickAsAsked` |
| `Pages` | two devices of a guest: `NoPingPong`, `NotStranded`, `DevicesFollowRole`, `KickedStaysOut`; five runs of the preview: `DevicesReleased`; the viewer's page: `OnePlayer`, `PlayerCatchesUp`; the host's: `RoomInHand`; sheet and dialogs: `FocusReturns`; two tabs: `SameUser`, `GetsIn`; an invitation: `UsesForgotten` |
| `Services` | in three parts: two pages of two hosts or of one against a cap of one, with a call that fails or a tab that is closed, and a sweep; one page, a visit and two sweeps that overlap: `CapBound`, `NothingPilesUp`; a shutdown at any point: `CleanExit` |

The invariants, step properties and liveness properties are stated in words beside their
definitions, at the end of each module; some have several parts, each with a name and a comment of its own.
The modules' `TypeOK` are no properties of runs, but hold in all of them, and are theorems of
`Participation`, `RoomLifecycle` and `Egress`; the other proofs carry the types they need in their
own invariants.

Runs that find a statement of the repository broken (`findings` quotes each):

| Run | Behaviour found |
|---|---|
| `Claim_ReentryRestores` | a request that was never approved leaves, asks again, and is approved |
| `Claim_HostGraceEnds` | the host comes back and leaves again while a sweep is at work on the first departure; the sweep deletes the mark of the second, and the room is not ended while a guest stays |
| `Claim_PollersConverge` | a message committed between the two queries of a GET is below the cursor and not in the page: an HLS viewer never gets it |

### Behaviours met while modelling

Further behaviours that the models have and a comment denies or a user would not expect.
No run is kept for them; the hazards name most of them at their lines.

- Two approvals that count before either writes exceed the limit (`SlotBound` is tight), and two
  creations exceed the cap on rooms (`CapBound`), also two of one host, by two tabs or a reload.
- A slow join request overwrites an approval; a token can be signed after the kick that should
  prevent it, and lets its page in (`KickedStaysOut` allows exactly such tokens); a retry loop gives publish permission back after a reject.
- A guest who reconnected holds no slot.  Its page asks for a guest's token and is refused, and so
  is its button, until it asks to join anew; a page that was demoted keeps asking as a guest.
- Presence is wrong after a leave and a join are handled in reverse (`roomState.ts:13-14`
  promises otherwise).
- A host's token is good for ten minutes, also after `/end`: LiveKit makes the ended room again for it
  (`livekit.ts:40` means to exclude such rooms), and it lasts until it is empty.  A page that asked for
  such a token in its last room can be connected to that room while it shows the next one.
- A sweep closes the room under a host who came back during its 2.5 s; a room without a LiveKit room outlives its lifetime and counts
  against the cap for ever.
- A stop finds no id while a start is under way, so that nobody stops the egress; the answer of a
  slow start puts `starting` over `active`; after a fall-back the HLS player waits for ever.
- `GuestUpgrade` turns a microphone the host has muted on again within 2 s, although `MuteBanner.tsx:9-11`
  and `livekit.ts:166-167` leave that to the guest alone (`DevicesFollowRole` is stated so that it holds
  with and without that); a muted microphone that a demotion unpublishes leaves the banner.
- After a denied permission and a successful retry the preview's camera is on and the self-view
  blank, as the element was not there when the stream came.
- A load of the viewer's page answered after its entry puts an older room over the one the entry
  decided by: a page that entered for HLS can end up with WebRTC and no token, and shows nothing.
- `Chat.tsx` raises "new message" at each reconciliation while the reader is further up; shows a
  message whose answer was lost as not sent, and stores it again on retry; and goes on refusing to
  write after a ban was lifted, until it is loaded anew.  The author of a message in mode B has no
  row, so that a ban of it answers 404.
- The sheet's focus trap takes the focus out of an open dialog with each poll of the alerts, as its
  `onEscape` is a new function each time.
- A chat counter whose `pexpire` never came stays, and its user is refused for good (`FaultsHeal` exempts
  exactly such a counter).
- Whoever has not reported yet counts as silent for 30 s from the first second
  (`audioReach.ts:76` says 30 s and more); marks are by nickname, and people of one nickname share them.
- A sweep in its grace deletes its room during a shutdown, after the sweepers were stopped
  (`index.ts:137`).
- Two tabs without a session each create a user, and one of them comes in as the other's; an expired
  session is sent again on every try.
- The link of the host's page dies after an hour and is never renewed (`invite.ts:8`).
- After a failed demo entry, selecting a mode while a room is being made starts a second one
  (`demo-mode.md:39` and `broadcast/page.tsx:154` exclude it).
- A page disconnected by a server's shutdown or migration shows nothing and does not retry; here
  `Drop` with reason `shutdown`, which `NotStranded` does not cover, as it starts from a timer.
- A row of the queue that an old refresh brought back can be rejected once more, and the
  route does not look at its state: an approved guest is thrown off.
- An alert about a track that is gone, put back by a late report, stays until its receiver
  leaves; a late departure of a replaced session removes the new session's tracks.
- A user who was purged keeps a session the page reuses for ever.

### Bounds, and why they are enough

- Participation: in the run one handler at a time works on the guest, as failures multiply the
  states by fifteen, while loops, late calls, webhooks and the client still interleave with it.
  Concurrent handlers are what the theorems are about: they hold for any number.  `MCOps` lets the
  host's account be approved only, so that it competes for a slot.  One slot of a role is the
  least that can be taken twice.  `MaxLoops = 1` keeps a user's loops below two when an approval
  starts; loops are not bounded otherwise (a role change can add one).
- HostQueue: two guests are the least that can share `busy` and a slot, two handlers and one
  refresh the least that can overtake each other; `Asks` lets guests ask in one of the slots, and
  one role has buttons.  Guests wait without a connection, so `Clients` is empty.
- RoomLifecycle: `MaxJoins = 2` lets the host leave, return and leave again, which the
  ordering properties need; one restart hits every point of every handler.  The other
  participants are one flag, as they matter only for whether the room is empty.  `Room_fair` has restart and
  lifetime in one part and overlapping sweeps in the other, as together they take TLC too long.
  The audience enters only a room that exists (`GuestsCome`), so `AutoCreate` is about
  the host.
- Egress: two joins are the least that can start two egresses; a second egress runs after
  a stop whose room is not deleted yet.  As many starts and egresses as joins are enough,
  as a join begins at most one of each.  One viewer, because viewers do not affect one
  another.  `MaxFaults = 1`: a property that exempts faults says so (`faults > 0`).
- ChatSnapshot: two changes are the least of which one can be seen and the other missed; two readers
  the least of which one fills the cache for the other; parts are read alike, so one stands
  for them.  One message is allowed in a window, as in the code.
- ChatClients: two messages with limits of one, so that `History`, `Page` and `Keep` all cut
  something off; three changes let a message be posted, hidden and shown again; two GETs are the least that
  can overtake each other.  `PollersConverge` fails with limits of two and one GET already.
- AudioReach: receivers and tracks do not meet but in their own fields, so one of each; one return
  and one lost subscription bring back what was cleaned up; two attempts tell the first from the last.
- GuestPage: two devices for the identity they share; two decisions of the host (approve and change,
  approve and kick); one break.  There is one back-off, and a sync of each role; a second
  click on the button while the first is under way is left out.
- HostAlerts: one participant, as marks do not depend on one another; two ticks of age tell late
  from later; two polls are the least that can overtake each other.  Microphone, two syncs and two
  mutes for the same reason; HostStage, three people, one camera to a page.
- ChatView: two texts, so that one can be typed while the other is sent; one lost answer.
- DevicePreview: five runs, more than can be told apart.  WatchPage: two mountings and two polls, the least
  that overlap.  HostPage: two runs of `createAndEnter`, three rooms, so that each can leave one behind.
- Dialogs: three asks, two toasts.  Sessions: two tabs, one session a minute, four users.  Invites: three
  guests, so that a third can renew a TTL while the second expires.  ApiProcess: three requests, two sweeps.
- RoomStock: a cap of one and two rooms, the least that exceed it; room ids are given in order.  Two pages are
  the least that can count before either inserts, of two users or of one; two sweeps the least that
  overlap; they are parts of their own (with two pages, and with a visit), as together they take TLC too long.
  One visit is enough for a row the purge must respect.  A sweep that finds nothing is left out.
- `CHECK_DEADLOCK FALSE` in all runs but those of `Participation`: bounds let the others stop, when
  connections, changes or decisions are used up and nothing is under way; some really end, like a room
  whose creation failed.  The `Participation` runs have no such bound and never stop.
- No symmetry is used: all other runs check liveness or are small enough.

### Fairness

Weakly fair everywhere are handlers that have started (Node runs its continuation), webhooks
(LiveKit repeats one that got no answer), and timers: sweeps, polls, TTLs, back-offs.  What
people do is not fair, and neither are failures, restarts and losses.

- `RoomLifecycle`: the end of the lifetime is not fair, as a departure must not need it.  `Room_fair`
  allows one restart, which is why the lock's expiry matters, or two sweeps, and two connections of
  the host.  It assumes LiveKit calls that work, and a LiveKit that makes a room on a join, as the
  repository's `livekit.yaml` has it.  `deleteLiveKitRoom` swallows its errors, so with a failing call a
  room lives on until it is empty; a restart between the record and the deletion of `/end` has the
  same effect, and so has a host who joins after the end.  Histories record these two (`cut`, `remade`)
  and the erased mark (`erased`), and `EndLeavesNothing` and `RoomsEnd` exempt exactly them.
- `Egress`: an egress comes up while there is a room and ends when it is stopped or the room is
  gone, which is what LiveKit does and the code relies on.  A failing egress is not fair, except
  where the room is gone.
- `HostQueue`: the refresh timer, GETs and handlers.  Nobody has to press a button.
- `ChatSnapshot`: requests that have begun, and TTLs.  `ChatClients`: the timer, and that
  each of its GETs comes to an end, not the pushes.
- `AudioReach`: webhooks and the receiver's reports.  The SFU owes nothing, so that a missing track
  has to be acted on by the code.
- `GuestPage`: calls are answered, timers fire, a token leads to a connection or its failure, syncs go
  on.  Buttons are not fair.
- `HostAlerts`: time, reports, polls.  `WatchPage`: calls, timers and imports.  `Sessions`: tabs try on, minutes pass.
  `Invites`: time, and requests under way.
- `RoomStock`: calls, sweeps and ages; a live room ends (`RoomLifecycle` says why).
- No fairness in `ChatView`, `DevicePreview`, `Dialogs`, `HostPage`, `HostStage`, `Microphone` and `ApiProcess`: what
  is checked of them are invariants and step properties.

### Refinement and composition

`Chat` checks `ReadsAreFresh`, that is `FreshReads!Spec` under the mapping above: every step
of the cached chat is a step of the abstract one, in which nothing is cached, or a stutter.
`ChatClients` starts from that abstraction instead of the cache, which is what makes overlapping
GETs checkable together with three kinds of client.  The refinement is a theorem as well
(`CacheIsInvisible`).

`HostQueue` is a composition: its handler steps are the actions of `Participation`, with the same
slots and records, and only what the page does is new.  That it adds nothing else is a theorem
(`PageIsParticipation`), which carries the safety of the handlers over to the composition.

## What is proved

With TLAPS, for every number of users, calls, slots, sweeps, starts, egresses, readers, pages and faults:

| Theorem | Statement |
|---|---|
| `ParticipationProofs!TypeCorrect` | `Spec => []TypeOK` |
| `ParticipationProofs!GrantsAlwaysRecorded` | `Spec => []GrantsRecorded` |
| `ParticipationProofs!SlotsBounded` | `Spec => []SlotBound` |
| `ParticipationProofs!KicksStand` | `Spec => KickStands` |
| `ParticipationProofs!DemotionsAreModeration` | `Spec => DemotionNeedsModeration` |
| `ParticipationProofs!PageIsParticipation` | `QSpec => Spec`: `HostQueue` implements `Participation` |
| `ParticipationProofs!StaleListsAreSafe` | the four properties above, of `HostQueue` (`QSpec`) |
| `RoomLifecycleProofs!TypeCorrect` | `Spec => []TypeOK` |
| `RoomLifecycleProofs!EndIsFinal` | `Spec => EndedIsFinal` |
| `RoomLifecycleProofs!HostIsKnown` | if `InOrder`, `Spec => []HostPresence` |
| `EgressProofs!TypeCorrect` | `Spec => []TypeOK` |
| `EgressProofs!AtMostOneEgress` | if `Serial`, `Spec => []OneEgress` |
| `EgressProofs!RowKnowsEgress` | if `Serial` and `Prompt`, `Spec => []EgressKnown` |
| `ChatProofs!AnswersAreSeen` | `Spec => []AnsweredIsSeen` |
| `ChatProofs!CacheIsInvisible` | `Spec => ReadsAreFresh`: `ChatSnapshot` implements `FreshReads` |
| `ChatViewProofs!ChatIsKept` | `Spec => []ChatKept` of `ChatView` |
| `AudioProofs!BaselineIsTheRoom` | `Spec => []BaselineTrue` of `AudioReach` |
| `AudioProofs!BannerTells` | `Spec => []BannerTrue` of `Microphone` |
| `AudioProofs!BadgeTells`, `KicksAreAsAsked` | `Spec => []BadgeTrue` and `Spec => KickAsAsked` of `HostStage` |
| `PagesProofs!PreviewReleases` | `Spec => []DevicesReleased` of `DevicePreview` |
| `PagesProofs!PlayerIsOne` | `Spec => []OnePlayer` of `WatchPage` |
| `PagesProofs!FocusComesBack` | `Spec => []FocusReturns` of `Dialogs` |
| `PagesProofs!TabsComeInAsThemselves` | `Spec => []SameUser` of `Sessions` |
| `PagesProofs!RoomStaysInHand` | `Spec => []RoomInHand` of `HostPage` |
| `PagesProofs!KickedAreRefused` | `Spec => KickedStaysOut` of `GuestPage` |
| `ServicesProofs!CapHolds` | `Spec => []CapBound` of `RoomStock` |
| `ServicesProofs!ShutdownIsClean` | `Spec => []CleanExit` of `ApiProcess` |

With these every invariant, every step property and the refinement that a run checks are theorems.
What a theorem says, it says for every value of the constants that the modules' own assumptions
allow: finite sets of users, of handler slots and of the chat's readers, writers and queries;
natural limits; Boolean switches; values that stand for "nobody" or "none" that are not members of
the set they are added to.  The bounds in the guards (`MaxJoins`, `MaxFaults` and the like) are
constants too, and arbitrary, so a theorem holds for any number of faults and connections.

### The arguments

`GrantsRecorded` is inductive together with `TypeOK`, because it speaks of every place
a permission can be in: LiveKit's copy comes from a token, a handler, a loop or a late
call, each of those from a row or from an approval being written, and a row is approved
only by a write that also records it.

`SlotBound` is not inductive.  A call that has passed its check holds a place nobody
counts, so the invariant (`SlotInv`) is about the approved rows of a role together with
the calls *committing* to it (past the check, before the write): as soon as one call
commits, rows plus committing calls are at most the limit plus the calls in flight less
one.  A check that succeeds sees fewer rows than the limit, and at most all slots can then
be committing; a write turns a committing call into a row; nothing else adds to either.
The proof works with cardinalities of finite sets and the library's theorems about them.

`KickStands` and `DemotionNeedsModeration` are step properties.  Both rest on one lemma
(`RowChanges`) about who may change the row of a guest and what is left in it, for which
`TypeOK` and a small invariant (`HostCalls`: only the host's own token request writes the
role host) are enough.  `EndedIsFinal` follows from the guards of
`markRoomLive` and `markRoomEnded` without an invariant.

`OneEgress` is not inductive: an egress can be on its way.  The invariant
(`RightIsSingle`) says that the right to an egress is in at most one place: in the row
that asks for one, in a start that has read it, in an egress that is alive, or in the
unhandled report of its end, which puts it back into the row.  `Serial` is needed at one
step, the join's: otherwise the row still asks for an egress a start is about to begin.

`PageIsParticipation` has one case per action of the page: a press of a button or a guest's
request begins a handler as `Begin` does, serving is a handler's own step, and refreshes, answers
and failures leave the handlers alone.  `StaleListsAreSafe` is then temporal logic.

`HostPresence` speaks of moments at which no webhook about the host is under way, so the invariant
(`PresenceInv`) has to say what the webhooks will make of Redis.  At most the first webhook of the
queue is taken up (`OneAtATime`); the last one about the host says whether it is connected
(`LastSays`); a handler that has begun has its effect on presence in Redis already (`HeadHeeded`),
which is what makes a restart in its middle harmless; and a queue that is silent about the host means
that presence is right and that no mark is held against a connected one.  All four are needed when the
first webhook is done: what remains is silent only if that one was the last to speak.  Its
premise is `InOrder`.  Without it the property is false (a departure and a return handled in
reverse), as listed above, and nothing is claimed.

`EgressKnown` is proved for undisturbed rooms, as it is stated.  The invariant (`KnownInv`) says that
while nothing was ended, closed or lost the room starts one egress at most, ever: after its first
write the row never asks for one again, as only the report of an end would make it.  So one start is
under way at most, how far it is tells what LiveKit and the row have (`OneStart`), and what
became of the one egress is in the row or in the queue (`OneRun`).  A failed egress needs that
last part: until its report is handled the row offers a playlist nobody writes, but then a
webhook is under way.  `Serial` is needed as for `OneEgress`, `Prompt` because a late answer to a start
would put `starting` over the `active` of the egress' own webhook, a behaviour listed above.  Both
premises are about durations the code relies on and does not enforce.

`ChatInv` carries both theorems about the chat.  `SeenUnder(n, v)` says that nothing that is cached
under version `v`, and nothing a request with that version has read, misses the first `n` changes.  A
request that is under way has this of its floor and its version (`Floors`), a writer that may
answer has it of its change and the present version (`Written`), and nothing is cached or read ahead of
the version (`NotAhead`), so that a raise of the version starts with an empty cache, and the
version is raised after the row was written.  The refinement adds that what is settled only
grows (`SettledGrows`), that a page lies between its request's floor and now (`PagesInTime`), and then
one case per action (`StepIsFresh`).  That the version stays below the number of changes is
in the type invariant, which counts the writers that have not written yet: a version is an index of
`cache`.

`ChatKept` has three parts.  For the copies of a text the invariant counts answers that were lost
(`SendsAreCounted`): whatever can still be sent, because it is in the input, offered for retry or
under way, was stored at most as often as answers were lost, and once `stored` is on its way to the page nothing is.  For the
ban, a POST past its check is the one that may slip through, so none has yet (`OneSlipsThrough`).

`BaselineTrue` speaks of the moment at which all webhooks are handled.  `RecordInv` says of each track that
it is in one of six stages: not published yet, announced by a webhook in the queue, being recorded,
in the record, being removed, forgotten; each stage says what queue, running handler and record hold
of it, and whether a removal follows.  A departure's handler finds the tracks of its user by the
owners in the record, which is why the stages name the owner in each of them, and the order of the
two writes.

`BannerTrue` is inductive with its types.  `BadgeTrue` becomes so with whom the tile listens
to (`Heeds`): the badge is that person's, and the effect's run is what makes it the one shown.  `KickAsAsked`
is a step property that needs only that dialogs and calls name people.

Of the pages, `DevicesReleased` needs that only the latest run holds a stream, and that a run that
waits for its own has none (`PreviewInv`).  `OnePlayer` is inductive as stated.
`FocusReturns` needs where each trap will put the focus (`FocusInv`).  `SameUser` needs that
whoever creates a session does so while none is stored (`SessionInv`).  `RoomInHand` needs that one room
is set up at a time, only while none is shown (`OneSetup`), and that every token,
reconnection and end the page waits for is for the room shown or one that has ended (`OneRoom`); both hold as long
as no call failed, which is all `RoomInHand` is about.  `ConnectedToShown`, the first half of `RoomInHand`, lets
the host be connected to an ended room, as nothing in the code or in LiveKit prevents it; what is proved is
that no other room is possible.

`KickedStaysOut` is about tokens that are signed after a kick, so its invariant (`KickInv`) follows every token from
its check to its use: while a user is kicked, each page that holds a checked token is in `late`, that
is, it held it when the kick came.  Pages get no further one as long as the row says kicked (`NoTokenComes`), a
kick or a broken connection gives none (`BreakTakesToken`), and a connection uses its own up.  That the
connected page waits for nothing (`GuestInv`) is what lets these steps be told apart.

`CapBound` is not inductive: a call that has counted has its insertion before it, whoever its host is and whether
or not its page is still there.  `Balance` adds these calls to the active rooms, and the sum stays below the
cap plus `peak`: a call that counts sees fewer rooms than the cap, and `peak` covers itself and those that are between the two
with it; an insertion moves a call from one summand to the other; and nothing else adds to either.
`CleanExit` needs that the connections
are closed when no request is under way and none is taken up any more (`ProcessInv`).

### Only model-checked

The liveness properties stay with TLC: `HostCanDecide`, `GhostsLeave`, `RoomsEnd`, `EndLeavesNothing`,
`EgressReachesViewer`, `NothingOutlivesRoom`, `FaultsHeal`, `ListsConverge`, `AlertsFollow`, `MarksFollow`,
`NoPingPong`, `NotStranded`, `DevicesFollowRole`, `PlayerCatchesUp`, `GetsIn`, `UsesForgotten`, `NothingPilesUp`.
Each needs fairness, and with it ENABLED, which the installed provers do not reason about.  So
does the liveness of an abstract specification, of which `FreshReads` has none.  What a recursive definition computes for every
input is out of reach too; no theorem depends on one.  The three claims that fail are counterexamples and need no proof.

## Not modelled

- The markup, layout and wording of the client: it shows state that the modules have, and decides
  nothing.  Of `Stage.tsx`, `ui.tsx` and `DevicePreview.tsx` only what keeps state is modelled.
- The verification and end-to-end scripts, load tests, containers and CI: they test or package the
  program.
- Wire types, validation schemas and constants of the shared package, metrics, health, configuration
  checks, HMACs of sessions and invites, the JWT of LiveKit, rate limits of routes, the sorted set
  that counts HLS viewers: no state the rest depends on, or pure functions.
- Video tracks on the server after a demotion; what a retry loop that gave up leaves undone, as nothing
  in the code asks again.

These are the larger part of the repository's lines, which is why the map covers about 30 % of
them: it has nearly all of the routes, services and components that keep state.

LiveKit, Postgres and Redis appear only through the calls made to them: a statement of Postgres
and a command of Redis are atomic.  Several API instances at once are not modelled; the
code says it runs one (`hostGrace.ts:11`).
