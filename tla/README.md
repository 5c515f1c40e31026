# agentchat: a TLA+ verification project

agentchat is a chat server for software agents (Go): sessions protected by a
pre-shared key, a mailbox per agent, broadcasts, presence, a leader, a shared
scratchpad, files, an SSE watch stream, optional persistence, an MCP bridge that
wakes a hosted agent when mail arrives, and a command line client. This
directory models the parts in which goroutines, requests, timers, crashes and
lost connections meet, checks them with TLC and proves their safety
invariants with TLAPS.

## The system

| component (code) | state | operations | talks to |
|---|---|---|---|
| mailbox store (`internal/mailbox`) | map key → box; per box a slice of entries and a channel of capacity 1; a global atomic entry counter | Deliver, Drain, DrainMatching, DrainMatchingWait, DeleteBox, DeleteSession, Snapshot, Restore | called by the hub |
| presence tracker (`internal/presence`) | per session and agent: LastSeen, Expired | Touch, IsPresent, WasPresent, GetAgents, sweep, ClearSession | callbacks onExpire, onForget into the hub |
| leader tracker (`internal/leader`) | session → leader | GetLeader, SetInitialLeader, Transfer (compare-and-set), ClearSession | called by the hub |
| hub (`internal/hub`) | history and sequence counter per session, under `Hub.mu` | Register, RefreshPresence, SendMessage, Broadcast, scratchpad events, LeaderTransfer, CloseSession, janitor | everything; event callback to the watcher |
| session store (`internal/session`) | session records: PSK, LastActive | Create, GetOrCreate, ValidatePSK, TouchActivity, Delete, Snapshot | REST handlers, janitor |
| REST and SSE handlers (`internal/api`) | subscribers of the watch stream, watch tokens | one handler goroutine per request, one per stream | hub, stores |
| persistence (`internal/persist`, `cmd/server`) | state file | flush every 5 s, final flush, load at start | copies every store |
| bridge (`cmd/agentchat-mcp-bridge`) | registration, watch token, watermark, pending signal | SSE loop with watchdog and back-off, signal loop, heartbeat, MCP tools | server over HTTP, host over a Unix socket |
| MCP stdio server (`internal/mcp`) | the origin of the latest call, handlers in flight | a goroutine per request, serialized writes, end of input with two seconds of grace | host over stdio, tool handlers |
| command line client (`cmd/agentchat-cli`) | one high-water mark, watch token | watch loop with back-off, mailbox drain at every connect, heartbeat, commands | server over HTTP |
| scratchpad, file store (`internal/scratchpad`, `internal/filestore`) | one locked map each | set, get, delete, list; the files are never persisted | hub |
| wire types (`internal/protocol`) | none | | |

What is hard in it:

* every store locks itself and nothing else, so one hub operation is a sequence of
  short critical sections with other handlers, the sweeper and the janitor in between;
* the sweeper and the janitor decide on a copy and act on it after the lock is released;
* numbering an event, delivering it to mailboxes and notifying streams are separate steps;
* a tool call is several round trips, any of which may fail before or after the server
  has acted, next to other calls of the same bridge;
* signals coalesce, channels are bounded and drop, streams break without notice;
* a snapshot is not taken at one instant, two goroutines write the state file, and a
  crash may fall anywhere.

What makes each part correct, in one line: mail is read once and does not vanish
(mailboxes); an agent that lapses loses leadership and nothing else (presence,
leadership, membership); history and stream have no hole and mail precedes news
(events); a session finds none but its own data under its ID (life cycle); a crash costs
at most the mail that came after the last flush began (persistence); mail wakes its agent
(bridge); a call reports what it did and is answered (tools); what reaches the client is
shown (command line client).

## Modules

One step of a model is one critical section, channel operation or atomic
operation of the code, unless stated otherwise.

* **Mailbox** (`mailbox.go`). Boxes are heap objects with an identity, so a goroutine
  may hold a box that is no longer in the map. A slice of entries is the set of its
  entries plus the arrival order. `getOrCreateBox` is `FindBox` (read lock) followed by
  `MakeBox` (write lock, second lookup). A long-poll is the loop `WaitFind`, `WaitTake`,
  `WaitCheck`, `WaitGet`/`WaitMake`, then the select as `WaitSignalled` or `WaitTick`.
  Delivery is find, stamp, append-and-trim, signal. Histories count reads and record
  evictions, destinations and removed boxes.
* **MailLedger**: the abstract store. A message goes from *new* to *queued*, or straight to
  *dropped* if its box was deleted during the delivery; a queued message is *dropped* when
  its mailbox is deleted; from either stage it may, once, become *evicted* or *read* (a
  reader may still hold the deleted box). `Mailbox` implements it under the mapping
  `Status`.
* **Presence** (`presence.go`): one operator per locked section, used by the next two.
  LastSeen is kept as the time since then, saturating at the larger horizon.
* **Leadership** (`hub.go`: Register, LeaderTransfer, onAgentWentOffline; `leader.go`):
  handlers, the sweeper with its expiry callbacks, restarts.
* **Membership** (`hub.go`: Register, RefreshPresence, sends, drains, forget hook):
  what the watch stream has announced against what the tracker knows, and what happens
  to a member's mail. A mailbox is a set here, and an announcement one step.
* **EventStream** (`hub.go`: recordEnvelope, sequenceEnvelope, the emit functions;
  `watcher.go`; `handleSSE`; `GetHistoryAfter`): an event is its sequence number. Emitters
  deliver mailbox by mailbox and notify stream by stream; streams connect, subscribe,
  replay, forward, disconnect; a client pages through the history.
* **Lifecycle** (`session.go`, handlers, `CloseSession`, janitor, presence sweeper): one
  session ID through its incarnations. A store's content is the set of incarnations that
  wrote it; a request is the sequence of stores it writes after authentication. A sweep
  marks and forgets agents under the tracker's lock; its hooks run after the unlock and
  write leader, sequence counter and mailboxes store by store, whether the session still
  exists or not. Which agent lapsed is left open.
* **Persist** (`persist.go`, Snapshot functions, `cmd/server/main.go`): the copy store by
  store, write and sync, rename, failure at any step, crash, shutdown with the final
  flush next to the periodic one, restart, and the register that creates the session
  again.
* **Bridge** (`watcher.go` and `main.go` of the bridge): SSE loop, signal loop,
  heartbeat, registration; the server is an environment that delivers, restarts without
  persistence and expires tokens. A register response may be lost with its body only: the
  bridge then counts as registered and has no token. An event is a message, which the
  history keeps, or a system event, which it does not.
* **Tools** (`internal/mcp/server.go`, the tools in the bridge's `main.go`, the handlers of
  `api.go` that serve them, `filestore`, `scratchpad`): each JSON-RPC request is a goroutine
  that is dispatched, captures its origin, registers if need be under `Bridge.mu`, makes its
  HTTP calls one by one and writes its answer. The server's handler is a step of its own, so
  a response may be lost after the server has acted, with its headers or with its body
  only. `send_file` is the one tool with two calls. The server restarts with the session,
  mailbox and scratchpad key of an earlier moment, or with nothing, and announces
  nothing; which moment is left open, so that every age of the state file is covered; the host closes the input at any time, and may leave `_meta` out of a call.
* **CLI** (`cmd/agentchat-cli`): extends EventStream with the watch goroutine of the command
  line client, a composition of the two: emitters, stream handler, mailbox and client
  interleave. The client reads the frames of a connection in order, drains the mailbox at
  `connected` and shows what is above `lastSeq`. `excused` collects the events it loses, by
  reason.

`Leadership` and `Membership` build on `Presence`; `Mailbox` is shown to implement
`MailLedger`; `CLI` composes a client with `EventStream`. `Membership`, `Persist`, `Bridge`
and `Tools` use mailboxes whose operations take
effect at one instant, which is what that refinement justifies, and which have room: runs
and theorems of these modules and of `CLI` are about mailboxes below the capacity of 1000
entries, and what a full one pushes out is the subject of `Mailbox`. `Bridge` uses the
order record, deliver, notify of `EventStream`. `MC*` modules give the constants that a
cfg file cannot express, and the symmetry sets; each `*Proofs` module has the theorems about
the module it is named after (`EventStreamProofs` those about `CLI` too).

Definitions whose comment begins with "Mutant" are not part of the specifications: each
is a plausible bug of the definition that follows it, and shows that a property
notices that bug.

## Runs

| run | checks | bounds |
|---|---|---|
| `mailbox` | `TypeOK`, `DrainedOnce`, `NothingLost`, `EvictsOldest`, `ImplementsLedger`, `WaiterServed` | 1 sender, 2 readers that drain or wait for different agents, one key, capacity 1, 2 entries, the box deleted once |
| `leadership` | `TypeOK`, `OfflineLeaderReplaced`, `AutoHeirOnline`, `LeaderRecovers` | 2 agents, 2 handlers, TTL 1, forget after 2, any number of restarts |
| `event_stream` | `TypeOK`, `HistoryOrdered`, `NoGapInStream`, `MailBeforeNews`, `CatchUpComplete` | 2 emitters, 2 mailboxes, 1 stream, 3 events, history of 2, channel of 1, pages of 1 |
| `cli` | `MailShown`, `HistoryReached` | 2 emitters, 2 mailboxes, 1 stream cut any number of times, 2 events, history, channel and page of 1 |
| `membership` | `TypeOK`, `JoinedOnce`, `OfflineMailKept`, `RosterAgrees` | 2 agents, 2 handlers, 1 message, 2 lives of each agent, a handler lasts at most one tick |
| `forget_race` | `MemberMailKept` (violated) | as `membership` |
| `lifecycle` | `TypeOK`, `OwnDataOnly`, `ClosedOnce`, `ReapsOnlyIdle` | 2 handlers, 1 deletion, janitor, sweeper, 2 incarnations; both handlers at work only outside sweeps and `CloseSession` |
| `persist` | `TypeOK`, `LossWindow`, `CounterAboveHistory`, `RereadOnlyAfterRestart`, `MailBecomesDurable` | 1 message, 1 crash, 1 shutdown, 1 failing flush, 1 deletion |
| `final_flush` | `CleanRestartLosesNothing` (violated) | 1 message, 1 shutdown |
| `bridge` | `WakeUpPending`, `WokenUnlessMissed`, `StreamRestored` | 2 messages, 2 faults, history page and channel of 1 |
| `tools` | `ToolsTypeOK`, `FileShared`, `MailHandedOver`, `TriggerRouted`, `PadAnnounced`, `RequestAnswered` | 2 requests of any kind from 2 chats, 1 message, 1 restart, any number of lost responses |
| `lost_wake_up` | `MissedNeverFinal` (violated) | 1 message, no fault |

Why these bounds reach the interesting cases. Two concurrent handlers are enough for
every check-then-act race of the code, since each of them involves one pair of critical
sections; a second agent is needed for an heir. A capacity of one makes eviction happen
with the second entry, and one deletion per box gives a stale pointer and a re-created
box. One sender is enough there because a long-poll creates boxes too, so creation races
happen; several senders are covered by the proofs, which hold for any number of
goroutines. Three events over a history of two make the trim happen under a paging
client. Two lives let a forgotten agent come back during its forget hook. Two incarnations let an
old request write into, and an old closer clear, a new session. In
`lifecycle` a constraint (`HandlersTogether`) keeps the second handler away while a sweep or
a `CloseSession` is at work. The races there are those of one request with closers, hooks and
janitor; two requests meet where they read the clock and record it, which the constraint
leaves alone. Messages and polls together write every store but scratchpad and files, which a
request writes like the mailbox. The theorems are about any number of handlers without the
constraint, and every kind of request. In `persist` every kind of fault occurs, at any step; what is claimed
there is claimed message by message, and the theorems are about any number of messages and
crashes. In `bridge` two faults allow a fault during the
recovery from another. In `cli` two events suffice, because the client's mark makes an
event disappear through one other event with a higher number. In `tools` every pair of
kinds of calls meets. TTL and retention are one or two ticks because only the order of
the horizons matters. `CHECK_DEADLOCK FALSE` appears where bounded counters run out;
`leadership` has none and is checked for deadlock.

Symmetry is used only in runs without liveness properties: members and emitters in
`event_stream`, agents, handlers and messages in the membership runs, and handlers in
`lifecycle` are interchangeable.

### What the properties say

* `DrainedOnce`, `NothingLost`, `EvictsOldest`: destructive reads return an entry once;
  an unread entry that was not pushed out is in the box of its key or in a deleted one;
  only an entry that a full box of later ones follows is pushed out. `ImplementsLedger`
  says the same step by step.
* `WaiterServed`: a long-poll does not sleep on while mail for it is queued. It rests on the
  re-check every `mailboxPollTick`: without it a signal consumed by another waiter, or a
  box replaced under the waiter, makes it sleep until its deadline.
* `OfflineLeaderReplaced`: a leader that the sweeper declared offline is still on the list of
  the running sweep, or was appointed after that declaration by a handler that had
  checked it before (`late`). `AutoHeirOnline`: the sweeper itself never appoints such an
  agent. `LeaderRecovers`: the replacement happens.
* `NoGapInStream`: subscription before replay leaves no hole between the two.
  `MailBeforeNews`: whoever sees a live event finds it in the mailboxes.
  `CatchUpComplete`: paging with a high-water mark skips no message that is still kept.
* `JoinedOnce`, `RosterAgrees`, `OfflineMailKept`: announcements match the tracker, except
  for records created by unannounced requests and for agents that return during their
  own forget hook; mail of an offline agent is kept.
* `OwnDataOnly`: when no `CloseSession` is at work, whatever the six stores that it clears
  hold was written by the session that has the ID. So a deleted session leaves nothing, and
  its successor inherits nothing. The exception is a request, or a sweep with its hooks,
  that was under way at the deletion: its late write re-creates a store, the sweeper's
  `agent_left` the sequence counter. `ClosedOnce`: one closer per incarnation.
  `ReapsOnlyIdle`: whatever the order in which requests read the clock and record it, the
  janitor takes a session only if its newest recorded activity was past the retention
  horizon at the janitor's snapshot. Activity after the snapshot does not save it.
* `LossWindow`: mail that the last completed flush saw at its start survives any crash.
  `CounterAboveHistory`: the counter is not below anything that the server still holds,
  history or mail, although they are copied at three instants; of messages that a crash has
  taken it says nothing, and their numbers are handed out again. `RereadOnlyAfterRestart`: one read per run of the
  process. `MailBecomesDurable`: queued mail gets to the disk, to a reader or is dropped with
  its session, unless the process crashes first.
* `WakeUpPending`: while mail is in the mailbox and its event was not missed, something that
  will wake the agent is still under way: the notification, the event on the stream, a
  request in `signalCh`, a send, or a signal the agent has not acted on. It is the safety
  half of the next one.
* `WokenUnlessMissed`, `StreamRestored`: a message whose event reached the bridge wakes the
  agent through failures of the socket, and the stream always comes back.
* `MailShown`: mail for the user of the command line client is shown, or still above the
  mark in the mailbox or a response, except for the five losses that `excused` names: an
  event whose fan-out overlaps with a later event (the later one may overtake it), an event
  that meets a full channel, a lost drain response, mail that arrives between the drain
  and the subscription and is not in the replay, and mail that a drain which never reached
  the server has left in the mailbox and that is not in the replay (a later event then
  raises the mark past it). `HistoryReached`: once the connection holds,
  the mark reaches every message that stays in the history.
* `FileShared`: `send_file` never reports success for a file that nobody was told of, and
  never announces one that was not stored, with one exception: if the body of the upload's
  response is lost behind its headers, the message names no file. `MailHandedOver`: drained
  mail is with exactly one call or lost for a named reason, unless a restart from an older
  state file put it back into the mailbox. `TriggerRouted`: a trigger goes to the chat that
  asked, unless another chat's call came in between or the call named no chat.
  `PadAnnounced`: once every handler is through, followers of the events know the stored
  value, or that of a write that overlapped with the last one, or what they knew before a
  restart took the key back or cut an announcement short; never a value that was overwritten
  before the last write began. `RequestAnswered`:
  no call waits for ever on `Bridge.mu`, the server or the socket.

### Fairness

`Mailbox`: every goroutine inside an operation takes its next step (Go's scheduler; timers
fire); nothing of callers or deletions. `Leadership`: the sweeper's ticker keeps firing
(`StartSweep` runs for the life of the process); nothing of agents. `Persist`: both flushing
goroutines go on while the process is up, a delivery that has started ends, and a process
that is down is started again. `Bridge`: the bridge's loops and the server's handlers run,
the time of `reconnectSignalMinGap` passes, and a host that was signalled gives its agent
a turn; faults are finitely many. `CLI`: handlers run, a drain ends within the 30 s of the
`http.Client`, and reconnecting is fair, since `watchLoop` retries for ever and the
heartbeat renews the token meanwhile; `HistoryReached` has as its premise that the
connection is not cut infinitely often. `Tools`: a request's goroutine takes its next step,
where a round trip that gets no response ends in its timeout; nothing is assumed of the
host, nor that the server answers. `EventStream`, `Membership` and `Lifecycle` make safety
claims only and need none.

## Where code and documentation part

Three runs are expected to end in a violation:

1. `forget_race`. The forget hook runs after the tracker's lock is released and deletes the
   mailbox of an agent that has come back meanwhile (`hub.go:110`), against the comment
   that an agent's mail is kept for its return (`hub.go:229-231`).
2. `final_flush`. `flusher.Stop` does not wait for a flush under way, whose rename may follow
   that of the final flush (`cmd/server/main.go:136`), against "Final flush so a clean restart
   loses nothing".
3. `lost_wake_up`. The bridge peeks at the mailbox when the response headers are in; the server
   subscribes the stream after that. Mail delivered and notified in between is neither
   peeked nor streamed (`watcher.go:288`), against "a missed wake-up is never final"
   (`README.md:37`).

Other places in which a property had to be stated with an exception, because the code
does less than a text says; they follow from reading the code next to the model:

* two newcomers may both find no leader, and the second overwrites the first
  (`hub.go:204`); neither the initial leader nor the clearing of leadership is announced;
* after a restart a poll that precedes the first register creates the presence record, and
  the register then looks for no leader (`persist.go:26-27` says otherwise);
* live events of two emitters may reach a stream in the opposite order of their numbers;
* an event between the `connected` event and the subscription is replayed, not live;
* admission counts streams before they subscribe, so the limit may be exceeded;
* an authenticated request makes an agent a member without `agent_joined`;
* `SendMessage` refuses unknown agents only, not offline ones (`README.md:35`);
* a request in flight when its session is deleted, or a hook of the sweeper that runs after
  it, leaves data behind (`hub.go:579-580`);
* steady heartbeats do not advance `LastActive` (`session.go:17-18`), and a session that
  `GetOrCreate` made has none until its first request is through;
* `send_file` ignores an error in the body of the upload's response
  (`agentchat-mcp-bridge/main.go:785`) and announces a file without an ID;
* two overlapping writes of a scratchpad key may be announced in the opposite order, and a
  restart that takes a key back is announced to nobody;
* a register response without its body leaves the bridge registered without a token
  (`agentchat-mcp-bridge/main.go:164-167`) until the refused stream makes it register again;
* a fatal read error of the stdio server ends the process without the grace that the end of
  input gets (`mcp/server.go:120`);
* mail drained after the last flush comes back after a crash (`README.md:47`), and the counter
  falls back to the last snapshot: the next messages get numbers that clients have seen, which
  is what `hub.go:527-529` restores the counter against;
* `drainAndDisplay` does not display "everything in it" (`agentchat-cli/main.go:514-515`): after
  a drain that failed, or two events that overlapped, a drain returns mail that the mark has
  passed, which `showEnvelope` skips;
* a call from another chat replaces the one global origin before `trigger_agent` reads it, so
  that the signal does not "route to the chat that invoked us" (`mcp/server.go:238-239`);
* the janitor deletes by ID what its copy of the records showed as idle: a request in between
  does not save the session (`hub.go:588`; `hub.go:561-562` says otherwise);
* a session deleted between the copies of history and counter is restored with the one and
  without the other (`hub.go:528-529`).

## Proofs

Every invariant that a passing run checks is also a theorem of the specification, for
every value of the constants that satisfies the named assumptions; so are the action
property `ReapsOnlyIdle` and the refinement of `MailLedger`. The assumptions, each evaluated
by TLC in the runs, say that bounds are natural numbers, capacities where the code has a
positive constant are positive, nil values are none of the others
(`NoAgentAssumption`, `NoSnapshotAssumption`, ...), a filter is a filter, and an agent or a
session has a first life. One says more: in `MembershipAssumption` a handler does not last as
long as an agent takes to be forgotten (24 hours, `presence.go`).

Hardly any of the properties is inductive. What each proof adds, and why:

**MailboxProofs.** `NoEntryDrainedTwice` and `NoMailLost` rest on `MailInv`: an entry that a
goroutine is about to append is appended nowhere yet, unread, not evicted, and pending with
that goroutine alone (`PendingOK`); entries without a stamp are nowhere (`UnbornOK`); an entry
is in one box at most, and neither read nor evicted while it is queued (`PlaceOK`); a box in
the hand of a goroutine, if not removed, is the box the map has for the goroutine's key
(`HeldOK`). The last one carries the argument: the second lookup in `getOrCreateBox` makes a
box that a goroutine holds either the mapped one or a deleted one, so an append never goes
to a box that nobody can find. From `MailInv` also follows `StoreImplementsLedger`: each
action, for each message, is one action of the ledger or a stutter. `TrimDropsOldest` needs
more (`TrimInv`): a box serves one key for life, and entries have distinct arrival numbers
up to the number that arrived. That a full box of later entries follows an evicted one is
then a statement about cardinalities: the entries that follow only grow in number.

**LeadershipProofs.** The invariant is the conjunction of `ExpiredIsOffline`, `AutoHeirOnline` and
`OfflineLeaderReplaced`. Three lemmas say how Touch, time and a sweep change who is gone; after
that, an action either leaves leader and sweeper alone and makes nobody gone, or appoints an
agent and records whether it was gone, or is a step of the sweeper.

**MembershipProofs.** `JoinedOnce` counts: joins announced plus handlers that are to announce
one are at most the presence records created (`JoinOK`), since Touch reports a new record to
one caller. `OfflineMailKept` needs `GoneOK`: whom the forget hook is about is unknown and owed
nothing, or has come back. `RosterAgrees` needs `FreshOK`: whom a handler is about to announce
it touched at most its own age ago, and a handler is younger than the forget horizon, so the
sweep does not forget an agent between its touch and its announcement; and `RosterOK`, which
says who is about to announce whenever roster and tracker differ.

**EventStreamProofs.** `StreamInv`: numbers are given in the order of the history (`HistoryOK`); an
event in its fan-out has each mailbox before it or behind it (`FanOutOK`), which gives
`MailBeforeNews`; what is on a stream has a number (`NewsOK`). `NoGapInStream` and
`CatchUpComplete` are inductive next to these: an event above the replay was recorded after
the stream subscribed, and the mark of a paging client is the last entry of a page. The
second half is about `CLI`. `ServerUnderClient`: each step of the composition is a step of
`EventStream` or leaves it alone, so the theorems above hold under the client. `MarkLosesNoMail`
rests on `CLIInv`: of the events in their fan-out only the newest is not excused (`FlightOK`),
hence streams, mailbox and drained response are in order up to excused events (`StreamOK`,
`MailOK`); the mark covers the frames that were read (`ReadOK`); and after the drain, mail in
the mailbox is in the replay or comes live with nothing newer before it (`LiveOK`).

**LifecycleProofs.** `StoresFollowTheSession`: without strays every handler and every hook of the
sweeper that is under way belongs to the current session, and data of an earlier one has a
closer before it in the order of `CloseSession` (`OwnOK`). A new session therefore starts with
nobody else at work, and a store that no closer is about to clear is empty.
`SessionClosedOnce` is an argument about the cardinality of the set of active closers.
`JanitorTakesIdle`: `LastActive` is the newest recorded activity
whatever the order of recording, and a session the snapshot showed as stale still is or
was used since (`IdleOK`).

**PersistProofs.** `CounterCoversHistory`: until a flusher copies the counter, the one in memory
bounds the history and the mail it has copied (`CounterOK`). `FlushedMailSurvives`: what is safe is in the state
file and in memory, and what was in memory when a flush began is there still and, once
copied, in the copy together with everything safe (`LossOK`). `RereadNeedsRestart`: a queued
message was returned in earlier runs only, and the final flush ends a run once (`RereadOK`).

**BridgeProofs.** `TypeCorrect`, which no run repeats, in three parts (numbers, stream, flags).
`CoalescingLosesNoWakeUp`: `WakeUpPending` is inductive once only messages that
were sent are under way or in the mailbox (`CounterOK`): every step that takes a wake-up from
one place puts it into the next, or into `missed`.

**ToolsProofs.** Mailbox, losses and the mail of each call are disjoint, up to what a restart
put back, and together all that arrived (`MailApart`); `FilesOK` says how far `send_file` has got and what the store then holds;
a trigger that has yet to look finds its own chat's origin, was misled or came without one
(`OriginsOK`); every value that is still to be announced is the stored one or a rival of it,
and when none is, the value announced last is (`PadOK`). A restart brings back
mail that has arrived and a value that was stored, and all of these allow for it.

Only model-checked: liveness (`WaiterServed`, `LeaderRecovers`, `MailBecomesDurable`,
`WokenUnlessMissed`, `StreamRestored`, `HistoryReached`, `RequestAnswered`), which is out of the
prover's reach, and the three runs that end in a violation.

## What is not modelled

Keepalive pings, formatting, logging, request parsing and JSON framing; the terminal side of
the command line client (commands, colours) and sizes of messages, so that neither the
64 KB line of its scanner nor the 1 MB line of the stdio server is more than an event that
may happen (`Cut`, `ScanError`); the capacity of mailboxes outside `Mailbox`; the table of
watch tokens (the bridge meets its outcomes; `CloseSession` leaves it alone, so that a token
outlives its session by up to an hour); two agents due in one sweep in `Lifecycle`, and its
restarts (those are in `Persist`); the signal socket's protocol beyond success, failure, and failure after the
host has read; wire types. A request whose client has given up is served in `Tools` before
that or not at all. The session's numbering starts over when a session is re-created; the
client's mark against such a session is not modelled.

## Plan

In this order: (1) the core, done: Mailbox with its ledger, Leadership, Membership,
EventStream, Lifecycle, Persist, Bridge. (2) Done: the command line client composed with
EventStream; the MCP stdio server and the bridge's tools with the handlers behind them.
(3) Done: the safety
invariants of every module, the refinement of `MailLedger` and the action property of
`Lifecycle` as theorems. (4) Left: refinements that would tie the modules closer together, such
as the one-instant mailbox of `Persist` and `Bridge` stated as an abstraction of `Mailbox`, and
action properties of `Leadership` and `Persist`.
