# Xiaopai: TLA+ models, model checking and proofs

This directory is the verification project of the xiaopai robot: a Stack-chan
device (ESP32 firmware, C++), a Python server, and the Morrow agent that the
server talks to.  It models what the parts promise each other (commands that
are delivered, turns that end, speech that can be cancelled) and leaves the
signal processing, the web page and the wording of messages aside.

Paths are relative to `src/`; `S/` stands for `stack-chan/stack-chan-server/src/`
and `F/` for `stack-chan/main/`.

## 1. The system

    browser --HTTP--> server <--WebSocket--> Morrow agent (external)
                      |  ^
       long poll,     |  | ACK, hello, heartbeat, events
       commands       v  |
                     device firmware <--WebSocket audio--> realtime server

The server is one process with a thread per HTTP request, a thread for the turn
coordinator, one for the Morrow client, one for the reminder outbox, and an
asyncio loop for realtime audio.  They share SQLite (one connection at a time:
`Database.connect` holds a process-wide lock), the in-memory queue of each
device, and the coordinator.  The firmware is a set of FreeRTOS tasks that share
queues, the ACK table and the display and audio state.

### 1.1 Components

| component | state it keeps | operations | what makes it hard | what makes it correct |
|---|---|---|---|---|
| **Durable command store** `S/command_store.py`, `S/database.py`, `S/schemas.py` | tables `commands`, `deliveries`, `devices.boot_id`, reminder links; lease, attempt and expiry columns | create, lease (a named command or the next), record_ack, cancel by source, delivery or generation, observe_device_boot, sweeps | ACKs late, repeated, out of order; leases lapse; four sweeps give commands up; `deliveries.state` is a cache | outcomes are final; attempts within budget; deliveries and reminders agree with the commands |
| **In-memory queue** `S/server.py` `DeviceCommandQueue` | a bounded list of items | put (interrupt, coalesce, drop), get, discards, expiry | drops for room, preemption, coalescing interact | newest of a key wins; a refused put changes nothing |
| **Long-poll delivery** `S/server.py` `_handle_next_command`, `_observe_device_boot`, `_handle_v3_command_ack`; `F/main_command_services.inc`, `F/main_tts_commands.inc` | both queues; per poll its progress; the firmware's command task, speech queue, ACK table and NVS blob | poll, producers, hello, heartbeat, handle, speak, ACK, replay, restart | the same command waits in two queues; responses and ACKs are lost; two polls at once; restarts | executed once per boot, bound to its boot, reported only if executed, ends in an outcome |
| **Turn coordinator** `S/morrow_coordinator.py` | queue of requests, generations, the active turn, the pending set, the transition flag | submit, cancel_device, sync_device_generation, reset and switch of the shared session, the worker | check then act without a lock; two readers of one event queue; events without an id; expiry against a slow agent | cancelled speech is fenced; every reply and turn ends; an answer belongs to its question |
| **Morrow client** `S/morrow_client.py`, `S/morrow_protocol.py` | socket, ready flag, running turn id, two bounded queues | connect, read, send, switch_session | reconnects in the middle of a turn; sends to a dead socket; full queue | ready means a snapshot was seen |
| **Reminder outbox** `S/server.py` (`submit_morrow_notice_text`, the outbox loop) | table `morrow_notices`, the listener's and the outbox's progress | receive, save, submit, link, mark, scan | two submitters; a crash between creating and linking; a sentence the memory queue drops or the INSERT refuses | linked once by each submitter, never closed unheard or early, never lost sight of |
| **Morrow web gateway** `S/morrow_web.py` | the session shown to the pages, the switching flag, a revision | switch mode, reset, send, status, session history | shares the agent's session with the devices; a switch restarts the agent; what it reads twice may differ | pages and devices share a session, switches exclude each other and are visible, a saved message belongs to the session it was asked in |
| **Realtime sessions** `S/realtime_server.py`, `S/realtime_protocol.py` | connections, the registry by device id, recogniser threads, wake state | hello, listen start and stop, audio frame, text, close; the threads' hand-over | connections replace each other; threads hand over text late; coroutines suspend between reading and writing | every recogniser has a session that can stop it; text goes where it was spoken |
| **Speech queue and reply voice** `F/main_tts_commands.inc`, `F/voice_state.cpp` | speak queue, speech generation, reply session with its hold on speaking, stop flag, voice state | enqueue, speak a sentence, preempt, advance the generation, end, time out | four tasks take a reply apart in several steps without a lock over them | what was cancelled is not spoken later, every reply lets go of its session and of speaking |
| **Firmware state machines** `F/xiaopai_state.cpp`, `F/voice_state.cpp`, `F/expression_state.cpp`, `F/power_manager.cpp` | supervisor, voice, expression and power state | events, ticks | events from many tasks | no illegal transition |
| **OTA, provisioning, realtime link** `F/main_firmware_ota.inc`, `F/main_wifi_provisioning.inc`, `F/main_realtime_transport.inc` | partitions, credentials, socket | download, verify, switch; portal; reconnect | power loss in between | always a bootable image |
| **Text of replies and reminders** `S/morrow_coordinator.py`, `S/server.py` | a text buffer | feed, flush, split, normalise tables | input cut at any place; tables with blank, missing or surplus cells | nothing is lost, doubled or moved |
| **HTTP voice path** `S/server.py` (`_handle_upload`, `_handle_device_event`) | the dialogue's end per device, the speaker volume in memory and in the database | wake, sleep, time out, forward, change the volume | requests and polls share both without a lock over a read and the write that follows | nothing is forwarded from a sleeping dialogue; a sleep is told; the volume survives a restart |
| Other HTTP endpoints, ASR and TTS adapters, registry, policy, login, face detection, audio, camera, motion, web assets, tools | little or none of their own | | I/O, pure functions, vendored code | not modelled |

`PROJECT.json` has the same list with the status of each, and the hazards with
the line where each one bites and the properties that watch it.

## 2. The modules

| module | models | extends |
|---|---|---|
| `CommandStore` | the durable store, one action per transaction | standard modules |
| `CommandStoreProofs` | its theorems | `CommandStore`, `TLAPS` |
| `DeviceCommandQueue` | the in-memory queue, one action per call under its lock | standard modules |
| `DeviceCommandQueueProofs` | its theorems | `DeviceCommandQueue`, the library's theorems, `TLAPS` |
| `CommandDelivery` | store, memory queue, HTTP threads, firmware tasks and the network between them | `CommandStore`, `INSTANCE DeviceCommandQueue`, `INSTANCE CommandPromise` |
| `CommandPromise` | abstract: what the delivery promises the producers | standard modules |
| `CommandDeliveryProofs` | its theorems, and that it implements `CommandStore` and `CommandPromise` | `CommandDelivery`, `CommandStoreProofs`, `INSTANCE DeviceCommandQueueProofs` |
| `MorrowClient` | the agent's client, with the agent as its environment | standard modules |
| `MorrowTurnCoordinator` | the coordinator's worker and the HTTP threads that disturb it | `MorrowClient`, `INSTANCE SpeechFence` |
| `SpeechFence` | abstract: what the coordinator promises of speech | standard modules |
| `MorrowProofs` | the coordinator's theorems: generations, replies, speech, types, and that it implements `SpeechFence` | `MorrowTurnCoordinator`, the library's theorems, `TLAPS` |
| `MorrowWebGateway` | the gateway, the coordinator's shared session as far as it needs it, the page's polling | standard modules |
| `MorrowWebGatewayProofs` | its theorems | `MorrowWebGateway`, `SequenceTheorems`, `TLAPS` |
| `NoticeOutbox` | the two submitters, and a device and its polls in outline | `CommandStore`, `INSTANCE DeviceCommandQueue` |
| `NoticeOutboxProofs` | its theorems | `NoticeOutbox`, `CommandStoreProofs`, `INSTANCE DeviceCommandQueueProofs` |
| `RealtimeSessions` | the asyncio loop's sessions and the recogniser threads | standard modules |
| `SpeechText` | functions on text | `SequencesExt` |
| `SpeechSamples` | what they promise, on all short texts and tables | `SpeechText` |
| `VoiceCommands` | uploads, events and polls around the dialogue and the volume | `SpeechText` |
| `VoicePathProofs` | the theorems of `RealtimeSessions` and of `VoiceCommands` | `RealtimeSessions`, `VoiceCommands`, `SequenceTheorems`, `TLAPS` |
| `ReplyVoice` | the firmware's speech task, the tasks that cancel a reply, the voice state | standard modules |
| `ReplyVoiceProofs` | its theorems | `ReplyVoice`, the library's theorems, `TLAPS` |
| `MC...` | instances for TLC | the module of that name |

Names follow the source: `RecordAck` is `record_ack`, `PollLease` a step of
`_handle_next_command`, `SpeakTake` a step of `run_speak_command_loop`.  A
definition `Slip...` stands before the definition of the rest of its name: it is
that definition with a plausible mistake, used to see that a property notices.
It is no part of any specification.

### 2.1 CommandStore

State: `state`, `attempt`, `bootOf` and the like are columns of `commands`,
`delivery` the state of `deliveries`, `boot` that of `devices`, `noticeCmd` and
`noticeState` the link and state of a reminder.  A transaction is one action,
because `Database.connect` lets one connection exist at a time.
`lease_next_command` is `Sweep` followed by `LeaseCommand` of `NextCommand`.  Time is the
set of commands past `expires_at` and the set of leases that have lapsed;
`Deadline` (of several rows at once, as they may share a TTL) and `LeaseLapse` add to
them, each sweep reads them.  The state of a reminder is also written by `server.py`
itself, outside every transaction of the store: `LinkNotice`, `MarkNoticeExpired` and
`ExpireReceived` are these writes, and `Next` has all three.  The first two ask nothing
of what the row is by then.  The recovery of
stale dialogue (rows untouched for 600 s) may take any set of dialogue rows.
Left out: the append-only logs `command_acks` and `command_attempts`, texts and
timestamps.  `devices.speech_generation` is `stored` of the coordinator.

### 2.2 DeviceCommandQueue

`items` is the list; `Put` makes the preemption, the coalescing and the drop for
room in the code's order, with its early return when nothing may be dropped.
`Get` removes what `get` returns for a boot and for the poll's `speak` and
`find_owner` permissions.  Waiting is the absence of an eligible item.

### 2.3 CommandDelivery

A server thread walks through `_handle_next_command` in the steps at which
another thread can come between: observe the boot (and discard other boots from
memory), adopt it, gate, select, lease the row, discard its copy, wait on memory,
take an item, lease its row, answer.  The firmware side has the command task
(hello, replay of pending ACKs, poll, handle, ACK), the speech worker, and the
ACK table with its copy in NVS.

The network: a response may be lost, which the command task sees as a failed
poll; an ACK may be lost, heard with its answer lost, or heard late (`late`,
bounded by `MaxLate`); a hello may be lost.  `Reboot` may happen at any step: it
empties RAM, keeps NVS and gives the next boot id.

Simplifications that matter to a reader:
- one device; a POST and what the firmware notes of it is one step;
- the boot's read and the discard of other boots from memory are one step;
- the stale-dialogue sweep of a poll is modelled once, at its gate; the second
  gate and `get_nowait` of a poll that timed out are `PollLast`;
- whether the coordinator has a pending turn is left open at every gate;
- no stop command and no speech generation (they belong to the firmware's speech queue);
- the limits of the ACK table (64) and of NVS (32) are not reached;
- boots are numbered in the order they are drawn: `esp_random` is taken to give
  a fresh one;
- a command in memory stamped with boot 0 (created before the device's first
  hello) may run in a later boot: `BoundToBoot` speaks of the stamped ones.

`CommandPromise` is what all this amounts to for a producer, without tables, queues,
polls and ACKs: a command is accepted once, for a boot the device has had or for any; the
device runs it at most once in a boot; it is settled once, and as a success only if it was
run.  `Promise` maps the delivery to it:

| `CommandPromise` | in `CommandDelivery` |
|---|---|
| `row` | `state` of the row, all of whose live states are `open` (`Standing`) |
| `stamp` | the boot the producer put in the command, once its row exists (`Stamp`) |
| `now`, `runs` | the device's boot, and what it executed |

What it leaves open is what the code leaves open: whether a command is run at all, and
that it may run after it was given up.

An observation on locks, not a property: `DeviceCommandQueue.get` calls
`allow_find_owner`, which takes the database and the coordinator lock, while it
holds its condition variable.  No path takes that condition variable while it
holds one of those locks, so the order is safe today.

### 2.4 MorrowClient and MorrowTurnCoordinator

The client is the reader thread (`Connect`, `ConnectFails`, `Receive`,
`Disconnect`, `Retire`, in the order in which `_connection_loop` sets and clears
its flags) and the sends that other threads make.  A send after the reader has
seen the connection end may still go nowhere.  The agent runs one turn per
session, accepts or rejects what it is sent, tells pieces of text and then the
end of the turn, at any time or never.  Messages carry `of`, the turn they are
about; the code sees it only in `turn_rejected`.

The coordinator is the worker thread, stepped between the points where the code
takes its lock, calls a sink, sends or reads an event, and the HTTP threads:
submit, cancel or sync (threads outside `Resetter`), reset and switch (threads
in `Resetter`).  Time is `expired` (requests past `expires_at`), `WorkerTimesOut`
and `GiveUp`.  `segments` and `replyEnd` are the speech rows that the sinks have
written and the cancel sink has or has not taken back.

`SpeechFence` is the coordinator without its threads, queue, agent and events: requests with
a generation, the rows each has, one pen, and a fence that takes rows back.  `Promise` maps
the coordinator to it:

| `SpeechFence` | in `MorrowTurnCoordinator` |
|---|---|
| `generation`, `fence`, `born` | `generations`, `stored`, `generationOf` |
| `phase` | `new` until `submit` has looked at the generation, `closed` once accepted and pending no more, else `asked` (`PhaseOf`) |
| `pen` | the request of a worker that has looked for staleness and is to write, with the rows left (`PenOf`) |
| `rows`, `live`, `replyEnd` | what was written to `segments` and not taken back, and `replyEnd` |

Left out: the state and message of `TurnOutcome`, storage failures in a sink,
`robot_notice`, `stop`, `_resetting_devices` (never filled by the code), the
speech already leased by a device when it is cancelled (the firmware's
generation fence drops it), the in-memory copies of the rows, and a switch that falls inside one
step of the reader.  The two transactions of the cancel sink are one step, as are
a read of the running turn's id and the send that uses it.  A piece of text is
written at once or kept for the end of the turn, which is what the segmenter and
an `agent_message` amount to.

Two pairs of steps are one step each.  `submit` enters the request in the pending set
(`S/morrow_coordinator.py:367`) and then puts it in the queue (371); a thread in between
finds it pending either way, and the worker not in the queue yet, which is the state
before a `Take`.  The worker looks for staleness (584) and then waits for an event (593);
a request that becomes stale in between still takes one event, but `_deliver` looks again
before anything is spoken and `_emit_reply_end` before the end, so what is left of the
difference is that event, and the state of the `TurnOutcome`.

### 2.5 NoticeOutbox

Each thread walks through `submit_morrow_notice_text`: the check of the row, one
step per sentence (its row and its item in memory), the link.  `submitter` is
where a thread is, `saved` and `late` are rows of `morrow_notices` and their
`expires_at`; `noticeState` and `noticeCmd` are those of `CommandStore`.  The
`cmd_id`s of a second submission are fresh, so a sentence of it meets the rows of
the first in the unique index (`Duplicates`) and in the coalescing of the memory
queue.  The device speaks or fails, and reports; how commands travel is in
`CommandDelivery`.  A mishap of each kind happens once at most, and
`MaxMishaps` says how many kinds one behaviour may have.

Two variables are kept for the properties alone: `links` counts, and `adrift` has
the reminders whose link came after their command had already ended (or names a
row that does not exist).  Those stay `queued` for good, as no later transaction
looks at a reminder of a finished command: `LinkNotice` asks no state.

### 2.6 RealtimeSessions

The coroutines of the manager are steps between the awaits that suspend; the
recogniser threads (`RealtimeAsrBridge`) go from connecting over streaming and
draining to their end and hand coroutines to the loop through `posted`.  `task` is
the await a `_dispatch`, or the handler of a bridge's text, is at.  `socket` also
says whether a close has been scheduled, as a replaced connection goes on reading
until then.  A text is a model value with the kinds of words it has.  Left out:
`RealtimeManager.start` and `stop`, speech over the socket (`_run_tts` has no caller),
capture files, frames that Opus refuses (a missing library, which stops the recogniser
at its first frame, is in `Audio`), an appkey that is missing, the `abort` message,
latency marks.

### 2.7 MorrowWebGateway

`op` is the progress of an HTTP thread that switches the mode or resets the shared
session, `turn` that of a message from `send_message` or `submit` to its end, and
`page` that of `syncSharedSession`, which polls the status and then loads the
history.  The coordinator is kept to what the gateway shares with it: the queue,
the generations, the transition flag (its own module has the rest).  `contents` is
the agent's history of each session.  `home` is false of a message whose session
was cleared or left after it was asked and before it reached the agent.  `missed` is true
of one that was between the two blocks of `submit` when a transition began that did not know
its source (`Missed`); both are kept for `SavedWhereAsked` and no guard reads them.
`halfway` says that a switch failed after the client had moved.

### 2.8 SpeechText, SpeechSamples and VoiceCommands

A text is a sequence over seven characters, one for each kind the code tells
apart, and a Markdown line is its cells.  `SpeechSamples` states what the functions
promise with definitions that look at the whole text: which characters are outside
a tag, which tag is the first before any speech, which values a table has.

In `VoiceCommands` every read and write of `dialog_awake_until` and of the volume is
a step of a request's thread or of the thread that serves a poll, and so is the
creation of a command, which may fail and be logged.  The end of the dialogue is
`zero`, `ahead` of the clock or `past`.  `created` is what was created since the
dialogue was last awake.  Left out: the capture of uploads, the order of commands
after they were created (`DeviceCommandQueue`, `CommandStore`), a volume command that comes
in a sequence.

### 2.9 ReplyVoice

| variable | in the firmware |
|---|---|
| `queue`, `generation`, `stop`, `session` | `speak_command_queue`, `speech_command_generation`, `app2_stop_requested`, `reply_voice_session` |
| `voice` | `state`, `return_state`, `speaking_depth` of `voice_state.cpp`; `busy`: the supervisor's `interaction_state` is Speaking |
| `speech` | where `run_speak_command_loop` is, with its sentence and results |
| `command` | the sentence `enqueue_speak_command` has checked and not yet sent to the queue |
| `task` | per task, the steps of its cancellation that are left and the hold it has to end |

A cancellation (`request_speak_preempt`, `advance_speech_generation`,
`reply_voice_cancel`, and the orders in which the stop command, the long touch, the
watchdog and the speech task itself call them) is a sequence of steps, and any
other task may run between two of them.  The mutex of the session, the
supervisor's queue and FreeRTOS' queues make one step atomic each; that a task looks
at the voice state and then changes it is one step too.  `excused`, `fence` and
`slipped` are history and no guard reads them.

Not in the module: the realtime task's own wait in Waiting (it leaves a reply that has
begun to the watchdog, and cancels as the touch does), ACKs (section 2.3), sentences of
the firmware's own, the demo lock (it drops a sentence as its deadline does), the system
modes that refuse speech, recording, expressions and lights, and a deferred sentence
that is sent again.

## 3. What the runs check

| run | instance | distinct states | shows |
|---|---|---|---|
| `command_store` | 2 commands of one delivery, 1 reminder, 2 boots, 2 attempts | 241k | `TypeOK`, `AttemptBudget`, `DeliveryReportsOutcome`, `NoticeNeverAhead`, `TerminalIsFinal`, `NoticeEventuallySettles` |
| `memory_queue` | 7 commands of all ranks and two keys, size 3 | 763 | `NewestOfKeyWins`, `PutCostsNothingHigher` |
| `delivery_speech` | 1 sentence, 1 local sentence, speech queue of 1, 2 boots, 1 late ACK | 807k | `DeliveryTypeOK`, `ReportedMeansExecuted` (`OncePerBoot` is checked in the next run and proved for both) |
| `delivery_action` | 1 timer command, 2 polls served at once, 2 boots, 1 late ACK | 913k | `OncePerBoot`, `BoundToBoot`, `DeliversAsPromised` |
| `delivery_settles` | as `delivery_speech`, no late ACK, fairness | 232k | `SettledUnlessStuck` |
| `morrow_turns` | 1 request, 1 cancelling and 1 resetting thread, 2 generations, 1 lost connection, 1 switch, batches of 2 | 2.9M | `CoordTypeOK`, `SpeechIsFenced`, `StoredKeepsUp`, `RepliesEnd`, `SpeaksBehindTheFence` |
| `morrow_pending` | a device's and the page's request, queue of 1, 1 cancelling thread, fairness | 213k | `PendingTurnsEnd` |
| `notice_outbox` | 1 reminder of 2 sentences, 2 submissions, memory queue of 1, 2 boots, 2 attempts, 1 mishap of 7 kinds | 881k | `OutboxTypeOK`, `LinkedOnceByEach`, `RenderedMeansHeard`, `ExpiredMeansLate`, `ReminderKept` |
| `realtime_sessions` | 2 connections, 2 ids, 2 recognisers, 4 texts, 4 messages | 756k | `SessionsTypeOK`, `NoOrphanBridge`, `RegistryIsTrue`, `TextStaysHome` |
| `web_gateway` | 2 threads, 1 message of the page, 1 new session, 1 reset, 1 fault, fairness | 192k | `SwitchingIsVisible`, `OneSession`, `SavedWhereAsked`, `PageCatchesUp` |
| `voice_commands` | 2 requests, 1 timeout, 1 failing write, 1 restart; texts of up to 4 characters, tables of up to 3 lines | 74k | `ForwardedAwake`, `SleepIsTold`, `VolumeSurvives`, `TextIsAllSpoken` |
| `reply_voice` | 3 speak commands of two replies, queue of 2, 1 stop or touch, the watchdog, fairness | 656k | `StopTakesHold`, `SpeakingIsHeld`, `RepliesLetGo` |

The memory queue's `TypeOK` is checked as a part of `DeliveryTypeOK` and `OutboxTypeOK`;
the types of `MorrowWebGateway` are parts of its proved invariants.  `DeliversAsPromised` and
`SpeaksBehindTheFence` are refinements: TLC compares each step of the instance with the
abstract specification.

### 3.1 Why the bounds are enough

- Two attempts are the least at which "the last attempt" differs from "an
  attempt"; two boots the least with an old and a new one; two commands the least
  with an order and with a delivery whose parts differ.
- The memory queue of three with seven commands meets every rank against every
  other, with the queue full, and both reasons for a drop.
- `delivery_speech` and `delivery_action` split the two kinds of command: together
  they are over four million states, and with two polls over eleven million,
  without a behaviour of one that depends on the other.  One sentence against a
  full queue needs a second one, which is the firmware's own `Local`.  Executions
  are counted to two, one more than a property allows.
- Two generations are the least at which two cancellations can reach the database
  in the wrong order.  One request is enough for the fence, which speaks of
  each request by itself; the second request is in
  `morrow_pending`.  A session that is switched once, a connection lost once and a
  piece of text per turn are the least that show each effect, and the
  event queue of two is small enough to be full.
- A reminder of two sentences is the least with a last one that differs from the
  first; two submissions the least at which the two threads overlap, and the
  memory queue of one with a command that outranks speech lets a sentence be dropped.
  Two mishaps in one behaviour are more states than a run of some minutes has time for.
- Two connections and two ids are the least at which one replaces another, is
  renamed to the other's id, and `default` leads to the wrong one; two recognisers
  the least with an old and a new one of a session.
- In `web_gateway` two threads meet at the lock and at the transition, as two switches,
  two resets or one of each; the message is the page's, whose source the
  coordinator knows only once a transition has met it pending, so that both cases of
  `Missed` happen; one fault may hit any step that talks to the agent or any request of
  the page.  The theorems of section 4 are for any number of all these.
- Two requests and the polls give every pair of steps on the dialogue and the volume
  an interleaving.  A reply of four characters has a tag, a cut in it and a piece that
  is full (three characters or five bytes in the model); a table of three lines has a
  header, its separator and a row, in every form of each.
- One reply is left open or ended by a control, the other ends with its only sentence
  and has a later generation: the second replaces the first at every point of it.  One
  stop has up to fourteen steps, and the watchdog, which every new session rearms, is a
  second cancellation that crosses it, the speech task's own after a failed sentence a
  third.  The firmware's queue holds 4; at most 3 sentences come here, for which 2 is full.
- `CHECK_DEADLOCK FALSE` is in the configurations where the system stops because
  a bound is reached or everything has been done.

### 3.2 Fairness

Weak fairness of each step of a thread or task: they are loops that wait only
for what the step's guard says.  In `CommandDelivery` also of `LeaseLapse` and
`Deadline` (clocks run), and strong fairness of two things: an ACK that is
replayed again and again is heard in the end (the firmware tries it before each
poll), and a dialogue row nobody touches is found stale by some poll (after ten
minutes each poll finds it).  `CommandStore` needs only that polls keep sweeping.
In the coordinator: the worker, its deadline, the expiry of requests.  In
`MorrowWebGateway`: the HTTP threads once they have begun (all their waits have
deadlines), the turns and the worker, the agent's end of a turn, and the page,
which polls every second.  In `ReplyVoice`: each task's steps and the
watchdog, a loop of the firmware over a clock; not the arrival of a command,
and no stop.  Nothing is assumed of the connection, of the faults,
or of the requests that may or may not come.

### 3.3 What the models have and no property excludes

These follow from steps of the modules.  No run checks a property about them, since
the property that says otherwise does not hold of the code.

- **A deferred sentence is never spoken** (`CommandDelivery`).  The `deferred` ACK of a
  full speech queue (`F/main_command_services.inc:1184`, "speak queue full; retry")
  enters the ACK table, so the retries are duplicates, and the row goes round between
  `queued` and `leased` for good.  This is the first disjunct of `Stuck`.
- **A hello that is lost.**  No poll or heartbeat may replace the one hello of a boot
  (`S/server.py:1927`): every poll of the device is answered with a noop until it
  restarts again.  Without the second disjunct of `Stuck`, `SettledUnlessStuck`
  fails for that reason.
- **A terminal ACK is overwritten** (`CommandDelivery`).  The command task queues a
  sentence before it ACKs it as received; if the speech worker finishes first and its
  ACK fails, the received one replaces the outcome and clears `ack_pending`.
- **A stop waits behind motion** (`CommandStore`).  `lease_next_command` orders by
  `safety_class` as text, descending, and `normal` comes before `local_stop`;
  `HTTP_COMMAND_API.md:307` says that a stop outranks the others.
- **An answer crosses turns** (`MorrowTurnCoordinator`).  The output of a turn given up
  that arrives after the next `start_turn` is spoken as the next answer, since events
  carry no id that is compared and the queue is drained only before the start.
- **A transition never ends** (`MorrowTurnCoordinator`).  `cancel_turn` in
  `reset_shared_session` may raise outside the `try` that clears `_shared_transition`
  (`S/morrow_coordinator.py:424`).
- **A reminder spoken twice, or adrift** (`NoticeOutbox`).  When the first submission's
  commands were created but not linked, the second one speaks again; and a link that
  comes after its command has ended leaves the reminder `queued`.
- **A reminder expired while its command is on its way** (`CommandStore`, `NoticeOutbox`).
  `submit_morrow_notice_text` reads a reminder and finds it too late in one transaction, and
  `mark_morrow_notice_state` (`S/server.py:4456`, called at 4488) writes `expired` in
  another, which asks nothing: the other submitter may have linked it in between, and its
  command may still be spoken.  `NoticeNeverAhead` excepts exactly that write.
- **Two readers of one event queue** (`MorrowTurnCoordinator`).  `reset_shared_session`
  (`S/morrow_coordinator.py:449`) and the worker both take events of the client; either may
  take what the other waits for.  The reset then fails at its deadline, or the turn at its
  own.  The step is in run `morrow_turns`, and no property notices it.
- **A message that a transition misses** (`MorrowWebGateway`).  `submit` reads the flag and
  the generation in one locked block (`S/morrow_coordinator.py:352`) and becomes pending in
  another (367).  A transition that begins in between ends the turns of the devices it is given, of the
  sources in `_generations` and of the pending requests (411-416, 495-500).  The page's
  `__web__` is none of these until a transition has met one of its requests pending, and again after each restart:
  its message then keeps a generation that is current, runs in the new session or the
  cleared one, and is answered as saved.  `SavedWhereAsked` excepts exactly it (`missed`); a
  message of the page that was pending, or whose source is known by then, is fenced.
- **A wake word that is undone** (`VoiceCommands`).  `_expire_dialog_if_needed` reads the
  time under the lock and puts the dialogue to sleep after it (`S/server.py:2984`): a wake
  word in between is heard, answered, and then sleeps.  `ForwardedAwake` does not exclude it.
- **A switch that failed halfway** (`MorrowWebGateway`).  The client is in the new
  session and `default_session` is the old one, until the next switch.
- **The next utterance is cut off** (`RealtimeSessions`).  A late final text ends the
  listening that the device has begun meanwhile (`S/realtime_server.py:812`).
- **Two volume changes that overlap** (`VoiceCommands`) may leave another volume in the
  database than in memory, and so does a write that fails.
- **The device speaks and nothing plays** (`ReplyVoice`).  `reply_voice_audio_started`
  (`F/main_tts_commands.inc:825`) notes under the mutex that the reply holds the speaking
  state, and begins it after the mutex is released.  A stop, a touch or the end of another
  cancellation in between clears the session, sees the hold, and ends a speaking that has
  not begun.  The begin that follows has no end: the state stays Speaking
  (`docs/xiaopai_stackchan_architecture_v3_1_morrow.md:366`: "正在播放 TTS", TTS is being
  played) and the microphone shut.  `RepliesLetGo` and `SpeakingIsHeld` except it by `slipped`, which is set by
  that crossing and by a begin that the supervisor refuses, and by nothing else.
- **A stop that is withdrawn** (`ReplyVoice`).  `run_speak_command_loop` sets the stop
  flag back for each sentence (`F/main_tts_commands.inc:1120`), also if the stop came after
  the sentence was received; and one that was checked but not yet queued goes into the
  queue behind the reset.  Either is still spoken: `StopTakesHold` excepts exactly these.

## 4. What is proved

`CommandStoreProofs` proves for every set of devices, commands, deliveries,
reminders and boots, every envelope of each command and every number of attempts,
from the assumption `StoreAssumption` of `CommandStore` alone:

| theorem | states | along |
|---|---|---|
| `TypeCorrect` | `Spec => []TypeOK` | helper lemmas on what `Verdict`, `Mark`, the sweeps return; `NextType`, one step per transaction |
| `OutcomeIsFinal` | `Spec => TerminalIsFinal` | `StepIsFinal`: each write of `state` excludes terminal rows by its guard |
| `BudgetKept` | `Spec => []AttemptBudget` | `BudgetInv` |
| `NoticesFollow` | `Spec => NoticeNeverAhead` | `NoticeInv`: no linked reminder counts as received; rests on outcomes being final |
| `OutcomeReported` | `Spec => []DeliveryReportsOutcome` | `DeliveryInv` |

`AttemptBudget` is not inductive: a row that does not exist yet could start with
any attempt.  `BudgetInv` adds that it starts with none.  `DeliveryReportsOutcome`
is not either: a command could be there before its delivery, whose first
refresh is then missed.  `DeliveryInv` adds the order of creation.  The argument then is
that a transaction either refreshes the deliveries it touches
(`RefreshKeepsInv`) or is *calm* for them (`CalmKeepsInv`): it takes live rows to
outcomes that no verdict reports, so a verdict worth reporting does not change.
That is the reason why cancellations may leave `deliveries` alone, and why no
other transaction may.

`NoticeNeverAhead` is proved of all writes to a reminder's state, those of `server.py`
(section 2.1) included.  It has two parts: a linked reminder that is rendered, done, failed
or cancelled is so as its command is, at all times; and it becomes expired only with its command
or by `MarkNoticeExpired`.  The outbox's own sweep of received reminders touches no linked one,
because linking takes a reminder out of `received` and nothing puts it back (`NoticeInv`).

`MorrowProofs` proves for every set of devices, requests
and threads, every queue and every size of a batch, from `CoordinatorAssumption`
of `MorrowTurnCoordinator` and `ClientAssumption` of `MorrowClient`; the agent is its
model there, and the first three theorems do not use what it sends:

| theorem | states | along |
|---|---|---|
| `StoredGenerationKeepsUp` | `CoordSpec => []StoredKeepsUp` | `FenceInv`, one lemma per kind of step |
| `EveryReplyEnds` | `CoordSpec => []RepliesEnd` | `ReplyInv`, which rests on `FenceInv` |
| `SpeechStaysFenced` | `CoordSpec => []SpeechIsFenced` | `SpeechInv`, which rests on both |
| `CoordinatorTyped` | `CoordSpec => []CoordTypeOK` | `CoordTypes`, one lemma per kind of step |
| `CoordinatorKeepsItsPromise` | `CoordSpec => SpeaksBehindTheFence` (implements `SpeechFence`) | `LineInv`, and the invariants above |

`StoredKeepsUp` speaks of a device none of whose cancel sinks is still to run,
which says nothing of the steps before.  `FenceInv` adds what is owed: where the
database is behind, some thread still carries the newest generation to it, and
no thread carries one that is ahead of memory.  That the database takes the
larger of the two (`Stored`) is what keeps this when the threads come in the
wrong order.  `RepliesEnd` lets a reply go without an end if its generation is
over, which must stay so: `ReplyInv` adds that no request is newer than its
device, and `Grows` that no step takes a generation back.

`SpeechIsFenced` bounds what an old request has, not what the worker may still
write for it.  `SpeechInv` counts both: the live rows of a request that is behind
and the sentences left of the batch the worker is in (`Rest`), and that a worker
on its way to a reply end has no live row before it.  The argument is that the
worker sets out to write (`SetsOut`) only for a request of the current generation,
which `FenceInv` and `ReplyInv` place ahead of the database (`CurrentIsAhead`), and
that the sink which puts it behind takes back all that is written by then.

That every row is speech of a request (`CoordTypeOK`) is followed from the agent through
the wire, the event queue and the worker's batch: `CoordTypes` has a part for each, and
adds that nothing is active before the activation and after the finish, and that a thread
goes beyond its sinks only if it resets or switches.

`CoordinatorKeepsItsPromise` maps each step: a `submit` that passes its first block is `Ask`, the
worker's look for staleness before a batch or an end is `TakePen`, the writes are `Write` and `End`,
a finish without an end is `Close`, a cancel sink is `Fence`, and all else moves generations or
stutters.  `Close` must only happen to a reply the device is not to hear, and `End` only once:
`LineInv` adds that what the queue has or the worker runs is pending, and is there once,
so no request is finished twice.

`MorrowWebGatewayProofs` proves for every set of turns and threads and any number of
switches, resets and faults, from `GatewayAssumption` of `MorrowWebGateway`:

| theorem | states | along |
|---|---|---|
| `SwitchesAreVisible` | `Spec => []SwitchingIsVisible` | `OperationInv`, one lemma per step of a thread |
| `SessionsAgree` | `Spec => []OneSession` | `OperationInv` |
| `SavedInItsSession` | `Spec => []SavedWhereAsked` | `AskedInv`, which rests on `OperationInv` |

`OperationInv` says what a thread at each place has: the job that leads there, the
lock from a switch's first step to its last, the transition while it is inside one,
and, between the move of the client and `default_session`, the client's session as its
own.  That two switches exclude each other is what `OneSession` needs: no other thread
is between the two when one moves the client.  `SavedWhereAsked` speaks of messages
that are saved and were not missed; `AskedInv` adds that such a one still on its way when a
transition begins has been overtaken by its source's generation, and so has every one whose
session has ended, which only happens inside a transition.  The worker compares the two when
the turn ends.  It also adds that the queue has no turn twice.

`DeviceCommandQueueProofs` proves for every set of commands, every size and every rank
of priorities, from `QueueAssumption`:

| theorem | states | along |
|---|---|---|
| `QueueTyped` | `Spec => []TypeOK` | what each operation leaves is a shorter sequence of the same items (`AfterPutSeq`) |
| `NewestKept` | `Spec => []NewestOfKeyWins` | `KeyOrder`, which any thinning of a sequence keeps |
| `PutIsFair` | `Spec => PutCostsNothingHigher` | what `Thinned` and the drop for room may remove |

What is left of a list when positions are removed is `Kept`, which counts positions and
is no recursion: `Nth(I, k)` is the k-th position of `I`.  That it exists, grows with `k` and
covers `I` is shown by the least-number principle on `Nat`, which the library's
well-founded order gives without an induction over operators.  The drop for room is one
drop, because the queue was within its size before: the `while` of the code ends after it.

`CommandDeliveryProofs` proves for every number of commands, boots and polls at once, and
any capacities, from `StoreAssumption` and `DeliveryAssumption` (one device, boots numbered
in the order they are drawn, no stop command; an envelope's rank as `schemas.py` gives it):

| theorem | states | along |
|---|---|---|
| `DeliveryUsesStore` | `DeliverySpec => Spec` of `CommandStore` | one case per step: it makes one transaction of the store or leaves its tables alone |
| `DeliveryTyped` | `DeliverySpec => []DeliveryTypeOK` | `LinkTypes`: the queue, `ServerTypes`, `TaskTypes`, `NoteTypes`, one lemma per kind of step |
| `ExecutedOnce` | `DeliverySpec => []OncePerBoot` | `OnceInv` |
| `ReportsAreTrue` | `DeliverySpec => []ReportedMeansExecuted` | `ReportInv` |
| `BootBoundKept` | `DeliverySpec => []BoundToBoot` | `BootInv` |
| `DeliveryKeepsItsPromise` | `DeliverySpec => DeliversAsPromised` (implements `CommandPromise`) | `PromiseInv`: the three above, `MadeInv`, `KnownInv` |

`DeliveryUsesStore` is a refinement: `CommandStore` is the abstract specification of
what the threads do to the tables, and every theorem of `CommandStoreProofs` holds of the
composition through it.  `OncePerBoot` needs to know why a second execution cannot start:
`OnceInv` says that what is not in the dedupe table has not run in this boot, that a queued
sentence has not run either, is there once, and is in the table unless the command
task is just about to acknowledge it.  The order of the code matters here: the queue gets
the sentence before the table does, and the speech worker may have finished it by then.
`ReportInv` follows the claim of an outcome back from the store over the ACKs
on their way (`late`) and the table (RAM and NVS) to the execution.  `BootInv` has one part per
place a command can be: rows are bound to the boot they were stamped with, memory keeps
the stamp, a poll holds only what fits the boot it asked for, and the poll
whose answer the device waits for asks for the device's own boot.  A restart then empties
exactly the places that speak of the old one.

`DeliveryKeepsItsPromise` sorts the steps by what a producer would see: a producer's INSERT is
`Accept` (`ProducersAccept`), the device's beginning of a command is `Run` (`RunsOnce`), a reboot is
`Restart`, and every other step settles commands or nothing (`SettlesIf`).  It
takes two facts more.  `MadeInv`: a command whose producer is past its INSERT has a row, so
what runs was accepted.  `KnownInv`: no producer, no poll and no row of `devices`
knows a boot the device has not had yet, so a stamp is never ahead of the device.  That an
outcome is for good comes from the store (`StepIsFinal`), that a success was run from `ReportInv`, that the
run was the first of its boot and in the right one from `OnceInv` and `BootInv`.

`ReplyVoiceProofs` proves for every script of sentences, every size of the queue and any
number of stops, from `ReplyAssumption`:

| theorem | states | along |
|---|---|---|
| `StopsTakeHold` | `Spec => []StopTakesHold` | `FenceInv` |
| `SpeakingHeld` | `Spec => []SpeakingIsHeld` | `HoldInv` |

`StopTakesHold` speaks of the sentence being spoken; `FenceInv` says the same of every
sentence in the queue and of the one the command task has checked, and that the fence is
never ahead of the generation.  `SpeakingIsHeld` compares a state with holders; the firmware
compares neither but counts (`speaking_depth`).  `HoldInv` says that the depth is the
number of holders (a task that has cleared a session and not ended it, the session that
holds and has begun), by cardinality, and what the rest of a task's cancellation
(`TodoInv`) can still be: a step that begins or ends a speaking adds or removes exactly
one holder.

`VoicePathProofs` proves of `RealtimeSessions` for every number of connections, device ids, recognisers
and texts, from `SessionsAssumption`:

| theorem | states | along |
|---|---|---|
| `SessionsTyped` | `Spec => []SessionsTypeOK` | `Types`, with `KeysAgree` on the dictionary and its order of keys |
| `RegistryKept` | `Spec => []RegistryIsTrue` | inductive with `Types` |
| `NoneOrphaned` | `Spec => []NoOrphanBridge` | `HeldInv`: a bridge that is held has a thread; `PostedTrue`: one whose end notice is on its way is dead |
| `StaysHome` | `Spec => []TextStaysHome` | `HomeInv`: a bridge that was not started has no task |

`NoOrphanBridge` says that a session that holds a bridge made it and listens
(`HeldWhileListening`, lemma `HeldKept`), and that a bridge nobody stopped is held (`RunningIsHeld`).  The end
notice of a bridge takes it from its session without an order to stop; that is safe
only because of `PostedTrue`: what a thread hands over last shows that it is over.
`LettingGo` and `Apart` sort the steps by what they do to recognisers: those that stop some,
and those that touch none.

The same module proves of `VoiceCommands` for every number of
requests, every set of utterances and any number of timeouts, faults and restarts, from no
assumption:

| theorem | states | along |
|---|---|---|
| `ForwardsAwake` | `VoiceSpec => []ForwardedAwake` | `ForwardInv` |
| `SleepTold` | `VoiceSpec => []SleepIsTold` | inductive with `VoiceTypes` |
| `VolumeKept` | `VoiceSpec => []VolumeSurvives` | `VolumeInv` |

`ForwardedAwake` speaks of texts that were submitted; `ForwardInv` says of one without a wake word
whose dialogue was not awake since the upload that it is not on its way to the agent, and
that where it has yet to look it will find the dialogue asleep.  `VolumeInv` adds that,
unless changes have overlapped, one thread at most is between its read and the end of its write,
and that what it is about to write is the volume in force.  Of the text functions only the range
of `VolumeCommand` is used.

`NoticeOutboxProofs` proves for every set of reminders, sentences and commands, any number
of submissions, boots and attempts and any size of the queue and the batch, from
`StoreAssumption` and `OutboxAssumption` (one device; a command per sentence and submission, with a
TTL; the queue's own assumption):

| theorem | states | along |
|---|---|---|
| `OutboxUsesStore` | `OutboxSpec => Spec` of `CommandStore` | one case per step, along `OutboxKept` |
| `OutboxTyped` | `OutboxSpec => []OutboxTypeOK` | `OutboxKept`: the tables, the queue, and what a thread at each place has (`WorkInv`) |
| `LinkedOnce` | `OutboxSpec => []LinkedOnceByEach` | `OnceInv` |
| `RenderedIsHeard` | `OutboxSpec => []RenderedMeansHeard` | `HeardInv` |
| `ExpiredIsLate` | `OutboxSpec => []ExpiredMeansLate` | `LateInv` |
| `ReminderIsKept` | `OutboxSpec => []ReminderKept` | `KeptInv` |

`StepDoes` says what a step is, seen from the reminders: it links one, moves the rows of
commands without ending one, lets an ACK end one, lets some expire, or passes a deadline.
The last three invariants then have five cases instead of one per action.
`LinkedOnceByEach` holds although nothing counts links: `OnceInv` adds that a reminder has one
row, that the outbox's batch names no reminder twice and none it has linked, and that a
linked reminder names a command, which the outbox's `SELECT` excludes; the listener submits
only what it has just inserted.  `HeardInv` adds that a reminder is only ever linked to the
command of a last sentence.  `LateInv` follows an expiry back over the row to the
deadline or to the boot the row was bound to.  `KeptInv` adds that a reminder without a row
has no link and no state, so that saving it is a beginning.

`OutboxUsesStore` is a refinement, as `DeliveryUsesStore` is of the delivery: each step of the
submitters, the polls and the device makes one transaction on the tables that is an action of
`CommandStore`, or leaves them alone.  A reminder's deadline is the deadline of all its
commands (one `Deadline`), for which `OutboxAssumption` asks that they have a TTL, as
`submit_morrow_notice_text` gives them one; and the outbox's `Scan` and `MarkExpired` are
`ExpireReceived` and `MarkNoticeExpired`.

Only model-checked: what the text functions promise (`TextIsAllSpoken`:
induction over texts, here over bounded ones), and liveness (`NoticeEventuallySettles`,
`SettledUnlessStuck`, `PendingTurnsEnd`, `PageCatchesUp`, `RepliesLetGo`), which rests on fairness and so on
`ENABLED`.  Induction over recursively defined data and `ENABLED` are out of the prover's
reach.  Every other property that a run checks is the statement of a theorem.

## 5. Plan

1. `CommandStore`, `CommandStoreProofs` - done.
2. `DeviceCommandQueue`, `CommandDelivery` and their proofs - done.
3. `MorrowClient`, `MorrowTurnCoordinator`, `MorrowProofs` -
   the core and its abstract specification `SpeechFence` done; to add: `stop` and sinks that fail.
4. `NoticeOutbox`, `RealtimeSessions` and `MorrowWebGateway`, each with its proofs, `SpeechText`,
   `VoiceCommands` - done; to add: start and stop of the realtime manager, the periodic
   reminders of `S/server.py`.
5. `ReplyVoice`: the firmware's queue, generation and reply voice, with its proofs - done;
   to add: its composition with `CommandDelivery` (the ACKs of sentences a reset drops).
   `FirmwareAcks`: the table of 64 entries and NVS of 32 at their limits.
6. To prove: the invariants of whatever 3 to 5 add; of what is there now, every safety
   property but the one about texts is proved.
7. The rest of the firmware's supervisor (modes, recording), expression and power
   machines; OTA; provisioning.

Abstract specifications: `CommandStore` under the delivery and the reminder outbox, `CommandPromise` above it and
`SpeechFence` above the coordinator are stated and proved; worth stating next is one of the reminder
outbox, "said once, or known to be late".
