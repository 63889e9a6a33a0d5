--------------------------- MODULE CommandDelivery ---------------------------
(***************************************************************************)
(* How a command travels from the server to a device and back: the         *)
(* producers and the long-poll handler of server.py, over the durable      *)
(* CommandStore and the in-memory DeviceCommandQueue, and the firmware's   *)
(* command task and speech worker (main_command_services.inc,              *)
(* main_tts_commands.inc), over HTTP requests that can be lost or late.    *)
(*                                                                         *)
(* One device is modelled.  The server's threads interleave between the    *)
(* transactions and the queue operations, the firmware's two tasks between *)
(* the ACK they POST.  A POST and what the firmware notes about it is one  *)
(* step, except that its request may reach the server later.               *)
(***************************************************************************)
EXTENDS CommandStore, SequencesExt

CONSTANTS
    dev,            \* the device
    Handler,        \* the server threads that can serve its polls
    NoHandler,
    QueueSize,      \* max_size of the server's in-memory queue
    QueueMeta,      \* what that queue reads of each command
    SpeechCapacity, \* kSpeakCommandQueueCapacity of the firmware
    Local,          \* a sentence the firmware speaks on its own account
    MaxLocal,       \* bound on how many of those it speaks
    MaxLate         \* bound on the ACK requests delayed in the network

VARIABLES
    memory,     \* the DeviceCommandQueue of the device
    producer,   \* per command: how far its producer is, the boot it stamped
    handler,    \* per thread: where it is in _handle_next_command
    devBoot,    \* xiaopai_boot_id
    task,       \* where the firmware's command task is
    waits,      \* the thread whose response the command task waits for
    inbox,      \* the command it is handling
    replaying,  \* the pending ACKs it has yet to replay before it polls
    speech,     \* speak_command_queue
    worker,     \* the speak command being played, NoCmd when none
    table,      \* command_dedupe_entries: the state last ACKed, "none" without an entry
    pending,    \* entries with ack_pending
    marked,     \* entries with persist_across_boot
    nvs,        \* the cmd_dedupe blob: the terminal states it restores
    locals,     \* how often it has queued Local
    executed,   \* per command and boot, how often the device executed it (counted to 2)
    late        \* ACK requests delayed in the network

storeVars == vars
serverVars == <<memory, producer, handler>>
deviceVars == <<devBoot, task, waits, inbox, replaying, speech, worker, table, pending, marked, nvs,
                locals, executed>>
allVars == <<storeVars, serverVars, deviceVars, late>>

Queue == INSTANCE DeviceCommandQueue WITH
            QCmd <- Cmd, QBoots <- Boots \cup {0}, Meta <- QueueMeta, MaxSize <- QueueSize,
            items <- memory

ASSUME DeliveryAssumption ==
    /\ Device = {dev}
    /\ NoHandler \notin Handler
    /\ QueueSize \in Nat \ {0}
    /\ QueueMeta \in [Cmd -> Queue!CommandMeta]
    /\ SpeechCapacity \in Nat \ {0}
    /\ Local \notin Cmd /\ MaxLocal \in Nat /\ MaxLate \in Nat
    /\ 1 \in Boots /\ Boots = 1 .. Cardinality(Boots)    \* numbered in the order they are drawn
    /\ \A c \in Cmd : Envelope[c].type # "stop"

Type(c) == Envelope[c].type

DeliveryInit ==
    /\ Init
    /\ memory = <<>>
    /\ producer = [c \in Cmd |-> [at |-> "idle", boot |-> 0]]
    /\ handler = [h \in Handler |-> [at |-> "free", boot |-> 0, speak |-> TRUE, cmd |-> NoCmd]]
    /\ devBoot = 1
    /\ task = "hello" /\ waits = NoHandler /\ inbox = NoCmd /\ replaying = {}
    /\ speech = <<>> /\ worker = NoCmd
    /\ table = [c \in Cmd |-> "none"] /\ pending = {} /\ marked = {}
    /\ nvs = [c \in Cmd |-> "none"]
    /\ locals = 0
    /\ executed = [c \in Cmd |-> [b \in Boots |-> 0]]
    /\ late = {}

-----------------------------------------------------------------------------
(* Producers.  A dialogue sink creates the row with no boot, which binds it *)
(* to the current one, and puts the envelope as bound.  The HTTP and timer  *)
(* producers read the boot first, and put a command stamped with that.      *)

SinkCreate(c) ==
    /\ producer[c].at = "idle" /\ Envelope[c].sourceType = "dialogue"
    /\ CreateCommand(c, 0)
    /\ producer' = [producer EXCEPT ![c] = [at |-> "created", boot |-> boot[dev]]]
    /\ UNCHANGED <<memory, handler, deviceVars, late>>

ReadBoot(c) ==
    /\ producer[c].at = "idle" /\ Envelope[c].sourceType # "dialogue"
    /\ producer' = [producer EXCEPT ![c] = [at |-> "stamped", boot |-> boot[dev]]]
    /\ UNCHANGED <<storeVars, memory, handler, deviceVars, late>>

LegacyCreate(c) ==
    /\ producer[c].at = "stamped"
    /\ CreateCommand(c, producer[c].boot)
    /\ producer' = [producer EXCEPT ![c].at = "created"]
    /\ UNCHANGED <<memory, handler, deviceVars, late>>

PutInMemory(c) ==
    /\ producer[c].at = "created"
    /\ Queue!Put([cmd |-> c, boot |-> producer[c].boot])
    /\ producer' = [producer EXCEPT ![c].at = "done"]
    /\ UNCHANGED <<storeVars, handler, deviceVars, late>>

MemoryExpires ==
    /\ Queue!Expire
    /\ UNCHANGED <<storeVars, producer, handler, deviceVars, late>>

-----------------------------------------------------------------------------
(* _handle_next_command, per server thread.                                 *)

Go(h, at, c) == handler' = [handler EXCEPT ![h].at = at, ![h].cmd = c]

\* The top of run_command_http_loop: the pending ACKs are replayed first.
LoopTop == task' = "idle" /\ inbox' = NoCmd /\ replaying' = pending'

\* The response: the device takes c (NoCmd is a noop) if it still waits for
\* this thread and the response arrives, and otherwise nobody does.
Reply(h, c) ==
    /\ UNCHANGED <<devBoot, speech, worker, table, pending, marked, nvs, locals, executed>>
    /\ handler' = [handler EXCEPT ![h] = [at |-> "free", boot |-> 0, speak |-> TRUE, cmd |-> NoCmd]]
    /\ \/ /\ waits = h
          /\ waits' = NoHandler
          /\ \/ c # NoCmd /\ task' = "handling" /\ inbox' = c /\ UNCHANGED replaying
             \/ LoopTop
       \/ waits # h /\ UNCHANGED <<waits, inbox, task, replaying>>

\* device_has_pending_dialogue keeps find_owner behind the dialogue: behind a
\* turn the coordinator has pending (which this module leaves open), and
\* behind dialogue rows, as has_unfinished_dialogue finds them.
UnfinishedDialogue ==
    \E c \in Dialogue : boot[dev] = 0 \/ bound[c] \in {0, boot[dev]}
AllowFindOwner == {FALSE, ~UnfinishedDialogue}

\* lease_command returns the row it leased, or one that has already ended;
\* None when there is no such row, for another boot's, and at max_attempts.
LeaseReturnsRow(c, b) ==
    /\ ExpireDue[c] # "absent"
    /\ bound[c] # 0 /\ b # 0 => bound[c] = b
    /\ ExpireDue[c] \notin Terminal => attempt[c] < MaxAttempts

\* _observe_device_boot for a poll, which is not authoritative: it answers a
\* boot that is not the current one with a noop, and adopts only the first.
PollObserve(h) ==
    LET b == handler[h].boot
    IN  /\ handler[h].at = "observe"
        /\ \/ /\ boot[dev] \notin {0, b}
              /\ ExpireInactiveBoots
              /\ Reply(h, NoCmd) /\ UNCHANGED memory
           \/ /\ boot[dev] = b
              /\ Queue!DiscardOtherBoots(b)
              /\ Go(h, "gate", NoCmd) /\ UNCHANGED <<storeVars, deviceVars>>
           \/ /\ boot[dev] = 0
              /\ Go(h, "adopt", NoCmd) /\ UNCHANGED <<storeVars, deviceVars, memory>>
        /\ UNCHANGED <<producer, late>>

PollAdopt(h) ==
    /\ handler[h].at = "adopt"
    /\ ObserveDeviceBoot(dev, handler[h].boot)
    /\ Queue!DiscardOtherBoots(handler[h].boot)
    /\ Go(h, "gate", NoCmd)
    /\ UNCHANGED <<producer, deviceVars, late>>

\* has_unfinished_dialogue first expires the dialogue rows nobody has touched
\* for STALE_DIALOGUE_SECONDS; once per poll here.
PollGate(h) ==
    /\ handler[h].at = "gate"
    /\ \E C \in SUBSET Dialogue : ExpireStaleDialogue(C)
    /\ Go(h, "select", NoCmd)
    /\ UNCHANGED <<memory, producer, deviceVars, late>>

\* The two transactions of lease_next_command.
PollSelect(h) ==
    /\ handler[h].at = "select"
    /\ Sweep
    /\ \E b \in {handler[h].boot}, speak \in {handler[h].speak}, owner \in AllowFindOwner :
          LET c == NextCommand(dev, b, speak, owner)'
          IN  Go(h, IF c = NoCmd THEN "wait" ELSE "lease", c)
    /\ UNCHANGED <<memory, producer, deviceVars, late>>

PollLease(h) ==
    LET c == handler[h].cmd
    IN  /\ handler[h].at = "lease"
        /\ LeaseCommand(c, handler[h].boot)
        /\ IF LeaseReturnsRow(c, handler[h].boot) THEN Go(h, "discard", c) ELSE Go(h, "wait", NoCmd)
        /\ UNCHANGED <<memory, producer, deviceVars, late>>

PollDiscard(h) ==
    /\ handler[h].at = "discard"
    /\ Queue!Discard(handler[h].cmd)
    /\ Reply(h, handler[h].cmd)
    /\ UNCHANGED <<storeVars, producer, late>>

\* queue.get finds an item; lease_command may refuse it, and the device is
\* sent the command all the same.
PollGet(h) ==
    \E owner \in AllowFindOwner :
        LET I == Queue!Eligible(memory, handler[h].boot, handler[h].speak, owner)
        IN
        /\ handler[h].at = "wait" /\ I # {}
        /\ Queue!Get(handler[h].boot, handler[h].speak, owner)
        /\ Go(h, "grab", memory[Queue!Best(memory, I)].cmd)
        /\ UNCHANGED <<storeVars, producer, deviceVars, late>>

PollGrab(h) ==
    /\ handler[h].at = "grab"
    /\ LeaseCommand(handler[h].cmd, handler[h].boot)
    /\ Reply(h, handler[h].cmd)
    /\ UNCHANGED <<memory, producer, late>>

\* queue.get times out, and lease_next_command has the last word.
PollTimeout(h) ==
    /\ handler[h].at = "wait"
    /\ Sweep
    /\ \E b \in {handler[h].boot}, speak \in {handler[h].speak}, owner \in AllowFindOwner :
          LET c == NextCommand(dev, b, speak, owner)'
          IN  \/ c = NoCmd /\ Reply(h, NoCmd)
              \/ c # NoCmd /\ Go(h, "last", c) /\ UNCHANGED deviceVars
    /\ UNCHANGED <<memory, producer, late>>

PollLast(h) ==
    LET c == handler[h].cmd
    IN  /\ handler[h].at = "last"
        /\ LeaseCommand(c, handler[h].boot)
        /\ Reply(h, IF LeaseReturnsRow(c, handler[h].boot) THEN c ELSE NoCmd)
        /\ UNCHANGED <<memory, producer, late>>

PollStep(h) ==
    \/ PollObserve(h) \/ PollAdopt(h) \/ PollGate(h) \/ PollSelect(h) \/ PollLease(h)
    \/ PollDiscard(h) \/ PollGet(h) \/ PollGrab(h) \/ PollTimeout(h) \/ PollLast(h)

-----------------------------------------------------------------------------
(* The firmware.  send_command_ack notes the state in the dedupe table,     *)
(* saves the terminal entries that persist to NVS, and POSTs: the request   *)
(* is answered, or its answer is lost, or it is itself lost or late.        *)

Arrive(c, s, b) ==
    IF state[c] # "absent" /\ ~AckIgnored(c, b) THEN RecordAck(c, s, b) ELSE UNCHANGED storeVars

Send(c, s) ==
    \/ /\ Arrive(c, s, devBoot)
       /\ pending' \in {pending \ {c}, pending \cup {c}}
       /\ UNCHANGED late
    \/ /\ pending' = pending \cup {c}
       /\ \/ UNCHANGED late
          \/ /\ Cardinality(late) < MaxLate
             /\ late' = late \cup {[cmd |-> c, state |-> s, boot |-> devBoot]}
       /\ UNCHANGED storeVars

Note(c, s) ==
    /\ table' = [table EXCEPT ![c] = s]
    /\ nvs' = IF s \notin Terminal THEN nvs
              ELSE [x \in Cmd |-> IF x \in marked /\ table'[x] \in Terminal THEN table'[x] ELSE "none"]

Post(c, s) == Note(c, s) /\ Send(c, s)

\* cmd_type values whose entries persist across a boot.
Persistent(c) ==
    Type(c) \in {"speak", "sequence", "motion", "move", "find_owner", "locate_owner",
                 "capture_image", "camera", "track_once", "check_ota", "ota_check",
                 "firmware_ota", "network_debug"}
MarkPersistent(c) == marked' = IF Persistent(c) THEN marked \cup {c} ELSE marked

\* executed counts from the start of an execution, and no further than 2.
Executing(c) ==
    executed' = [executed EXCEPT ![c][devBoot] = IF @ < 2 THEN @ + 1 ELSE @]

\* send_v3_control_hello, once per boot, whose result nobody looks at.
Hello ==
    /\ task = "hello"
    /\ \/ /\ ObserveDeviceBoot(dev, devBoot)
          /\ Queue!DiscardOtherBoots(devBoot)
       \/ UNCHANGED <<storeVars, memory>>
    /\ UNCHANGED <<producer, handler, devBoot, waits, speech, worker, table, pending,
                   marked, nvs, locals, executed, late>>
    /\ LoopTop

\* The heartbeat task tells the boot as well, without authority.
Heartbeat ==
    /\ \/ /\ boot[dev] \notin {0, devBoot}
          /\ ExpireInactiveBoots /\ UNCHANGED memory
       \/ /\ boot[dev] = 0
          /\ ObserveDeviceBoot(dev, devBoot)
          /\ Queue!DiscardOtherBoots(devBoot)
       \/ /\ boot[dev] = devBoot
          /\ Queue!DiscardOtherBoots(devBoot) /\ UNCHANGED storeVars
    /\ UNCHANGED <<producer, handler, deviceVars, late>>

\* Whether xQueueSend would find room.
SlipSpeechRoom == Len(speech) <= SpeechCapacity
SpeechRoom == Len(speech) < SpeechCapacity

\* replay_pending_command_acks, and then the next poll.
Replay(c) ==
    /\ task = "idle" /\ c \in replaying \cap pending
    /\ Post(c, table[c])
    /\ replaying' = replaying \ {c}
    /\ UNCHANGED <<serverVars, devBoot, task, waits, inbox, speech, worker, marked,
                   locals, executed>>

StartPoll(h) ==
    /\ task = "idle" /\ replaying \cap pending = {}
    /\ handler[h].at = "free"
    /\ handler' = [handler EXCEPT ![h] = [at |-> "observe", boot |-> devBoot, cmd |-> NoCmd,
                                          speak |-> SpeechRoom]]
    /\ task' = "polling" /\ waits' = h
    /\ UNCHANGED <<storeVars, memory, producer, devBoot, inbox, replaying, speech, worker,
                   table, pending, marked, nvs, locals, executed, late>>

\* The HTTP client gives up; the server's thread goes on by itself.
GiveUpPoll ==
    /\ task = "polling"
    /\ waits' = NoHandler
    /\ UNCHANGED <<storeVars, serverVars, devBoot, speech, worker, table, pending,
                   marked, nvs, locals, executed, late>>
    /\ LoopTop

\* handle_command_response.  A command with an entry in the table is only
\* answered with the state noted there.
SlipOnlyPending(c) == c \in pending
Duplicate(c) == table[c] # "none"
SlipDuplicateAnswer(c) == IF Type(c) = "speak" THEN "rendered" ELSE "done"
DuplicateAnswer(c) == table[c]

HandleDuplicate(c) ==
    /\ task = "handling" /\ inbox = c /\ Duplicate(c)
    /\ Post(c, DuplicateAnswer(c))
    /\ LoopTop
    /\ UNCHANGED <<serverVars, devBoot, waits, speech, worker, marked,
                   locals, executed>>

\* A sentence goes to the speech queue before its ACK goes out.
HandleSpeak(c) ==
    /\ task = "handling" /\ inbox = c /\ ~Duplicate(c) /\ Type(c) = "speak"
    /\ SpeechRoom
    /\ speech' = Append(speech, c)
    /\ task' = "acking"
    /\ UNCHANGED <<storeVars, serverVars, devBoot, waits, inbox, replaying, worker, table,
                   pending, marked, nvs, locals, executed, late>>

AckSpeak(c) ==
    /\ task = "acking" /\ inbox = c
    /\ Post(c, "received") /\ MarkPersistent(c)
    /\ LoopTop
    /\ UNCHANGED <<serverVars, devBoot, waits, speech, worker, locals, executed>>

\* A full queue defers the sentence, and fails it when the worker has made
\* room by the time the firmware looks why.
SpeakRefused(c) ==
    /\ task = "handling" /\ inbox = c /\ ~Duplicate(c) /\ Type(c) = "speak"
    /\ ~SpeechRoom
    /\ \E s \in {"deferred", "failed"} : Post(c, s)
    /\ LoopTop
    /\ UNCHANGED <<serverVars, devBoot, waits, speech, worker, marked,
                   locals, executed>>

\* The demo lock cancels a sentence instead.
SpeakLocked(c) ==
    /\ task = "handling" /\ inbox = c /\ ~Duplicate(c) /\ Type(c) = "speak"
    /\ Post(c, "cancelled") /\ MarkPersistent(c)
    /\ LoopTop
    /\ UNCHANGED <<serverVars, devBoot, waits, speech, worker, locals, executed>>

\* Any other command is executed by the command task itself.
HandleOther(c) ==
    /\ task = "handling" /\ inbox = c /\ ~Duplicate(c) /\ Type(c) # "speak"
    /\ Post(c, "received") /\ MarkPersistent(c)
    /\ Executing(c)
    /\ task' = "executing"
    /\ UNCHANGED <<serverVars, devBoot, waits, inbox, replaying, speech, worker, locals>>

ReportOther(c) ==
    /\ task = "executing" /\ inbox = c
    /\ \E s \in {"done", "failed"} : Post(c, s)
    /\ LoopTop
    /\ UNCHANGED <<serverVars, devBoot, waits, speech, worker, marked,
                   locals, executed>>

\* The firmware queues a sentence of its own.
LocalSpeech ==
    /\ locals < MaxLocal /\ locals' = locals + 1
    /\ SpeechRoom
    /\ speech' = Append(speech, Local)
    /\ UNCHANGED <<storeVars, serverVars, devBoot, task, waits, inbox, replaying, worker,
                   table, pending, marked, nvs, executed, late>>

\* run_speak_command_loop takes a sentence; a late one, or one under the demo
\* lock, is not spoken.
SpeakTake ==
    /\ worker = NoCmd /\ speech # <<>>
    /\ speech' = Tail(speech)
    /\ \/ /\ Head(speech) = Local
          /\ UNCHANGED <<storeVars, worker, table, pending, nvs, locals, executed, late>>
       \/ /\ Head(speech) # Local
          /\ \E s \in {"cancelled", "expired"} : Post(Head(speech), s)
          /\ UNCHANGED <<worker, executed>>
       \/ /\ Head(speech) # Local
          /\ Post(Head(speech), "running")
          /\ worker' = Head(speech) /\ Executing(worker')
    /\ UNCHANGED <<serverVars, devBoot, task, waits, inbox, replaying, marked, locals>>

SpeakReport ==
    /\ worker # NoCmd
    /\ \E s \in {"rendered", "failed"} : Post(worker, s)
    /\ worker' = NoCmd
    /\ UNCHANGED <<serverVars, devBoot, task, waits, inbox, replaying, speech, marked,
                   locals, executed>>

\* A restart: restore_terminal_command_dedupe_log is all that is left.
Reboot ==
    /\ devBoot + 1 \in Boots
    /\ devBoot' = devBoot + 1
    /\ task' = "hello" /\ waits' = NoHandler /\ inbox' = NoCmd /\ replaying' = {}
    /\ speech' = <<>> /\ worker' = NoCmd
    /\ table' = nvs /\ pending' = {} /\ marked' = {c \in Cmd : nvs[c] # "none"}
    /\ UNCHANGED <<storeVars, serverVars, nvs, locals, executed, late>>

\* A delayed ACK request reaches the server.
LateAck ==
    \E r \in late :
        /\ Arrive(r.cmd, r.state, r.boot)
        /\ late' = late \ {r}
        /\ UNCHANGED <<serverVars, deviceVars>>

TimePasses ==
    /\ \E c \in Cmd : Deadline({c}) \/ LeaseLapse(c)
    /\ UNCHANGED <<serverVars, deviceVars, late>>

-----------------------------------------------------------------------------
Produce == \E c \in Cmd : SinkCreate(c) \/ ReadBoot(c) \/ LegacyCreate(c) \/ PutInMemory(c)

Handle ==
    \E c \in Cmd : \/ HandleDuplicate(c)
                   \/ HandleSpeak(c)
                   \/ AckSpeak(c)
                   \/ SpeakRefused(c)
                   \/ SpeakLocked(c)
                   \/ HandleOther(c)
                   \/ ReportOther(c)

CommandTask ==
    \/ Hello
    \/ \E c \in Cmd : Replay(c)
    \/ \E h \in Handler : StartPoll(h)
    \/ Handle

SpeechWorker == SpeakTake \/ SpeakReport

DeliveryNext ==
    \/ Produce
    \/ MemoryExpires
    \/ \E h \in Handler : PollStep(h)
    \/ CommandTask
    \/ GiveUpPoll
    \/ SpeechWorker
    \/ LocalSpeech
    \/ Heartbeat
    \/ Reboot
    \/ LateAck
    \/ TimePasses

DeliverySpec == DeliveryInit /\ [][DeliveryNext]_allVars

\* A row that has no one left to report on it: it was received, and the
\* device has nothing to say or to do about it any more.
Forgotten(c) ==
    /\ state[c] \in {"received", "running"} /\ table[c] # "none" /\ c \notin pending
    /\ c # worker /\ c # inbox /\ c \notin ToSet(speech)

\* The tasks and the server's threads run, leases and deadlines run out, an
\* ACK that is replayed again and again is heard in the end, and a dialogue
\* row that nobody touches is stale for some poll.
FairDeliverySpec ==
    /\ DeliverySpec
    /\ \A h \in Handler : WF_allVars(PollStep(h))
    /\ WF_allVars(CommandTask) /\ WF_allVars(SpeechWorker) /\ WF_allVars(Heartbeat)
    /\ \A c \in Cmd :
          /\ WF_allVars(LeaseLapse(c) /\ UNCHANGED <<serverVars, deviceVars, late>>)
          /\ WF_allVars(Deadline({c}) /\ UNCHANGED <<serverVars, deviceVars, late>>)
          /\ SF_allVars(Replay(c) /\ c \notin pending')
          /\ SF_allVars(\E h \in Handler : PollGate(h) /\ Forgotten(c) /\ state'[c] = "expired")

-----------------------------------------------------------------------------
(* Properties.                                                             *)

\* The state of both sides has its types; the speech queue keeps to its
\* capacity, NVS holds terminal states only, and the command task waits for a
\* response only while it polls.
DeliveryTypeOK ==
    /\ TypeOK
    /\ Queue!TypeOK
    /\ devBoot \in Boots
    /\ task \in {"hello", "idle", "polling", "handling", "acking", "executing"}
    /\ task = "polling" <=> waits \in Handler
    /\ speech \in Seq(Cmd \cup {Local}) /\ Len(speech) <= SpeechCapacity
    /\ inbox \in Cmd \cup {NoCmd} /\ worker \in Cmd \cup {NoCmd}
    /\ table \in [Cmd -> CommandState \cup {"none", "deferred"}]
    /\ nvs \in [Cmd -> Terminal \cup {"none"}]
    /\ pending \cup marked \cup replaying \subseteq {c \in Cmd : table[c] # "none"}

\* The device never executes a command twice in one boot, however often the
\* server sends it: over the long poll, from the memory queue, on a lapsed
\* lease or after a lost ACK.
OncePerBoot == \A c \in Cmd, b \in Boots : executed[c][b] <= 1

\* A command stamped with a boot is executed in that boot and no other.
BoundToBoot ==
    \A c \in Cmd, b \in Boots :
        executed[c][b] > 0 /\ producer[c].boot # 0 => b = producer[c].boot

\* The server reports a command as spoken or done only if a device began it.
ReportedMeansExecuted ==
    \A c \in Cmd : state[c] \in {"rendered", "done"} => \E b \in Boots : executed[c][b] > 0

\* What the promise of CommandPromise is about: how a row stands, and the boot
\* its producer stamped it with.
Standing(c) == IF state[c] \in Live THEN "open" ELSE state[c]
Made(c) == producer[c].at \in {"created", "done"}
Stamp(c) == IF Made(c) THEN producer[c].boot ELSE 0

Promise == INSTANCE CommandPromise
    WITH row <- [c \in Cmd |-> Standing(c)], stamp <- [c \in Cmd |-> Stamp(c)],
         now <- devBoot, runs <- executed

\* The delivery implements CommandPromise: over two queues, polls that overlap
\* or are given up, ACKs lost, late and replayed, and restarts of the device,
\* each step is one of accepting, running or settling a command, or shows none.
DeliversAsPromised == Promise!Spec

\* The two ways a command can stay open for good: the device deferred it, and
\* takes every retry for a duplicate; or the server still has the device's
\* previous boot, and answers no poll.
Stuck(c) == table[c] = "deferred" \/ boot[dev] # devBoot

\* Every command the server accepts ends in an outcome, unless it is stuck
\* for good in one of those ways: neither lost responses and ACKs, nor a full
\* speech queue, a lapsed lease or a restart leaves it open otherwise.
SettledUnlessStuck ==
    \A c \in Cmd : <>[](state[c] \notin Live) \/ <>[]Stuck(c)
=============================================================================
