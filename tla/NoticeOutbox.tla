----------------------------- MODULE NoticeOutbox -----------------------------
(***************************************************************************)
(* The reminder outbox of server.py: how a notice Morrow pushes becomes    *)
(* speak commands of a device, over the CommandStore and the device's      *)
(* DeviceCommandQueue.                                                     *)
(*                                                                         *)
(* Two threads submit.  The listener (run_morrow_notice_listener) saves a  *)
(* notice and submits it at once; the outbox (run_morrow_notice_outbox_loop*)
(* every 5 s) submits the notices that are still `received'.  A submission *)
(* is a transaction per sentence and one that links the notice to its last *)
(* command, and the threads, the device's polls, a cancellation and a      *)
(* restart of the server interleave between them.                          *)
(*                                                                         *)
(* Each submission draws fresh cmd_ids: <<n, k, s>> is the command for     *)
(* sentence s of notice n in its k-th submission.  The transport to one    *)
(* device, detailed in CommandDelivery, is kept to what a reminder can     *)
(* tell: a response always arrives, an ACK may be lost.                    *)
(***************************************************************************)
EXTENDS CommandStore, SequencesExt

CONSTANTS
    dev,            \* the device
    Sentences,      \* how many sentences are left of each notice's text
    MaxSubmissions, \* bound on how often a notice is submitted
    Other,          \* a command in the memory queue that is not of a notice
    QueueSize, QueueMeta,
    ScanLimit,      \* LIMIT of the outbox's SELECT (8)
    MaxMishaps      \* bound on the kinds of mishap of a behaviour

Submitter == {"listener", "outbox"}

\* The server restarts, the device does, an INSERT raises, the device cannot
\* speak a sentence, an ACK is lost, its user speaks, Morrow repeats a notice:
\* each at most once.  A device that is not heard of for a while is one whose
\* notices no scan happens to pick up.
Mishap == {"restart", "reboot", "insert", "speech", "ack", "user", "repeat"}

VARIABLES
    saved,      \* the notices with a row in morrow_notices, by received_at
    late,       \* the notices whose expires_at has passed
    arrivals,   \* client.notices
    pushed,     \* the notices Morrow has pushed
    submitter,  \* per thread: where it is in submit_morrow_notice_text
    submitted,  \* how often each notice's commands were begun
    links,      \* how often each thread linked each notice
    adrift,     \* the notices linked too late, or to no row
    memory,     \* the device's DeviceCommandQueue
    cancelling, \* how far a cancellation of the device's speech is
    online,     \* whether connected_device_ids finds the device
    playing,    \* the command the device is executing, NoCmd when none
    outcome,    \* the device's dedupe table: what it reported of a command
    mishaps     \* those that have happened

storeVars   == vars
noticeRows  == <<saved, late>>
inflow      == <<arrivals, pushed>>
work        == <<submitter, submitted, links, adrift>>
deviceVars  == <<playing, outcome>>
outboxVars  == <<storeVars, noticeRows, inflow, work, memory, cancelling, online, deviceVars, mishaps>>

Queue == INSTANCE DeviceCommandQueue WITH
            QCmd <- Cmd, QBoots <- Boots \cup {0}, Meta <- QueueMeta, MaxSize <- QueueSize,
            items <- memory

ASSUME OutboxAssumption ==
    /\ Device = {dev}
    /\ Sentences \in [Notice -> Nat]
    /\ MaxSubmissions \in Nat /\ ScanLimit \in Nat
    /\ MaxMishaps \in Nat
    /\ Other \in Cmd
    /\ \A c \in Cmd \ {Other} : Envelope[c].ttl
    /\ QueueSize \in Nat \ {0} /\ QueueMeta \in [Cmd -> Queue!CommandMeta]
    /\ \A n \in Notice, k \in 1 .. MaxSubmissions : \A s \in 1 .. Sentences[n] :
          /\ <<n, k, s>> \in Cmd
          /\ Envelope[<<n, k, s>>].sourceType = "morrow_notice"
          /\ Envelope[<<n, k, s>>].sourceId = n
          /\ Envelope[<<n, k, s>>].segment = s

NoNotice == "none"
Idle == [at |-> "idle", notice |-> NoNotice, k |-> 0, s |-> 0, queued |-> 0, batch |-> <<>>]

Happens(m) ==
    /\ m \notin mishaps /\ Cardinality(mishaps) < MaxMishaps
    /\ mishaps' = mishaps \cup {m}

OutboxInit ==
    /\ Init
    /\ saved = <<>> /\ late = {}
    /\ arrivals = <<>> /\ pushed = {}
    /\ submitter = [t \in Submitter |-> Idle]
    /\ submitted = [n \in Notice |-> 0]
    /\ links = [t \in Submitter |-> [n \in Notice |-> 0]]
    /\ adrift = {}
    /\ memory = <<[cmd |-> Other, boot |-> 0]>>
    /\ cancelling = "no"
    /\ online = FALSE
    /\ playing = NoCmd
    /\ outcome = [c \in Cmd |-> "none"]
    /\ mishaps = {}

-----------------------------------------------------------------------------
(* The threads.  The operators named Slip... are plausible mistakes.        *)

\* Morrow pushes a notice over the socket, an old one perhaps again.
Push(n) ==
    /\ IF n \notin pushed THEN UNCHANGED mishaps ELSE Happens("repeat")
    /\ pushed' = pushed \cup {n} /\ arrivals' = Append(arrivals, n)
    /\ UNCHANGED <<storeVars, noticeRows, work, memory, cancelling, online, deviceVars>>

Begin(n, batch) == [at |-> "check", notice |-> n, k |-> 0, s |-> 0, queued |-> 0, batch |-> batch]
BeginBatch(batch) == IF batch = <<>> THEN Idle ELSE Begin(Head(batch), Tail(batch))

\* submit_morrow_notice_text returns: the outbox goes on with its batch.
Returned(t) == submitter' = [submitter EXCEPT ![t] = BeginBatch(submitter[t].batch)]

\* save_morrow_notice: a notice_id that has a row is not inserted again, and
\* is not submitted.
SaveNotice ==
    /\ submitter["listener"].at = "idle" /\ arrivals # <<>>
    /\ arrivals' = Tail(arrivals)
    /\ LET n == Head(arrivals)
       IN  IF n \in ToSet(saved) THEN UNCHANGED <<saved, submitter>>
           ELSE /\ saved' = Append(saved, n)
                /\ submitter' = [submitter EXCEPT !["listener"] = Begin(n, <<>>)]
    /\ UNCHANGED <<storeVars, late, pushed, submitted, links, adrift, memory, cancelling, online,
                   deviceVars, mishaps>>

\* The one transaction of the outbox loop: the received notices that are too
\* late expire, and the first ScanLimit of the others are the batch.
Received(n) == n \in ToSet(saved) /\ noticeState[n] = "received"
SlipOverdue(n) == Received(n) /\ noticeCmd[n] = NoCmd
Overdue(n) == Received(n) /\ n \in late
SlipUnsubmitted(n) == n \notin late /\ noticeState[n] \notin Terminal
Unsubmitted(n) == Received(n) /\ n \notin late /\ noticeCmd[n] = NoCmd
Batch ==
    LET due == {i \in DOMAIN saved : Unsubmitted(saved[i])}
    IN  Queue!Kept(saved, {i \in due : Cardinality({j \in due : j < i}) < ScanLimit})
Scan ==
    /\ submitter["outbox"].at = "idle"
    /\ online
    /\ ExpireReceived({n \in Notice : Overdue(n)})
    /\ submitter' = [submitter EXCEPT !["outbox"] = BeginBatch(Batch)]
    /\ UNCHANGED <<noticeRows, inflow, submitted, links, adrift, memory, cancelling, online, deviceVars,
                   mishaps>>

\* The top of submit_morrow_notice_text: it reads the row and looks at
\* expires_at, at no state.  Behind a pending dialogue, which this module
\* leaves open, it gives up until the next scan.
Check(t) ==
    LET n == submitter[t].notice
        k == submitted[n] + 1
    IN  /\ submitter[t].at = "check"
        /\ \/ /\ n \in late
              /\ submitter' = [submitter EXCEPT ![t].at = "mark"]
              /\ UNCHANGED submitted
           \/ /\ n \notin late
              /\ Returned(t)
              /\ UNCHANGED submitted
           \/ /\ n \notin late /\ online
              /\ k <= MaxSubmissions /\ Sentences[n] > 0
              /\ submitter' = [submitter EXCEPT ![t].at = "create", ![t].k = k, ![t].s = 1]
              /\ submitted' = [submitted EXCEPT ![n] = k]
        /\ UNCHANGED <<storeVars, noticeRows, inflow, links, adrift, memory, cancelling, online,
                       deviceVars, mishaps>>

\* mark_morrow_notice_state(..., "expired"), whatever the state is by now.
MarkExpired(t) ==
    /\ submitter[t].at = "mark"
    /\ MarkNoticeExpired(submitter[t].notice)
    /\ Returned(t)
    /\ UNCHANGED <<noticeRows, inflow, submitted, links, adrift, memory, cancelling, online, deviceVars,
                   mishaps>>

Current(t) == <<submitter[t].notice, submitter[t].k, submitter[t].s>>

SlipMore(t) == submitter[t].s <= Sentences[submitter[t].notice]
More(t) == submitter[t].s < Sentences[submitter[t].notice]

\* After a sentence: the next one, the link when any was queued, or nothing.
AfterSentence(t, queued) ==
    IF More(t)
    THEN submitter' = [submitter EXCEPT ![t].at = "create", ![t].s = @ + 1, ![t].queued = queued]
    ELSE IF queued > 0
    THEN submitter' = [submitter EXCEPT ![t].at = "link", ![t].queued = queued]
    ELSE Returned(t)

\* enqueue_server_command, whose row and memory item are one step here
\* (CommandDelivery has what comes between).  An INSERT that is ignored is no
\* error to it; one that raises leaves the sentence out.
EnqueueSentence(t) ==
    LET e == [cmd |-> Current(t), boot |-> boot[dev]]
    IN  /\ submitter[t].at = "create"
        /\ \/ /\ IF Duplicates(Current(t)) = {} THEN CreateCommand(Current(t), boot[dev])
                                                ELSE UNCHANGED storeVars
              /\ Queue!Put(e)
              /\ AfterSentence(t, submitter[t].queued + IF e \in ToSet(memory') THEN 1 ELSE 0)
              /\ UNCHANGED mishaps
           \/ /\ Happens("insert")
              /\ AfterSentence(t, submitter[t].queued)
              /\ UNCHANGED <<storeVars, memory>>
        /\ UNCHANGED <<noticeRows, inflow, submitted, links, adrift, cancelling, online, deviceVars>>

\* last_cmd_id: the last sentence's command, though its INSERT was ignored.
SlipLastCommand(t) == <<submitter[t].notice, submitter[t].k, 1>>
LastCommand(t) == Current(t)
Link(t) ==
    LET n == submitter[t].notice
    IN  /\ submitter[t].at = "link"
        /\ LinkNotice(n, LastCommand(t))
        /\ links' = [links EXCEPT ![t][n] = @ + 1]
        /\ adrift' = IF state[LastCommand(t)] \in {"absent", "rendered", "done", "cancelled"}
                     THEN adrift \cup {n} ELSE adrift \ {n}
        /\ Returned(t)
        /\ UNCHANGED <<noticeRows, inflow, submitted, memory, cancelling, online, deviceVars, mishaps>>

SubmitStep(t) == Check(t) \/ MarkExpired(t) \/ EnqueueSentence(t) \/ Link(t)

\* A restart loses the memory of the server; what it does about the rows of
\* other boots at startup is ExpireInactiveBoots.  No notice is touched.
Restart ==
    /\ Happens("restart")
    /\ arrivals' = <<>> /\ memory' = <<>>
    /\ submitter' = [t \in Submitter |-> Idle]
    /\ online' = FALSE
    /\ cancelling' = "no"
    /\ ExpireInactiveBoots
    /\ UNCHANGED <<noticeRows, pushed, submitted, links, adrift, deviceVars>>

-----------------------------------------------------------------------------
(* The user talks to the device: cancel_morrow_generation cancels its older *)
(* speech in the store, and then in the memory queue.                       *)

CancelStore ==
    /\ Happens("user")
    /\ cancelling' = "store"
    /\ CancelBeforeGeneration(dev, MaxGeneration)
    /\ UNCHANGED <<noticeRows, inflow, work, memory, online, deviceVars>>

CancelMemory ==
    /\ cancelling = "store" /\ cancelling' = "no"
    /\ Queue!DiscardSpeechBefore(MaxGeneration)
    /\ UNCHANGED <<storeVars, noticeRows, inflow, work, online, deviceVars, mishaps>>

-----------------------------------------------------------------------------
(* The device and the thread that serves its polls.                         *)

Hello(b) ==
    /\ b = boot[dev] + 1
    /\ IF b = 1 THEN UNCHANGED mishaps ELSE Happens("reboot")
    /\ ObserveDeviceBoot(dev, b)
    /\ Queue!DiscardOtherBoots(b)
    /\ online' = TRUE
    /\ playing' = NoCmd
    /\ UNCHANGED <<noticeRows, inflow, work, cancelling, outcome>>

\* lease_next_command: the sweep every poll begins with, and the lease of the
\* command its SELECT picks, which does not depend on what the sweep ends.
PollSweep ==
    /\ boot[dev] # 0 /\ playing = NoCmd
    /\ Sweep
    /\ online' = TRUE
    /\ UNCHANGED <<noticeRows, inflow, work, memory, cancelling, deviceVars, mishaps>>

PollStore ==
    LET c == NextCommand(dev, boot[dev], TRUE, TRUE)
    IN  /\ boot[dev] # 0 /\ playing = NoCmd
        /\ c # NoCmd
        /\ LeaseCommand(c, boot[dev])
        /\ Queue!Discard(c)
        /\ playing' = c
        /\ online' = TRUE
        /\ UNCHANGED <<noticeRows, inflow, work, cancelling, outcome, mishaps>>

\* queue.get, of a poll that was waiting: the device is sent the item,
\* whatever lease_command says of it.
PollMemory ==
    LET I == Queue!Eligible(memory, boot[dev], TRUE, TRUE)
    IN  /\ boot[dev] # 0 /\ playing = NoCmd /\ I # {}
        /\ Queue!Get(boot[dev], TRUE, TRUE)
        /\ LeaseCommand(memory[Queue!Best(memory, I)].cmd, boot[dev])
        /\ playing' = memory[Queue!Best(memory, I)].cmd
        /\ online' = TRUE
        /\ UNCHANGED <<noticeRows, inflow, work, cancelling, outcome, mishaps>>

\* The device speaks the sentence, or fails to; one it knows it only reports
\* again.  The ACK arrives, or is lost.
Reported(c) == IF outcome[c] = "none" THEN "rendered" ELSE outcome[c]
Ack(c, v) ==
    IF state[c] # "absent" /\ ~AckIgnored(c, boot[dev]) THEN RecordAck(c, v, boot[dev]) ELSE UNCHANGED storeVars

Report ==
    LET c == playing
    IN  /\ c # NoCmd
        /\ playing' = NoCmd
        /\ \/ /\ outcome' = [outcome EXCEPT ![c] = Reported(c)]
              /\ Ack(c, Reported(c)) /\ UNCHANGED mishaps
           \/ /\ outcome' = [outcome EXCEPT ![c] = Reported(c)]
              /\ Happens("ack") /\ UNCHANGED storeVars
           \/ /\ outcome[c] = "none" /\ outcome' = [outcome EXCEPT ![c] = "failed"]
              /\ Happens("speech") /\ Ack(c, "failed")
        /\ UNCHANGED <<noticeRows, inflow, work, memory, cancelling, online>>

\* Time passes.  A command's TTL is what is left of its notice's, to the second,
\* so the commands of a notice run out together.
GrowLate(n) ==
    /\ n \in ToSet(saved) \ late /\ late' = late \cup {n}
    /\ UNCHANGED <<storeVars, saved, inflow, work, memory, cancelling, online, deviceVars, mishaps>>

DeadlineOf(n) ==
    LET live == {c \in Active \ {Other} : c[1] = n}
    IN  /\ n \in late /\ ~(live \subseteq overdue)
        /\ overdue' = overdue \cup live
        /\ UNCHANGED <<boot, rowVars, lapsed, delivery, noticeVars>>
RowTime ==
    /\ (\E n \in Notice : DeadlineOf(n)) \/ (\E c \in Cmd : LeaseLapse(c))
    /\ UNCHANGED <<noticeRows, inflow, work, memory, cancelling, online, deviceVars, mishaps>>

MemoryExpires ==
    /\ \E i \in DOMAIN memory :
          /\ memory[i].cmd # Other /\ memory[i].cmd[1] \in late
          /\ memory' = Queue!Without(memory, i)
    /\ UNCHANGED <<storeVars, noticeRows, inflow, work, cancelling, online, deviceVars, mishaps>>

PollStep == PollSweep \/ PollStore \/ PollMemory

OutboxNext ==
    \/ \E n \in Notice : Push(n) \/ GrowLate(n)
    \/ SaveNotice \/ Scan
    \/ \E t \in Submitter : SubmitStep(t)
    \/ Restart
    \/ CancelStore \/ CancelMemory
    \/ \E b \in Boots : Hello(b)
    \/ PollStep
    \/ Report
    \/ RowTime \/ MemoryExpires

OutboxSpec == OutboxInit /\ [][OutboxNext]_outboxVars

-----------------------------------------------------------------------------
(* Properties.                                                             *)

Heard(n, s) == Cardinality({k \in 1 .. MaxSubmissions : <<n, k, s>> \in Cmd /\ outcome[<<n, k, s>>] = "rendered"})

\* A thread is at a sentence the notice has, with commands of the submission
\* it began, and no more of them queued than it has created.
OutboxTypeOK ==
    /\ TypeOK /\ Queue!TypeOK
    /\ ToSet(saved) \subseteq Notice /\ late \subseteq ToSet(saved)
    /\ submitted \in [Notice -> 0 .. MaxSubmissions]
    /\ \A t \in Submitter :
          /\ ToSet(submitter[t].batch) \subseteq ToSet(saved)
          /\ submitter[t].at # "idle" => submitter[t].notice \in ToSet(saved)
          /\ submitter[t].at \in {"create", "link"}
                => /\ submitter[t].s \in 1 .. Sentences[submitter[t].notice]
                   /\ submitter[t].k \in 1 .. submitted[submitter[t].notice]
                   /\ submitter[t].queued \in 0 .. submitter[t].s
    /\ playing \in Cmd \cup {NoCmd}

\* A thread links a notice once at most: the listener submits a notice when
\* its row is new, and the outbox picks up none that a submission has linked,
\* whichever thread made it.  So a reminder cannot be spoken again and again.
LinkedOnceByEach == \A t \in Submitter, n \in Notice : links[t][n] <= 1

\* A reminder counts as delivered only when the device has spoken it to its
\* end: a lost, late or repeated ACK, a cancellation or a second submission
\* never makes it so.
RenderedMeansHeard ==
    \A n \in ToSet(saved) : noticeState[n] = "rendered" => Heard(n, Sentences[n]) > 0

\* A reminder is given up as expired only when its time has run out, or when
\* the device it was bound to has restarted since.
ExpiredMeansLate ==
    \A n \in ToSet(saved) :
        noticeState[n] = "expired"
            => n \in late \/ (noticeCmd[n] # NoCmd /\ bound[noticeCmd[n]] # boot[dev])

\* A reminder that was saved is never lost sight of, whatever comes between
\* the steps of its submissions: it has ended, or it waits to be submitted, or
\* it is linked to a command that is still on its way or whose failure the
\* next sweep carries over.  Only the link itself can come too late for that:
\* then the reminder stays queued for good.
ReminderKept ==
    \A n \in ToSet(saved) \ adrift :
        \/ noticeState[n] \in Terminal
        \/ noticeState[n] = "received" /\ noticeCmd[n] = NoCmd
        \/ noticeState[n] # "received" /\ noticeCmd[n] \in Cmd
           /\ state[noticeCmd[n]] \in Live \cup {"failed", "expired"}
=============================================================================
