----------------------- MODULE MorrowTurnCoordinator -----------------------
(***************************************************************************)
(* The turn coordinator, class MorrowTurnCoordinator of                    *)
(* stack-chan-server/src/morrow_coordinator.py: one worker thread runs the *)
(* queued requests one by one as turns of the Morrow agent and writes what *)
(* the agent says as speech for the device, while HTTP threads submit      *)
(* requests, cancel a device's speech by moving its generation on, and     *)
(* reset or switch the session all of them share.                          *)
(*                                                                         *)
(* A step is what a thread does between two points where another can see   *)
(* or change what it uses: a block under self._lock, one call of a sink,   *)
(* one frame sent, one event read.  A read of the clock that ends a wait   *)
(* is a choice, and a request past its expires_at is in `expired'.         *)
(*                                                                         *)
(* A piece of text either ends a sentence, which is written at once, or is *)
(* kept for the end of the turn, as the segmenter and an agent_message     *)
(* have it.  The speech rows are what the sinks have written; `live' until *)
(* a cancellation takes them back.  The two transactions of the cancel     *)
(* sink are one step, and sinks do not fail.                               *)
(***************************************************************************)
EXTENDS MorrowClient, FiniteSets

CONSTANTS
    Device,         \* device ids, and the pseudo-device of the web page
    Web,            \* "__web__"
    DeviceOf,       \* the device of each request
    Thread,         \* the HTTP threads; those of Resetter reset and switch, the others cancel
    QueueSize,      \* queue_size (8 in the server)
    MaxGeneration,  \* bound on the generations
    MaxBatch        \* bound on the sentences one event of Morrow completes

ASSUME CoordinatorAssumption ==
    /\ Web \in Device
    /\ DeviceOf \in [Request -> Device]
    /\ Resetter \subseteq Thread
    /\ {QueueSize, MaxBatch} \subseteq Nat \ {0} /\ MaxGeneration \in Nat

VARIABLES
    generations,    \* _generations, 0 for a device it does not know
    stored,         \* devices.speech_generation in the database
    requests,       \* _queue
    pending,        \* _pending_requests
    generationOf,   \* request.generation
    submission,     \* per request: how far submit is
    expired,        \* requests past expires_at
    active,         \* _active
    transition,     \* _shared_transition
    worker,         \* the worker thread: where it is, its request, what it is to write
    segments,       \* per request: the rows of segment_sink
    replyEnd,       \* per request: the row of reply_end_sink
    thread          \* the HTTP threads: where they are in what they do

turnVars == <<worker, segments, replyEnd>>
sharedVars == <<generations, stored, requests, pending, generationOf, submission, expired,
                active, transition>>
coordVars == <<clientVars, sharedVars, turnVars, thread>>

Speaking == Device \ {Web}

Idle == [at |-> "idle", req |-> NoRequest, batch |-> NoRequest, left |-> 0, tail |-> NoRequest,
         last |-> FALSE]
Free == [at |-> "idle", job |-> "", sinks |-> {}, mark |-> [d \in Device |-> 0], hit |-> FALSE]

CoordInit ==
    /\ ClientInit
    /\ generations = [d \in Device |-> 0] /\ stored = generations
    /\ requests = <<>> /\ pending = {}
    /\ generationOf = [r \in Request |-> 0]
    /\ submission = [r \in Request |-> "none"]
    /\ expired = {} /\ active = NoRequest /\ transition = FALSE
    /\ worker = Idle
    /\ segments = [r \in Request |-> <<>>]
    /\ replyEnd = [r \in Request |-> "none"]
    /\ thread = [t \in Thread |-> Free]

Current(r) == generationOf[r] = generations[DeviceOf[r]]

\* _is_stale.
Stale(r) == ~Current(r) \/ r \in expired

-----------------------------------------------------------------------------
(* submit: under the lock, the checks and the generation the request gets;  *)
(* then the request is made known and queued, or refused by a full queue.   *)

SubmitCheck(r) ==
    /\ submission[r] = "none"
    /\ submission' = [submission EXCEPT ![r] = IF transition THEN "refused" ELSE "checked"]
    /\ generationOf' = [generationOf EXCEPT ![r] = generations[DeviceOf[r]]]
    /\ UNCHANGED <<clientVars, generations, stored, requests, pending, expired, active,
                   transition, turnVars, thread>>

SubmitPut(r) ==
    /\ submission[r] = "checked"
    /\ IF Len(requests) < QueueSize
       THEN /\ requests' = Append(requests, r)
            /\ pending' = pending \cup {r}
            /\ submission' = [submission EXCEPT ![r] = "accepted"]
       ELSE /\ submission' = [submission EXCEPT ![r] = "refused"]
            /\ UNCHANGED <<requests, pending>>
    /\ UNCHANGED <<clientVars, generations, stored, generationOf, expired, active, transition,
                   turnVars, thread>>

Expires(r) ==
    /\ r \in pending \ expired
    /\ expired' = expired \cup {r}
    /\ UNCHANGED <<clientVars, generations, stored, requests, pending, generationOf, submission,
                   active, transition, turnVars, thread>>

-----------------------------------------------------------------------------
(* The worker thread: _run, _process, _deliver and _emit_reply_end.        *)

WorkerGoes(at) == worker' = [worker EXCEPT !.at = at]
Ends == WorkerGoes("finish")

\* What a step of the worker that only moves it leaves alone.
OnlyWorker == UNCHANGED <<sharedVars, segments, replyEnd, thread>>

\* A request that is already stale is given up before anything is done for it.
WorkerTake ==
    /\ worker.at = "idle" /\ requests # <<>>
    /\ worker' = [Idle EXCEPT !.at = IF Stale(Head(requests)) THEN "finish" ELSE "await ready",
                              !.req = Head(requests)]
    /\ requests' = Tail(requests)
    /\ UNCHANGED <<clientVars, generations, stored, pending, generationOf, submission, expired,
                   active, transition, segments, replyEnd, thread>>

\* Morrow is awaited until the request expires, and the request checked again.
WorkerAwaitReady ==
    /\ worker.at = "await ready"
    /\ \/ ready /\ IF Stale(worker.req) THEN Ends ELSE WorkerGoes("activate")
       \/ ~ready /\ worker.req \in expired /\ Ends
    /\ OnlyWorker /\ UNCHANGED clientVars

WorkerActivate ==
    /\ worker.at = "activate"
    /\ active' = worker.req
    /\ WorkerGoes("drain")
    /\ UNCHANGED <<clientVars, generations, stored, requests, pending, generationOf, submission,
                   expired, transition, segments, replyEnd, thread>>

\* _discard_stale_connection_events.
Drain ==
    /\ events' = <<>>
    /\ UNCHANGED <<session, ready, turnId, socketVars, agentVars>>

WorkerDrain ==
    /\ worker.at = "drain"
    /\ Drain
    /\ WorkerGoes("start") /\ OnlyWorker

WorkerStart ==
    /\ worker.at = "start"
    /\ \/ StartTurn(worker.req) /\ WorkerGoes("loop")
       \/ SendRaises /\ Ends
    /\ OnlyWorker

\* One round of the event loop, up to what it writes or ends with.
Take == events' = Tail(events) /\ UNCHANGED <<session, ready, turnId, socketVars, agentVars>>

WorkerStops ==
    /\ worker.at = "loop" /\ Stale(worker.req)
    /\ Ends
    /\ OnlyWorker /\ UNCHANGED clientVars

WorkerTimesOut ==
    /\ worker.at = "loop" /\ ~Stale(worker.req)
    /\ Ends
    /\ OnlyWorker /\ UNCHANGED clientVars

\* A rejection is the only event with a request_id to compare.
OwnRejection(e) == e.of = worker.req

WorkerReads ==
    LET e == Head(events)
    IN  /\ worker.at = "loop" /\ ~Stale(worker.req) /\ events # <<>>
        /\ Take
        /\ \/ /\ e.type = "text"
              /\ \/ worker' = [worker EXCEPT !.at = "deliver", !.batch = e.of]
                 \/ worker' = [worker EXCEPT !.tail = e.of]
           \/ /\ e.type = "turn_saved"
              /\ worker' = [worker EXCEPT !.at = IF worker.tail = NoRequest THEN "finish"
                                                 ELSE "deliver",
                                          !.batch = worker.tail, !.tail = NoRequest,
                                          !.last = TRUE]
           \/ /\ e.type = "turn_rejected"
              /\ IF OwnRejection(e) THEN Ends ELSE UNCHANGED worker
           \/ e.type \in {"error", "disconnected"} /\ Ends
           \/ e.type = "snapshot" /\ UNCHANGED worker
        /\ OnlyWorker

\* _deliver looks for staleness once, and then writes all the sentences it was
\* given; what the page reads is kept in the outcome and is no speech.
Delivered == worker' = [worker EXCEPT !.left = 0, !.at = IF worker.last THEN "finish" ELSE "loop"]

WorkerDeliver ==
    /\ worker.at = "deliver"
    /\ IF Stale(worker.req) \/ DeviceOf[worker.req] = Web
       THEN Delivered
       ELSE \E n \in 1 .. MaxBatch : worker' = [worker EXCEPT !.at = "write", !.left = n]
    /\ OnlyWorker /\ UNCHANGED clientVars

WorkerWrite ==
    /\ worker.at = "write"
    /\ segments' = [segments EXCEPT ![worker.req] =
                        Append(@, [of |-> worker.batch, live |-> TRUE])]
    /\ IF worker.left > 1 THEN worker' = [worker EXCEPT !.left = @ - 1] ELSE Delivered
    /\ UNCHANGED <<clientVars, sharedVars, replyEnd, thread>>

\* _finish, and the `finally' of _process.
SlipReleased == active
Released == IF active = worker.req THEN NoRequest ELSE active

WorkerFinish ==
    /\ worker.at = "finish"
    /\ active' = Released
    /\ WorkerGoes("reply end")
    /\ UNCHANGED <<clientVars, generations, stored, requests, pending, generationOf, submission,
                   expired, transition, segments, replyEnd, thread>>

\* The reply end is for speech of the device's generation only.
SlipEndsReply(r) == DeviceOf[r] # Web
SlipFreshReplyEnd(r) == DeviceOf[r] # Web /\ ~Stale(r)
EndsReply(r) == DeviceOf[r] # Web /\ Current(r)

\* What _run does last: the request is pending no more.
SlipPops == pending' = (IF worker.at = "write end" THEN pending \ {worker.req} ELSE pending)
            /\ worker' = Idle
Pops == pending' = pending \ {worker.req} /\ worker' = Idle
OnlyPops == UNCHANGED <<clientVars, generations, stored, requests, generationOf, submission,
                        expired, active, transition, segments, thread>>

WorkerReplyEnd ==
    /\ worker.at = "reply end"
    /\ IF EndsReply(worker.req) THEN WorkerGoes("write end") /\ UNCHANGED pending ELSE Pops
    /\ OnlyPops /\ UNCHANGED replyEnd

WorkerWriteEnd ==
    /\ worker.at = "write end"
    /\ replyEnd' = [replyEnd EXCEPT ![worker.req] = "live"]
    /\ Pops /\ OnlyPops

Worker ==
    \/ WorkerTake \/ WorkerAwaitReady \/ WorkerActivate
    \/ WorkerDrain \/ WorkerStart \/ WorkerStops \/ WorkerTimesOut \/ WorkerReads
    \/ WorkerDeliver \/ WorkerWrite \/ WorkerFinish \/ WorkerReplyEnd \/ WorkerWriteEnd

-----------------------------------------------------------------------------
(* The HTTP threads.  Under the lock a job moves generations on and sees    *)
(* the active turn; after that it has the cancel sink take back the speech  *)
(* of each device, and tells Morrow.                                        *)

\* The job of thread t that moves the generations of D on to G.
Begins(t, job, D, G, hit) ==
    /\ thread[t] = Free
    /\ \A d \in D : G[d] <= MaxGeneration
    /\ generations' = [d \in Device |-> IF d \in D THEN G[d] ELSE generations[d]]
    /\ thread' = [thread EXCEPT ![t] =
                      [at |-> "sinks", job |-> job, sinks |-> D \ {Web},
                       mark |-> [d \in Device |-> IF d \in D THEN G[d] ELSE 0], hit |-> hit]]
    /\ transition' = (transition \/ job # "cancel")
    /\ UNCHANGED <<clientVars, stored, requests, pending, generationOf, submission, expired,
                   active, turnVars>>

Next1 == [d \in Device |-> generations[d] + 1]

CancelDevice(t, d) ==
    Begins(t, "cancel", {d}, Next1, active # NoRequest /\ DeviceOf[active] = d)

SyncDeviceGeneration(t, d, g) ==
    /\ g > generations[d]
    /\ Begins(t, "cancel", {d}, [x \in Device |-> g],
              active # NoRequest /\ DeviceOf[active] = d /\ generationOf[active] < g)

\* The devices the server knows, those with a generation, and those with a
\* pending request.
Targets == Speaking \cup {d \in Device : generations[d] > 0} \cup {DeviceOf[r] : r \in pending}

\* reset_shared_session and switch_shared_session; a second one is refused.
BeginTransition(t, job) ==
    /\ ~transition
    /\ Begins(t, job, Targets, Next1, active # NoRequest)

ThreadGoes(t, at) == thread' = [thread EXCEPT ![t].at = at]
OnlyThread == UNCHANGED <<sharedVars, turnVars>>

\* cancel_morrow_generation: the database, and the rows already written.
SlipStored(current, mark) == mark
Stored(current, mark) == IF mark > current THEN mark ELSE current

SinkCancels(t, d) ==
    LET g == thread[t].mark[d]
        older(r) == DeviceOf[r] = d /\ generationOf[r] < g
    IN  /\ thread[t].at = "sinks" /\ d \in thread[t].sinks
        /\ stored' = [stored EXCEPT ![d] = Stored(@, g)]
        /\ segments' = [r \in Request |->
                            IF older(r) THEN [i \in DOMAIN segments[r] |-> [segments[r][i] EXCEPT !.live = FALSE]]
                            ELSE segments[r]]
        /\ replyEnd' = [r \in Request |->
                            IF older(r) /\ replyEnd[r] = "live" THEN "cancelled" ELSE replyEnd[r]]
        /\ thread' = [thread EXCEPT ![t].sinks = @ \ {d}]
        /\ UNCHANGED <<clientVars, generations, requests, pending, generationOf, submission, expired,
                       active, transition, worker>>

\* Morrow is told when a turn was active.  What cancel_turn raises goes to
\* the caller, past the `finally' of reset_shared_session, and is swallowed
\* only by switch_shared_session.
AfterCancelTurn(t) ==
    thread' = [thread EXCEPT ![t] = IF @.job = "cancel" THEN Free ELSE [@ EXCEPT !.at = "wait"]]

TellMorrow(t) ==
    /\ thread[t].at = "sinks" /\ thread[t].sinks = {}
    /\ \/ ~thread[t].hit /\ UNCHANGED clientVars /\ AfterCancelTurn(t)
       \/ thread[t].hit /\ CancelTurn /\ AfterCancelTurn(t)
       \/ /\ thread[t].hit /\ CancelTurnRaises
          /\ IF thread[t].job = "reset" THEN thread' = [thread EXCEPT ![t] = Free]
             ELSE AfterCancelTurn(t)
    /\ OnlyThread

\* A transition waits until no turn is active.
AwaitNoTurn(t) ==
    /\ thread[t].at = "wait" /\ active = NoRequest
    /\ ThreadGoes(t, IF thread[t].job = "reset" THEN "await ready" ELSE "switch")
    /\ OnlyThread /\ UNCHANGED clientVars

\* Its end, whatever comes of it.
EndTransition(t) ==
    /\ thread' = [thread EXCEPT ![t] = Free]
    /\ transition' = FALSE
    /\ UNCHANGED <<generations, stored, requests, pending, generationOf, submission, expired,
                   active, turnVars>>

GiveUp(t) ==
    /\ thread[t].at \in {"wait", "await ready", "send", "await reset", "await session"}
    /\ EndTransition(t) /\ UNCHANGED clientVars

ResetAwaitReady(t) ==
    /\ thread[t].at = "await ready" /\ ready
    /\ ThreadGoes(t, "drain") /\ OnlyThread /\ UNCHANGED clientVars

ResetDrain(t) ==
    /\ thread[t].at = "drain"
    /\ Drain /\ ThreadGoes(t, "send") /\ OnlyThread

ResetSend(t) ==
    /\ thread[t].at = "send"
    /\ \/ ResetSession(t) /\ ThreadGoes(t, "await reset") /\ OnlyThread
       \/ SendRaises /\ EndTransition(t)

\* Any snapshot is taken for the answer; a rejection of this reset ends it or,
\* for its reason, makes it cancel what Morrow runs and ask again.
ResetReads(t) ==
    LET e == Head(events)
    IN  /\ thread[t].at = "await reset" /\ events # <<>>
        /\ Take
        /\ \/ /\ \/ e.type \in {"snapshot", "error", "disconnected"}
                 \/ e.type = "turn_rejected" /\ e.of = t
              /\ EndTransition(t)
           \/ /\ e.type = "turn_rejected" /\ e.of = t
              /\ ThreadGoes(t, "retry") /\ OnlyThread
           \/ /\ e.type \in {"text", "turn_saved"} \/ (e.type = "turn_rejected" /\ e.of # t)
              /\ UNCHANGED thread /\ OnlyThread

ResetRetries(t) ==
    /\ thread[t].at = "retry"
    /\ \/ CancelTurn /\ ThreadGoes(t, "send") /\ OnlyThread
       \/ CancelTurnRaises /\ EndTransition(t)

SwitchClient(t) ==
    /\ thread[t].at = "switch" /\ session <= MaxSession
    /\ SwitchSession
    /\ ThreadGoes(t, "await session") /\ OnlyThread

SwitchAwaits(t) ==
    /\ thread[t].at = "await session" /\ ready
    /\ EndTransition(t) /\ UNCHANGED clientVars

ThreadStep(t) ==
    \/ \E d \in Speaking : SinkCancels(t, d)
    \/ TellMorrow(t) \/ AwaitNoTurn(t) \/ GiveUp(t)
    \/ ResetAwaitReady(t) \/ ResetDrain(t) \/ ResetSend(t) \/ ResetReads(t) \/ ResetRetries(t)
    \/ SwitchClient(t) \/ SwitchAwaits(t)

-----------------------------------------------------------------------------
CoordNext ==
    \/ \E r \in Request : SubmitCheck(r) \/ SubmitPut(r) \/ Expires(r)
    \/ Worker
    \/ \E t \in Thread :
          \/ /\ t \notin Resetter
             /\ \E d \in Speaking : \/ CancelDevice(t, d)
                                    \/ \E g \in 0 .. MaxGeneration : SyncDeviceGeneration(t, d, g)
          \/ /\ t \in Resetter
             /\ \/ session <= MaxSession /\ BeginTransition(t, "switch")
                \/ BeginTransition(t, "reset")
          \/ ThreadStep(t)
    \/ (Reader \/ Agent) /\ UNCHANGED <<sharedVars, turnVars, thread>>

CoordSpec == CoordInit /\ [][CoordNext]_coordVars

\* The worker thread runs, requests expire, and the worker's deadline passes.
FairWorkerSpec ==
    /\ CoordSpec
    /\ WF_coordVars(Worker) /\ WF_coordVars(WorkerTimesOut)
    /\ \A r \in Request : WF_coordVars(Expires(r))

-----------------------------------------------------------------------------
(* Properties.                                                             *)

\* The coordinator's state has its types; the worker's request is the active
\* one from its activation until it has finished.
CoordTypeOK ==
    /\ ClientTypeOK
    /\ generations \in [Device -> 0 .. MaxGeneration] /\ stored \in [Device -> 0 .. MaxGeneration]
    /\ requests \in Seq(Request) /\ Len(requests) <= QueueSize
    /\ pending \subseteq Request /\ expired \subseteq Request
    /\ worker.req \in Request \cup {NoRequest}
    /\ worker.at \in {"drain", "start", "loop", "deliver", "write"} => active = worker.req
    /\ worker.at \in {"idle", "reply end", "write end"} => active = NoRequest
    /\ \A r \in Request : \A i \in DOMAIN segments[r] : segments[r][i].of \in Request

LiveRows(r) == {i \in DOMAIN segments[r] : segments[r][i].live}

\* A cancellation fences the device's speech: once the cancel sink has run
\* for a generation, all that still comes of an older request is the rest of
\* the sentences the worker was about to write, or the end of the reply, never
\* both; and no speech of the device's own generation is ever taken back.
SpeechIsFenced ==
    \A r \in Request :
        /\ generationOf[r] < stored[DeviceOf[r]] =>
              /\ Cardinality(LiveRows(r)) <= MaxBatch
              /\ replyEnd[r] = "live" => LiveRows(r) = {}
        /\ Current(r) => LiveRows(r) = DOMAIN segments[r] /\ replyEnd[r] # "cancelled"

\* The generation that a restart of the server will read back is the one in
\* memory, once the cancel sinks of a device are through, in whatever order
\* the threads got there.
StoredKeepsUp ==
    \A d \in Speaking : (\A t \in Thread : d \notin thread[t].sinks) => stored[d] = generations[d]

\* The device is told the end of every reply: a request for it that has left
\* the coordinator has its reply end, or its generation is over, which ends
\* the reply on the device as well.
RepliesEnd ==
    \A r \in Request :
        submission[r] = "accepted" /\ r \notin pending /\ DeviceOf[r] # Web
            => replyEnd[r] # "none" \/ ~Current(r)

\* How the coordinator's state is that of SpeechFence: a request is asked when
\* submit has looked at the generation, and closed when it is pending no more;
\* the worker has the pen where it has looked for staleness and is to write.
PhaseOf(r) ==
    IF submission[r] = "none" THEN "new"
    ELSE IF submission[r] = "accepted" /\ r \notin pending THEN "closed" ELSE "asked"
PenOf ==
    IF worker.at = "write" THEN [of |-> worker.req, left |-> worker.left]
    ELSE [of |-> IF worker.at = "write end" THEN worker.req ELSE NoRequest, left |-> 0]

Promise == INSTANCE SpeechFence
    WITH generation <- generations, fence <- stored, born <- generationOf,
         phase <- [r \in Request |-> PhaseOf(r)],
         rows <- [r \in Request |-> Len(segments[r])],
         live <- [r \in Request |-> LiveRows(r)],
         pen <- PenOf

\* The coordinator keeps what SpeechFence promises: one reply is spoken at a
\* time, rows are claimed only for a request of the device's generation, a
\* fence takes back all that older requests have said, and a request that has
\* its reply end or was closed without one says nothing more.
SpeaksBehindTheFence == Promise!Spec

\* A pending turn, which keeps find_owner commands from the device, does not
\* stay pending: not when Morrow is silent or cannot be reached, nor behind the
\* turn of another device.
PendingTurnsEnd == \A r \in Request : r \in pending ~> r \notin pending
=============================================================================
