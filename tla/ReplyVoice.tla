----------------------------- MODULE ReplyVoice -----------------------------
(***************************************************************************)
(* The device's side of a spoken reply: the speech queue with its          *)
(* generation, the reply voice session and its watchdog of                 *)
(* stack-chan/main/main_tts_commands.inc, and the voice state that decides *)
(* if the microphone is open, of xiaopai_state.cpp and voice_state.cpp.    *)
(*                                                                         *)
(* The speech task plays the sentences of a queue.  Three others take a    *)
(* reply away from it, each at any of its steps: the command task that     *)
(* executes a stop, the touch of the screen, and the watchdog.  Between    *)
(* the mutex of the session and the supervisor, which owns the voice       *)
(* state, nothing is locked.                                               *)
(*                                                                         *)
(* A cancellation is a sequence of steps and "todo" what is left of it.    *)
(* Steps on the supervisor, the mutex and the queue are atomic, and so is  *)
(* a look at the voice state with the change that follows it.              *)
(***************************************************************************)
EXTENDS Naturals, Sequences

CONSTANTS
    Script,         \* the speak commands in the order in which they arrive
    QueueSize,      \* kSpeakCommandQueueCapacity
    MaxStops,       \* bound on the stop commands and long touches
    None

Item == [turn : STRING, seg : Nat, gen : Nat, text : BOOLEAN, end : BOOLEAN]
Task == {"command", "touch", "watchdog", "speech"}

ASSUME ReplyAssumption ==
    /\ Script \in Seq(Item)
    /\ \A i, j \in 1 .. Len(Script) : Script[i] = Script[j] => i = j
    /\ QueueSize \in Nat \ {0} /\ MaxStops \in Nat
    /\ None \notin Item

VARIABLES
    queue,          \* speak_command_queue
    generation,     \* speech_command_generation
    stop,           \* app2_stop_requested
    session,        \* reply_voice_session
    voice,          \* state, return_state, speaking_depth; if interaction_state is Speaking
    speech,         \* the speech task: where it is, its item, its results
    command,        \* the speak command the command task has checked, and those to come
    task,           \* per task: what is left of its cancellation, the hold it has to end
    stops,          \* stops that may still come
    excused,        \* sentences in somebody's hands at the last reset of the queue
    fence,          \* the generation at that reset
    slipped         \* a hold was ended before it began, or not granted

vars == <<queue, generation, stop, session, voice, speech, command, task, stops, excused, fence, slipped>>
history == <<excused, fence>>

NoSession == [phase |-> "none", turn |-> "", gen |-> 0, hold |-> FALSE]
Rest == [at |-> "idle", item |-> None, ok |-> TRUE, started |-> FALSE]

Init ==
    /\ queue = <<>> /\ generation = 1 /\ stop = FALSE
    /\ session = NoSession
    /\ \E s \in {"idle", "listening", "waiting"} :
          voice = [state |-> s, ret |-> "idle", depth |-> 0, busy |-> FALSE]
    /\ speech = Rest
    /\ command = [item |-> None, coming |-> Script]
    /\ task = [t \in Task |-> [todo |-> <<>>, hold |-> FALSE, gen |-> 0]]
    /\ stops = MaxStops
    /\ excused = {} /\ fence = 0 /\ slipped = FALSE

-----------------------------------------------------------------------------
(* The voice state.                                                        *)

Returned(s) == IF s \in {"speaking", "waiting"} THEN "listening" ELSE s

\* local_voice_request_state: while somebody speaks the state is put off.
Request(v, s) ==
    IF v.state = "speaking" /\ v.depth > 0 THEN [v EXCEPT !.ret = s] ELSE [v EXCEPT !.state = s]

\* xiaopai_state_set, and what the priority callbacks do before they run.
SetState(v, s) == LET w == Request(v, s) IN [w EXCEPT !.busy = w.state = "speaking"]
Cancelled(v) == [Request(v, "idle") EXCEPT !.busy = FALSE]

Begun(v) ==
    IF v.depth > 0 THEN [v EXCEPT !.depth = @ + 1, !.busy = TRUE]
    ELSE [state |-> "speaking", ret |-> Returned(v.state), depth |-> 1, busy |-> TRUE]

Ended(v) ==
    IF v.depth > 1 THEN [v EXCEPT !.depth = @ - 1, !.busy = v.state = "speaking"]
    ELSE [v EXCEPT !.state = Returned(v.ret), !.depth = 0, !.busy = FALSE]

-----------------------------------------------------------------------------
(* Cancellations.                                                          *)

Preempt == <<"stop", "clear", "end", "listen">>
Advance == <<"advance", "reset", "clear", "end", "listen">>

Todo(t, todo) == task' = [task EXCEPT ![t].todo = todo]
Done(t) == Todo(t, Tail(task[t].todo))
NextStep(t) == Head(task[t].todo)
Idle(t) == task[t].todo = <<>>

Matches(i) == session.phase # "none" /\ session.turn = i.turn /\ session.gen = i.gen

\* Slip: the speaking that the session held is forgotten.
SlipClears(t, rest) ==
    /\ session' = NoSession
    /\ task' = [task EXCEPT ![t].todo = rest]
    /\ UNCHANGED slipped

\* The session is gone; who cleared it ends the speaking it held, the first of
\* two steps that follow, and looks if the microphone is to be opened, the second.
Clears(t, rest) ==
    /\ session' = NoSession
    /\ task' = [task EXCEPT ![t].todo = rest, ![t].hold = session.hold]
    /\ slipped' = (slipped \/ (session.hold /\ speech.at \in {"begin", "unhold"}))

\* reply_voice_cancel clears whatever session there is.
CancelClears(t) ==
    /\ NextStep(t) = "clear"
    /\ Clears(t, IF session.phase # "none" THEN Tail(task[t].todo)
                 ELSE SubSeq(task[t].todo, 4, Len(task[t].todo)))
    /\ UNCHANGED <<queue, generation, stop, voice, speech, command, stops, history>>

\* A step on the supervisor: a stop overtakes its queue and cancels the state.
SupervisorStep(t) ==
    /\ \/ NextStep(t) = "stop" /\ stop' = TRUE /\ voice' = Cancelled(voice)
       \/ /\ NextStep(t) = "end" /\ UNCHANGED stop
          /\ voice' = IF task[t].hold THEN Ended(voice) ELSE voice
       \/ /\ NextStep(t) = "listen" /\ UNCHANGED stop
          /\ voice' = IF voice.state \in {"waiting", "idle"} THEN SetState(voice, "listening") ELSE voice
       \/ /\ NextStep(t) = "pend" /\ UNCHANGED stop
          /\ voice' = IF voice.state = "listening" /\ ~voice.busy THEN SetState(voice, "waiting") ELSE voice
       \/ NextStep(t) = "idle" /\ UNCHANGED stop /\ voice' = SetState(voice, "idle")
    /\ task' = [task EXCEPT ![t].todo = Tail(@), ![t].hold = @ /\ NextStep(t) # "end"]
    /\ UNCHANGED <<queue, generation, session, speech, command, stops, history, slipped>>

\* advance_speech_generation: the number, then the queue.  The watchdog and the
\* speech task give the generation after their own, which is at most the next one: 0 here.
Advances(t) ==
    /\ NextStep(t) = "advance"
    /\ generation' = IF task[t].gen > generation THEN task[t].gen ELSE generation + 1
    /\ task' = [task EXCEPT ![t].todo = Tail(@), ![t].gen = 0]
    /\ UNCHANGED <<queue, stop, session, voice, speech, command, stops, history, slipped>>

Resets(t) ==
    /\ NextStep(t) = "reset"
    /\ queue' = <<>>
    /\ excused' = {speech.item, command.item} /\ fence' = generation
    /\ Done(t)
    /\ UNCHANGED <<generation, stop, session, voice, speech, command, stops, slipped>>

CancelStep(t) ==
    /\ ~Idle(t)
    /\ CancelClears(t) \/ SupervisorStep(t) \/ Advances(t) \/ Resets(t)

\* A stop command, with the generation of a reply the server has begun, or an older one.
StopCommand ==
    /\ stops > 0 /\ stops' = stops - 1
    /\ Idle("command") /\ command.item = None
    /\ \E g \in {0} \cup {Script[i].gen : i \in 1 .. Len(Script)} :
          /\ g = 0 \/ g > generation       \* the older ones do as 0 does
          /\ task' = [task EXCEPT !["command"] = [todo |-> Preempt \o Advance \o Preempt \o <<"idle">>,
                                                  hold |-> FALSE, gen |-> g]]
    /\ UNCHANGED <<queue, generation, stop, session, voice, speech, command, history, slipped>>

\* The screen is held for three seconds.
LongTouch ==
    /\ stops > 0 /\ stops' = stops - 1
    /\ Idle("touch") /\ Todo("touch", Preempt \o Advance)
    /\ UNCHANGED <<queue, generation, stop, session, voice, speech, command, history, slipped>>

\* No progress for kReplyContinuationTimeoutMs; the watchdog clears the session itself.
\* Slip: only the audio that has not come yet is waited for.
SlipWatched == {"pending"}
Watched == {"pending", "between"}

WatchdogExpires ==
    /\ Idle("watchdog") /\ session.phase \in Watched
    /\ Clears("watchdog", <<"stop", "end", "listen">> \o Advance)
    /\ UNCHANGED <<queue, generation, stop, voice, speech, command, stops, history>>

-----------------------------------------------------------------------------
(* The command task: enqueue_speak_command looks at the generation, then    *)
(* puts the sentence into the queue.                                        *)

\* Slip: the generation is not looked at.
SlipIsStale(i) == FALSE
IsStale(i) == i.gen < generation

Arrives ==
    /\ Idle("command") /\ command.item = None /\ command.coming # <<>>
    /\ LET i == Head(command.coming)
       IN  /\ command' = [item |-> IF IsStale(i) THEN None ELSE i, coming |-> Tail(command.coming)]
           /\ generation' = IF i.gen > generation THEN i.gen ELSE generation
    /\ voice' = IF voice.state = "idle" /\ session.phase = "none" THEN SetState(voice, "listening") ELSE voice
    /\ UNCHANGED <<queue, stop, session, speech, task, stops, history, slipped>>

\* Into a full queue it does not go: the command is deferred.
Puts ==
    /\ command.item # None
    /\ queue' = IF Len(queue) < QueueSize THEN Append(queue, command.item) ELSE queue
    /\ command' = [command EXCEPT !.item = None]
    /\ UNCHANGED <<generation, stop, session, voice, speech, task, stops, history, slipped>>

-----------------------------------------------------------------------------
(* The speech task, run_speak_command_loop.                                *)

item == speech.item
Goes(at) == speech' = [speech EXCEPT !.at = at]
Judged(ok) == speech' = [speech EXCEPT !.at = "judge", !.ok = ok]
Ready(at) == speech.at = at /\ Idle("speech")
Own == <<queue, generation, command, stops, history>>

Receives ==
    /\ Ready("idle") /\ queue # <<>>
    /\ queue' = Tail(queue)
    /\ speech' = [Rest EXCEPT !.at = "taken", !.item = Head(queue)]
    /\ UNCHANGED <<generation, stop, session, voice, command, task, stops, history, slipped>>

\* A sentence past its deadline goes; for another one a stop of before is over.
Accepts ==
    /\ speech.at = "taken"
    /\ \/ speech' = Rest /\ UNCHANGED stop
       \/ stop' = FALSE /\ Goes("prepare")
    /\ UNCHANGED <<Own, session, voice, task, slipped>>

\* reply_voice_prepare: the session goes on, or is replaced.
Prepares ==
    /\ speech.at = "prepare" /\ Goes(IF item.text THEN "open" ELSE "end")
    /\ IF Matches(item)
       THEN session' = [session EXCEPT !.phase = "pending"] /\ UNCHANGED <<task, slipped>>
       ELSE /\ session' = [phase |-> "pending", turn |-> item.turn, gen |-> item.gen, hold |-> FALSE]
            /\ task' = [task EXCEPT !["speech"].todo = <<"end", "pend">>, !["speech"].hold = session.hold]
            /\ UNCHANGED slipped
    /\ UNCHANGED <<Own, stop, voice>>

\* The sound is opened, the stream begins: either may fail.
Opens ==
    /\ Ready("open")
    /\ \/ Judged(FALSE) /\ UNCHANGED stop
       \/ stop' = FALSE /\ Goes("stream")
    /\ UNCHANGED <<Own, session, voice, task, slipped>>

\* The stream has ended without sound, failed, been stopped, or the first block is queued.
FirstBlock ==
    /\ speech.at = "stream"
    /\ \/ \E ok \in {~stop, FALSE} : Judged(ok)
       \/ ~stop /\ speech' = [speech EXCEPT !.at = "start", !.started = TRUE]
    /\ UNCHANGED <<Own, stop, session, voice, task, slipped>>

\* reply_voice_audio_started: the hold is noted first, and begun after.
Starts ==
    /\ speech.at = "start"
    /\ IF Matches(item)
       THEN /\ session' = [session EXCEPT !.phase = "playing", !.hold = TRUE]
            /\ Goes(IF session.hold THEN "play" ELSE "begin")
       ELSE UNCHANGED session /\ Judged(FALSE)
    /\ UNCHANGED <<Own, stop, voice, task, slipped>>

Begins ==
    /\ speech.at = "begin"
    /\ IF voice.busy
       THEN Goes("unhold") /\ slipped' = TRUE /\ UNCHANGED voice
       ELSE Goes("play") /\ voice' = Begun(voice) /\ UNCHANGED slipped
    /\ UNCHANGED <<Own, stop, session, task>>

Unholds ==
    /\ speech.at = "unhold"
    /\ session' = IF Matches(item) THEN [session EXCEPT !.hold = FALSE] ELSE session
    /\ Judged(FALSE)
    /\ UNCHANGED <<Own, stop, voice, task, slipped>>

\* It has played to its end, has failed, or has been stopped.
Plays ==
    /\ speech.at = "play"
    /\ \E ok \in {~stop, FALSE} : Judged(ok)
    /\ UNCHANGED <<Own, stop, session, voice, task, slipped>>

\* A completion of another generation, or after a stop, is none.
Judges ==
    /\ speech.at = "judge"
    /\ speech' = [speech EXCEPT !.at = "weigh", !.ok = @ /\ item.gen = generation /\ ~stop]
    /\ UNCHANGED <<Own, stop, session, voice, task, slipped>>

\* Sound that has begun makes up for a failure, if nobody has stopped it.  A sentence
\* without sound does not end the reply, unless it is the last one or is stopped.
Weighs ==
    /\ speech.at = "weigh"
    /\ LET sound == speech.started /\ Matches(item) /\ session.hold
       IN  IF sound /\ (speech.ok \/ ~stop)
           THEN Goes("finish") /\ UNCHANGED task
           ELSE /\ speech' = Rest
                /\ IF ~stop /\ ~item.end THEN UNCHANGED task
                   ELSE Todo("speech", Tail(Preempt) \o IF stop THEN <<>> ELSE Preempt \o Advance)
    /\ UNCHANGED <<Own, stop, session, voice, slipped>>

\* reply_voice_segment_finished.
Finishes ==
    /\ speech.at = "finish"
    /\ session' = IF Matches(item) /\ session.hold THEN [session EXCEPT !.phase = "between"] ELSE session
    /\ IF item.end THEN Goes("end") ELSE speech' = Rest
    /\ UNCHANGED <<Own, stop, voice, task, slipped>>

\* reply_voice_end, of a last sentence or of the control that ends a reply.
EndsReply ==
    /\ Ready("end") /\ speech' = Rest
    /\ IF Matches(item) THEN Clears("speech", <<"end", "listen">>) ELSE UNCHANGED <<session, task, slipped>>
    /\ UNCHANGED <<Own, stop, voice>>

SpeechStep ==
    \/ Receives \/ Accepts \/ Prepares \/ Opens \/ FirstBlock \/ Starts \/ Begins \/ Unholds
    \/ Plays \/ Judges \/ Weighs \/ Finishes \/ EndsReply

-----------------------------------------------------------------------------
Next ==
    \/ \E t \in Task : CancelStep(t)
    \/ StopCommand \/ LongTouch \/ WatchdogExpires
    \/ Arrives \/ Puts
    \/ SpeechStep

Spec == Init /\ [][Next]_vars

\* The tasks run and the timeout passes; no command, stop or touch need come.
FairSpec ==
    /\ Spec
    /\ \A t \in Task : WF_vars(CancelStep(t))
    /\ WF_vars(WatchdogExpires) /\ WF_vars(Puts) /\ WF_vars(SpeechStep)

-----------------------------------------------------------------------------
(* Properties.                                                             *)

\* Once a cancellation has emptied the queue, a sentence of a generation it has
\* left is spoken only if the speech task or the command task had it in hands.
StopTakesHold ==
    speech.item # None /\ speech.item.gen < fence => speech.item \in excused

\* Unless a hold slipped, the device is in the speaking state for exactly as
\* long as somebody has a hold to end: the session, or a task that has cleared
\* one and not yet come to its end.  Two tasks that cancel a reply at once end
\* it once, and a new reply does not end the speaking of the one before it
\* twice or never.
HeldBySession == session.hold /\ speech.at \notin {"begin", "unhold"}
SpeakingIsHeld ==
    slipped \/ (voice.state = "speaking" <=> HeldBySession \/ \E t \in Task : task[t].hold)

\* Every reply lets go: whatever tasks cancel it at once, and if its end or its
\* sound never comes, its session goes and the device stops speaking.  Only a
\* hold that is cleared between its note and its begin is never let go of.
RepliesLetGo ==
    <>[](slipped \/ (session.phase = "none" /\ voice.state # "speaking"))
=============================================================================
