--------------------------- MODULE RealtimeSessions ---------------------------
(***************************************************************************)
(* The realtime voice sessions of realtime_server.py: RealtimeManager with *)
(* its RealtimeDeviceSessions and the RealtimeAsrBridge threads that carry *)
(* a device's audio to the speech recogniser and its text back.            *)
(*                                                                         *)
(* The manager's coroutines run on one asyncio loop: a step of theirs is   *)
(* what happens between two awaits that really suspend, the sends on a     *)
(* websocket.  (_abort_session_tts awaits a task that is never created, so *)
(* it does nothing.)  The bridge threads run beside the loop and hand it   *)
(* coroutines through run_coroutine_threadsafe, in order.  The sends after *)
(* which a coroutine changes nothing are left out.                         *)
(*                                                                         *)
(* What was said is one of Texts, chosen where the code first looks at it; *)
(* a handler that looks again at a later step chooses among the texts that *)
(* would have brought it there.  Partial texts only leave a mark for the   *)
(* latency display and are left out, as is audio: a frame matters because  *)
(* it may start a bridge.                                                  *)
(***************************************************************************)
EXTENDS Integers, Sequences, SequencesExt

CONSTANTS
    Session,        \* the connections, in their lifetime
    Device,         \* device ids
    Default,        \* "default", the id of a connection that gives none
    NoSession,
    Bridge,         \* the bridges, in their lifetime
    NoBridge,
    MaxMessages,    \* bound on the messages and frames that are read to some effect
    Texts, Wakes, WakesOnly, Sleeps \* texts; those with a wake word, with no more, with a sleep word

ASSUME SessionsAssumption ==
    /\ Default \in Device
    /\ NoSession \notin Session /\ NoBridge \notin Bridge
    /\ Session \cap Bridge = {}
    /\ MaxMessages \in Nat
    /\ WakesOnly \subseteq Wakes /\ Wakes \cup Sleeps \subseteq Texts

VARIABLES
    socket,     \* per session: none | open | closing (a close is scheduled) | closed | ended (_dispatch has returned)
    deviceId,   \* session.device_id
    awake,      \* session.dialog_awake
    listen,     \* session.listen_active
    asr,        \* session.asr_bridge
    sessions,   \* _sessions
    keys,       \* the keys of _sessions in their order
    remembered, \* _dialog_awake_by_device: unset | awake | asleep
    thread,     \* per bridge: none | connecting | streaming | draining | heard | finished | failing | dead
    order,      \* what a bridge was told: run | eof (the None in its queue) | stop (_stop is set)
    owner,      \* bridge.session_id
    bridgeId,   \* bridge.device_id
    posted,     \* the coroutines the bridges have handed to the loop
    task,       \* per _dispatch and per bridge's _handle_asr_text: the await it is at, and for which session
    messages    \* the weight of the messages and frames read

sessionVars == <<socket, deviceId, awake, listen, asr>>
managerVars == <<sessions, keys, remembered>>
bridgeVars  == <<thread, order, owner, bridgeId>>
loopVars    == <<posted, task>>
vars        == <<sessionVars, managerVars, bridgeVars, loopVars, messages>>

Handler == Session \cup Bridge
Idle == [at |-> "idle", session |-> NoSession]

Init ==
    /\ socket = [s \in Session |-> "none"]
    /\ deviceId = [s \in Session |-> Default]
    /\ awake = [s \in Session |-> FALSE]
    /\ listen = [s \in Session |-> FALSE]
    /\ asr = [s \in Session |-> NoBridge]
    /\ sessions = [d \in Device |-> NoSession]
    /\ keys = <<>>
    /\ remembered = [d \in Device |-> "unset"]
    /\ thread = [b \in Bridge |-> "none"]
    /\ order = [b \in Bridge |-> "run"]
    /\ owner = [b \in Bridge |-> NoSession]
    /\ bridgeId = [b \in Bridge |-> Default]
    /\ posted = <<>>
    /\ task = [h \in Handler |-> Idle]
    /\ messages = 0

Attached(b) == \E s \in Session : asr[s] = b
\* bridge.active: the thread is alive, and neither _stop nor _finished is set.
Active(b) == /\ thread[b] \in {"connecting", "streaming", "draining", "heard", "failing"}
             /\ order[b] # "stop"
Running(s) == socket[s] \in {"open", "closing", "closed"}

-----------------------------------------------------------------------------
(* Parts of the handlers.  The operators named Slip... are plausible        *)
(* mistakes.                                                                *)

\* _stop_asr of the sessions of S: they stop listening and let go of their
\* bridges, which get `how'.
StopAsr(S, how) ==
    /\ listen' = [s \in Session |-> listen[s] /\ s \notin S]
    /\ asr' = [s \in Session |-> IF s \in S THEN NoBridge ELSE asr[s]]
    /\ order' = [b \in Bridge |-> IF \E s \in S : asr[s] = b THEN how ELSE order[b]]

\* _retire_replaced_session of the session that had d, when it is not s: its
\* recognition is aborted and a task that closes its socket is created.
Replaced(s, d) == {sessions[d]} \ {s, NoSession}
Retire(R, sockets) ==
    /\ StopAsr(R, "stop")
    /\ socket' = [s \in Session |-> IF s \in R /\ sockets[s] = "open" THEN "closing" ELSE sockets[s]]

Keyed(ks, d) == IF d \in ToSet(ks) THEN ks ELSE Append(ks, d)
SlipPopped(ks, d) == ks
Popped(ks, d) ==
    LET at == CHOOSE i \in DOMAIN ks : ks[i] = d
    IN  [i \in 1 .. Len(ks) - 1 |-> IF i < at THEN ks[i] ELSE ks[i + 1]]

\* _select_session: no id means the first session there is.
Selected(d) == IF sessions[d] # NoSession THEN sessions[d]
               ELSE IF d = Default /\ keys # <<>> THEN sessions[Head(keys)] ELSE NoSession

\* The test both coroutines of a bridge begin with.
SlipIsHome(b, d) == Selected(d) # NoSession
IsHome(b, d) == Selected(d) # NoSession /\ Selected(d) = owner[b]

\* A send raises: the text is given up, and a _dispatch ends, unless it was
\* about to submit the text, where _handle_final_text catches the exception.
Failed(h, at) == IF h \in Session /\ at # "waiting" THEN [Idle EXCEPT !.at = "raised"] ELSE Idle

\* A coroutine sends on the socket of s and will go on at `at'; returns when
\* that is all it has left to do.  On a closed socket the send raises.
Sends(h, s, at) ==
    task' = [task EXCEPT ![h] =
        IF socket[s] \in {"open", "closing"}
        THEN [at |-> at, session |-> IF at = "idle" THEN NoSession ELSE s]
        ELSE Failed(h, at)]
Returns(h, s) == Sends(h, s, "idle")

Remember(s, b) ==
    /\ awake' = [awake EXCEPT ![s] = b]
    /\ remembered' = [remembered EXCEPT ![deviceId[s]] = IF b THEN "awake" ELSE "asleep"]

\* _handle_final_text from the sleep words on.
SleepOrSubmit(h, s, t, woke) ==
    \/ /\ t \in Sleeps
       /\ Sends(h, s, "sleep_reply") /\ UNCHANGED <<awake, remembered>>
    \/ /\ t \notin Sleeps /\ t \in Wakes /\ ~woke
       /\ Remember(s, TRUE) /\ Sends(h, s, "rewoken")
    \/ /\ t \notin Sleeps /\ (t \in Wakes => woke)
       /\ Sends(h, s, "waiting") /\ UNCHANGED <<awake, remembered>>

\* _handle_final_text up to its first await: a session that sleeps only
\* hears a wake word.
FinalText(h, s, t) ==
    \/ awake[s] /\ SleepOrSubmit(h, s, t, FALSE)
    \/ /\ ~awake[s] /\ t \in Wakes
       /\ Remember(s, TRUE) /\ Sends(h, s, "woken")
    \/ /\ ~awake[s] /\ t \notin Wakes
       /\ Returns(h, s) /\ UNCHANGED <<awake, remembered>>

-----------------------------------------------------------------------------
(* Connections: _dispatch.                                                  *)

\* A websocket is accepted, its session remembers the device's dialogue and
\* is registered.
Connect(s, d) ==
    /\ socket[s] = "none"
    /\ Retire(Replaced(s, d), [socket EXCEPT ![s] = "open"])
    /\ deviceId' = [deviceId EXCEPT ![s] = d]
    /\ awake' = [awake EXCEPT ![s] = remembered[d] # "asleep"]
    /\ sessions' = [sessions EXCEPT ![d] = s]
    /\ keys' = Keyed(keys, d)
    /\ UNCHANGED <<messages, remembered, thread, owner, bridgeId, loopVars>>

\* A message is read when _dispatch is not inside a handler; one that was
\* received before the socket closed is still read after it.  A text, which
\* only test clients send, weighs as much as three messages in the bound.
Reads(s, weight) ==
    /\ Running(s) /\ task[s] = Idle
    /\ messages + weight <= MaxMessages /\ messages' = messages + weight

\* The hello of the device names another id: _update_session_device_id.
Hello(s, d) ==
    LET old == deviceId[s]
        mine == sessions[old] = s
    IN  /\ Reads(s, 1) /\ d \notin {old, Default}
        /\ Retire(Replaced(s, d), socket)
        /\ sessions' = [e \in Device |-> IF e = d THEN s ELSE IF mine /\ e = old THEN NoSession ELSE sessions[e]]
        /\ keys' = Keyed(IF mine THEN Popped(keys, old) ELSE keys, d)
        /\ deviceId' = [deviceId EXCEPT ![s] = d]
        /\ awake' = [awake EXCEPT ![s] = IF remembered[d] = "unset" THEN @ ELSE remembered[d] = "awake"]
        /\ bridgeId' = [b \in Bridge |-> IF asr[s] = b THEN d ELSE bridgeId[b]]
        /\ Returns(s, s)
        /\ UNCHANGED <<remembered, thread, owner, posted>>

ListenStart(s) ==
    /\ ~listen[s] /\ Reads(s, 1)
    /\ listen' = [listen EXCEPT ![s] = TRUE]
    /\ UNCHANGED <<socket, deviceId, awake, asr, managerVars, bridgeVars, loopVars>>

\* A graceful stop puts None behind the audio in the bridge's queue; when the
\* queue stays full, the bridge is aborted instead.
ListenStop(s) ==
    /\ listen[s] /\ Reads(s, 1)
    /\ \E how \in {"eof", "stop"} : StopAsr({s}, how)
    /\ UNCHANGED <<socket, deviceId, awake, managerVars, thread, owner, bridgeId, loopVars>>

\* An audio frame starts a bridge when there is no active one: _start_asr.
\* While the session does not listen the frame is dropped.  Where the opus
\* library is missing, push_opus stops the bridge it gives the frame to.
SlipReplaceable(s) == TRUE
Replaceable(s) == asr[s] # NoBridge => ~Active(asr[s])
Audio(s, b) ==
    /\ Reads(s, 1) /\ listen[s]
    /\ Replaceable(s)
    /\ thread[b] = "none"
    /\ asr' = [asr EXCEPT ![s] = b]
    /\ thread' = [thread EXCEPT ![b] = "connecting"]
    /\ owner' = [owner EXCEPT ![b] = s]
    /\ bridgeId' = [bridgeId EXCEPT ![b] = deviceId[s]]
    /\ \E how \in {"run", "stop"} : order' = [order EXCEPT ![b] = how]
    /\ UNCHANGED <<socket, deviceId, awake, listen, managerVars, loopVars>>

\* The device sends a text it recognised itself.
DeviceText(s, t) ==
    /\ Reads(s, 3)
    /\ FinalText(s, s, t)
    /\ UNCHANGED <<socket, deviceId, listen, asr, sessions, keys, bridgeVars, posted>>

\* The peer goes away, or the scheduled close completes.
Close(s) ==
    /\ socket[s] \in {"open", "closing"}
    /\ socket' = [socket EXCEPT ![s] = "closed"]
    /\ UNCHANGED <<messages, deviceId, awake, listen, asr, managerVars, bridgeVars, loopVars>>

\* The end of _dispatch: the bridge is aborted, and the session unregistered
\* unless another one has its place.
SlipUnregister(s) == TRUE
Unregister(s) == sessions[deviceId[s]] = s
End(s) ==
    /\ \/ task[s].at = "raised"
       \/ socket[s] = "closed" /\ task[s] = Idle
    /\ StopAsr({s}, "stop")
    /\ socket' = [socket EXCEPT ![s] = "ended"]
    /\ task' = [task EXCEPT ![s] = Idle]
    /\ LET d == deviceId[s]
       IN  /\ sessions' = [sessions EXCEPT ![d] = IF Unregister(s) THEN NoSession ELSE @]
           /\ keys' = IF Unregister(s) THEN Popped(keys, d) ELSE keys
    /\ UNCHANGED <<messages, deviceId, awake, remembered, thread, owner, bridgeId, posted>>

-----------------------------------------------------------------------------
(* The bridge threads: RealtimeAsrBridge._run.                              *)

Moves(b, from, to) == thread[b] \in from /\ thread' = [thread EXCEPT ![b] = to]
ThreadOnly == UNCHANGED <<messages, sessionVars, managerVars, order, owner, bridgeId, task>>

\* The connection to the recogniser is made, which no stop interrupts.
Connected(b) ==
    /\ Moves(b, {"connecting"}, IF order[b] = "stop" THEN "failing" ELSE "streaming")
    /\ UNCHANGED posted /\ ThreadOnly

\* The connection, a send or the recogniser fails, _stop is seen, the three
\* seconds after the stop request pass without a final text, or the
\* recogniser completes without one.
Fail(b) ==
    /\ \/ Moves(b, {"connecting", "streaming", "draining"}, "failing")
       \/ Moves(b, {"streaming", "draining"}, "finished")
    /\ UNCHANGED posted /\ ThreadOnly

\* The thread takes the None and asks the recogniser to finish.
Drain(b) == order[b] = "eof" /\ Moves(b, {"streaming"}, "draining") /\ UNCHANGED posted /\ ThreadOnly

\* A final text is received and handed to the loop, and then _finished is set;
\* a recv that is under way when _stop is set may still return one.
Hear(b) ==
    /\ Moves(b, {"streaming", "draining"}, "heard")
    /\ posted' = Append(posted, [kind |-> "text", bridge |-> b, device |-> bridgeId[b]])
    /\ ThreadOnly
Finish(b) == Moves(b, {"heard"}, "finished") /\ UNCHANGED posted /\ ThreadOnly

\* The finally of _run: notify_asr_bridge_finished, and the thread ends.
Notify(b) ==
    /\ Moves(b, {"finished", "failing"}, "dead")
    /\ posted' = Append(posted, [kind |-> "finished", bridge |-> b, device |-> bridgeId[b]])
    /\ ThreadOnly

-----------------------------------------------------------------------------
(* The coroutines the bridges hand to the loop, and the coroutines that     *)
(* come back from an await.                                                 *)

\* _handle_asr_text begins: the text is shown to the device, for which it
\* awaits a send.
StartText ==
    /\ posted # <<>> /\ Head(posted).kind = "text"
    /\ LET p == Head(posted)
       IN  IF IsHome(p.bridge, p.device)
           THEN Sends(p.bridge, Selected(p.device), "shown")
           ELSE UNCHANGED task
    /\ posted' = Tail(posted)
    /\ UNCHANGED <<messages, sessionVars, managerVars, bridgeVars>>

\* _handle_asr_bridge_finished.
BridgeFinished ==
    /\ posted # <<>> /\ Head(posted).kind = "finished"
    /\ LET p == Head(posted)
           s == Selected(p.device)
           S == IF IsHome(p.bridge, p.device) /\ asr[s] = p.bridge THEN {s} ELSE {}
       IN  /\ asr' = [r \in Session |-> IF r \in S THEN NoBridge ELSE asr[r]]
           /\ listen' = [r \in Session |-> listen[r] /\ r \notin S]
    /\ posted' = Tail(posted)
    /\ UNCHANGED <<messages, socket, deviceId, awake, managerVars, bridgeVars, task>>

\* The final text has been shown: whatever bridge the session has by now is
\* aborted, and the text is handled.
Shown(h) ==
    /\ task[h].at = "shown"
    /\ StopAsr({task[h].session}, "stop")
    /\ \E t \in Texts : FinalText(h, task[h].session, t)
    /\ UNCHANGED <<messages, socket, deviceId, sessions, keys, thread, owner, bridgeId, posted>>

\* The awaits of _handle_final_text.
Woken(h) ==
    /\ task[h].at = "woken"
    /\ LET s == task[h].session
       IN  \/ \E t \in WakesOnly : Returns(h, s) /\ UNCHANGED <<awake, remembered>>
           \/ \E t \in Wakes \ WakesOnly : SleepOrSubmit(h, s, t, TRUE)
    /\ UNCHANGED <<messages, socket, deviceId, listen, asr, sessions, keys, bridgeVars, posted>>
Rewoken(h) ==
    /\ task[h].at = "rewoken"
    /\ \E t \in Wakes \ Sleeps : IF t \in WakesOnly THEN Returns(h, task[h].session)
                                 ELSE Sends(h, task[h].session, "waiting")
    /\ UNCHANGED <<messages, sessionVars, managerVars, bridgeVars, posted>>
SleepReplied(h) ==
    /\ task[h].at = "sleep_reply"
    /\ Remember(task[h].session, FALSE)
    /\ Returns(h, task[h].session)
    /\ UNCHANGED <<messages, socket, deviceId, listen, asr, sessions, keys, bridgeVars, posted>>
\* The text goes to the coordinator, morrow_submit_callback.
Submit(h) ==
    /\ task[h].at = "waiting"
    /\ task' = [task EXCEPT ![h] = Idle]
    /\ UNCHANGED <<messages, sessionVars, managerVars, bridgeVars, posted>>

\* The socket is closed during the send: it raises.
Raise(h) ==
    /\ task[h].at \notin {"idle", "raised"}
    /\ socket[task[h].session] # "open"
    /\ task' = [task EXCEPT ![h] = Failed(h, task[h].at)]
    /\ UNCHANGED <<messages, sessionVars, managerVars, bridgeVars, posted>>

Resume(h) == Shown(h) \/ Woken(h) \/ Rewoken(h) \/ SleepReplied(h) \/ Submit(h) \/ Raise(h)
ThreadStep(b) == Connected(b) \/ Fail(b) \/ Drain(b) \/ Hear(b) \/ Finish(b) \/ Notify(b)

Next ==
    \/ \E s \in Session, d \in Device : Connect(s, d) \/ Hello(s, d)
    \/ \E s \in Session : ListenStart(s) \/ ListenStop(s) \/ Close(s) \/ End(s)
    \/ \E s \in Session, b \in Bridge : Audio(s, b)
    \/ \E s \in Session, t \in Texts : DeviceText(s, t)
    \/ \E b \in Bridge : ThreadStep(b)
    \/ StartText \/ BridgeFinished
    \/ \E h \in Handler : Resume(h)

Spec == Init /\ [][Next]_vars

-----------------------------------------------------------------------------
(* Properties.                                                              *)

\* The variables have their types, _sessions has the keys it is iterated in,
\* and the loop's queue holds at most what each bridge hands over.
SessionsTypeOK ==
    /\ socket \in [Session -> {"none", "open", "closing", "closed", "ended"}]
    /\ deviceId \in [Session -> Device]
    /\ awake \in [Session -> BOOLEAN] /\ listen \in [Session -> BOOLEAN]
    /\ asr \in [Session -> Bridge \cup {NoBridge}]
    /\ sessions \in [Device -> Session \cup {NoSession}]
    /\ IsInjective(keys) /\ ToSet(keys) = {d \in Device : sessions[d] # NoSession}
    /\ remembered \in [Device -> {"unset", "awake", "asleep"}]
    /\ thread \in [Bridge -> {"none", "connecting", "streaming", "draining", "heard", "finished", "failing", "dead"}]
    /\ order \in [Bridge -> {"run", "eof", "stop"}]
    /\ owner \in [Bridge -> Session \cup {NoSession}]
    /\ bridgeId \in [Bridge -> Device]
    /\ \A i \in 1 .. Len(posted) : posted[i].bridge \in Bridge /\ posted[i].device \in Device
    /\ \A h \in Handler : task[h].session \in Session \cup {NoSession}

\* A bridge is held by the session that made it, and only while that session
\* listens: the text handler, the end notice and the messages of the device
\* take both back together.
HeldWhileListening ==
    \A s \in Session : asr[s] # NoBridge => listen[s] /\ owner[asr[s]] = s

\* A bridge that nobody told to stop is the one its session holds, and that
\* session's _dispatch still runs.
RunningIsHeld ==
    \A b \in Bridge :
        thread[b] \in {"connecting", "streaming", "draining"} /\ order[b] = "run"
            => \E s \in Session : owner[b] = s /\ asr[s] = b /\ Running(s)

\* Bridges and the sessions that hold them go together: however a session is
\* replaced, renamed, closed or interrupted by a late text, no recognition
\* goes on that nothing can end, and none feeds a session that does not
\* listen.
NoOrphanBridge == HeldWhileListening /\ RunningIsHeld

\* _sessions is true: a key leads to a session of that id whose _dispatch
\* runs, and a connection nobody replaced or closed is found under its id,
\* whatever the sessions before it still do when they end.
RegistryIsTrue ==
    /\ \A d \in Device : sessions[d] # NoSession => Running(sessions[d]) /\ deviceId[sessions[d]] = d
    /\ \A s \in Session : socket[s] = "open" => sessions[deviceId[s]] = s

\* What a bridge hears is handled in the session whose audio it was, also
\* when that session has gone and "default" leads to another one.
TextStaysHome ==
    \A b \in Bridge : task[b].session \in {NoSession, owner[b]}
===============================================================================
