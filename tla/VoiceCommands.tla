---------------------------- MODULE VoiceCommands ----------------------------
(***************************************************************************)
(* The voice path over HTTP in server.py: what the server does with the    *)
(* text of an uploaded utterance, and with an event the device posts.      *)
(*                                                                         *)
(* Every request has a thread, and so has every poll of the device.  They  *)
(* share the dialogue of the device, dialog_awake_until, and the volume of *)
(* the server, which is also kept in the database.  A read or write of     *)
(* them is a step, as is the creation of a command: a row, which           *)
(* CommandDelivery takes to the device.  The time of dialog_awake_until is *)
(* kept as its relation to the clock.                                      *)
(***************************************************************************)
EXTENDS SpeechText

CONSTANTS
    Request,        \* the requests, each made once
    Poll,           \* the thread that serves the device's polls
    Utterance,      \* what the recogniser makes of an upload
    MaxExpiries,    \* bound on how often the dialogue times out
    MaxFaults,      \* bound on the writes of the database that raise
    MaxRestarts     \* bound on the restarts of the server

ASSUME VoiceAssumption ==
    /\ Poll \notin Request
    /\ {MaxExpiries, MaxFaults, MaxRestarts} \subseteq Nat

VARIABLES
    until,          \* dialog_awake_until: zero, ahead of the clock, or past
    volume,         \* speaker_volume, in steps of ten
    stored,         \* the setting in the database
    serving,        \* per request and for the polls: where the thread is, and its locals
    created,        \* the kinds of the commands created since the dialogue was last awake
    woken,          \* the dialogue has been awake since the server started
    overlapped,     \* two volume commands have overlapped
    lost,           \* the kinds of the writes that raised
    left            \* what may still happen

Thread == Request \cup {Poll}
MinVolume == 1
MaxVolume == 10

Fresh == [at |-> "none", words |-> <<>>, target |-> 0, slept |-> FALSE]

VoiceInit ==
    /\ until = "zero"
    /\ stored \in {5, MaxVolume} /\ volume = stored
    /\ serving = [t \in Thread |-> Fresh]
    /\ created = {} /\ woken = FALSE
    /\ overlapped = FALSE
    /\ lost = {}
    /\ left = [expiries |-> MaxExpiries, faults |-> MaxFaults, restarts |-> MaxRestarts]

dialog == <<until, woken>>
volumes == <<volume, stored, overlapped>>
voiceVars == <<dialog, volumes, serving, created, lost, left>>

At(t, at) == serving[t].at = at
Moved(t, at) == [serving EXCEPT ![t].at = at]
Ends == "done"
\* The thread of the polls serves the next one.
Finishes(t) == serving' = IF t = Poll THEN [serving EXCEPT ![t] = Fresh] ELSE Moved(t, Ends)
Goes(t, at) == IF at = Ends THEN Finishes(t) ELSE serving' = Moved(t, at)

Raises(kind) ==
    /\ left.faults > 0 /\ left' = [left EXCEPT !.faults = @ - 1]
    /\ lost' = lost \cup {kind}
NothingRaises == UNCHANGED <<left, lost>>

\* _enqueue_http_command: the row is created, or the error is logged; either
\* way the caller goes on.
Creates(kind) ==
    \/ created' = created \cup {kind} /\ NothingRaises
    \/ UNCHANGED created /\ Raises(kind)

\* _wake_dialog: its time is ahead again.
Awakes == until' = "ahead" /\ woken' = TRUE /\ created' = {}

\* A thread comes to `at', and the others are told that the dialogue was awake.
AwakeAndGoes(t, at) ==
    serving' = [u \in Thread |-> [serving[u] EXCEPT !.at = IF u = t THEN at ELSE @,
                                                   !.slept = @ /\ u = t]]

-----------------------------------------------------------------------------
(* _handle_upload and _handle_device_event.                                *)

\* Where the words of an upload lead: a volume command first, then a sleep
\* word, then a wake word.
Branch(words) ==
    IF words = <<>> THEN Ends
    ELSE IF VolumeCommand(words) # "none" THEN "volume"
    ELSE IF HasSleepWord(words) THEN "sleep_reply"
    ELSE IF HasWakeWord(words) THEN "wake"
    ELSE "check"

Upload(r, words) ==
    /\ At(r, "none")
    /\ serving' = [serving EXCEPT ![r] = [@ EXCEPT !.at = Branch(words), !.words = words,
                                                 !.slept = until # "ahead"]]
    /\ UNCHANGED <<dialog, volumes, created, lost, left>>

\* A touch is answered with a face at once; other events go to the agent,
\* whether the dialogue is awake or not.  A stop and a reset of the session are
\* CancelDevice and the Resetter threads of MorrowTurnCoordinator.
Touch(r) ==
    /\ At(r, "none") /\ Finishes(r) /\ Creates("face")
    /\ UNCHANGED <<dialog, volumes>>
Event(r) ==
    /\ At(r, "none") /\ Goes(r, "waiting")
    /\ UNCHANGED <<dialog, volumes, created, lost, left>>

-----------------------------------------------------------------------------
(* A volume command: normalize_server_volume_command, then its row.         *)

\* clamp_speaker_volume of the change.
Target(now, change) ==
    CASE change = "up" -> Min({MaxVolume, now + 1})
      [] change = "down" -> Max({MinVolume, now - 1})
      [] change = "most" -> MaxVolume
      [] change = "least" -> MinVolume

ReadVolume(t) ==
    /\ At(t, "volume")
    /\ serving' = [Moved(t, "set") EXCEPT ![t].target = Target(volume, VolumeCommand(serving[t].words))]
    /\ overlapped' = (overlapped \/ \E u \in Request : serving[u].at \in {"set", "store"})
    /\ UNCHANGED <<dialog, volume, stored, created, lost, left>>
SetVolume(t) ==
    /\ At(t, "set") /\ Goes(t, "store") /\ volume' = serving[t].target
    /\ UNCHANGED <<dialog, stored, overlapped, created, lost, left>>

\* Slip: only a change by a step is kept in the database.
SlipKept(t) == IF VolumeCommand(serving[t].words) \in {"up", "down"} THEN serving[t].target ELSE stored
Kept(t) == serving[t].target
\* The write may raise, which ends the request: no row, and no answer.
StoreVolume(t) ==
    /\ At(t, "store")
    /\ \/ stored' = Kept(t) /\ Goes(t, "tell") /\ NothingRaises
       \/ UNCHANGED stored /\ Finishes(t) /\ Raises("setting")
    /\ UNCHANGED <<dialog, volume, overlapped, created>>

\* The answer to the upload says if the dialogue is awake, which ends it when
\* its time is over.
TellVolume(t) ==
    /\ At(t, "tell") /\ Creates("volume") /\ Goes(t, "answer")
    /\ UNCHANGED <<dialog, volumes>>

-----------------------------------------------------------------------------
(* The dialogue.                                                           *)

\* _expire_dialog_if_needed, its read: what the thread then does, it does
\* whatever the time is by then.
Expires(t, otherwise) == Goes(t, IF until = "past" THEN "zero" ELSE otherwise)

Answer(t) ==
    /\ At(t, "answer") /\ Expires(t, Ends)
    /\ UNCHANGED <<dialog, volumes, created, lost, left>>
PollExpires ==
    /\ At(Poll, "none") /\ until = "past" /\ Expires(Poll, Ends)
    /\ UNCHANGED <<dialog, volumes, created, lost, left>>

\* _dialog_awake of an upload without a command, its two reads.
Check(t) ==
    /\ At(t, "check") /\ Expires(t, "look")
    /\ UNCHANGED <<dialog, volumes, created, lost, left>>

\* Slip: what has not run out is awake.
SlipIsAwake == TRUE
IsAwake == until = "ahead"
Look(t) ==
    /\ At(t, "look") /\ Goes(t, IF IsAwake THEN "extend" ELSE Ends)
    /\ UNCHANGED <<dialog, volumes, created, lost, left>>

\* _wake_dialog, of an upload in an awake dialogue or with a wake word.
Extend(t) ==
    /\ At(t, "extend") /\ Awakes /\ AwakeAndGoes(t, "waiting")
    /\ UNCHANGED <<volumes, lost, left>>
Wake(t) ==
    /\ At(t, "wake") /\ Awakes /\ AwakeAndGoes(t, "wake_reply")
    /\ UNCHANGED <<volumes, lost, left>>
WakeReply(t) ==
    /\ At(t, "wake_reply") /\ Creates("wake_reply")
    /\ Goes(t, IF IsWakeOnly(serving[t].words) THEN Ends ELSE "waiting")
    /\ UNCHANGED <<dialog, volumes>>

SleepReply(t) ==
    /\ At(t, "sleep_reply") /\ Creates("sleep_reply") /\ Goes(t, "zero")
    /\ UNCHANGED <<dialog, volumes>>

\* _sleep_dialog: the dialogue sleeps, and then the device is told.
\* Slip: a timeout seen by a poll is not told.
SlipAfterZero(t) == IF t = Poll THEN Ends ELSE "sleep"
AfterZero(t) == "sleep"
Zero(t) ==
    /\ At(t, "zero") /\ until' = "zero" /\ Goes(t, AfterZero(t))
    /\ UNCHANGED <<woken, volumes, created, lost, left>>
Sleep(t) ==
    /\ At(t, "sleep") /\ Creates("sleep") /\ Finishes(t)
    /\ UNCHANGED <<dialog, volumes>>

\* _send_morrow_event: the device is told to wait, and the text is submitted,
\* which the coordinator may refuse.
Waiting(t) ==
    /\ At(t, "waiting") /\ Creates("waiting") /\ Goes(t, "submit")
    /\ UNCHANGED <<dialog, volumes>>
SubmitText(t) ==
    /\ At(t, "submit") /\ \E outcome \in {"submitted", Ends} : Goes(t, outcome)
    /\ UNCHANGED <<dialog, volumes, created, lost, left>>

-----------------------------------------------------------------------------
\* DIALOG_AWAKE_SECONDS pass.
TimeOut ==
    /\ until = "ahead" /\ left.expiries > 0
    /\ until' = "past" /\ left' = [left EXCEPT !.expiries = @ - 1]
    /\ UNCHANGED <<woken, volumes, serving, created, lost>>

\* The server starts anew, with load_persisted_speaker_volume.
Restart ==
    /\ left.restarts > 0 /\ left' = [left EXCEPT !.restarts = @ - 1]
    /\ until' = "zero" /\ woken' = FALSE
    /\ volume' = stored
    /\ serving' = [t \in Thread |-> IF At(t, "none") \/ At(t, "submitted") THEN serving[t]
                                    ELSE IF t = Poll THEN Fresh ELSE [Fresh EXCEPT !.at = Ends]]
    /\ UNCHANGED <<stored, overlapped, created, lost>>

VoiceNext ==
    \/ \E r \in Request : (\E words \in Utterance : Upload(r, words)) \/ Touch(r) \/ Event(r)
    \/ \E t \in Thread :
          \/ ReadVolume(t) \/ SetVolume(t) \/ StoreVolume(t) \/ TellVolume(t)
          \/ Answer(t) \/ Check(t) \/ Look(t) \/ Extend(t)
          \/ Wake(t) \/ WakeReply(t) \/ SleepReply(t) \/ Zero(t) \/ Sleep(t)
          \/ Waiting(t) \/ SubmitText(t)
    \/ PollExpires
    \/ TimeOut \/ Restart

VoiceSpec == VoiceInit /\ [][VoiceNext]_voiceVars

-----------------------------------------------------------------------------
(* Properties.                                                             *)

\* While the dialogue sleeps nothing that is said goes to the agent without a
\* wake word: a text that did was said in a dialogue that was awake at some
\* time between its upload and its submission, however other uploads, polls
\* and the timeout move the dialogue in between.  An event of the device, such
\* as the speech_recognition it may post, goes to the agent in either case and
\* has no words here.  And it is no more than that: a wake word that an
\* expiry undoes behind it has been heard, and what was awake at some time may
\* sleep again when the text is submitted.
ForwardedAwake ==
    \A r \in Request :
        At(r, "submitted") /\ serving[r].words # <<>> /\ ~HasWakeWord(serving[r].words)
            => ~serving[r].slept

\* A dialogue that has gone to sleep, by a word or by time, whichever thread
\* notices first, is one the device has been told of since it was last awake;
\* or a thread is about to tell it.
SleepIsTold ==
    until = "zero" /\ woken =>
        \/ "sleep" \in created \cup lost
        \/ \E t \in Thread : At(t, "sleep")

\* The volume survives a restart: when no change is under way, the database has
\* the volume in force, unless two changes have overlapped or a write failed.
VolumeSurvives ==
    (\A t \in Thread : ~At(t, "store")) /\ ~overlapped /\ "setting" \notin lost
        => stored = volume
=============================================================================
