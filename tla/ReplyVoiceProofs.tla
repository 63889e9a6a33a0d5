--------------------------- MODULE ReplyVoiceProofs ---------------------------
(***************************************************************************)
(* Proofs about the device's side of a spoken reply, for every script of   *)
(* speak commands, every size of the queue and any number of stops.        *)
(***************************************************************************)
EXTENDS ReplyVoice, FiniteSetTheorems, TLAPS

-----------------------------------------------------------------------------
(* The types, as far as the proofs need them.                               *)

Hands == Item \cup {None}
Step == {"stop", "clear", "end", "listen", "pend", "idle", "advance", "reset"}
Steps == Seq(Step)
TaskState == [todo : Steps, hold : BOOLEAN, gen : Nat]

ReplyTypes ==
    /\ queue \in Seq(Item)
    /\ generation \in Nat /\ fence \in Nat
    /\ DOMAIN session = {"phase", "turn", "gen", "hold"}
    /\ session.hold \in BOOLEAN
    /\ DOMAIN command = {"item", "coming"}
    /\ command.item \in Hands /\ command.coming \in Seq(Item)
    /\ task \in [Task -> TaskState]
    /\ DOMAIN speech = {"at", "item", "ok", "started"}
    /\ speech.item \in Hands
    /\ speech.at # "idle" => speech.item \in Item
    /\ slipped \in BOOLEAN

LEMMA TodoTail == \A s \in Steps : s # <<>> => Tail(s) \in Steps
  BY DEF Steps

LEMMA TodoSkip == \A s \in Steps : SubSeq(s, 4, Len(s)) \in Steps
  BY DEF Steps

\* What the cancellations are made of.
LEMMA Todos ==
    /\ <<>> \in Steps /\ Preempt \in Steps /\ Advance \in Steps
    /\ Preempt \o Advance \in Steps /\ Tail(Preempt) \in Steps
    /\ Preempt \o Advance \o Preempt \o <<"idle">> \in Steps
    /\ <<"stop", "end", "listen">> \o Advance \in Steps
    /\ <<"end", "listen">> \in Steps /\ <<"end", "pend">> \in Steps
    /\ Tail(Preempt) \o <<>> \in Steps /\ Tail(Preempt) \o (Preempt \o Advance) \in Steps
<1>1. Preempt \in Steps /\ Preempt # <<>>
  BY DEF Preempt, Steps, Step
<1>2. Advance \in Steps
  BY DEF Advance, Steps, Step
<1>3. /\ <<>> \in Steps /\ <<"idle">> \in Steps /\ <<"stop", "end", "listen">> \in Steps
      /\ <<"end", "listen">> \in Steps /\ <<"end", "pend">> \in Steps
  BY DEF Steps, Step
<1>4. \A x, y \in Steps : x \o y \in Steps
  BY DEF Steps
<1> QED BY <1>1, <1>2, <1>3, <1>4, TodoTail

\* What a step may do to a task's record.
LEMMA TaskTodo ==
    ASSUME task \in [Task -> TaskState], NEW t \in Task, NEW x \in Steps
    PROVE  [task EXCEPT ![t].todo = x] \in [Task -> TaskState]
  BY DEF TaskState

LEMMA TaskHold ==
    ASSUME task \in [Task -> TaskState], NEW t \in Task, NEW x \in Steps, NEW b \in BOOLEAN
    PROVE  [task EXCEPT ![t].todo = x, ![t].hold = b] \in [Task -> TaskState]
  BY DEF TaskState

LEMMA TaskGen ==
    ASSUME task \in [Task -> TaskState], NEW t \in Task, NEW x \in Steps, NEW g \in Nat
    PROVE  [task EXCEPT ![t].todo = x, ![t].gen = g] \in [Task -> TaskState]
  BY DEF TaskState

LEMMA InitTypes == Init => ReplyTypes
<1> SUFFICES ASSUME Init PROVE ReplyTypes
  OBVIOUS
<1>1. task \in [Task -> TaskState]
  BY Todos DEF Init, TaskState
<1>2. DOMAIN session = {"phase", "turn", "gen", "hold"} /\ session.hold = FALSE
  BY DEF Init, NoSession
<1>3. DOMAIN command = {"item", "coming"} /\ command.item \in Hands /\ command.coming \in Seq(Item)
  BY ReplyAssumption DEF Init, Hands, ReplyAssumption
<1>4. DOMAIN speech = {"at", "item", "ok", "started"} /\ speech.item \in Hands /\ speech.at = "idle"
  BY DEF Init, Rest, Hands
<1>5. <<>> \in Seq(Item)
  OBVIOUS
<1> QED BY <1>1, <1>2, <1>3, <1>4, <1>5 DEF Init, ReplyTypes

\* The session is cleared.
LEMMA ClearsTypes ==
    ASSUME ReplyTypes, NEW t \in Task, NEW x \in Steps, Clears(t, x)
    PROVE  /\ DOMAIN session' = {"phase", "turn", "gen", "hold"}
           /\ session'.hold \in BOOLEAN
           /\ task' \in [Task -> TaskState]
           /\ slipped' \in BOOLEAN
<1>1. session.hold \in BOOLEAN
  BY DEF ReplyTypes
<1>2. task' \in [Task -> TaskState]
  <2> DEFINE b == session.hold
  <2>1. b \in BOOLEAN /\ task' = [task EXCEPT ![t].todo = x, ![t].hold = b]
    BY <1>1 DEF Clears
  <2> HIDE DEF b
  <2> QED BY <2>1, TaskHold DEF ReplyTypes
<1>3. DOMAIN session' = {"phase", "turn", "gen", "hold"} /\ session'.hold = FALSE
  BY DEF Clears, NoSession
<1>4. slipped' \in BOOLEAN
  BY DEF Clears, ReplyTypes
<1> QED BY <1>2, <1>3, <1>4

\* A step of a cancellation.
LEMMA CancelTypes ==
    ASSUME ReplyTypes, NEW t \in Task, CancelStep(t) PROVE ReplyTypes'
<1>1. task[t].todo \in Steps /\ Tail(task[t].todo) \in Steps /\ task[t].hold \in BOOLEAN
  <2>1. task[t].todo \in Steps /\ task[t].hold \in BOOLEAN
    BY DEF ReplyTypes, TaskState
  <2> QED BY <2>1, TodoTail DEF CancelStep, Idle
<1>2. CASE CancelClears(t)
  <2>1. PICK x \in Steps : Clears(t, x)
    BY <1>1, <1>2, TodoSkip DEF CancelClears
  <2> QED BY <1>2, <2>1, ClearsTypes DEF CancelClears, ReplyTypes, history
<1>3. CASE SupervisorStep(t)
  <2>1. task' \in [Task -> TaskState]
    <3>1. (task[t].hold /\ NextStep(t) # "end") \in BOOLEAN
      OBVIOUS
    <3> QED BY <1>1, <1>3, <3>1, TaskHold DEF SupervisorStep, ReplyTypes
  <2> QED BY <1>3, <2>1 DEF SupervisorStep, ReplyTypes, history
<1>4. CASE Advances(t)
  <2>1. task' \in [Task -> TaskState]
    BY <1>1, <1>4, TaskGen DEF Advances, ReplyTypes
  <2>2. generation' \in Nat
    BY <1>4 DEF Advances, ReplyTypes, TaskState
  <2> QED BY <1>4, <2>1, <2>2 DEF Advances, ReplyTypes, history
<1>5. CASE Resets(t)
  <2>1. task' \in [Task -> TaskState]
    BY <1>1, <1>5, TaskTodo DEF Resets, Done, Todo, ReplyTypes
  <2> QED BY <1>5, <2>1 DEF Resets, ReplyTypes
<1> QED BY <1>2, <1>3, <1>4, <1>5 DEF CancelStep

\* What begins a cancellation.
LEMMA StopTypes ==
    ASSUME ReplyTypes, StopCommand \/ LongTouch \/ WatchdogExpires PROVE ReplyTypes'
<1> "command" \in Task /\ "touch" \in Task /\ "watchdog" \in Task
  BY DEF Task
<1>2. CASE StopCommand
  <2>1. PICK g \in {0} \cup {Script[i].gen : i \in 1 .. Len(Script)} :
           task' = [task EXCEPT !["command"] = [todo |-> Preempt \o Advance \o Preempt \o <<"idle">>,
                                                hold |-> FALSE, gen |-> g]]
    BY <1>2 DEF StopCommand
  <2>2. g \in Nat
    <3>1. \A i \in Item : i.gen \in Nat
      BY DEF Item
    <3>2. \A k \in 1 .. Len(Script) : Script[k] \in Item
      BY ReplyAssumption DEF ReplyAssumption
    <3> QED BY <3>1, <3>2
  <2>3. task' \in [Task -> TaskState]
    BY <2>1, <2>2, Todos DEF ReplyTypes, TaskState
  <2> QED BY <1>2, <2>3 DEF StopCommand, ReplyTypes, history
<1>3. CASE LongTouch
  <2>1. task' \in [Task -> TaskState]
    BY <1>3, Todos, TaskTodo DEF LongTouch, Todo, ReplyTypes
  <2> QED BY <1>3, <2>1 DEF LongTouch, ReplyTypes, history
<1>4. CASE WatchdogExpires
  <2>1. Clears("watchdog", <<"stop", "end", "listen">> \o Advance)
    BY <1>4 DEF WatchdogExpires
  <2> QED BY <1>4, <2>1, Todos, ClearsTypes DEF WatchdogExpires, ReplyTypes, history
<1> QED BY <1>2, <1>3, <1>4

LEMMA CommandTypes ==
    ASSUME ReplyTypes, Arrives \/ Puts PROVE ReplyTypes'
<1>0. /\ DOMAIN command = {"item", "coming"}
      /\ command.item \in Hands /\ command.coming \in Seq(Item)
  BY DEF ReplyTypes
<1>1. CASE Arrives
  <2> DEFINE i == Head(command.coming)
  <2>1. i \in Item /\ Tail(command.coming) \in Seq(Item) /\ i \in Hands /\ None \in Hands
    BY <1>0, <1>1 DEF Arrives, Hands
  <2>2. /\ DOMAIN command' = {"item", "coming"}
        /\ command'.item \in Hands /\ command'.coming \in Seq(Item)
    BY <1>1, <2>1 DEF Arrives
  <2>3. generation' \in Nat
    BY <1>1, <2>1 DEF Arrives, Item, ReplyTypes
  <2> QED BY <1>1, <2>2, <2>3 DEF Arrives, ReplyTypes, history
<1>2. CASE Puts
  <2>1. command.item \in Item
    BY <1>0, <1>2 DEF Puts, Hands
  <2>2. queue' \in Seq(Item)
    BY <1>2, <2>1 DEF Puts, ReplyTypes
  <2>3. /\ DOMAIN command' = {"item", "coming"}
        /\ command'.item \in Hands /\ command'.coming \in Seq(Item)
    BY <1>0, <1>2 DEF Puts, Hands
  <2> QED BY <1>2, <2>2, <2>3 DEF Puts, ReplyTypes, history
<1> QED BY <1>1, <1>2

\* A step of the speech task.  What it has in hands is the head of the queue.
LEMMA SpeechTypes ==
    ASSUME ReplyTypes, SpeechStep PROVE ReplyTypes'
<1> "speech" \in Task
  BY DEF Task
<1> DEFINE SpeechOK == /\ DOMAIN speech = {"at", "item", "ok", "started"}
                       /\ speech.item \in Hands
                       /\ speech.at # "idle" => speech.item \in Item
           SessionOK == DOMAIN session = {"phase", "turn", "gen", "hold"} /\ session.hold \in BOOLEAN
<1>0. SpeechOK /\ SessionOK
  BY DEF ReplyTypes
<1>1. CASE Receives
  <2>1. Head(queue) \in Item /\ Tail(queue) \in Seq(Item)
    BY <1>1 DEF Receives, ReplyTypes
  <2>2. SpeechOK'
    BY <1>1, <2>1 DEF Receives, Rest, Hands
  <2> QED BY <1>1, <2>1, <2>2 DEF Receives, ReplyTypes, history
<1>2. CASE Accepts \/ Opens \/ FirstBlock \/ Plays \/ Judges
  <2>1. SpeechOK'
    <3>1. CASE Accepts
      BY <1>0, <3>1 DEF Accepts, Goes, Rest, Hands
    <3>2. CASE Opens \/ FirstBlock
      BY <1>0, <3>2 DEF Opens, FirstBlock, Ready, Goes, Judged
    <3>3. CASE Plays \/ Judges
      BY <1>0, <3>3 DEF Plays, Judges, Judged
    <3> QED BY <1>2, <3>1, <3>2, <3>3
  <2> QED BY <1>2, <2>1 DEF Accepts, Opens, FirstBlock, Plays, Judges, Own, ReplyTypes, history
<1>3. CASE Prepares
  <2>1. SpeechOK'
    BY <1>0, <1>3 DEF Prepares, Goes, item
  <2>2. SessionOK'
    <3>1. CASE Matches(item)
      BY <1>0, <1>3, <3>1 DEF Prepares
    <3>2. CASE ~Matches(item)
      <4>1. session' = [phase |-> "pending", turn |-> item.turn, gen |-> item.gen, hold |-> FALSE]
        BY <1>3, <3>2 DEF Prepares
      <4> QED BY <4>1
    <3> QED BY <3>1, <3>2
  <2>3. task' \in [Task -> TaskState]
    <3> DEFINE b == session.hold
    <3>1. b \in BOOLEAN /\ task \in [Task -> TaskState]
      BY DEF ReplyTypes
    <3>2. \/ task' = task
          \/ task' = [task EXCEPT !["speech"].todo = <<"end", "pend">>, !["speech"].hold = b]
      BY <1>3 DEF Prepares
    <3>3. "speech" \in Task /\ <<"end", "pend">> \in Steps
      BY Todos
    <3> HIDE DEF b
    <3>4. [task EXCEPT !["speech"].todo = <<"end", "pend">>, !["speech"].hold = b] \in [Task -> TaskState]
      BY <3>1, <3>3, TaskHold
    <3> QED BY <3>1, <3>2, <3>4
  <2>4. slipped' = slipped
    BY <1>3 DEF Prepares
  <2> QED BY <1>3, <2>1, <2>2, <2>3, <2>4 DEF Prepares, Own, ReplyTypes, history
<1>4. CASE Starts \/ Unholds \/ Finishes
  <2>1. SpeechOK'
    <3>1. CASE Starts
      BY <1>0, <3>1 DEF Starts, Goes, Judged
    <3>2. CASE Unholds
      BY <1>0, <3>2 DEF Unholds, Judged
    <3>3. CASE Finishes
      BY <1>0, <3>3 DEF Finishes, Goes, Rest, Hands
    <3> QED BY <1>4, <3>1, <3>2, <3>3
  <2>2. SessionOK'
    <3>1. CASE Starts
      BY <1>0, <3>1 DEF Starts
    <3>2. CASE Unholds
      BY <1>0, <3>2 DEF Unholds
    <3>3. CASE Finishes
      BY <1>0, <3>3 DEF Finishes
    <3> QED BY <1>4, <3>1, <3>2, <3>3
  <2> QED BY <1>4, <2>1, <2>2 DEF Starts, Unholds, Finishes, Own, ReplyTypes, history
<1>5. CASE Begins
  <2>1. SpeechOK'
    BY <1>0, <1>5 DEF Begins, Goes
  <2> QED BY <1>5, <2>1 DEF Begins, Own, ReplyTypes, history
<1>6. CASE Weighs
  <2>1. SpeechOK'
    BY <1>0, <1>6 DEF Weighs, Goes, Rest, Hands
  <2>2. task' \in [Task -> TaskState]
    <3>1. PICK x \in Steps : task' = task \/ Todo("speech", x)
      BY <1>6, Todos DEF Weighs
    <3> QED BY <3>1, TaskTodo DEF Todo, ReplyTypes
  <2> QED BY <1>6, <2>1, <2>2 DEF Weighs, Own, ReplyTypes, history
<1>7. CASE EndsReply
  <2>1. SpeechOK'
    BY <1>7 DEF EndsReply, Rest, Hands
  <2>2. /\ SessionOK' /\ task' \in [Task -> TaskState] /\ slipped' \in BOOLEAN
    <3>1. CASE Clears("speech", <<"end", "listen">>)
      BY <3>1, Todos, ClearsTypes
    <3>2. CASE UNCHANGED <<session, task, slipped>>
      BY <3>2 DEF ReplyTypes
    <3> QED BY <1>7, <3>1, <3>2 DEF EndsReply
  <2> QED BY <1>7, <2>1, <2>2 DEF EndsReply, Own, ReplyTypes, history
<1> QED BY <1>1, <1>2, <1>3, <1>4, <1>5, <1>6, <1>7 DEF SpeechStep

LEMMA StepTypes == ReplyTypes /\ [Next]_vars => ReplyTypes'
<1> SUFFICES ASSUME ReplyTypes, [Next]_vars PROVE ReplyTypes'
  OBVIOUS
<1>1. CASE UNCHANGED vars
  BY <1>1 DEF vars, ReplyTypes
<1> QED BY <1>1, CancelTypes, StopTypes, CommandTypes, SpeechTypes DEF Next

-----------------------------------------------------------------------------
(* A sentence of before the fence is one that somebody had in hands.        *)

Excused(i) == i # None /\ i.gen < fence => i \in excused

FenceInv ==
    /\ ReplyTypes
    /\ fence <= generation
    /\ \A k \in 1 .. Len(queue) : Excused(queue[k])
    /\ Excused(command.item)
    /\ Excused(speech.item)

LEMMA FenceInit == Init => FenceInv
<1> SUFFICES ASSUME Init PROVE FenceInv
  OBVIOUS
<1>1. queue = <<>> /\ fence = 0 /\ generation = 1 /\ command.item = None /\ speech.item = None
  BY DEF Init, Rest
<1> QED BY <1>1, InitTypes DEF FenceInv, Excused

\* The reset moves the fence, past an empty queue.
LEMMA CancelKeepsFence ==
    ASSUME FenceInv, NEW t \in Task, CancelStep(t) PROVE FenceInv'
<1>1. ReplyTypes /\ ReplyTypes'
  BY CancelTypes DEF FenceInv
<1>2. CASE CancelClears(t)
  BY <1>1, <1>2 DEF CancelClears, history, FenceInv, Excused
<1>3. CASE SupervisorStep(t)
  BY <1>1, <1>3 DEF SupervisorStep, history, FenceInv, Excused
<1>4. CASE Advances(t)
  <2>1. generation \in Nat /\ generation' \in Nat /\ fence \in Nat /\ fence' = fence
    BY <1>1, <1>4 DEF ReplyTypes, Advances, history
  <2>2. generation <= generation'
    <3> DEFINE g == task[t].gen
    <3>1. g \in Nat
      BY <1>1 DEF ReplyTypes, TaskState
    <3>2. generation' = IF g > generation THEN g ELSE generation + 1
      BY <1>4 DEF Advances
    <3> QED BY <2>1, <3>1, <3>2
  <2>3. fence' <= generation'
    BY <2>1, <2>2 DEF FenceInv
  <2> QED BY <1>1, <1>4, <2>3 DEF Advances, history, FenceInv, Excused
<1>5. CASE Resets(t)
  <2>1. /\ queue' = <<>> /\ fence' = generation /\ generation' = generation
        /\ command' = command /\ speech' = speech /\ excused' = {speech.item, command.item}
    BY <1>5 DEF Resets
  <2>2. fence' <= generation'
    BY <1>1, <2>1 DEF ReplyTypes
  <2> QED BY <1>1, <2>1, <2>2 DEF FenceInv, Excused
<1> QED BY <1>2, <1>3, <1>4, <1>5 DEF CancelStep

LEMMA CommandKeepsFence ==
    ASSUME FenceInv, Arrives \/ Puts PROVE FenceInv'
<1>1. ReplyTypes /\ ReplyTypes'
  BY CommandTypes DEF FenceInv
<1>2. CASE Arrives
  <2> DEFINE i == Head(command.coming)
  <2>1. i \in Item /\ i.gen \in Nat /\ generation \in Nat /\ fence \in Nat
    <3>1. i \in Item /\ generation \in Nat /\ fence \in Nat
      BY <1>1, <1>2 DEF Arrives, ReplyTypes
    <3>2. \A j \in Item : j.gen \in Nat
      BY DEF Item
    <3> QED BY <3>1, <3>2
  <2>2. /\ generation' = IF i.gen > generation THEN i.gen ELSE generation
        /\ command'.item = None \/ (command'.item = i /\ ~(i.gen < generation))
    BY <1>2 DEF Arrives, IsStale
  <2>3. queue' = queue /\ fence' = fence /\ excused' = excused /\ speech' = speech
    BY <1>2 DEF Arrives, history
  <2>4. fence' <= generation' /\ Excused(command.item)'
    <3> HIDE DEF i
    <3> QED BY <2>1, <2>2, <2>3 DEF FenceInv, Excused
  <2> QED BY <1>1, <2>3, <2>4 DEF FenceInv, Excused
<1>3. CASE Puts
  <2>1. /\ generation' = generation /\ fence' = fence /\ excused' = excused /\ speech' = speech
        /\ command.item \in Item
    BY <1>1, <1>3 DEF Puts, history, ReplyTypes, Hands
  <2>2. command'.item = None
    BY <1>1, <1>3 DEF Puts, ReplyTypes
  <2>3. queue' = queue \/ queue' = Append(queue, command.item)
    BY <1>3 DEF Puts
  <2>4. \A k \in 1 .. Len(queue') : Excused(queue'[k])
    BY <1>1, <2>1, <2>3 DEF FenceInv, ReplyTypes
  <2> QED BY <1>1, <2>1, <2>2, <2>4 DEF FenceInv, Excused
<1> QED BY <1>2, <1>3

LEMMA SpeechKeepsFence ==
    ASSUME FenceInv, SpeechStep PROVE FenceInv'
<1>1. ReplyTypes /\ ReplyTypes'
  BY SpeechTypes DEF FenceInv
<1>2. CASE Receives
  <2>1. /\ generation' = generation /\ fence' = fence /\ excused' = excused /\ command' = command
        /\ queue # <<>> /\ queue' = Tail(queue) /\ speech'.item = Head(queue)
    BY <1>2 DEF Receives, history, Rest
  <2>2. queue \in Seq(Item)
    BY <1>1 DEF ReplyTypes
  <2>3. \A k \in 1 .. Len(queue') : Excused(queue'[k])
    BY <2>1, <2>2 DEF FenceInv
  <2>4. Excused(Head(queue))
    BY <2>1, <2>2 DEF FenceInv
  <2> QED BY <1>1, <2>1, <2>3, <2>4 DEF FenceInv, Excused
<1>3. CASE ~Receives
  <2>1. DOMAIN speech = {"at", "item", "ok", "started"}
    BY <1>1 DEF ReplyTypes
  <2>2. speech'.item = None \/ speech'.item = speech.item
    <3>1. CASE Accepts
      BY <2>1, <3>1 DEF Accepts, Goes, Rest
    <3>2. CASE Prepares
      BY <2>1, <3>2 DEF Prepares, Goes
    <3>3. CASE Opens
      BY <2>1, <3>3 DEF Opens, Goes, Judged
    <3>4. CASE FirstBlock
      BY <2>1, <3>4 DEF FirstBlock, Judged
    <3>5. CASE Starts
      BY <2>1, <3>5 DEF Starts, Goes, Judged
    <3>6. CASE Begins
      BY <2>1, <3>6 DEF Begins, Goes
    <3>7. CASE Unholds
      BY <2>1, <3>7 DEF Unholds, Judged
    <3>8. CASE Plays
      BY <2>1, <3>8 DEF Plays, Judged
    <3>9. CASE Judges
      BY <2>1, <3>9 DEF Judges
    <3>10. CASE Weighs
      BY <2>1, <3>10 DEF Weighs, Goes, Rest
    <3>11. CASE Finishes
      BY <2>1, <3>11 DEF Finishes, Goes, Rest
    <3>12. CASE EndsReply
      BY <2>1, <3>12 DEF EndsReply, Rest
    <3> QED BY <1>3, <3>1, <3>2, <3>3, <3>4, <3>5, <3>6, <3>7, <3>8, <3>9, <3>10, <3>11, <3>12
             DEF SpeechStep
  <2>3. UNCHANGED <<queue, generation, command, excused, fence>>
    BY <1>3 DEF SpeechStep, Accepts, Prepares, Opens, FirstBlock, Starts, Begins, Unholds, Plays,
                Judges, Weighs, Finishes, EndsReply, Own, history
  <2> QED BY <1>1, <2>2, <2>3 DEF FenceInv, Excused
<1> QED BY <1>2, <1>3

LEMMA FenceStep == FenceInv /\ [Next]_vars => FenceInv'
<1> SUFFICES ASSUME FenceInv, [Next]_vars PROVE FenceInv'
  OBVIOUS
<1>1. ReplyTypes'
  BY StepTypes DEF FenceInv
<1>2. CASE UNCHANGED vars
  BY <1>1, <1>2 DEF vars, FenceInv, Excused
<1>3. CASE StopCommand \/ LongTouch \/ WatchdogExpires
  BY <1>1, <1>3 DEF StopCommand, LongTouch, WatchdogExpires, history, FenceInv, Excused
<1> QED BY <1>2, <1>3, CancelKeepsFence, CommandKeepsFence, SpeechKeepsFence DEF Next

\* Once a cancellation has emptied the queue, a sentence of a generation it has
\* left is spoken only if the speech task or the command task had it in hands:
\* enqueue_speak_command and advance_speech_generation, under no common lock.
THEOREM StopsTakeHold == Spec => []StopTakesHold
<1>1. FenceInv => StopTakesHold
  BY DEF FenceInv, Excused, StopTakesHold
<1> QED BY <1>1, FenceInit, FenceStep, PTL DEF Spec

-----------------------------------------------------------------------------
(* Who has a hold on the speaking.                                          *)

\* A cancellation that clears the session ends the hold in its next step, or in
\* the one after a stop.
ClearThenEnd(s) == \A k \in 1 .. Len(s) : s[k] = "clear" => k < Len(s) /\ s[k + 1] = "end"
EndsIt(s) == Len(s) > 0 /\ (s[1] = "end" \/ (s[1] = "stop" /\ Len(s) > 1 /\ s[2] = "end"))
Letting(t) == ClearThenEnd(task[t].todo) /\ (task[t].hold => EndsIt(task[t].todo))

TodoInv ==
    /\ ReplyTypes
    /\ \A t \in Task : Letting(t)
    /\ speech.at \notin {"idle", "open", "end"} => Idle("speech")
    /\ session.hold => session.phase # "none"

VoiceInv ==
    /\ DOMAIN voice = {"state", "ret", "depth", "busy"}
    /\ voice.depth \in Nat
    /\ voice.state = "speaking" <=> voice.depth > 0

Holders == {t \in Task : task[t].hold} \cup (IF HeldBySession THEN {"session"} ELSE {})

HoldInv ==
    /\ TodoInv /\ VoiceInv
    /\ slipped \/ voice.depth = Cardinality(Holders)
    /\ speech.at = "begin" => session.hold \/ slipped
    /\ speech.at = "unhold" => slipped

\* What is left of a task's cancellation, and its hold, after a step of its own.
Becomes(t, x, b) ==
    /\ task'[t].todo = x /\ task'[t].hold = b
    /\ \A u \in Task \ {t} : task'[u] = task[u]

LEMMA TodoBecomes ==
    ASSUME task \in [Task -> TaskState], NEW t \in Task, NEW x \in Steps, Todo(t, x)
    PROVE  Becomes(t, x, task[t].hold)
  BY DEF TaskState, Todo, Becomes

LEMMA HoldBecomes ==
    ASSUME task \in [Task -> TaskState], NEW t \in Task, NEW x \in Steps, NEW b \in BOOLEAN,
           task' = [task EXCEPT ![t].todo = x, ![t].hold = b]
    PROVE  Becomes(t, x, b)
  BY DEF TaskState, Becomes

LEMMA GenBecomes ==
    ASSUME task \in [Task -> TaskState], NEW t \in Task, NEW x \in Steps, NEW g \in Nat,
           task' = [task EXCEPT ![t].todo = x, ![t].gen = g]
    PROVE  Becomes(t, x, task[t].hold)
  BY DEF TaskState, Becomes

LEMMA ClearsBecomes ==
    ASSUME ReplyTypes, NEW t \in Task, NEW x \in Steps, Clears(t, x)
    PROVE  Becomes(t, x, session.hold)
<1> DEFINE b == session.hold
<1>1. b \in BOOLEAN /\ task' = [task EXCEPT ![t].todo = x, ![t].hold = b]
  BY DEF Clears, ReplyTypes
<1>2. task \in [Task -> TaskState]
  BY DEF ReplyTypes
<1> HIDE DEF b
<1>3. Becomes(t, x, b)
  BY <1>1, <1>2, HoldBecomes
<1> QED BY <1>3 DEF b

\* Every cancellation ends what it has cleared.
LEMMA ClearTails ==
    /\ \A x \in Steps : x # <<>> /\ ClearThenEnd(x) => ClearThenEnd(Tail(x))
    /\ \A x \in Steps : ClearThenEnd(x) => ClearThenEnd(SubSeq(x, 4, Len(x)))
    /\ \A x, y \in Steps : ClearThenEnd(x) /\ ClearThenEnd(y) => ClearThenEnd(x \o y)
  BY DEF ClearThenEnd, Steps

LEMMA ClearsEnd ==
    /\ ClearThenEnd(<<>>)
    /\ ClearThenEnd(Preempt \o Advance)
    /\ ClearThenEnd(Preempt \o Advance \o Preempt \o <<"idle">>)
    /\ ClearThenEnd(<<"stop", "end", "listen">> \o Advance)
    /\ ClearThenEnd(<<"end", "listen">>) /\ ClearThenEnd(<<"end", "pend">>)
    /\ ClearThenEnd(Tail(Preempt) \o <<>>) /\ ClearThenEnd(Tail(Preempt) \o (Preempt \o Advance))
<1>1. ClearThenEnd(Preempt) /\ ClearThenEnd(Advance) /\ Preempt # <<>>
  BY DEF ClearThenEnd, Preempt, Advance
<1>2. /\ ClearThenEnd(<<>>) /\ ClearThenEnd(<<"idle">>) /\ ClearThenEnd(<<"stop", "end", "listen">>)
      /\ ClearThenEnd(<<"end", "listen">>) /\ ClearThenEnd(<<"end", "pend">>)
  BY DEF ClearThenEnd
<1>3. <<"idle">> \in Steps /\ <<"stop", "end", "listen">> \in Steps
  BY DEF Steps, Step
<1>4. ClearThenEnd(Tail(Preempt)) /\ ClearThenEnd(Preempt \o Advance)
  BY <1>1, ClearTails, Todos
<1>5. ClearThenEnd(Preempt \o <<"idle">>) /\ Preempt \o <<"idle">> \in Steps
  <2>1. Preempt \o <<"idle">> \in Steps
    BY <1>3, Todos DEF Steps
  <2>2. ClearThenEnd(Preempt \o <<"idle">>)
    BY <1>1, <1>2, <1>3, ClearTails, Todos
  <2> QED BY <2>1, <2>2
<1>6. Preempt \o Advance \o Preempt \o <<"idle">> = (Preempt \o Advance) \o (Preempt \o <<"idle">>)
  BY <1>3, Todos DEF Steps
<1> QED BY <1>1, <1>2, <1>3, <1>4, <1>5, <1>6, ClearTails, Todos

LEMMA Endings ==
    /\ EndsIt(<<"end", "listen">>) /\ EndsIt(<<"end", "pend">>)
    /\ EndsIt(<<"stop", "end", "listen">> \o Advance)
  BY DEF EndsIt, Advance

LEMMA EndingTails == \A x \in Steps : Len(x) > 1 /\ x[2] = "end" => EndsIt(Tail(x))
<1> SUFFICES ASSUME NEW x \in Steps, Len(x) > 1, x[2] = "end" PROVE EndsIt(Tail(x))
  OBVIOUS
<1>1. Tail(x)[1] = x[2]
  BY DEF Steps
<1>2. Len(Tail(x)) = Len(x) - 1 /\ Len(x) \in Nat
  BY DEF Steps
<1> QED BY <1>1, <1>2 DEF EndsIt

\* A task's step keeps the shape of all.
LEMMA BecomesLetting ==
    ASSUME \A u \in Task : Letting(u), NEW t \in Task, NEW x, NEW b,
           Becomes(t, x, b), ClearThenEnd(x), b => EndsIt(x)
    PROVE  \A u \in Task : Letting(u)'
  BY DEF Becomes, Letting

LEMMA TodoInit == Init => TodoInv
<1> SUFFICES ASSUME Init PROVE TodoInv
  OBVIOUS
<1>1. speech.at = "idle" /\ session.hold = FALSE
  BY DEF Init, Rest, NoSession
<1>2. \A t \in Task : task[t].todo = <<>> /\ task[t].hold = FALSE
  BY DEF Init
<1> QED BY <1>1, <1>2, InitTypes, ClearsEnd DEF TodoInv, Letting

LEMMA CancelKeepsTodo ==
    ASSUME TodoInv, NEW t \in Task, CancelStep(t) PROVE TodoInv'
<1>0. ReplyTypes /\ ReplyTypes'
  BY CancelTypes DEF TodoInv
<1> DEFINE s == task[t].todo
<1>1. s \in Steps /\ s # <<>> /\ Tail(s) \in Steps /\ SubSeq(s, 4, Len(s)) \in Steps /\ task \in [Task -> TaskState]
  <2>1. s \in Steps /\ s # <<>> /\ task \in [Task -> TaskState]
    BY <1>0 DEF ReplyTypes, TaskState, CancelStep, Idle
  <2> HIDE DEF s
  <2> QED BY <2>1, TodoTail, TodoSkip
<1>2. /\ \A u \in Task : Letting(u)
      /\ ClearThenEnd(s) /\ ClearThenEnd(Tail(s)) /\ ClearThenEnd(SubSeq(s, 4, Len(s)))
  <2>1. \A u \in Task : Letting(u)
    BY DEF TodoInv
  <2>2. ClearThenEnd(s)
    BY <2>1 DEF Letting
  <2> QED BY <1>1, <2>1, <2>2, ClearTails
<1>3. speech' = speech
  BY DEF CancelStep, CancelClears, Clears, SupervisorStep, Advances, Resets
<1>4. speech.at \notin {"idle", "open", "end"} => Idle("speech") /\ t # "speech"
  BY DEF TodoInv, CancelStep
<1>5. ASSUME NEW x, NEW b, Becomes(t, x, b), ClearThenEnd(x), b => EndsIt(x), session'.hold => session'.phase # "none"
      PROVE  TodoInv'
  <2>1. \A u \in Task : Letting(u)'
    BY <1>2, <1>5, BecomesLetting
  <2>2. speech'.at \notin {"idle", "open", "end"} => Idle("speech")'
    BY <1>3, <1>4, <1>5 DEF Becomes, Idle, Task
  <2> QED BY <1>0, <1>5, <2>1, <2>2 DEF TodoInv
<1>6. CASE CancelClears(t)
  <2>1. PICK x \in {Tail(s), SubSeq(s, 4, Len(s))} :
           Clears(t, x) /\ (session.phase # "none" => x = Tail(s))
    BY <1>6 DEF CancelClears
  <2>2. Becomes(t, x, session.hold)
    BY <1>0, <1>1, <2>1, ClearsBecomes
  <2>3. session.hold => EndsIt(x)
    <3>1. session.hold => x = Tail(s)
      BY <2>1 DEF TodoInv
    <3>2. s[1] = "clear"
      BY <1>1, <1>6 DEF CancelClears, NextStep, Steps
    <3>3. Len(s) > 1 /\ s[2] = "end"
      BY <1>1, <1>2, <3>2 DEF ClearThenEnd, Steps
    <3>4. EndsIt(Tail(s))
      BY <1>1, <3>3, EndingTails
    <3> QED BY <3>1, <3>4
  <2>4. session'.hold = FALSE
    BY <2>1 DEF Clears, NoSession
  <2> QED BY <1>2, <1>5, <2>1, <2>2, <2>3, <2>4
<1>7. CASE SupervisorStep(t)
  <2> DEFINE b == task[t].hold /\ NextStep(t) # "end"
  <2>1. b \in BOOLEAN /\ task' = [task EXCEPT ![t].todo = Tail(s), ![t].hold = b]
    BY <1>7 DEF SupervisorStep
  <2>2. Becomes(t, Tail(s), b)
    <3> HIDE DEF b, s
    <3> QED BY <1>1, <2>1, HoldBecomes
  <2>3. b => EndsIt(Tail(s))
    <3> SUFFICES ASSUME b PROVE EndsIt(Tail(s))
      OBVIOUS
    <3>1. EndsIt(s) /\ s[1] # "end"
      BY <1>1, <1>2 DEF Letting, NextStep, Steps
    <3>2. Len(s) > 1 /\ s[2] = "end"
      BY <3>1 DEF EndsIt
    <3> QED BY <1>1, <3>2, EndingTails
  <2>4. session'.hold => session'.phase # "none"
    BY <1>7 DEF SupervisorStep, TodoInv
  <2> QED BY <1>2, <1>5, <2>2, <2>3, <2>4
<1>8. CASE Advances(t) \/ Resets(t)
  <2>1. Becomes(t, Tail(s), task[t].hold)
    <3>1. CASE Advances(t)
      BY <1>1, <3>1, GenBecomes DEF Advances
    <3>2. CASE Resets(t)
      BY <1>1, <3>2, TodoBecomes DEF Resets, Done
    <3> QED BY <1>8, <3>1, <3>2
  <2>2. ~task[t].hold
    <3>1. s[1] \in {"advance", "reset"}
      BY <1>1, <1>8 DEF Advances, Resets, NextStep, Steps
    <3> QED BY <1>2, <3>1 DEF Letting, EndsIt
  <2>3. session'.hold => session'.phase # "none"
    BY <1>8 DEF Advances, Resets, TodoInv
  <2> QED BY <1>2, <1>5, <2>1, <2>2, <2>3
<1> QED BY <1>6, <1>7, <1>8 DEF CancelStep

\* Who begins a cancellation has none to finish, and so no hold.
LEMMA IdleHasNone ==
    ASSUME TodoInv, NEW t \in Task, Idle(t) PROVE task[t].hold = FALSE
<1>1. task[t].hold \in BOOLEAN /\ (task[t].hold => EndsIt(task[t].todo))
  BY DEF TodoInv, Letting, ReplyTypes, TaskState
<1> QED BY <1>1 DEF EndsIt, Idle

LEMMA StopKeepsTodo ==
    ASSUME TodoInv, StopCommand \/ LongTouch \/ WatchdogExpires PROVE TodoInv'
<1>0. ReplyTypes /\ ReplyTypes' /\ (\A u \in Task : Letting(u)) /\ task \in [Task -> TaskState]
  BY StopTypes DEF TodoInv, ReplyTypes
<1>1. "command" \in Task /\ "touch" \in Task /\ "watchdog" \in Task /\ "speech" \in Task
  BY DEF Task
<1>2. speech' = speech
  BY DEF StopCommand, LongTouch, WatchdogExpires
<1>3. ASSUME NEW t \in Task \ {"speech"}, NEW x, NEW b, Becomes(t, x, b), ClearThenEnd(x), b => EndsIt(x),
             session'.hold => session'.phase # "none"
      PROVE  TodoInv'
  <2>1. \A u \in Task : Letting(u)'
    BY <1>0, <1>3, BecomesLetting
  <2>2. speech'.at \notin {"idle", "open", "end"} => Idle("speech")'
    BY <1>1, <1>2, <1>3 DEF TodoInv, Becomes, Idle
  <2> QED BY <1>0, <1>3, <2>1, <2>2 DEF TodoInv
<1>4. CASE StopCommand
  <2>1. Becomes("command", Preempt \o Advance \o Preempt \o <<"idle">>, FALSE)
    <3> DEFINE x == Preempt \o Advance \o Preempt \o <<"idle">>
    <3>1. PICK g : task' = [task EXCEPT !["command"] = [todo |-> x, hold |-> FALSE, gen |-> g]]
      BY <1>4 DEF StopCommand
    <3> HIDE DEF x
    <3>2. Becomes("command", x, FALSE)
      BY <1>0, <1>1, <3>1 DEF Becomes
    <3> QED BY <3>2 DEF x
  <2>2. session'.hold => session'.phase # "none"
    BY <1>4 DEF StopCommand, TodoInv
  <2> QED BY <1>1, <1>3, <2>1, <2>2, ClearsEnd
<1>5. CASE LongTouch
  <2>1. Idle("touch") /\ Becomes("touch", Preempt \o Advance, task["touch"].hold)
    BY <1>0, <1>1, <1>5, Todos, TodoBecomes DEF LongTouch
  <2>2. task["touch"].hold = FALSE
    BY <1>1, <2>1, IdleHasNone
  <2>3. session'.hold => session'.phase # "none"
    BY <1>5 DEF LongTouch, TodoInv
  <2> QED BY <1>1, <1>3, <2>1, <2>2, <2>3, ClearsEnd
<1>6. CASE WatchdogExpires
  <2>1. Clears("watchdog", <<"stop", "end", "listen">> \o Advance)
    BY <1>6 DEF WatchdogExpires
  <2>2. Becomes("watchdog", <<"stop", "end", "listen">> \o Advance, session.hold)
    BY <1>0, <1>1, <2>1, Todos, ClearsBecomes
  <2>3. session'.hold = FALSE
    BY <2>1 DEF Clears, NoSession
  <2> QED BY <1>1, <1>3, <2>2, <2>3, ClearsEnd, Endings
<1> QED BY <1>4, <1>5, <1>6

\* What the speech task takes off the session it puts on its own list, or it begins a
\* cancellation of its own, and has none before.
LEMMA SpeechKeepsTodo ==
    ASSUME TodoInv, SpeechStep PROVE TodoInv'
<1>0. /\ ReplyTypes /\ ReplyTypes' /\ (\A u \in Task : Letting(u)) /\ task \in [Task -> TaskState]
      /\ DOMAIN speech = {"at", "item", "ok", "started"}
      /\ DOMAIN session = {"phase", "turn", "gen", "hold"} /\ "speech" \in Task
  BY SpeechTypes DEF TodoInv, ReplyTypes, Task
<1>1. ASSUME NEW x, NEW b, Becomes("speech", x, b), ClearThenEnd(x), b => EndsIt(x),
             speech'.at \in {"idle", "open", "end"}, session'.hold => session'.phase # "none"
      PROVE  TodoInv'
  <2>1. \A u \in Task : Letting(u)'
    BY <1>0, <1>1, BecomesLetting
  <2> QED BY <1>0, <1>1, <2>1 DEF TodoInv
<1>2. ASSUME UNCHANGED task, speech'.at \notin {"idle", "open", "end"} => Idle("speech"),
             session'.hold => session'.phase # "none"
      PROVE  TodoInv'
  BY <1>0, <1>2 DEF TodoInv, Letting, Idle
<1>3. CASE Receives \/ Accepts \/ Opens \/ FirstBlock
  <2>1. speech'.at \notin {"idle", "open", "end"} => Idle("speech")
    <3>1. CASE Receives
      BY <3>1 DEF Receives, Ready
    <3>2. CASE Accepts
      BY <1>0, <3>2 DEF Accepts, TodoInv, Goes, Rest
    <3>3. CASE Opens
      BY <3>3 DEF Opens, Ready
    <3>4. CASE FirstBlock
      BY <3>4 DEF FirstBlock, TodoInv
    <3> QED BY <1>3, <3>1, <3>2, <3>3, <3>4
  <2> QED BY <1>2, <1>3, <2>1 DEF Receives, Accepts, Opens, FirstBlock, Own, TodoInv
<1>4. CASE Begins \/ Plays \/ Judges
  <2>1. Idle("speech")
    BY <1>4 DEF Begins, Plays, Judges, TodoInv
  <2> QED BY <1>2, <1>4, <2>1 DEF Begins, Plays, Judges, Own, TodoInv
<1>5. CASE Starts \/ Unholds \/ Finishes
  <2>1. Idle("speech")
    BY <1>5 DEF Starts, Unholds, Finishes, TodoInv
  <2>2. session'.hold => session'.phase # "none"
    <3>1. CASE Starts
      BY <1>0, <3>1 DEF Starts, TodoInv
    <3>2. CASE Unholds
      BY <1>0, <3>2 DEF Unholds, TodoInv
    <3>3. CASE Finishes
      BY <1>0, <3>3 DEF Finishes, TodoInv
    <3> QED BY <1>5, <3>1, <3>2, <3>3
  <2>3. UNCHANGED task
    BY <1>5 DEF Starts, Unholds, Finishes
  <2> QED BY <1>2, <2>1, <2>2, <2>3
<1>6. CASE Prepares
  <2>1. Idle("speech") /\ session.hold \in BOOLEAN
    BY <1>0, <1>6 DEF Prepares, TodoInv, ReplyTypes
  <2>2. CASE Matches(item)
    <3>1. session' = [session EXCEPT !.phase = "pending"] /\ UNCHANGED task
      BY <1>6, <2>2 DEF Prepares
    <3>2. session'.phase = "pending"
      BY <1>0, <3>1
    <3> QED BY <1>2, <2>1, <3>1, <3>2
  <2>3. CASE ~Matches(item)
    <3>1. session' = [phase |-> "pending", turn |-> item.turn, gen |-> item.gen, hold |-> FALSE]
      BY <1>6, <2>3 DEF Prepares
    <3>2. session'.phase = "pending"
      BY <3>1
    <3>3. Becomes("speech", <<"end", "pend">>, session.hold)
      <4> DEFINE b == session.hold
      <4>1. b \in BOOLEAN /\ task' = [task EXCEPT !["speech"].todo = <<"end", "pend">>, !["speech"].hold = b]
        BY <1>6, <2>1, <2>3 DEF Prepares
      <4>2. <<"end", "pend">> \in Steps
        BY Todos
      <4> HIDE DEF b
      <4>3. Becomes("speech", <<"end", "pend">>, b)
        BY <1>0, <4>1, <4>2, HoldBecomes
      <4> QED BY <4>3 DEF b
    <3>4. speech'.at \in {"idle", "open", "end"}
      BY <1>0, <1>6 DEF Prepares, Goes
    <3> QED BY <1>1, <3>2, <3>3, <3>4, ClearsEnd, Endings
  <2> QED BY <2>2, <2>3
<1>7. CASE Weighs
  <2>1. Idle("speech") /\ (session'.hold => session'.phase # "none")
    BY <1>7 DEF Weighs, TodoInv
  <2>2. CASE UNCHANGED task
    BY <1>2, <2>1, <2>2
  <2>3. CASE ~UNCHANGED task
    <3>1. PICK x \in {Tail(Preempt) \o <<>>, Tail(Preempt) \o (Preempt \o Advance)} :
             Todo("speech", x) /\ speech' = Rest
      BY <1>7, <2>3 DEF Weighs
    <3>2. Becomes("speech", x, task["speech"].hold)
      BY <1>0, <3>1, Todos, TodoBecomes
    <3>3. task["speech"].hold = FALSE
      BY <1>0, <2>1, IdleHasNone
    <3>4. speech'.at = "idle"
      BY <3>1 DEF Rest
    <3> QED BY <1>1, <2>1, <3>1, <3>2, <3>3, <3>4, ClearsEnd
  <2> QED BY <2>2, <2>3
<1>8. CASE EndsReply
  <2>1. speech'.at = "idle"
    BY <1>8 DEF EndsReply, Rest
  <2>2. CASE Clears("speech", <<"end", "listen">>)
    <3>1. Becomes("speech", <<"end", "listen">>, session.hold)
      BY <1>0, <2>2, Todos, ClearsBecomes
    <3>2. session'.hold = FALSE
      BY <2>2 DEF Clears, NoSession
    <3> QED BY <1>1, <2>1, <3>1, <3>2, ClearsEnd, Endings
  <2>3. CASE UNCHANGED <<session, task, slipped>>
    BY <1>2, <2>1, <2>3 DEF TodoInv
  <2> QED BY <1>8, <2>2, <2>3 DEF EndsReply
<1> QED BY <1>3, <1>4, <1>5, <1>6, <1>7, <1>8 DEF SpeechStep

LEMMA TodoStep == TodoInv /\ [Next]_vars => TodoInv'
<1> SUFFICES ASSUME TodoInv, [Next]_vars PROVE TodoInv'
  OBVIOUS
<1>1. ReplyTypes'
  BY StepTypes DEF TodoInv
<1>2. CASE UNCHANGED vars
  BY <1>1, <1>2 DEF vars, TodoInv, Letting, Idle
<1>3. CASE Arrives \/ Puts
  BY <1>1, <1>3 DEF Arrives, Puts, TodoInv, Letting, Idle
<1> QED BY <1>2, <1>3, CancelKeepsTodo, StopKeepsTodo, SpeechKeepsTodo DEF Next

-----------------------------------------------------------------------------
(* The device speaks for as long as the depth says.                         *)

LEMMA VoiceKept ==
    ASSUME VoiceInv
    PROVE  /\ \A s \in {"idle", "listening", "waiting"} :
                  LET v == SetState(voice, s)
                  IN  /\ DOMAIN v = {"state", "ret", "depth", "busy"} /\ v.depth = voice.depth
                      /\ v.state = "speaking" <=> v.depth > 0
           /\ LET v == Cancelled(voice)
              IN  /\ DOMAIN v = {"state", "ret", "depth", "busy"} /\ v.depth = voice.depth
                  /\ v.state = "speaking" <=> v.depth > 0
           /\ LET v == Begun(voice)
              IN  /\ DOMAIN v = {"state", "ret", "depth", "busy"} /\ v.depth = voice.depth + 1
                  /\ v.state = "speaking"
           /\ LET v == Ended(voice)
              IN  /\ DOMAIN v = {"state", "ret", "depth", "busy"}
                  /\ v.depth = IF voice.depth > 1 THEN voice.depth - 1 ELSE 0
                  /\ v.state = "speaking" <=> v.depth > 0
<1>0. /\ DOMAIN voice = {"state", "ret", "depth", "busy"} /\ voice.depth \in Nat
      /\ voice.state = "speaking" <=> voice.depth > 0
  BY DEF VoiceInv
<1>1. ASSUME NEW s \in {"idle", "listening", "waiting"}
      PROVE  LET w == Request(voice, s)
             IN  /\ DOMAIN w = {"state", "ret", "depth", "busy"} /\ w.depth = voice.depth
                 /\ w.state = "speaking" <=> w.depth > 0
  BY <1>0 DEF Request
<1>2. ASSUME NEW s \in {"idle", "listening", "waiting"}
      PROVE  LET v == SetState(voice, s)
             IN  /\ DOMAIN v = {"state", "ret", "depth", "busy"} /\ v.depth = voice.depth
                 /\ v.state = "speaking" <=> v.depth > 0
  BY <1>1 DEF SetState
<1>3. LET v == Cancelled(voice)
      IN  /\ DOMAIN v = {"state", "ret", "depth", "busy"} /\ v.depth = voice.depth
          /\ v.state = "speaking" <=> v.depth > 0
  BY <1>1 DEF Cancelled
<1>4. LET v == Begun(voice)
      IN  /\ DOMAIN v = {"state", "ret", "depth", "busy"} /\ v.depth = voice.depth + 1
          /\ v.state = "speaking"
  BY <1>0 DEF Begun
<1>5. LET v == Ended(voice)
      IN  /\ DOMAIN v = {"state", "ret", "depth", "busy"}
          /\ v.depth = IF voice.depth > 1 THEN voice.depth - 1 ELSE 0
          /\ v.state = "speaking" <=> v.depth > 0
  BY <1>0 DEF Ended, Returned
<1> QED BY <1>2, <1>3, <1>4, <1>5

-----------------------------------------------------------------------------
(* The depth is the number of those who have a hold.                        *)

LEMMA HoldersFinite == IsFiniteSet(Holders) /\ Cardinality(Holders) \in Nat
<1>1. IsFiniteSet({"command", "touch", "watchdog", "speech", "session"})
  <2>1. /\ IsFiniteSet({}) /\ IsFiniteSet({} \cup {"command"})
        /\ IsFiniteSet(({} \cup {"command"}) \cup {"touch"})
        /\ IsFiniteSet((({} \cup {"command"}) \cup {"touch"}) \cup {"watchdog"})
        /\ IsFiniteSet(((({} \cup {"command"}) \cup {"touch"}) \cup {"watchdog"}) \cup {"speech"})
        /\ IsFiniteSet((((({} \cup {"command"}) \cup {"touch"}) \cup {"watchdog"}) \cup {"speech"}) \cup {"session"})
    BY FS_EmptySet, FS_AddElement
  <2>2. (((({} \cup {"command"}) \cup {"touch"}) \cup {"watchdog"}) \cup {"speech"}) \cup {"session"}
           = {"command", "touch", "watchdog", "speech", "session"}
    OBVIOUS
  <2> QED BY <2>1, <2>2
<1>2. Holders \subseteq {"command", "touch", "watchdog", "speech", "session"}
  BY DEF Holders, Task
<1> QED BY <1>1, <1>2, FS_Subset, FS_CardinalityType

\* The counts of a hold that begins, that ends, and that passes from hand to hand.
LEMMA Counts ==
    ASSUME NEW H, IsFiniteSet(H), NEW a
    PROVE  /\ a \notin H => Cardinality(H \cup {a}) = Cardinality(H) + 1
           /\ a \in H => Cardinality(H \ {a}) = Cardinality(H) - 1 /\ Cardinality(H) > 0
<1>1. IsFiniteSet(H \ {a}) /\ Cardinality(H) \in Nat
  BY FS_RemoveElement, FS_CardinalityType
<1>2. a \notin H => Cardinality(H \cup {a}) = Cardinality(H) + 1
  BY FS_AddElement
<1>3. a \in H => Cardinality(H \ {a}) = Cardinality(H) - 1 /\ Cardinality(H) > 0
  <2>1. a \in H => Cardinality(H \ {a}) = Cardinality(H) - 1 /\ Cardinality(H \ {a}) \in Nat
    BY <1>1, FS_RemoveElement, FS_CardinalityType
  <2> QED BY <1>1, <2>1
<1> QED BY <1>2, <1>3

LEMMA PassesOn ==
    ASSUME NEW H, IsFiniteSet(H), NEW a \in H, NEW b, b \notin H
    PROVE  Cardinality((H \ {a}) \cup {b}) = Cardinality(H)
<1>1. IsFiniteSet(H \ {a}) /\ b \notin H \ {a} /\ Cardinality(H) \in Nat
  BY FS_RemoveElement, FS_CardinalityType
<1>2. Cardinality((H \ {a}) \cup {b}) = Cardinality(H \ {a}) + 1
  BY <1>1, FS_AddElement
<1>3. Cardinality(H \ {a}) = Cardinality(H) - 1
  BY Counts
<1> QED BY <1>1, <1>2, <1>3

LEMMA HoldInit == Init => HoldInv
<1> SUFFICES ASSUME Init PROVE HoldInv
  OBVIOUS
<1>1. Holders = {}
  BY DEF Init, Holders, HeldBySession, NoSession
<1>2. DOMAIN voice = {"state", "ret", "depth", "busy"} /\ voice.depth = 0 /\ voice.state # "speaking"
  BY DEF Init
<1>3. speech.at = "idle"
  BY DEF Init, Rest
<1> QED BY <1>1, <1>2, <1>3, TodoInit, FS_EmptySet DEF HoldInv, VoiceInv

\* The hold of the session passes to the task that clears it, which has none.
LEMMA ClearsPasses ==
    ASSUME HoldInv, NEW t \in Task, NEW x \in Steps, Clears(t, x), task[t].hold = FALSE,
           speech' = speech \/ (speech.at = "end" /\ speech'.at = "idle"), voice' = voice
    PROVE  slipped' \/ voice'.depth = Cardinality(Holders')
<1> SUFFICES ASSUME ~slipped' PROVE voice.depth = Cardinality(Holders')
  OBVIOUS
<1>0. ~slipped /\ voice.depth = Cardinality(Holders) /\ session.hold \in BOOLEAN
  BY DEF HoldInv, Clears, TodoInv, ReplyTypes
<1>1. Becomes(t, x, session.hold) /\ session'.hold = FALSE
  BY ClearsBecomes DEF HoldInv, TodoInv, Clears, NoSession
<1>2. t \notin Holders /\ "session" \notin Task
  BY DEF Holders, Task
<1>3. CASE session.hold
  <2>1. "session" \in Holders
    BY <1>3 DEF Clears, Holders, HeldBySession
  <2>2. Holders' = (Holders \ {"session"}) \cup {t}
    BY <1>1, <1>2, <1>3 DEF Becomes, Holders, HeldBySession
  <2>3. Cardinality((Holders \ {"session"}) \cup {t}) = Cardinality(Holders)
    <3> DEFINE H == Holders
    <3>1. IsFiniteSet(H) /\ "session" \in H /\ t \notin H
      BY <1>2, <2>1, HoldersFinite
    <3> HIDE DEF H
    <3>2. Cardinality((H \ {"session"}) \cup {t}) = Cardinality(H)
      BY <3>1, PassesOn
    <3> QED BY <3>2 DEF H
  <2> QED BY <1>0, <2>2, <2>3
<1>4. CASE ~session.hold
  <2>1. Holders' = Holders
    BY <1>1, <1>2, <1>4 DEF Becomes, Holders, HeldBySession
  <2> QED BY <1>0, <2>1
<1> QED BY <1>0, <1>3, <1>4

\* A cancellation clears the session, or ends the hold of its own task.
LEMMA CancelKeepsHold ==
    ASSUME HoldInv, NEW t \in Task, CancelStep(t) PROVE HoldInv'
<1>0. TodoInv' /\ ReplyTypes /\ Letting(t) /\ VoiceInv
  BY CancelKeepsTodo DEF HoldInv, TodoInv
<1>1. speech' = speech
  BY DEF CancelStep, CancelClears, Clears, SupervisorStep, Advances, Resets
<1> DEFINE s == task[t].todo
<1>2. s \in Steps /\ s # <<>> /\ NextStep(t) = s[1] /\ task[t].hold \in BOOLEAN /\ task \in [Task -> TaskState]
  <2>1. s \in Steps /\ s # <<>> /\ task[t].hold \in BOOLEAN /\ task \in [Task -> TaskState]
    BY <1>0 DEF ReplyTypes, TaskState, CancelStep, Idle
  <2>2. \A x \in Steps : x # <<>> => Head(x) = x[1]
    BY DEF Steps
  <2> QED BY <2>1, <2>2 DEF NextStep
<1>3. CASE CancelClears(t)
  <2>1. PICK x \in Steps : Clears(t, x)
    <3>1. Tail(s) \in Steps /\ SubSeq(s, 4, Len(s)) \in Steps
      <4> HIDE DEF s
      <4> QED BY <1>2, TodoTail, TodoSkip
    <3> QED BY <1>3, <3>1 DEF CancelClears
  <2>2. task[t].hold = FALSE
    BY <1>0, <1>2, <1>3 DEF CancelClears, Letting, EndsIt
  <2>3. voice' = voice
    BY <1>3 DEF CancelClears
  <2>4. slipped' \/ voice'.depth = Cardinality(Holders')
    BY <1>1, <2>1, <2>2, <2>3, ClearsPasses
  <2>5. /\ speech'.at = "begin" => session'.hold \/ slipped'
        /\ speech'.at = "unhold" => slipped'
    BY <1>1, <2>1 DEF Clears, HoldInv
  <2> QED BY <1>0, <2>3, <2>4, <2>5 DEF HoldInv, VoiceInv
<1>4. CASE SupervisorStep(t)
  <2> DEFINE b == task[t].hold /\ NextStep(t) # "end"
  <2>1. Becomes(t, Tail(s), b)
    <3>1. b \in BOOLEAN /\ task' = [task EXCEPT ![t].todo = Tail(s), ![t].hold = b] /\ Tail(s) \in Steps
      <4>1. Tail(s) \in Steps
        <5> HIDE DEF s
        <5> QED BY <1>2, TodoTail
      <4> QED BY <1>4, <4>1 DEF SupervisorStep
    <3> HIDE DEF b, s
    <3> QED BY <1>2, <3>1, HoldBecomes
  <2>2. session' = session /\ slipped' = slipped
    BY <1>4 DEF SupervisorStep
  <2>3. CASE task[t].hold /\ NextStep(t) = "end"
    <3>1. voice' = Ended(voice)
      BY <1>4, <2>3 DEF SupervisorStep
    <3>2. t \in Holders /\ Holders' = Holders \ {t}
      BY <1>1, <2>1, <2>2, <2>3 DEF Becomes, Holders, HeldBySession, Task
    <3>3. VoiceInv' /\ voice'.depth = IF voice.depth > 1 THEN voice.depth - 1 ELSE 0
      BY <1>0, <3>1, VoiceKept DEF VoiceInv
    <3>4. slipped' \/ voice'.depth = Cardinality(Holders')
      <4>1. slipped \/ voice.depth = Cardinality(Holders)
        BY DEF HoldInv
      <4>2. Cardinality(Holders') = Cardinality(Holders) - 1 /\ Cardinality(Holders) > 0 /\ Cardinality(Holders) \in Nat
        BY <3>2, HoldersFinite, Counts
      <4> QED BY <2>2, <3>3, <4>1, <4>2
    <3> QED BY <1>0, <1>1, <2>2, <3>3, <3>4 DEF HoldInv
  <2>4. CASE ~(task[t].hold /\ NextStep(t) = "end")
    <3>1. Holders' = Holders
      BY <1>1, <1>2, <2>1, <2>2, <2>4 DEF Becomes, Holders, HeldBySession
    <3>2. \/ voice' = voice \/ voice' = Cancelled(voice)
          \/ \E x \in {"idle", "listening", "waiting"} : voice' = SetState(voice, x)
      BY <1>4, <2>4 DEF SupervisorStep
    <3>3. VoiceInv' /\ voice'.depth = voice.depth
      BY <1>0, <3>2, VoiceKept DEF VoiceInv
    <3> QED BY <1>0, <1>1, <2>2, <3>1, <3>3 DEF HoldInv
  <2> QED BY <2>3, <2>4
<1>5. CASE Advances(t) \/ Resets(t)
  <2>1. UNCHANGED <<session, voice, slipped>>
    BY <1>5 DEF Advances, Resets
  <2>2. \A u \in Task : task'[u].hold = task[u].hold
    <3>1. Tail(s) \in Steps
      <4> HIDE DEF s
      <4> QED BY <1>2, TodoTail
    <3>2. Becomes(t, Tail(s), task[t].hold)
      <4>1. CASE Advances(t)
        BY <1>2, <3>1, <4>1, GenBecomes DEF Advances
      <4>2. CASE Resets(t)
        BY <1>2, <3>1, <4>2, TodoBecomes DEF Resets, Done
      <4> QED BY <1>5, <4>1, <4>2
    <3> QED BY <3>2 DEF Becomes
  <2>3. Holders' = Holders
    BY <1>1, <2>1, <2>2 DEF Holders, HeldBySession
  <2> QED BY <1>0, <1>1, <2>1, <2>3 DEF HoldInv, VoiceInv
<1> QED BY <1>3, <1>4, <1>5 DEF CancelStep

LEMMA StopKeepsHold ==
    ASSUME HoldInv, StopCommand \/ LongTouch \/ WatchdogExpires PROVE HoldInv'
<1>0. TodoInv /\ TodoInv' /\ ReplyTypes /\ VoiceInv
  BY StopKeepsTodo DEF HoldInv, TodoInv
<1>1. "command" \in Task /\ "touch" \in Task /\ "watchdog" \in Task /\ task \in [Task -> TaskState]
  BY <1>0 DEF Task, ReplyTypes
<1>2. speech' = speech /\ voice' = voice
  BY DEF StopCommand, LongTouch, WatchdogExpires
<1>3. CASE StopCommand \/ LongTouch
  <2>1. session' = session /\ slipped' = slipped
    BY <1>3 DEF StopCommand, LongTouch
  <2>2. \A u \in Task : task'[u].hold = task[u].hold
    <3>1. CASE StopCommand
      <4>1. task["command"].hold = FALSE
        BY <1>0, <1>1, <3>1, IdleHasNone DEF StopCommand
      <4> DEFINE x == Preempt \o Advance \o Preempt \o <<"idle">>
      <4>2. PICK g : task' = [task EXCEPT !["command"] = [todo |-> x, hold |-> FALSE, gen |-> g]]
        BY <3>1 DEF StopCommand
      <4> HIDE DEF x
      <4> QED BY <1>1, <4>1, <4>2
    <3>2. CASE LongTouch
      <4>1. Becomes("touch", Preempt \o Advance, task["touch"].hold)
        BY <1>1, <3>2, Todos, TodoBecomes DEF LongTouch
      <4> QED BY <4>1 DEF Becomes
    <3> QED BY <1>3, <3>1, <3>2
  <2>3. Holders' = Holders
    BY <1>2, <2>1, <2>2 DEF Holders, HeldBySession
  <2> QED BY <1>0, <1>2, <2>1, <2>3 DEF HoldInv, VoiceInv
<1>4. CASE WatchdogExpires
  <2>1. Clears("watchdog", <<"stop", "end", "listen">> \o Advance)
    BY <1>4 DEF WatchdogExpires
  <2>2. task["watchdog"].hold = FALSE
    BY <1>0, <1>1, <1>4, IdleHasNone DEF WatchdogExpires
  <2>3. slipped' \/ voice'.depth = Cardinality(Holders')
    BY <1>1, <1>2, <2>1, <2>2, Todos, ClearsPasses
  <2>4. /\ speech'.at = "begin" => session'.hold \/ slipped'
        /\ speech'.at = "unhold" => slipped'
    BY <1>2, <2>1 DEF Clears, HoldInv
  <2> QED BY <1>0, <1>2, <2>3, <2>4 DEF HoldInv, VoiceInv
<1> QED BY <1>3, <1>4

\* The speech task begins the speaking of the hold it has noted, and lets the
\* session it replaces or ends go.
LEMMA SpeechKeepsHold ==
    ASSUME HoldInv, SpeechStep PROVE HoldInv'
<1>0. /\ TodoInv /\ TodoInv' /\ ReplyTypes /\ VoiceInv /\ task \in [Task -> TaskState] /\ "speech" \in Task
      /\ DOMAIN speech = {"at", "item", "ok", "started"}
      /\ DOMAIN session = {"phase", "turn", "gen", "hold"} /\ session.hold \in BOOLEAN
      /\ slipped \/ voice.depth = Cardinality(Holders)
      /\ speech.at = "begin" => session.hold \/ slipped
      /\ speech.at = "unhold" => slipped
  BY SpeechKeepsTodo DEF HoldInv, TodoInv, ReplyTypes, Task
<1>1. ASSUME voice' = voice, slipped' = slipped, slipped \/ Holders' = Holders,
             speech'.at = "begin" => session'.hold \/ slipped', speech'.at = "unhold" => slipped'
      PROVE  HoldInv'
  BY <1>0, <1>1 DEF HoldInv, VoiceInv
<1>2. CASE Receives \/ Accepts \/ Opens \/ FirstBlock \/ Plays \/ Judges \/ Finishes
  <2>1. speech.at \notin {"begin", "unhold"} /\ speech'.at \notin {"begin", "unhold"}
    <3>1. CASE Receives
      BY <3>1 DEF Receives, Ready, Rest
    <3>2. CASE Accepts
      BY <1>0, <3>2 DEF Accepts, Goes, Rest
    <3>3. CASE Opens
      BY <1>0, <3>3 DEF Opens, Ready, Goes, Judged
    <3>4. CASE FirstBlock
      BY <1>0, <3>4 DEF FirstBlock, Judged
    <3>5. CASE Plays
      BY <1>0, <3>5 DEF Plays, Judged
    <3>6. CASE Judges
      BY <1>0, <3>6 DEF Judges
    <3>7. CASE Finishes
      BY <1>0, <3>7 DEF Finishes, Goes, Rest
    <3> QED BY <1>2, <3>1, <3>2, <3>3, <3>4, <3>5, <3>6, <3>7
  <2>2. UNCHANGED <<voice, slipped, task>>
    BY <1>2 DEF Receives, Accepts, Opens, FirstBlock, Plays, Judges, Finishes, Own
  <2>3. session'.hold = session.hold
    <3>1. CASE Finishes
      BY <1>0, <3>1 DEF Finishes
    <3>2. CASE ~Finishes
      BY <1>2, <3>2 DEF Receives, Accepts, Opens, FirstBlock, Plays, Judges
    <3> QED BY <3>1, <3>2
  <2>4. Holders' = Holders
    BY <2>1, <2>2, <2>3 DEF Holders, HeldBySession
  <2> QED BY <1>1, <2>1, <2>2, <2>4
<1>3. CASE Prepares
  <2>1. /\ speech.at = "prepare" /\ speech'.at \in {"open", "end"} /\ voice' = voice /\ slipped' = slipped
        /\ Idle("speech")
    BY <1>0, <1>3 DEF Prepares, Goes, TodoInv
  <2>2. CASE Matches(item)
    <3>1. session' = [session EXCEPT !.phase = "pending"] /\ task' = task
      BY <1>3, <2>2 DEF Prepares
    <3>2. session'.hold = session.hold
      BY <1>0, <3>1
    <3>3. Holders' = Holders
      BY <2>1, <3>1, <3>2 DEF Holders, HeldBySession
    <3> QED BY <1>1, <2>1, <3>3
  <2>3. CASE ~Matches(item)
    <3>1. session' = [phase |-> "pending", turn |-> item.turn, gen |-> item.gen, hold |-> FALSE]
      BY <1>3, <2>3 DEF Prepares
    <3>2. session'.hold = FALSE
      BY <3>1
    <3>3. Becomes("speech", <<"end", "pend">>, session.hold)
      <4> DEFINE b == session.hold
      <4>1. b \in BOOLEAN /\ task' = [task EXCEPT !["speech"].todo = <<"end", "pend">>, !["speech"].hold = b]
        BY <1>0, <1>3, <2>3 DEF Prepares
      <4>2. <<"end", "pend">> \in Steps
        BY Todos
      <4> HIDE DEF b
      <4>3. Becomes("speech", <<"end", "pend">>, b)
        BY <1>0, <4>1, <4>2, HoldBecomes
      <4> QED BY <4>3 DEF b
    <3>4. "speech" \notin Holders /\ "session" \notin Task
      <4>1. task["speech"].hold = FALSE
        BY <1>0, <2>1, IdleHasNone
      <4> QED BY <4>1 DEF Holders, Task
    <3>5. CASE session.hold
      <4>1. "session" \in Holders
        BY <2>1, <3>5 DEF Holders, HeldBySession
      <4>2. Holders' = (Holders \ {"session"}) \cup {"speech"}
        BY <1>0, <2>1, <3>2, <3>3, <3>4, <3>5 DEF Becomes, Holders, HeldBySession
      <4>3. Cardinality((Holders \ {"session"}) \cup {"speech"}) = Cardinality(Holders)
        <5> DEFINE H == Holders
        <5>1. IsFiniteSet(H) /\ "session" \in H /\ "speech" \notin H
          BY <3>4, <4>1, HoldersFinite
        <5> HIDE DEF H
        <5>2. Cardinality((H \ {"session"}) \cup {"speech"}) = Cardinality(H)
          BY <5>1, PassesOn
        <5> QED BY <5>2 DEF H
      <4> QED BY <1>0, <2>1, <4>2, <4>3 DEF HoldInv, VoiceInv
    <3>6. CASE ~session.hold
      <4>1. Holders' = Holders
        BY <1>0, <2>1, <3>2, <3>3, <3>4, <3>6 DEF Becomes, Holders, HeldBySession
      <4> QED BY <1>1, <2>1, <4>1
    <3> QED BY <1>0, <3>5, <3>6
  <2> QED BY <2>2, <2>3
<1>4. CASE Starts
  <2>1. speech.at = "start" /\ UNCHANGED <<voice, slipped, task>>
    BY <1>4 DEF Starts, Own
  <2>2. CASE Matches(item)
    <3>1. session'.hold = TRUE
      BY <1>0, <1>4, <2>2 DEF Starts
    <3>2. speech'.at = IF session.hold THEN "play" ELSE "begin"
      BY <1>0, <1>4, <2>2 DEF Starts, Goes
    <3>3. Holders' = Holders
      BY <1>0, <2>1, <3>1, <3>2 DEF Holders, HeldBySession
    <3> QED BY <1>1, <2>1, <3>1, <3>2, <3>3
  <2>3. CASE ~Matches(item)
    <3>1. session' = session /\ speech'.at = "judge"
      BY <1>0, <1>4, <2>3 DEF Starts, Judged
    <3>2. Holders' = Holders
      BY <2>1, <3>1 DEF Holders, HeldBySession
    <3> QED BY <1>1, <2>1, <3>1, <3>2
  <2> QED BY <2>2, <2>3
<1>5. CASE Begins
  <2>1. speech.at = "begin" /\ session' = session /\ task' = task
    BY <1>5 DEF Begins
  <2>2. CASE slipped' /\ voice' = voice
    BY <1>0, <2>1, <2>2 DEF HoldInv, VoiceInv
  <2>3. CASE slipped' = slipped /\ voice' = Begun(voice) /\ Goes("play")
    <3>1. speech'.at = "play"
      BY <1>0, <2>3 DEF Goes
    <3>2. VoiceInv' /\ voice'.depth = voice.depth + 1
      BY <1>0, <2>3, VoiceKept DEF VoiceInv
    <3>3. slipped' \/ voice'.depth = Cardinality(Holders')
      <4> SUFFICES ASSUME ~slipped PROVE voice'.depth = Cardinality(Holders')
        BY <2>3
      <4>1. "session" \notin Holders /\ Holders' = Holders \cup {"session"}
        BY <1>0, <2>1, <3>1 DEF Holders, HeldBySession, Task
      <4>2. Cardinality(Holders \cup {"session"}) = Cardinality(Holders) + 1
        BY <4>1, HoldersFinite, FS_AddElement
      <4> QED BY <1>0, <3>2, <4>1, <4>2
    <3> QED BY <1>0, <3>1, <3>2, <3>3 DEF HoldInv
  <2> QED BY <1>5, <2>2, <2>3 DEF Begins
<1>6. CASE Unholds
  <2>1. speech.at = "unhold" /\ speech'.at = "judge" /\ UNCHANGED <<voice, slipped>>
    BY <1>0, <1>6 DEF Unholds, Judged, Own
  <2> QED BY <1>0, <1>1, <2>1
<1>7. CASE Weighs
  <2>1. /\ speech.at = "weigh" /\ speech'.at \in {"finish", "idle"} /\ UNCHANGED <<voice, slipped, session>>
        /\ Idle("speech")
    BY <1>0, <1>7 DEF Weighs, Goes, Rest, Own, TodoInv
  <2>2. \A u \in Task : task'[u].hold = task[u].hold
    <3>1. PICK x \in Steps : task' = task \/ Todo("speech", x)
      BY <1>7, Todos DEF Weighs
    <3>2. CASE Todo("speech", x)
      <4>1. Becomes("speech", x, task["speech"].hold)
        BY <1>0, <3>2, TodoBecomes
      <4> QED BY <4>1 DEF Becomes
    <3> QED BY <3>1, <3>2
  <2>3. Holders' = Holders
    BY <2>1, <2>2 DEF Holders, HeldBySession
  <2> QED BY <1>1, <2>1, <2>3
<1>8. CASE EndsReply
  <2>1. speech.at = "end" /\ speech'.at = "idle" /\ Idle("speech") /\ voice' = voice
    BY <1>8 DEF EndsReply, Ready, Rest
  <2>2. CASE Clears("speech", <<"end", "listen">>)
    <3>1. task["speech"].hold = FALSE
      BY <1>0, <2>1, IdleHasNone
    <3>2. slipped' \/ voice'.depth = Cardinality(Holders')
      BY <1>0, <2>1, <2>2, <3>1, Todos, ClearsPasses
    <3> QED BY <1>0, <2>1, <3>2 DEF HoldInv, VoiceInv
  <2>3. CASE UNCHANGED <<session, task, slipped>>
    <3>1. Holders' = Holders
      BY <2>1, <2>3 DEF Holders, HeldBySession
    <3> QED BY <1>1, <2>1, <2>3, <3>1
  <2> QED BY <1>8, <2>2, <2>3 DEF EndsReply
<1> QED BY <1>2, <1>3, <1>4, <1>5, <1>6, <1>7, <1>8 DEF SpeechStep

LEMMA HoldStep == HoldInv /\ [Next]_vars => HoldInv'
<1> SUFFICES ASSUME HoldInv, [Next]_vars PROVE HoldInv'
  OBVIOUS
<1>1. TodoInv' /\ VoiceInv
  BY TodoStep DEF HoldInv
<1>2. CASE UNCHANGED vars
  <2>1. Holders' = Holders
    BY <1>2 DEF vars, Holders, HeldBySession
  <2> QED BY <1>1, <1>2, <2>1 DEF vars, HoldInv, VoiceInv
<1>3. CASE Arrives \/ Puts
  <2>1. UNCHANGED <<session, speech, task, slipped>>
    BY <1>3 DEF Arrives, Puts
  <2>2. Holders' = Holders
    BY <2>1 DEF Holders, HeldBySession
  <2>3. voice' = voice \/ voice' = SetState(voice, "listening")
    BY <1>3 DEF Arrives, Puts
  <2>4. VoiceInv' /\ voice'.depth = voice.depth
    BY <1>1, <2>3, VoiceKept DEF VoiceInv
  <2> QED BY <1>1, <2>1, <2>2, <2>4 DEF HoldInv
<1> QED BY <1>2, <1>3, CancelKeepsHold, StopKeepsHold, SpeechKeepsHold DEF Next

\* Unless a hold slipped, the device is in the speaking state for exactly as
\* long as the session or a task that has cleared it has a hold to end: what
\* reply_voice_cancel, the watchdog and the speech task take from each other
\* between the mutex of the session and the supervisor is ended once.
THEOREM SpeakingHeld == Spec => []SpeakingIsHeld
<1>1. HoldInv => SpeakingIsHeld
  <2> SUFFICES ASSUME HoldInv, ~slipped
               PROVE  voice.state = "speaking" <=> HeldBySession \/ \E t \in Task : task[t].hold
    BY DEF SpeakingIsHeld
  <2>1. voice.state = "speaking" <=> Cardinality(Holders) > 0
    BY DEF HoldInv, VoiceInv
  <2>2. Holders # {} <=> HeldBySession \/ \E t \in Task : task[t].hold
    BY DEF Holders
  <2>3. Cardinality(Holders) > 0 <=> Holders # {}
    <3>1. CASE Holders = {}
      BY <3>1, FS_EmptySet
    <3>2. CASE Holders # {}
      BY <3>2, HoldersFinite, Counts
    <3> QED BY <3>1, <3>2
  <2> QED BY <2>1, <2>2, <2>3
<1> QED BY <1>1, HoldInit, HoldStep, PTL DEF Spec
=============================================================================
