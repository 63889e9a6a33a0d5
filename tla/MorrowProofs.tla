---------------------------- MODULE MorrowProofs ----------------------------
(***************************************************************************)
(* Proofs about the turn coordinator, for every set of devices, requests   *)
(* and HTTP threads, and every bound on a batch:                           *)
(*   - the generation in the database keeps up with the one in memory, in  *)
(*     whatever order the threads' transactions come;                      *)
(*   - every reply is ended or left behind;                                *)
(*   - a cancellation fences speech;                                       *)
(*   - the coordinator implements SpeechFence;                             *)
(*   - the client and the coordinator keep their types and bounds.         *)
(***************************************************************************)
EXTENDS MorrowTurnCoordinator, FiniteSetTheorems, SequenceTheorems, TLAPS

Places == {"idle", "sinks", "wait", "await ready", "drain", "send", "await reset", "retry",
           "switch", "await session"}
Job == [at : Places, job : {"", "cancel", "reset", "switch"}, sinks : SUBSET Device,
        mark : [Device -> Nat], hit : BOOLEAN]

FenceTypeOK ==
    /\ generations \in [Device -> Nat] /\ stored \in [Device -> Nat]
    /\ pending \subseteq Request
    /\ thread \in [Thread -> Job]

\* Only a thread at its cancel sinks has any left, none of them is ahead of
\* memory, and one that carries the newest generation is still to come where
\* the database is behind.
Owes(t, d) == d \in thread[t].sinks /\ thread[t].mark[d] = generations[d]
FenceInv ==
    /\ FenceTypeOK
    /\ \A t \in Thread : thread[t].at # "sinks" => thread[t].sinks = {}
    /\ \A t \in Thread : \A d \in thread[t].sinks : thread[t].mark[d] <= generations[d]
    /\ \A d \in Speaking : /\ stored[d] <= generations[d]
                           /\ stored[d] = generations[d] \/ \E t \in Thread : Owes(t, d)

-----------------------------------------------------------------------------
\* A thread that does nothing has no sink left.
LEMMA FreeJob == Free \in Job /\ Free.sinks = {} /\ Free.at = "idle"
  BY DEF Free, Job, Places

\* Nothing is owed at first.
LEMMA FenceInit == CoordInit => FenceInv
<1> SUFFICES ASSUME CoordInit PROVE FenceInv
  OBVIOUS
<1>2. FenceTypeOK
  BY FreeJob DEF FenceTypeOK, CoordInit
<1>3. ASSUME NEW t \in Thread PROVE thread[t] = Free
  BY DEF CoordInit
<1>4. ASSUME NEW t \in Thread PROVE thread[t].sinks = {}
  BY <1>3, FreeJob
<1>5. ASSUME NEW d \in Speaking PROVE stored[d] = 0 /\ generations[d] = 0
  BY DEF CoordInit, Speaking
<1>6. \A d \in Speaking : stored[d] <= generations[d] /\ stored[d] = generations[d]
  BY <1>5
<1>7. \A t \in Thread : \A d \in thread[t].sinks : thread[t].mark[d] <= generations[d]
  BY <1>4
<1> QED BY <1>2, <1>4, <1>6, <1>7 DEF FenceInv

\* A step that leaves the generations and the threads alone keeps it.
LEMMA FenceStutters ==
    ASSUME FenceInv, UNCHANGED <<generations, stored, thread>>, pending' \subseteq Request
    PROVE  FenceInv'
  BY DEF FenceInv, FenceTypeOK, Owes

\* So does a step of a thread that is through with its sinks.
LEMMA FenceThreadMoves ==
    ASSUME FenceInv, UNCHANGED <<generations, stored, pending>>, NEW t \in Thread,
           thread[t].sinks = {}, NEW j \in Job, j.sinks = {},
           thread' = [thread EXCEPT ![t] = j]
    PROVE  FenceInv'
<1>1. FenceTypeOK'
  BY DEF FenceInv, FenceTypeOK
<1>2. ASSUME NEW u \in Thread PROVE thread'[u] = IF u = t THEN j ELSE thread[u]
  BY DEF FenceInv, FenceTypeOK
<1> QED BY <1>1, <1>2 DEF FenceInv, Owes

\* A thread that moves generations on owes the database what it moved.
LEMMA FenceBegins ==
    ASSUME FenceInv, NEW t \in Thread, NEW job \in {"cancel", "reset", "switch"},
           NEW D \in SUBSET Device, NEW G \in [Device -> Nat], NEW hit \in BOOLEAN,
           \A d \in D : G[d] > generations[d],
           Begins(t, job, D, G, hit)
    PROVE  FenceInv'
<1> DEFINE M == [d \in Device |-> IF d \in D THEN G[d] ELSE 0]
           j == [at |-> "sinks", job |-> job, sinks |-> D \ {Web}, mark |-> M, hit |-> hit]
<1>1. M \in [Device -> Nat]
  OBVIOUS
<1>2. j \in Job
  BY <1>1 DEF Job, Places
<1>3. /\ thread[t] = Free
      /\ generations' = [d \in Device |-> IF d \in D THEN G[d] ELSE generations[d]]
      /\ thread' = [thread EXCEPT ![t] = j]
      /\ UNCHANGED <<stored, pending>>
  BY DEF Begins
<1>4. FenceTypeOK'
  BY <1>2, <1>3 DEF FenceInv, FenceTypeOK
<1>5. ASSUME NEW u \in Thread
      PROVE  /\ thread'[u] = IF u = t THEN j ELSE thread[u]
             /\ thread[u] \in Job
  BY <1>3 DEF FenceInv, FenceTypeOK
<1>6. thread[t].sinks = {}
  BY <1>3, FreeJob
<1>7. ASSUME NEW d \in Device
      PROVE  /\ generations[d] \in Nat /\ stored[d] \in Nat /\ stored'[d] = stored[d]
             /\ generations'[d] = IF d \in D THEN G[d] ELSE generations[d]
             /\ generations'[d] \in Nat /\ generations'[d] >= generations[d]
  BY <1>3 DEF FenceInv, FenceTypeOK
<1>8. ASSUME NEW u \in Thread PROVE thread'[u].at # "sinks" => thread'[u].sinks = {}
  <2>1. j.at = "sinks"
    OBVIOUS
  <2> QED BY <1>5, <2>1 DEF FenceInv
<1>9. ASSUME NEW u \in Thread, NEW d \in thread'[u].sinks
      PROVE  thread'[u].mark[d] <= generations'[d]
  <2>1. CASE u = t
    <3>1. thread'[u] = j
      BY <1>5, <2>1
    <3>2. d \in D /\ thread'[u].mark[d] = G[d]
      BY <3>1, <1>9
    <3> QED BY <1>7, <3>2
  <2>2. CASE u # t
    <3>1. d \in Device /\ thread[u].mark[d] \in Nat /\ thread[u].mark[d] <= generations[d]
      BY <1>5, <1>9, <2>2 DEF FenceInv, Job
    <3>2. thread'[u] = thread[u]
      BY <1>5, <2>2
    <3>3. generations[d] \in Nat /\ generations'[d] \in Nat /\ generations'[d] >= generations[d]
      BY <1>7, <3>1
    <3> QED BY <3>1, <3>2, <3>3
  <2> QED BY <2>1, <2>2
<1>10. ASSUME NEW d \in Speaking
       PROVE  /\ stored'[d] <= generations'[d]
              /\ stored'[d] = generations'[d] \/ \E u \in Thread : Owes(u, d)'
  <2>1. d \in Device /\ d # Web
    BY DEF Speaking
  <2>2. stored'[d] <= generations'[d]
    BY <1>7, <2>1 DEF FenceInv
  <2>3. CASE d \in D
    <3>1. thread'[t] = j
      BY <1>5
    <3>2. d \in thread'[t].sinks /\ thread'[t].mark[d] = generations'[d]
      BY <1>7, <2>1, <2>3, <3>1
    <3> QED BY <2>2, <3>2 DEF Owes
  <2>4. CASE d \notin D
    <3>1. generations'[d] = generations[d] /\ stored'[d] = stored[d]
      BY <1>7, <2>1, <2>4
    <3>2. ASSUME NEW u \in Thread, Owes(u, d) PROVE Owes(u, d)'
      BY <1>5, <1>6, <3>1, <3>2 DEF Owes
    <3> QED BY <2>2, <3>1, <3>2 DEF FenceInv
  <2> QED BY <2>3, <2>4, <2>2
<1> QED BY <1>4, <1>8, <1>9, <1>10 DEF FenceInv

\* The cancel sink of a thread pays what the thread owes for one device.
LEMMA FenceSinks ==
    ASSUME FenceInv, NEW t \in Thread, NEW d \in Speaking, SinkCancels(t, d)
    PROVE  FenceInv'
<1> DEFINE j == [thread[t] EXCEPT !.sinks = @ \ {d}]
<1>1. /\ thread[t].at = "sinks" /\ d \in thread[t].sinks
      /\ stored' = [stored EXCEPT ![d] = Stored(@, thread[t].mark[d])]
      /\ thread' = [thread EXCEPT ![t] = j]
      /\ UNCHANGED <<generations, pending>>
  BY DEF SinkCancels
<1>2. ASSUME NEW u \in Thread PROVE thread[u] \in Job
  BY DEF FenceInv, FenceTypeOK
<1>3. /\ j \in Job /\ j.at = "sinks" /\ j.sinks = thread[t].sinks \ {d}
      /\ j.mark = thread[t].mark
  BY <1>1, <1>2 DEF Job
<1>4. ASSUME NEW u \in Thread PROVE thread'[u] = IF u = t THEN j ELSE thread[u]
  BY <1>1 DEF FenceInv, FenceTypeOK
<1>5. /\ d \in Device /\ generations[d] \in Nat /\ stored[d] \in Nat
      /\ thread[t].mark[d] \in Nat /\ thread[t].mark[d] <= generations[d]
  BY <1>1, <1>2 DEF FenceInv, FenceTypeOK, Speaking, Job
<1>6. ASSUME NEW x \in Device
      PROVE  stored'[x] = IF x = d THEN Stored(stored[d], thread[t].mark[d]) ELSE stored[x]
  BY <1>1 DEF FenceInv, FenceTypeOK
<1>7. FenceTypeOK'
  BY <1>1, <1>3, <1>5 DEF FenceInv, FenceTypeOK, Stored
<1>8. ASSUME NEW u \in Thread
      PROVE  /\ thread'[u].at # "sinks" => thread'[u].sinks = {}
             /\ \A x \in thread'[u].sinks : thread'[u].mark[x] <= generations'[x]
  BY <1>1, <1>3, <1>4 DEF FenceInv
<1>9. ASSUME NEW x \in Speaking
      PROVE  /\ stored'[x] <= generations'[x]
             /\ stored'[x] = generations'[x] \/ \E u \in Thread : Owes(u, x)'
  <2>1. CASE x = d
    <3>1. stored'[d] = Stored(stored[d], thread[t].mark[d]) /\ generations'[d] = generations[d]
      BY <1>1, <1>5, <1>6
    <3>2. stored[d] <= generations[d]
      BY DEF FenceInv
    <3>3. CASE thread[t].mark[d] = generations[d]
      BY <1>5, <2>1, <3>1, <3>2, <3>3 DEF Stored
    <3>4. CASE thread[t].mark[d] # generations[d]
      <4>1. stored'[d] <= generations'[d]
        BY <1>5, <3>1, <3>2 DEF Stored
      <4>2. CASE stored[d] = generations[d]
        BY <1>5, <2>1, <3>1, <4>1, <4>2 DEF Stored
      <4>3. CASE stored[d] # generations[d]
        <5>1. PICK u \in Thread : Owes(u, d)
          BY <4>3 DEF FenceInv
        <5>2. u # t
          BY <3>4, <5>1 DEF Owes
        <5>3. Owes(u, d)'
          BY <1>4, <3>1, <5>1, <5>2 DEF Owes
        <5> QED BY <2>1, <4>1, <5>3
      <4> QED BY <4>2, <4>3
    <3> QED BY <3>3, <3>4
  <2>2. CASE x # d
    <3>1. stored'[x] = stored[x] /\ generations'[x] = generations[x]
      BY <1>1, <1>6, <2>2 DEF Speaking
    <3>2. ASSUME NEW u \in Thread, Owes(u, x) PROVE Owes(u, x)'
      <4>1. thread'[u].mark = thread[u].mark /\ x \in thread'[u].sinks
        BY <1>3, <1>4, <2>2, <3>2 DEF Owes
      <4> QED BY <3>1, <3>2, <4>1 DEF Owes
    <3> QED BY <3>1, <3>2 DEF FenceInv
  <2> QED BY <2>1, <2>2
<1> QED BY <1>7, <1>8, <1>9 DEF FenceInv

-----------------------------------------------------------------------------
(* One step per action.                                                    *)

Still == UNCHANGED <<generations, stored, thread>> /\ pending' \subseteq Request

\* Submissions and the clock leave the fence alone.
LEMMA SubmitIsStill ==
    ASSUME FenceInv, NEW r \in Request, SubmitCheck(r) \/ SubmitPut(r) \/ Expires(r)
    PROVE  Still
<1>0. pending \subseteq Request
  BY DEF FenceInv, FenceTypeOK
<1>1. CASE SubmitCheck(r)
  BY <1>0, <1>1 DEF SubmitCheck, Still
<1>2. CASE SubmitPut(r)
  BY <1>0, <1>2 DEF SubmitPut, Still
<1>3. CASE Expires(r)
  BY <1>0, <1>3 DEF Expires, Still
<1> QED BY <1>1, <1>2, <1>3

\* So does the worker, which at most takes a request out of the pending ones.
LEMMA WorkerIsStill ==
    ASSUME FenceInv, Worker
    PROVE  Still
<1>0. pending \subseteq Request
  BY DEF FenceInv, FenceTypeOK
<1>1. CASE WorkerTake
  BY <1>0, <1>1 DEF WorkerTake, Still
<1>2. CASE WorkerAwaitReady
  BY <1>0, <1>2 DEF WorkerAwaitReady, OnlyWorker, sharedVars, Still
<1>3. CASE WorkerActivate
  BY <1>0, <1>3 DEF WorkerActivate, Still
<1>4. CASE WorkerDrain
  BY <1>0, <1>4 DEF WorkerDrain, OnlyWorker, sharedVars, Still
<1>5. CASE WorkerStart
  BY <1>0, <1>5 DEF WorkerStart, OnlyWorker, sharedVars, Still
<1>6. CASE WorkerStops
  BY <1>0, <1>6 DEF WorkerStops, OnlyWorker, sharedVars, Still
<1>7. CASE WorkerTimesOut
  BY <1>0, <1>7 DEF WorkerTimesOut, OnlyWorker, sharedVars, Still
<1>8. CASE WorkerReads
  BY <1>0, <1>8 DEF WorkerReads, OnlyWorker, sharedVars, Still
<1>9. CASE WorkerDeliver
  BY <1>0, <1>9 DEF WorkerDeliver, OnlyWorker, sharedVars, Still
<1>10. CASE WorkerWrite
  BY <1>0, <1>10 DEF WorkerWrite, sharedVars, Still
<1>11. CASE WorkerFinish
  BY <1>0, <1>11 DEF WorkerFinish, Still
<1>12. CASE WorkerReplyEnd
  BY <1>0, <1>12 DEF WorkerReplyEnd, Pops, OnlyPops, Still
<1>13. CASE WorkerWriteEnd
  BY <1>0, <1>13 DEF WorkerWriteEnd, Pops, OnlyPops, Still
<1> QED BY <1>1, <1>2, <1>3, <1>4, <1>5, <1>6, <1>7, <1>8, <1>9, <1>10, <1>11, <1>12,
           <1>13 DEF Worker

\* A job that begins moves the generations of its devices on.
LEMMA CancelKeepsFence ==
    ASSUME FenceInv, NEW t \in Thread, NEW d \in Speaking,
           \/ CancelDevice(t, d)
           \/ \E g \in 0 .. MaxGeneration : SyncDeviceGeneration(t, d, g)
    PROVE  FenceInv'
<1>0. {d} \in SUBSET Device /\ d \in Device /\ generations \in [Device -> Nat]
  BY DEF FenceInv, FenceTypeOK, Speaking
<1>1. CASE CancelDevice(t, d)
  <2>1. Next1 \in [Device -> Nat] /\ Next1[d] > generations[d]
    BY <1>0 DEF Next1
  <2> QED BY <1>0, <1>1, <2>1, FenceBegins DEF CancelDevice
<1>2. CASE \E g \in 0 .. MaxGeneration : SyncDeviceGeneration(t, d, g)
  <2>1. PICK g \in 0 .. MaxGeneration : SyncDeviceGeneration(t, d, g)
    BY <1>2
  <2> DEFINE G == [x \in Device |-> g]
             hit == active # NoRequest /\ DeviceOf[active] = d /\ generationOf[active] < g
  <2>2. G \in [Device -> Nat] /\ G[d] > generations[d] /\ Begins(t, "cancel", {d}, G, hit)
    BY <1>0, <2>1, CoordinatorAssumption DEF SyncDeviceGeneration, CoordinatorAssumption
  <2> QED BY <1>0, <2>2, FenceBegins
<1> QED BY <1>1, <1>2

LEMMA TransitionKeepsFence ==
    ASSUME FenceInv, NEW t \in Thread, NEW job \in {"reset", "switch"},
           BeginTransition(t, job)
    PROVE  FenceInv'
<1>1. Targets \in SUBSET Device /\ generations \in [Device -> Nat]
  BY CoordinatorAssumption DEF CoordinatorAssumption, FenceInv, FenceTypeOK, Targets, Speaking
<1>2. Next1 \in [Device -> Nat] /\ \A d \in Targets : Next1[d] > generations[d]
  BY <1>1 DEF Next1
<1> QED BY <1>1, <1>2, FenceBegins DEF BeginTransition

\* What a thread that goes on or ends leaves of its job.
LEMMA ThreadGoesKeepsFence ==
    ASSUME FenceInv, NEW t \in Thread, thread[t].sinks = {}, NEW at \in Places,
           ThreadGoes(t, at), UNCHANGED <<generations, stored, pending>>
    PROVE  FenceInv'
<1> DEFINE j == [thread[t] EXCEPT !.at = at]
<1>1. thread[t] \in Job
  BY DEF FenceInv, FenceTypeOK
<1>2. j \in Job /\ j.sinks = {}
  BY <1>1 DEF Job
<1>3. thread' = [thread EXCEPT ![t] = j]
  BY DEF ThreadGoes
<1> QED BY <1>2, <1>3, FenceThreadMoves

LEMMA ThreadEndsKeepsFence ==
    ASSUME FenceInv, NEW t \in Thread, thread[t].sinks = {},
           thread' = [thread EXCEPT ![t] = Free], UNCHANGED <<generations, stored, pending>>
    PROVE  FenceInv'
  BY FreeJob, FenceThreadMoves

\* Every step of a thread: it pays a sink, or has paid them all.
LEMMA ThreadKeepsFence ==
    ASSUME FenceInv, NEW t \in Thread, ThreadStep(t)
    PROVE  FenceInv'
<1> USE DEF Places
<1>1. CASE \E d \in Speaking : SinkCancels(t, d)
  BY <1>1, FenceSinks
<1>2. ASSUME thread[t].at # "sinks" PROVE thread[t].sinks = {}
  BY <1>2 DEF FenceInv
<1>3. CASE TellMorrow(t)
  <2>1. thread[t].sinks = {} /\ UNCHANGED <<generations, stored, pending>>
    BY <1>3 DEF TellMorrow, OnlyThread, sharedVars
  <2>2. \/ thread' = [thread EXCEPT ![t] = Free]
        \/ thread' = [thread EXCEPT ![t] = [thread[t] EXCEPT !.at = "wait"]]
    <3>1. CASE AfterCancelTurn(t)
      BY <3>1 DEF AfterCancelTurn
    <3>2. CASE thread' = [thread EXCEPT ![t] = Free]
      BY <3>2
    <3> QED BY <1>3, <3>1, <3>2 DEF TellMorrow
  <2>3. CASE thread' = [thread EXCEPT ![t] = [thread[t] EXCEPT !.at = "wait"]]
    <3>1. ThreadGoes(t, "wait")
      BY <2>3 DEF ThreadGoes
    <3> QED BY <2>1, <3>1, ThreadGoesKeepsFence
  <2> QED BY <2>1, <2>2, <2>3, ThreadEndsKeepsFence
<1>4. CASE AwaitNoTurn(t)
  <2>1. /\ thread[t].sinks = {} /\ UNCHANGED <<generations, stored, pending>>
        /\ ThreadGoes(t, "await ready") \/ ThreadGoes(t, "switch")
    BY <1>2, <1>4 DEF AwaitNoTurn, OnlyThread, sharedVars
  <2> QED BY <2>1, ThreadGoesKeepsFence
<1>5. CASE GiveUp(t) \/ SwitchAwaits(t)
  <2>1. thread[t].sinks = {} /\ EndTransition(t)
    BY <1>2, <1>5 DEF GiveUp, SwitchAwaits
  <2> QED BY <2>1, ThreadEndsKeepsFence DEF EndTransition
<1>6. CASE ResetAwaitReady(t) \/ ResetDrain(t) \/ SwitchClient(t)
  <2>1. /\ thread[t].sinks = {} /\ UNCHANGED <<generations, stored, pending>>
        /\ \E at \in Places : ThreadGoes(t, at)
    BY <1>2, <1>6 DEF ResetAwaitReady, ResetDrain, SwitchClient, OnlyThread, sharedVars
  <2> QED BY <2>1, ThreadGoesKeepsFence
<1>7. CASE ResetSend(t) \/ ResetRetries(t)
  <2>1. /\ thread[t].sinks = {}
        /\ \/ OnlyThread /\ \E at \in Places : ThreadGoes(t, at)
           \/ EndTransition(t)
    BY <1>2, <1>7 DEF ResetSend, ResetRetries
  <2>2. CASE EndTransition(t)
    BY <2>1, <2>2, ThreadEndsKeepsFence DEF EndTransition
  <2>3. CASE OnlyThread /\ \E at \in Places : ThreadGoes(t, at)
    BY <2>1, <2>3, ThreadGoesKeepsFence DEF OnlyThread, sharedVars
  <2> QED BY <2>1, <2>2, <2>3
<1>8. CASE ResetReads(t)
  <2>1. /\ thread[t].sinks = {}
        /\ \/ OnlyThread /\ (ThreadGoes(t, "retry") \/ UNCHANGED thread)
           \/ EndTransition(t)
    BY <1>2, <1>8 DEF ResetReads
  <2>2. CASE EndTransition(t)
    BY <2>1, <2>2, ThreadEndsKeepsFence DEF EndTransition
  <2>3. CASE OnlyThread /\ ThreadGoes(t, "retry")
    BY <2>1, <2>3, ThreadGoesKeepsFence DEF OnlyThread, sharedVars
  <2>4. CASE OnlyThread /\ UNCHANGED thread
    BY <2>4, FenceStutters DEF OnlyThread, sharedVars, FenceInv, FenceTypeOK
  <2> QED BY <2>1, <2>2, <2>3, <2>4
<1> QED BY <1>1, <1>3, <1>4, <1>5, <1>6, <1>7, <1>8 DEF ThreadStep

LEMMA FenceNext == FenceInv /\ [CoordNext]_coordVars => FenceInv'
<1> SUFFICES ASSUME FenceInv, [CoordNext]_coordVars PROVE FenceInv'
  OBVIOUS
<1>1. CASE \E r \in Request : SubmitCheck(r) \/ SubmitPut(r) \/ Expires(r)
  BY <1>1, SubmitIsStill, FenceStutters DEF Still
<1>2. CASE Worker
  BY <1>2, WorkerIsStill, FenceStutters DEF Still
<1>3. CASE \E t \in Thread, d \in Speaking :
              \/ CancelDevice(t, d)
              \/ \E g \in 0 .. MaxGeneration : SyncDeviceGeneration(t, d, g)
  BY <1>3, CancelKeepsFence
<1>4. CASE \E t \in Thread, job \in {"reset", "switch"} : BeginTransition(t, job)
  BY <1>4, TransitionKeepsFence
<1>5. CASE \E t \in Thread : ThreadStep(t)
  BY <1>5, ThreadKeepsFence
<1>6. CASE (Reader \/ Agent) /\ UNCHANGED <<sharedVars, turnVars, thread>>
  BY <1>6, FenceStutters DEF sharedVars, FenceInv, FenceTypeOK
<1>7. CASE UNCHANGED coordVars
  BY <1>7, FenceStutters DEF coordVars, sharedVars, FenceInv, FenceTypeOK
<1> QED BY <1>1, <1>2, <1>3, <1>4, <1>5, <1>6, <1>7 DEF CoordNext

-----------------------------------------------------------------------------
\* The database is never ahead of the generation in memory, and equal to it
\* once the cancel sinks of the device are through: a restart reads back the
\* newest fence, whatever threads cancelled at once.
THEOREM StoredGenerationKeepsUp == CoordSpec => []StoredKeepsUp
<1>1. FenceInv => StoredKeepsUp
  BY DEF FenceInv, StoredKeepsUp, Owes
<1> QED BY <1>1, FenceInit, FenceNext, PTL DEF CoordSpec

-----------------------------------------------------------------------------
(* The end of every reply.                                                 *)

\* A request is of its device's generation or of an older one, which it stays:
\* that is what makes the early return of _emit_reply_end safe.
ReplyTypeOK ==
    /\ generationOf \in [Request -> Nat]
    /\ submission \in [Request -> {"none", "checked", "accepted", "refused"}]
    /\ replyEnd \in [Request -> {"none", "live", "cancelled"}]
NoneIsNewer == \A r \in Request : generationOf[r] <= generations[DeviceOf[r]]
ReplyInv == ReplyTypeOK /\ NoneIsNewer /\ RepliesEnd

LEMMA ReplyInit == CoordInit => ReplyInv
<1> SUFFICES ASSUME CoordInit PROVE ReplyInv
  OBVIOUS
<1>1. ReplyTypeOK
  BY DEF CoordInit, ReplyTypeOK
<1>2. ASSUME NEW r \in Request PROVE generationOf[r] <= generations[DeviceOf[r]]
  <2>1. generationOf[r] = 0 /\ DeviceOf[r] \in Device
    BY CoordinatorAssumption DEF CoordinatorAssumption, CoordInit
  <2>2. generations[DeviceOf[r]] = 0
    BY <2>1 DEF CoordInit
  <2> QED BY <2>1, <2>2
<1>3. RepliesEnd
  BY DEF CoordInit, RepliesEnd
<1> QED BY <1>1, <1>2, <1>3 DEF ReplyInv, NoneIsNewer

\* No step takes a generation back.
Grows == \A d \in Device : generations[d] \in Nat /\ generations'[d] \in Nat
                              /\ generations[d] <= generations'[d]

LEMMA StillGrows ==
    ASSUME FenceInv, generations' = generations
    PROVE  Grows
  BY DEF FenceInv, FenceTypeOK, Grows

LEMMA BeginsGrows ==
    ASSUME FenceInv, NEW t, NEW job, NEW D \in SUBSET Device, NEW G \in [Device -> Nat],
           NEW hit, \A d \in D : G[d] > generations[d], Begins(t, job, D, G, hit)
    PROVE  Grows
  BY DEF FenceInv, FenceTypeOK, Grows, Begins

LEMMA JobsGrow ==
    ASSUME FenceInv, NEW t,
           \/ \E d \in Speaking : \/ CancelDevice(t, d)
                                  \/ \E g \in 0 .. MaxGeneration : SyncDeviceGeneration(t, d, g)
           \/ \E job \in {"reset", "switch"} : BeginTransition(t, job)
    PROVE  Grows
<1>0. /\ generations \in [Device -> Nat] /\ Targets \in SUBSET Device
      /\ Next1 \in [Device -> Nat] /\ \A d \in Device : Next1[d] > generations[d]
  BY CoordinatorAssumption
     DEF CoordinatorAssumption, FenceInv, FenceTypeOK, Targets, Speaking, Next1
<1>1. CASE \E d \in Speaking : CancelDevice(t, d)
  BY <1>0, <1>1, BeginsGrows DEF CancelDevice, Speaking
<1>2. CASE \E d \in Speaking, g \in 0 .. MaxGeneration : SyncDeviceGeneration(t, d, g)
  <2>1. PICK d \in Speaking, g \in 0 .. MaxGeneration : SyncDeviceGeneration(t, d, g)
    BY <1>2
  <2> DEFINE G == [x \in Device |-> g]
  <2>2. {d} \in SUBSET Device /\ G \in [Device -> Nat] /\ G[d] > generations[d]
    BY <2>1, CoordinatorAssumption DEF SyncDeviceGeneration, CoordinatorAssumption, Speaking
  <2> QED BY <2>1, <2>2, BeginsGrows DEF SyncDeviceGeneration
<1>3. CASE \E job \in {"reset", "switch"} : BeginTransition(t, job)
  BY <1>0, <1>3, BeginsGrows DEF BeginTransition
<1> QED BY <1>1, <1>2, <1>3

\* A step that submits nothing and ends no turn keeps the invariant.
LEMMA ReplyKept ==
    ASSUME ReplyInv, Grows, UNCHANGED <<generationOf, submission, pending>>,
           replyEnd' \in [Request -> {"none", "live", "cancelled"}],
           \A r \in Request : replyEnd[r] # "none" => replyEnd'[r] # "none"
    PROVE  ReplyInv'
<1>1. ReplyTypeOK'
  BY DEF ReplyInv, ReplyTypeOK
<1>2. ASSUME NEW r \in Request
      PROVE  /\ generationOf'[r] <= generations'[DeviceOf[r]]
             /\ ~Current(r) => ~Current(r)'
  BY CoordinatorAssumption
     DEF CoordinatorAssumption, ReplyInv, ReplyTypeOK, NoneIsNewer, Grows, Current
<1> QED BY <1>1, <1>2 DEF ReplyInv, NoneIsNewer, RepliesEnd

\* A request takes the generation of its device before it is accepted, and is
\* pending from then on.
LEMMA SubmitKeepsReply ==
    ASSUME FenceInv, ReplyInv, NEW r \in Request, SubmitCheck(r) \/ SubmitPut(r) \/ Expires(r)
    PROVE  ReplyInv'
<1>0. /\ generations \in [Device -> Nat] /\ DeviceOf \in [Request -> Device] /\ ReplyTypeOK
      /\ UNCHANGED <<generations, replyEnd>>
  BY CoordinatorAssumption DEF CoordinatorAssumption, FenceInv, FenceTypeOK, ReplyInv,
     SubmitCheck, SubmitPut, Expires, turnVars
<1>1. CASE SubmitCheck(r)
  <2>1. /\ submission[r] = "none" /\ submission'[r] # "accepted"
        /\ generationOf'[r] = generations[DeviceOf[r]] /\ UNCHANGED pending
        /\ \A q \in Request \ {r} : submission'[q] = submission[q] /\ generationOf'[q] = generationOf[q]
    BY <1>0, <1>1 DEF SubmitCheck, ReplyTypeOK
  <2>2. ReplyTypeOK'
    BY <1>0, <1>1 DEF SubmitCheck, ReplyTypeOK
  <2>3. NoneIsNewer'
    BY <1>0, <2>1, <2>2 DEF ReplyInv, NoneIsNewer, ReplyTypeOK
  <2>4. RepliesEnd'
    BY <1>0, <2>1 DEF ReplyInv, RepliesEnd, Current
  <2> QED BY <2>2, <2>3, <2>4 DEF ReplyInv
<1>2. CASE SubmitPut(r)
  <2>1. /\ UNCHANGED generationOf
        /\ submission'[r] = "accepted" => r \in pending'
        /\ \A q \in Request \ {r} : submission'[q] = submission[q] /\ (q \in pending' <=> q \in pending)
    BY <1>0, <1>2 DEF SubmitPut, ReplyTypeOK
  <2>2. ReplyTypeOK' /\ NoneIsNewer'
    BY <1>0, <1>2 DEF SubmitPut, ReplyTypeOK, ReplyInv, NoneIsNewer
  <2>3. RepliesEnd'
    BY <1>0, <2>1 DEF ReplyInv, RepliesEnd, Current
  <2> QED BY <2>2, <2>3 DEF ReplyInv
<1>3. CASE Expires(r)
  <2>1. UNCHANGED <<generationOf, submission, pending>>
    BY <1>3 DEF Expires
  <2> QED BY <1>0, <2>1, StillGrows, ReplyKept DEF ReplyTypeOK
<1> QED BY <1>1, <1>2, <1>3

\* The worker lets go of a request that has its reply end, or that is not to
\* have one: the page's, or one of an older generation.
LEMMA WorkerKeepsReply ==
    ASSUME FenceInv, ReplyInv, Worker
    PROVE  ReplyInv'
<1>0. ReplyTypeOK /\ Grows
  BY WorkerIsStill, StillGrows DEF Still, ReplyInv
<1>1. CASE WorkerReplyEnd
  <2>1. /\ UNCHANGED <<generationOf, submission, generations, replyEnd>>
        /\ \/ UNCHANGED pending
           \/ ~EndsReply(worker.req) /\ pending' = pending \ {worker.req}
    BY <1>1 DEF WorkerReplyEnd, Pops, OnlyPops
  <2>2. CASE UNCHANGED pending
    BY <1>0, <2>1, <2>2, ReplyKept DEF ReplyTypeOK
  <2>3. CASE ~EndsReply(worker.req) /\ pending' = pending \ {worker.req}
    BY <1>0, <2>1, <2>3
       DEF ReplyInv, ReplyTypeOK, NoneIsNewer, RepliesEnd, EndsReply, Current
  <2> QED BY <2>1, <2>2, <2>3
<1>2. CASE WorkerWriteEnd
  <2>1. /\ UNCHANGED <<generationOf, submission, generations>>
        /\ replyEnd' = [replyEnd EXCEPT ![worker.req] = "live"]
        /\ pending' = pending \ {worker.req}
    BY <1>2 DEF WorkerWriteEnd, Pops, OnlyPops
  <2>2. ASSUME NEW r \in Request
        PROVE  replyEnd'[r] = IF r = worker.req THEN "live" ELSE replyEnd[r]
    BY <1>0, <2>1 DEF ReplyTypeOK
  <2>3. ReplyTypeOK'
    BY <1>0, <2>1 DEF ReplyTypeOK
  <2> QED BY <2>1, <2>2, <2>3 DEF ReplyInv, NoneIsNewer, RepliesEnd, Current
<1>3. CASE ~WorkerReplyEnd /\ ~WorkerWriteEnd
  <2>1. UNCHANGED <<generationOf, submission, pending, replyEnd>>
    BY <1>3 DEF Worker, WorkerTake, WorkerAwaitReady, WorkerActivate, WorkerDrain, WorkerStart,
       WorkerStops, WorkerTimesOut, WorkerReads, WorkerDeliver, WorkerWrite, WorkerFinish,
       OnlyWorker, sharedVars
  <2> QED BY <1>0, <2>1, ReplyKept DEF ReplyTypeOK
<1> QED BY <1>1, <1>2, <1>3

\* A cancel sink leaves a reply end that is there a reply end that was there.
LEMMA ThreadKeepsReply ==
    ASSUME FenceInv, ReplyInv, NEW t \in Thread, ThreadStep(t)
    PROVE  ReplyInv'
<1>0. ReplyTypeOK
  BY DEF ReplyInv
<1>1. CASE \E d \in Speaking : SinkCancels(t, d)
  <2>1. PICK d \in Speaking : SinkCancels(t, d)
    BY <1>1
  <2> DEFINE older(r) == DeviceOf[r] = d /\ generationOf[r] < thread[t].mark[d]
  <2>2. /\ UNCHANGED <<generationOf, submission, pending, generations>>
        /\ replyEnd' = [r \in Request |->
                            IF older(r) /\ replyEnd[r] = "live" THEN "cancelled" ELSE replyEnd[r]]
    BY <2>1 DEF SinkCancels
  <2>3. replyEnd' \in [Request -> {"none", "live", "cancelled"}]
    BY <1>0, <2>2 DEF ReplyTypeOK
  <2>4. \A r \in Request : replyEnd[r] # "none" => replyEnd'[r] # "none"
    BY <2>2
  <2> QED BY <2>2, <2>3, <2>4, StillGrows, ReplyKept
<1>2. CASE ~\E d \in Speaking : SinkCancels(t, d)
  <2>1. UNCHANGED <<generationOf, submission, pending, generations, replyEnd>>
    BY <1>2 DEF ThreadStep, TellMorrow, AwaitNoTurn, GiveUp, ResetAwaitReady, ResetDrain,
       ResetSend, ResetReads, ResetRetries, SwitchClient, SwitchAwaits, EndTransition,
       OnlyThread, sharedVars, turnVars
  <2> QED BY <1>0, <2>1, StillGrows, ReplyKept DEF ReplyTypeOK
<1> QED BY <1>1, <1>2

LEMMA ReplyNext == FenceInv /\ ReplyInv /\ [CoordNext]_coordVars => ReplyInv'
<1> SUFFICES ASSUME FenceInv, ReplyInv, [CoordNext]_coordVars PROVE ReplyInv'
  OBVIOUS
<1>1. CASE \E r \in Request : SubmitCheck(r) \/ SubmitPut(r) \/ Expires(r)
  BY <1>1, SubmitKeepsReply
<1>2. CASE Worker
  BY <1>2, WorkerKeepsReply
<1>3. CASE \E t \in Thread : \/ \E d \in Speaking :
                                  \/ CancelDevice(t, d)
                                  \/ \E g \in 0 .. MaxGeneration : SyncDeviceGeneration(t, d, g)
                            \/ \E job \in {"reset", "switch"} : BeginTransition(t, job)
  <2>1. Grows
    BY <1>3, JobsGrow
  <2>2. UNCHANGED <<generationOf, submission, pending, replyEnd>>
    BY <1>3 DEF CancelDevice, SyncDeviceGeneration, BeginTransition, Begins, turnVars
  <2> QED BY <2>1, <2>2, ReplyKept DEF ReplyInv, ReplyTypeOK
<1>4. CASE \E t \in Thread : ThreadStep(t)
  BY <1>4, ThreadKeepsReply
<1>5. CASE UNCHANGED <<sharedVars, turnVars, thread>>
  BY <1>5, StillGrows, ReplyKept DEF sharedVars, turnVars, ReplyInv, ReplyTypeOK
<1>6. CASE UNCHANGED coordVars
  BY <1>5, <1>6 DEF coordVars
<1> QED BY <1>1, <1>2, <1>3, <1>4, <1>5, <1>6 DEF CoordNext

\* Every accepted request of a device that has left the coordinator has had
\* its reply end written, or is of a generation the device has left behind.
THEOREM EveryReplyEnds == CoordSpec => []RepliesEnd
<1>1. ReplyInv => RepliesEnd
  BY DEF ReplyInv
<1> QED BY <1>1, FenceInit, FenceNext, ReplyInit, ReplyNext, PTL DEF CoordSpec

-----------------------------------------------------------------------------
(* The fence: which speech an older request may still have, and that the    *)
(* current one is left alone.                                               *)

\* What is read of Morrow's events is of some set X, whatever Morrow sends.
Row(X) == [of : X, live : BOOLEAN]
Stations == {"idle", "await ready", "activate", "drain", "start", "loop", "deliver", "write", "finish",
             "reply end", "write end"}
WorkerIn(X) == [at : Stations, req : Request \cup {NoRequest}, batch : X, left : Nat, tail : X,
                last : BOOLEAN]
SpeechTypeIn(X) ==
    /\ NoRequest \in X
    /\ worker \in WorkerIn(X)
    /\ segments \in [Request -> Seq(Row(X))]
SpeechTypeOK == \E X : SpeechTypeIn(X)

\* The worker runs requests that were accepted, and only these have speech.
QueueAccepted ==
    /\ requests \in Seq(Request)
    /\ \A i \in 1 .. Len(requests) : submission[requests[i]] = "accepted"
WorkerAccepted ==
    worker.at # "idle" => worker.req \in Request /\ submission[worker.req] = "accepted"
Unspoken ==
    \A r \in Request :
        submission[r] # "accepted" => segments[r] = <<>> /\ replyEnd[r] = "none"

BatchBound == worker.at = "write" => worker.left \in 1 .. MaxBatch

\* The two parts of SpeechIsFenced, the second with what the worker, if it
\* was on its way to write when the fence came, may still add to it.
Kept(r) == Current(r) => LiveRows(r) = DOMAIN segments[r] /\ replyEnd[r] # "cancelled"
Behind(r) == generationOf[r] < stored[DeviceOf[r]]
Writes(r) == worker.req = r /\ worker.at = "write"
WritesEnd(r) == worker.req = r /\ worker.at = "write end"
Rest(r) ==
    /\ IsFiniteSet(LiveRows(r)) /\ Cardinality(LiveRows(r)) <= MaxBatch
    /\ replyEnd[r] = "live" => LiveRows(r) = {}
    /\ Writes(r) => /\ Cardinality(LiveRows(r)) + worker.left <= MaxBatch
                    /\ replyEnd[r] # "live"
    /\ WritesEnd(r) => LiveRows(r) = {}
Fenced(r) == Behind(r) => Rest(r)

SpeechInv ==
    /\ SpeechTypeOK
    /\ QueueAccepted /\ WorkerAccepted /\ Unspoken /\ BatchBound
    /\ \A r \in Request : Kept(r) /\ Fenced(r)

-----------------------------------------------------------------------------
\* Nothing is said at first.
LEMMA SpeechInit == CoordInit => SpeechInv
<1> SUFFICES ASSUME CoordInit PROVE SpeechInv
  OBVIOUS
<1>1. SpeechTypeIn({NoRequest})
  <2>1. worker \in WorkerIn({NoRequest})
    BY DEF CoordInit, Idle, WorkerIn, Stations
  <2>2. << >> \in Seq(Row({NoRequest}))
    OBVIOUS
  <2> QED BY <2>1, <2>2 DEF CoordInit, SpeechTypeIn
<1>2. QueueAccepted /\ WorkerAccepted /\ Unspoken /\ BatchBound
  BY DEF CoordInit, Idle, QueueAccepted, WorkerAccepted, Unspoken, BatchBound
<1>3. ASSUME NEW r \in Request PROVE Kept(r) /\ Fenced(r)
  <2>1. LiveRows(r) = {} /\ DOMAIN segments[r] = {} /\ replyEnd[r] = "none"
    BY DEF CoordInit, LiveRows
  <2>2. generationOf[r] = 0 /\ stored[DeviceOf[r]] = 0
    BY CoordinatorAssumption DEF CoordInit, CoordinatorAssumption
  <2> QED BY <2>1, <2>2 DEF Kept, Fenced, Behind
<1> QED BY <1>1, <1>2, <1>3 DEF SpeechInv, SpeechTypeOK

\* A request that is current is not behind the database.
LEMMA CurrentIsAhead ==
    ASSUME FenceInv, ReplyInv, NEW r \in Request, DeviceOf[r] # Web, Current(r)
    PROVE  ~Behind(r)
<1>1. DeviceOf[r] \in Speaking
  BY CoordinatorAssumption DEF CoordinatorAssumption, Speaking
<1>2. /\ stored[DeviceOf[r]] \in Nat /\ generations[DeviceOf[r]] \in Nat
      /\ stored[DeviceOf[r]] <= generations[DeviceOf[r]]
  BY <1>1 DEF FenceInv, FenceTypeOK, Speaking
<1> QED BY <1>2 DEF Current, Behind

\* A request that is not of its device's generation never will be again.
LEMMA OldStaysOld ==
    ASSUME FenceInv, ReplyInv, Grows, NEW r \in Request, Current(r)',
           generationOf'[r] = generationOf[r]
    PROVE  Current(r)
<1>1. DeviceOf[r] \in Device /\ generationOf[r] \in Nat
  BY CoordinatorAssumption DEF CoordinatorAssumption, ReplyInv, ReplyTypeOK
<1>2. generationOf[r] <= generations[DeviceOf[r]] /\ generationOf[r] = generations'[DeviceOf[r]]
  BY DEF ReplyInv, NoneIsNewer, Current
<1> QED BY <1>1, <1>2 DEF Grows, Current

\* Speech that stays as it is stays kept and fenced, if the worker sets out to
\* write only for a current request.
SetsOut(r) == DeviceOf[r] # Web /\ Current(r)
LEMMA RequestKept ==
    ASSUME FenceInv, ReplyInv, Grows, NEW r \in Request, Kept(r), Fenced(r),
           segments'[r] = segments[r], replyEnd'[r] = replyEnd[r],
           generationOf'[r] = generationOf[r], stored' = stored,
           Writes(r)' => (Writes(r) /\ worker'.left = worker.left) \/ SetsOut(r),
           WritesEnd(r)' => WritesEnd(r) \/ SetsOut(r)
    PROVE  Kept(r)' /\ Fenced(r)'
<1>1. LiveRows(r)' = LiveRows(r)
  BY DEF LiveRows
<1>2. Kept(r)'
  BY <1>1, OldStaysOld DEF Kept
<1>3. Behind(r)' => Behind(r)
  BY DEF Behind
<1>4. Behind(r)' => ~SetsOut(r)
  BY <1>3, CurrentIsAhead DEF SetsOut
<1>5. Fenced(r)'
  BY <1>1, <1>3, <1>4 DEF Fenced, Rest
<1> QED BY <1>2, <1>5

\* What Morrow sends widens X.
LEMMA TypeWidens ==
    ASSUME NEW X, NEW Y, SpeechTypeIn(X), X \subseteq Y
    PROVE  SpeechTypeIn(Y)
<1>1. Row(X) \subseteq Row(Y) /\ WorkerIn(X) \subseteq WorkerIn(Y)
  BY DEF Row, WorkerIn
<1>2. Seq(Row(X)) \subseteq Seq(Row(Y))
  BY <1>1, SeqMonotonic
<1> QED BY <1>1, <1>2 DEF SpeechTypeIn

-----------------------------------------------------------------------------
(* Steps that write and take back no speech.                               *)

NoSpeech == UNCHANGED <<segments, replyEnd, stored, submission, generationOf>>

\* A step that is none of the worker, and moves at most generations.
LEMMA SpeechStays ==
    ASSUME FenceInv, ReplyInv, SpeechInv, Grows, NoSpeech, UNCHANGED <<worker, requests>>
    PROVE  SpeechInv'
<1>1. (SpeechTypeOK /\ QueueAccepted /\ WorkerAccepted /\ Unspoken /\ BatchBound)'
  BY DEF SpeechInv, NoSpeech, SpeechTypeOK, SpeechTypeIn, QueueAccepted, WorkerAccepted, Unspoken, BatchBound
<1>2. ASSUME NEW r \in Request PROVE Kept(r)' /\ Fenced(r)'
  BY RequestKept DEF SpeechInv, NoSpeech, Writes, WritesEnd
<1> QED BY <1>1, <1>2 DEF SpeechInv

\* The worker goes on with its request, and sets out to write for a current one.
GoesOn ==
    /\ worker.at # "idle" /\ worker'.req = worker.req
    /\ worker'.at \in {"write", "write end"} => SetsOut(worker.req)
    /\ worker'.at = "write" => worker'.left \in 1 .. MaxBatch

\* What the worker reads and where it goes then, with the speech as it is.
LEMMA WorkerGoesOn ==
    ASSUME FenceInv, ReplyInv, SpeechInv, Grows, NoSpeech, requests' = requests, GoesOn,
           NEW Y, worker' \in WorkerIn(Y)
    PROVE  SpeechInv'
<1>1. PICK X : SpeechTypeIn(X)
  BY DEF SpeechInv, SpeechTypeOK
<1>2. SpeechTypeIn(X \cup Y)
  BY <1>1, TypeWidens
<1>3. worker' \in WorkerIn(X \cup Y)
  BY DEF WorkerIn
<1>4. SpeechTypeIn(X \cup Y)'
  BY <1>2, <1>3 DEF SpeechTypeIn, NoSpeech
<1>5. (QueueAccepted /\ WorkerAccepted /\ Unspoken /\ BatchBound)'
  BY DEF SpeechInv, NoSpeech, GoesOn, QueueAccepted, WorkerAccepted, Unspoken, BatchBound
<1>6. ASSUME NEW r \in Request PROVE Kept(r)' /\ Fenced(r)'
  BY RequestKept DEF SpeechInv, NoSpeech, GoesOn, Writes, WritesEnd
<1> QED BY <1>4, <1>5, <1>6 DEF SpeechInv, SpeechTypeOK

\* The worker takes the next request, or is through with one.
LEMMA WorkerChanges ==
    ASSUME FenceInv, ReplyInv, SpeechInv, Grows, NoSpeech, NEW Y, worker' \in WorkerIn(Y),
           worker'.at \notin {"write", "write end"}, QueueAccepted', WorkerAccepted'
    PROVE  SpeechInv'
<1>1. PICK X : SpeechTypeIn(X)
  BY DEF SpeechInv, SpeechTypeOK
<1>2. SpeechTypeIn(X \cup Y)
  BY <1>1, TypeWidens
<1>3. worker' \in WorkerIn(X \cup Y)
  BY DEF WorkerIn
<1>4. SpeechTypeIn(X \cup Y)'
  BY <1>2, <1>3 DEF SpeechTypeIn, NoSpeech
<1>5. (Unspoken /\ BatchBound)'
  BY DEF SpeechInv, NoSpeech, Unspoken, BatchBound
<1>6. ASSUME NEW r \in Request PROVE Kept(r)' /\ Fenced(r)'
  BY RequestKept DEF SpeechInv, NoSpeech, Writes, WritesEnd
<1> QED BY <1>4, <1>5, <1>6 DEF SpeechInv, SpeechTypeOK

\* Whatever is read, the worker does not write yet.
LEMMA WorkerReadsKeeps ==
    ASSUME FenceInv, ReplyInv, SpeechInv, Grows, WorkerReads
    PROVE  SpeechInv'
<1>1. PICK X : SpeechTypeIn(X)
  BY DEF SpeechInv, SpeechTypeOK
<1> DEFINE Y == X \cup {Head(events).of}
<1>2. worker \in WorkerIn(Y) /\ NoRequest \in Y
  BY <1>1 DEF SpeechTypeIn, WorkerIn
<1>3. /\ NoSpeech /\ requests' = requests
      /\ worker.at = "loop"
      /\ \/ worker' = [worker EXCEPT !.at = "deliver", !.batch = Head(events).of]
         \/ worker' = [worker EXCEPT !.tail = Head(events).of]
         \/ \E at \in {"finish", "deliver"} :
               worker' = [worker EXCEPT !.at = at, !.batch = worker.tail, !.tail = NoRequest,
                                        !.last = TRUE]
         \/ worker' = [worker EXCEPT !.at = "finish"]
         \/ worker' = worker
  BY DEF WorkerReads, Take, OnlyWorker, sharedVars, NoSpeech, Ends, WorkerGoes
<1>4. worker' \in WorkerIn(Y) /\ GoesOn
  <2> USE <1>2, <1>3 DEF WorkerIn, Stations, GoesOn
  <2>1. CASE worker' = [worker EXCEPT !.at = "deliver", !.batch = Head(events).of]
    BY <2>1
  <2>2. CASE worker' = [worker EXCEPT !.tail = Head(events).of]
    BY <2>2
  <2>3. CASE \E at \in {"finish", "deliver"} :
               worker' = [worker EXCEPT !.at = at, !.batch = worker.tail, !.tail = NoRequest,
                                        !.last = TRUE]
    BY <2>3
  <2>4. CASE worker' = [worker EXCEPT !.at = "finish"]
    BY <2>4
  <2>5. CASE worker' = worker
    BY <2>5
  <2> QED BY <1>3, <2>1, <2>2, <2>3, <2>4, <2>5
<1> QED BY <1>3, <1>4, WorkerGoesOn

\* It sets out to write where it has looked for staleness.
LEMMA WorkerDeliverKeeps ==
    ASSUME FenceInv, ReplyInv, SpeechInv, Grows, WorkerDeliver
    PROVE  SpeechInv'
<1>1. PICK X : SpeechTypeIn(X)
  BY DEF SpeechInv, SpeechTypeOK
<1>2. NoSpeech /\ requests' = requests /\ worker.at = "deliver" /\ worker \in WorkerIn(X)
  BY <1>1 DEF SpeechTypeIn, WorkerDeliver, OnlyWorker, sharedVars, NoSpeech
<1>3. CASE Stale(worker.req) \/ DeviceOf[worker.req] = Web
  <2>1. \E at \in {"finish", "loop"} : worker' = [worker EXCEPT !.left = 0, !.at = at]
    BY <1>3 DEF WorkerDeliver, Delivered
  <2>2. worker' \in WorkerIn(X) /\ GoesOn
    <3>1. PICK at \in {"finish", "loop"} : worker' = [worker EXCEPT !.left = 0, !.at = at]
      BY <2>1
    <3>2. worker' \in WorkerIn(X)
      BY <1>2, <3>1 DEF WorkerIn, Stations
    <3>3. worker'.at = at /\ worker'.req = worker.req
      BY <1>2, <3>1 DEF WorkerIn
    <3> QED BY <1>2, <3>2, <3>3 DEF GoesOn
  <2> QED BY <1>2, <2>2, WorkerGoesOn
<1>4. CASE ~(Stale(worker.req) \/ DeviceOf[worker.req] = Web)
  <2>1. PICK n \in 1 .. MaxBatch : worker' = [worker EXCEPT !.at = "write", !.left = n]
    BY <1>4 DEF WorkerDeliver
  <2>2. SetsOut(worker.req)
    BY <1>4 DEF Stale, SetsOut
  <2>3. worker' \in WorkerIn(X) /\ GoesOn
    <3>1. n \in Nat
      BY CoordinatorAssumption DEF CoordinatorAssumption
    <3>2. worker' \in WorkerIn(X)
      BY <1>2, <2>1, <3>1 DEF WorkerIn, Stations
    <3>3. worker'.at = "write" /\ worker'.left = n /\ worker'.req = worker.req
      BY <1>2, <2>1 DEF WorkerIn
    <3> QED BY <1>2, <2>2, <3>2, <3>3 DEF GoesOn
  <2> QED BY <1>2, <2>3, WorkerGoesOn
<1> QED BY <1>3, <1>4

\* The arithmetic of a tail.
LEMMA NextIndex == \A n \in Nat : \A i \in 1 .. n - 1 : i + 1 \in 1 .. n
  OBVIOUS

\* The request it takes was accepted, and the others stay so.
LEMMA WorkerTakeKeeps ==
    ASSUME FenceInv, ReplyInv, SpeechInv, Grows, WorkerTake
    PROVE  SpeechInv'
<1>1. PICK X : SpeechTypeIn(X)
  BY DEF SpeechInv, SpeechTypeOK
<1>0. requests \in Seq(Request) /\ requests # <<>> /\ requests' = Tail(requests)
  BY DEF WorkerTake, SpeechInv, QueueAccepted
<1>2. /\ \A i \in 1 .. Len(requests) : submission[requests[i]] = "accepted"
      /\ NoSpeech
  BY DEF WorkerTake, SpeechInv, QueueAccepted, NoSpeech
<1>3. Head(requests) \in Request /\ submission[Head(requests)] = "accepted"
  BY <1>0, <1>2
<1>4. PICK at \in {"finish", "await ready"} :
             worker' = [Idle EXCEPT !.at = at, !.req = Head(requests)]
  BY DEF WorkerTake
<1>5. worker' \in WorkerIn(X) /\ worker'.req = Head(requests) /\ worker'.at = at
  BY <1>1, <1>3, <1>4 DEF Idle, WorkerIn, Stations, SpeechTypeIn
<1>6. WorkerAccepted'
  BY <1>2, <1>3, <1>5 DEF WorkerAccepted, NoSpeech
<1>7. QueueAccepted'
  <2>1. /\ Tail(requests) \in Seq(Request) /\ Len(Tail(requests)) = Len(requests) - 1
        /\ \A i \in 1 .. Len(Tail(requests)) : Tail(requests)[i] = requests[i + 1]
    BY <1>0, HeadTailProperties
  <2>2. Len(requests) \in Nat
    BY <1>0, LenProperties
  <2>3. ASSUME NEW i \in 1 .. Len(requests') PROVE submission'[requests'[i]] = "accepted"
    <3>0. i \in 1 .. Len(Tail(requests))
      BY <1>0
    <3>1. i + 1 \in 1 .. Len(requests)
      BY <2>1, <2>2, <3>0, NextIndex
    <3>2. requests'[i] = requests[i + 1]
      BY <1>0, <2>1, <3>0
    <3> QED BY <1>2, <3>1, <3>2 DEF NoSpeech
  <2> QED BY <1>0, <2>1, <2>3 DEF QueueAccepted
<1> QED BY <1>2, <1>4, <1>5, <1>6, <1>7, WorkerChanges

\* It sets out to write the reply end where it has looked for the generation.
LEMMA WorkerReplyEndKeeps ==
    ASSUME FenceInv, ReplyInv, SpeechInv, Grows, WorkerReplyEnd
    PROVE  SpeechInv'
<1>1. PICK X : SpeechTypeIn(X)
  BY DEF SpeechInv, SpeechTypeOK
<1>2. /\ NoSpeech /\ requests' = requests /\ worker.at = "reply end"
      /\ worker \in WorkerIn(X) /\ NoRequest \in X
  BY <1>1 DEF SpeechTypeIn, WorkerReplyEnd, OnlyPops, NoSpeech
<1>3. CASE EndsReply(worker.req)
  <2>1. worker' = [worker EXCEPT !.at = "write end"] /\ SetsOut(worker.req)
    BY <1>3 DEF WorkerReplyEnd, WorkerGoes, EndsReply, SetsOut
  <2>2. worker' \in WorkerIn(X) /\ GoesOn
    BY <1>2, <2>1 DEF WorkerIn, Stations, GoesOn
  <2> QED BY <1>2, <2>2, WorkerGoesOn
<1>4. CASE ~EndsReply(worker.req)
  <2>1. worker' = Idle
    BY <1>4 DEF WorkerReplyEnd, Pops
  <2>2. worker' \in WorkerIn(X) /\ worker'.at = "idle"
    BY <1>2, <2>1 DEF WorkerIn, Stations, Idle
  <2>3. QueueAccepted' /\ WorkerAccepted'
    BY <1>2, <2>2 DEF SpeechInv, QueueAccepted, WorkerAccepted, NoSpeech
  <2> QED BY <1>2, <2>2, <2>3, WorkerChanges
<1> QED BY <1>3, <1>4

\* The other places it goes to are none where it writes.
LEMMA WorkerMovesKeeps ==
    ASSUME FenceInv, ReplyInv, SpeechInv, Grows,
           \/ WorkerAwaitReady \/ WorkerActivate \/ WorkerDrain \/ WorkerStart
           \/ WorkerStops \/ WorkerTimesOut \/ WorkerFinish
    PROVE  SpeechInv'
<1>1. PICK X : SpeechTypeIn(X)
  BY DEF SpeechInv, SpeechTypeOK
<1>2. /\ NoSpeech /\ requests' = requests /\ worker.at # "idle"
      /\ \E at \in Stations \ {"write", "write end"} : worker' = [worker EXCEPT !.at = at]
  BY DEF WorkerAwaitReady, WorkerActivate, WorkerDrain, WorkerStart, WorkerStops, WorkerTimesOut,
     WorkerFinish, OnlyWorker, sharedVars, NoSpeech, Ends, WorkerGoes, Stations
<1>3. worker' \in WorkerIn(X) /\ GoesOn
  BY <1>1, <1>2 DEF SpeechTypeIn, WorkerIn, GoesOn
<1> QED BY <1>2, <1>3, WorkerGoesOn

-----------------------------------------------------------------------------
(* Steps that write speech.                                                *)

\* A sentence written is one more live row.
LEMMA RowAppended ==
    ASSUME NEW X, NEW r \in Request, segments[r] \in Seq(Row(X)), NEW row \in Row(X), row.live,
           segments'[r] = Append(segments[r], row)
    PROVE  LET n == Len(segments[r]) + 1
           IN  /\ LiveRows(r)' = LiveRows(r) \cup {n} /\ n \notin LiveRows(r)
               /\ DOMAIN segments'[r] = DOMAIN segments[r] \cup {n}
<1> DEFINE s == segments[r]
           l == Len(s)
<1>1. l \in Nat /\ DOMAIN s = 1 .. l
  BY LenProperties
<1>2. /\ Append(s, row) \in Seq(Row(X)) /\ Len(Append(s, row)) = l + 1
      /\ \A i \in 1 .. l : Append(s, row)[i] = s[i]
      /\ Append(s, row)[l + 1] = row
  BY AppendProperties
<1>3. DOMAIN Append(s, row) = 1 .. l + 1
  BY <1>2, LenProperties
<1>4. 1 .. l + 1 = 1 .. l \cup {l + 1} /\ l + 1 \notin 1 .. l
  BY <1>1
<1>5. LiveRows(r) = {i \in 1 .. l : s[i].live}
  BY <1>1 DEF LiveRows
<1>6. LiveRows(r)' = {i \in 1 .. l + 1 : Append(s, row)[i].live}
  BY <1>3 DEF LiveRows
<1>7. LiveRows(r)' = LiveRows(r) \cup {l + 1}
  <2> HIDE DEF s, l
  <2> QED BY <1>2, <1>4, <1>5, <1>6
<1> QED BY <1>1, <1>3, <1>4, <1>5, <1>7

\* What a step that writes leaves alone.
LEMMA OthersKept ==
    ASSUME FenceInv, ReplyInv, SpeechInv, Grows, NEW r, NEW q \in Request \ {r},
           worker.req = r, \/ worker'.req = r \/ worker'.at \notin {"write", "write end"},
           segments'[q] = segments[q], replyEnd'[q] = replyEnd[q],
           generationOf' = generationOf, stored' = stored
    PROVE  Kept(q)' /\ Fenced(q)'
  BY RequestKept DEF SpeechInv, Writes, WritesEnd

\* A sentence more is one less to write.
LEMMA WorkerWriteKeeps ==
    ASSUME FenceInv, ReplyInv, SpeechInv, Grows, WorkerWrite
    PROVE  SpeechInv'
<1>1. PICK X : SpeechTypeIn(X)
  BY DEF SpeechInv, SpeechTypeOK
<1>0. PICK r \in Request : worker.req = r /\ submission[r] = "accepted"
  BY DEF WorkerWrite, SpeechInv, WorkerAccepted
<1> DEFINE row == [of |-> worker.batch, live |-> TRUE]
<1>2. /\ worker.at = "write" /\ worker \in WorkerIn(X)
      /\ UNCHANGED <<generations, stored, requests, generationOf, submission, replyEnd>>
      /\ segments' = [segments EXCEPT ![r] = Append(@, row)]
  BY <1>0, <1>1 DEF SpeechTypeIn, WorkerWrite, sharedVars
<1>3. worker.left \in 1 .. MaxBatch
  BY <1>2 DEF SpeechInv, BatchBound
<1>4. MaxBatch \in Nat
  BY CoordinatorAssumption DEF CoordinatorAssumption
<1>5. /\ worker' \in WorkerIn(X) /\ worker'.req = r /\ worker'.at \in {"write", "finish", "loop"}
      /\ worker'.at = "write" => worker.left > 1 /\ worker'.left = worker.left - 1
  <2>1. CASE worker.left > 1
    <3>1. worker' = [worker EXCEPT !.left = worker.left - 1]
      BY <2>1 DEF WorkerWrite
    <3>2. worker.left - 1 \in Nat
      BY <1>3, <1>4, <2>1
    <3> QED BY <1>0, <1>2, <2>1, <3>1, <3>2 DEF WorkerIn
  <2>2. CASE ~(worker.left > 1)
    <3>1. \E at \in {"finish", "loop"} : worker' = [worker EXCEPT !.left = 0, !.at = at]
      BY <2>2 DEF WorkerWrite, Delivered
    <3>2. PICK at \in {"finish", "loop"} : worker' = [worker EXCEPT !.left = 0, !.at = at]
      BY <3>1
    <3>3. worker' \in WorkerIn(X)
      BY <1>2, <3>2 DEF WorkerIn, Stations
    <3>4. worker'.req = r /\ worker'.at = at
      BY <1>0, <1>2, <3>2 DEF WorkerIn
    <3> QED BY <3>3, <3>4
  <2> QED BY <2>1, <2>2
<1>6. row \in Row(X) /\ row.live
  BY <1>2 DEF Row, WorkerIn
<1>7. /\ segments[r] \in Seq(Row(X)) /\ segments'[r] = Append(segments[r], row)
      /\ \A q \in Request \ {r} : segments'[q] = segments[q]
  BY <1>1, <1>2 DEF SpeechTypeIn
<1>8. SpeechTypeOK'
  <2>1. Append(segments[r], row) \in Seq(Row(X))
    BY <1>6, <1>7, AppendProperties
  <2>2. SpeechTypeIn(X)'
    BY <1>1, <1>2, <1>5, <2>1 DEF SpeechTypeIn
  <2> QED BY <2>2 DEF SpeechTypeOK
<1>9. (QueueAccepted /\ WorkerAccepted /\ Unspoken)'
  BY <1>0, <1>2, <1>5, <1>7 DEF SpeechInv, QueueAccepted, WorkerAccepted, Unspoken
<1>10. BatchBound'
  BY <1>3, <1>4, <1>5 DEF BatchBound
<1>11. ASSUME NEW q \in Request \ {r} PROVE Kept(q)' /\ Fenced(q)'
  BY <1>0, <1>2, <1>5, <1>7, OthersKept
<1>12. PICK n : /\ LiveRows(r)' = LiveRows(r) \cup {n} /\ n \notin LiveRows(r)
                /\ DOMAIN segments'[r] = DOMAIN segments[r] \cup {n}
  BY <1>6, <1>7, RowAppended
<1>13. Kept(r)'
  <2>1. Current(r)' => Current(r)
    BY <1>2, OldStaysOld
  <2> QED BY <1>2, <1>12, <2>1 DEF SpeechInv, Kept
<1>14. Fenced(r)'
  <2> SUFFICES ASSUME Behind(r)' PROVE Rest(r)'
    BY DEF Fenced
  <2>1. Behind(r) /\ Writes(r)
    BY <1>0, <1>2 DEF Behind, Writes
  <2>2. /\ IsFiniteSet(LiveRows(r)) /\ replyEnd[r] # "live"
        /\ Cardinality(LiveRows(r)) + worker.left <= MaxBatch
    BY <2>1 DEF SpeechInv, Fenced, Rest
  <2> DEFINE c == Cardinality(LiveRows(r))
  <2>3. /\ c \in Nat /\ IsFiniteSet(LiveRows(r)')
        /\ Cardinality(LiveRows(r)') = c + 1
    BY <1>12, <2>2, FS_CardinalityType, FS_AddElement
  <2>4. Cardinality(LiveRows(r)') <= MaxBatch
    BY <1>3, <1>4, <2>2, <2>3
  <2>5. worker'.at = "write" => Cardinality(LiveRows(r)') + worker'.left <= MaxBatch
    BY <1>3, <1>4, <1>5, <2>2, <2>3
  <2> QED BY <1>2, <1>5, <2>2, <2>3, <2>4, <2>5 DEF Rest, Writes, WritesEnd
<1> QED BY <1>8, <1>9, <1>10, <1>11, <1>13, <1>14 DEF SpeechInv

\* The reply end of a request that is behind comes where it has no live row.
LEMMA WorkerWriteEndKeeps ==
    ASSUME FenceInv, ReplyInv, SpeechInv, Grows, WorkerWriteEnd
    PROVE  SpeechInv'
<1>0. PICK r \in Request : worker.req = r /\ submission[r] = "accepted"
  BY DEF WorkerWriteEnd, SpeechInv, WorkerAccepted
<1>1. PICK X : SpeechTypeIn(X)
  BY DEF SpeechInv, SpeechTypeOK
<1>2. /\ worker.at = "write end" /\ worker' = Idle
      /\ UNCHANGED <<generations, stored, requests, generationOf, submission, segments>>
      /\ replyEnd' = [replyEnd EXCEPT ![r] = "live"]
  BY <1>0 DEF WorkerWriteEnd, Pops, OnlyPops
<1>3. replyEnd'[r] = "live" /\ \A q \in Request \ {r} : replyEnd'[q] = replyEnd[q]
  BY <1>2 DEF ReplyInv, ReplyTypeOK
<1>4. worker' \in WorkerIn(X) /\ worker'.at = "idle"
  BY <1>1, <1>2 DEF SpeechTypeIn, WorkerIn, Stations, Idle
<1>5. SpeechTypeOK'
  BY <1>1, <1>2, <1>4 DEF SpeechTypeIn, SpeechTypeOK
<1>6. (QueueAccepted /\ WorkerAccepted /\ Unspoken /\ BatchBound)'
  BY <1>0, <1>2, <1>3, <1>4
     DEF SpeechInv, QueueAccepted, WorkerAccepted, Unspoken, BatchBound
<1>7. ASSUME NEW q \in Request \ {r} PROVE Kept(q)' /\ Fenced(q)'
  BY <1>0, <1>2, <1>3, <1>4, OthersKept
<1>8. LiveRows(r)' = LiveRows(r)
  BY <1>2 DEF LiveRows
<1>9. Kept(r)'
  BY <1>2, <1>3, <1>8, OldStaysOld DEF SpeechInv, Kept
<1>10. Behind(r)' => Behind(r) /\ WritesEnd(r)
  BY <1>0, <1>2 DEF Behind, WritesEnd
<1>11. Fenced(r)'
  BY <1>3, <1>4, <1>8, <1>10 DEF SpeechInv, Fenced, Rest, Writes, WritesEnd
<1> QED BY <1>5, <1>6, <1>7, <1>9, <1>11 DEF SpeechInv

\* So the worker keeps the invariant.
LEMMA WorkerKeepsSpeech ==
    ASSUME FenceInv, ReplyInv, SpeechInv, Worker
    PROVE  SpeechInv'
<1>1. Grows
  BY WorkerIsStill, StillGrows DEF Still
<1> QED BY <1>1, WorkerTakeKeeps, WorkerMovesKeeps, WorkerReadsKeeps, WorkerDeliverKeeps,
           WorkerWriteKeeps, WorkerReplyEndKeeps, WorkerWriteEndKeeps DEF Worker

-----------------------------------------------------------------------------
(* Steps of the other threads.                                             *)

\* The cancel sink takes back all speech older than the generation it stores.
LEMMA SinkKeepsSpeech ==
    ASSUME FenceInv, ReplyInv, SpeechInv, NEW t \in Thread, NEW d \in Speaking, SinkCancels(t, d)
    PROVE  SpeechInv'
<1> DEFINE g == thread[t].mark[d]
           older(r) == DeviceOf[r] = d /\ generationOf[r] < g
           cancelled(r) == [i \in DOMAIN segments[r] |-> [segments[r][i] EXCEPT !.live = FALSE]]
<1>1. PICK X : SpeechTypeIn(X)
  BY DEF SpeechInv, SpeechTypeOK
<1>2. /\ d \in thread[t].sinks
      /\ stored' = [stored EXCEPT ![d] = Stored(@, g)]
      /\ segments' = [r \in Request |-> IF older(r) THEN cancelled(r) ELSE segments[r]]
      /\ replyEnd' = [r \in Request |->
                          IF older(r) /\ replyEnd[r] = "live" THEN "cancelled" ELSE replyEnd[r]]
      /\ UNCHANGED <<generations, requests, generationOf, submission, worker>>
  BY DEF SinkCancels
<1>3. Grows
  BY <1>2, StillGrows
<1>4. d \in Device /\ g \in Nat /\ g <= generations[d] /\ stored[d] \in Nat
  <2>1. d \in Device /\ stored \in [Device -> Nat] /\ thread[t] \in Job
    BY DEF FenceInv, FenceTypeOK, Speaking
  <2>2. thread[t].mark[d] <= generations[d]
    BY <1>2 DEF FenceInv
  <2> QED BY <2>1, <2>2 DEF Job
<1>5. ASSUME NEW r \in Request
      PROVE  /\ cancelled(r) \in Seq(Row(X)) /\ DOMAIN cancelled(r) = DOMAIN segments[r]
             /\ \A i \in DOMAIN segments[r] : ~cancelled(r)[i].live
  <2>1. segments[r] \in Seq(Row(X))
    BY <1>1 DEF SpeechTypeIn
  <2>2. PICK n \in Nat : n = Len(segments[r]) /\ DOMAIN segments[r] = 1 .. n
    BY <2>1, LenProperties
  <2>3. ASSUME NEW i \in 1 .. n
        PROVE  /\ [segments[r][i] EXCEPT !.live = FALSE] \in Row(X)
               /\ ~[segments[r][i] EXCEPT !.live = FALSE].live
    <3>1. segments[r][i] \in Row(X)
      BY <2>1, <2>2, ElementOfSeq
    <3> QED BY <3>1 DEF Row
  <2>4. cancelled(r) = [i \in 1 .. n |-> [segments[r][i] EXCEPT !.live = FALSE]]
    BY <2>2
  <2> HIDE DEF cancelled
  <2>5. cancelled(r) \in Seq(Row(X))
    BY <2>3, <2>4
  <2> QED BY <2>2, <2>3, <2>4, <2>5
<1>6. SpeechTypeOK'
  <2>1. ASSUME NEW r \in Request PROVE segments[r] \in Seq(Row(X))
    BY <1>1 DEF SpeechTypeIn
  <2> HIDE DEF older, cancelled
  <2>2. segments' \in [Request -> Seq(Row(X))]
    BY <1>2, <1>5, <2>1
  <2>3. SpeechTypeIn(X)'
    BY <1>1, <1>2, <2>2 DEF SpeechTypeIn
  <2> QED BY <2>3 DEF SpeechTypeOK
<1>7. (QueueAccepted /\ WorkerAccepted /\ BatchBound)'
  BY <1>2 DEF SpeechInv, QueueAccepted, WorkerAccepted, BatchBound
<1>8. Unspoken'
  <2>1. ASSUME NEW r \in Request, submission[r] # "accepted"
        PROVE  segments'[r] = <<>> /\ replyEnd'[r] = "none"
    <3>1. segments[r] = <<>> /\ replyEnd[r] = "none"
      BY <2>1 DEF SpeechInv, Unspoken
    <3>2. cancelled(r) = <<>>
      BY <3>1
    <3> HIDE DEF older, cancelled
    <3> QED BY <1>2, <3>1, <3>2
  <2> QED BY <1>2, <2>1 DEF Unspoken
<1>9. ASSUME NEW r \in Request, older(r) PROVE Kept(r)' /\ Fenced(r)'
  <2>1. segments'[r] = cancelled(r) /\ replyEnd'[r] # "live"
    BY <1>2, <1>9
  <2>2. LiveRows(r)' = {}
    BY <1>5, <2>1 DEF LiveRows
  <2>3. ~Current(r)'
    BY <1>2, <1>4, <1>9 DEF Current, ReplyInv, ReplyTypeOK
  <2>4. Rest(r)'
    <3>1. IsFiniteSet({}) /\ Cardinality({}) = 0
      BY FS_EmptySet
    <3>2. MaxBatch \in Nat /\ BatchBound
      BY CoordinatorAssumption DEF CoordinatorAssumption, SpeechInv
    <3> QED BY <1>2, <2>1, <2>2, <3>1, <3>2 DEF Rest, Writes, WritesEnd, BatchBound
  <2> QED BY <2>3, <2>4 DEF Kept, Fenced
<1>10. ASSUME NEW r \in Request, ~older(r) PROVE Kept(r)' /\ Fenced(r)'
  <2>1. segments'[r] = segments[r] /\ replyEnd'[r] = replyEnd[r]
    BY <1>2, <1>10
  <2>2. LiveRows(r)' = LiveRows(r)
    BY <2>1 DEF LiveRows
  <2>3. Kept(r)'
    BY <1>2, <1>3, <2>1, <2>2, OldStaysOld DEF SpeechInv, Kept
  <2>4. Behind(r)' => Behind(r)
    <3>1. generationOf[r] \in Nat /\ DeviceOf[r] \in Device
      BY CoordinatorAssumption DEF CoordinatorAssumption, ReplyInv, ReplyTypeOK
    <3>2. stored'[DeviceOf[r]] = IF DeviceOf[r] = d THEN Stored(stored[d], g) ELSE stored[DeviceOf[r]]
      BY <1>2, <3>1 DEF FenceInv, FenceTypeOK
    <3> QED BY <1>2, <1>4, <1>10, <3>1, <3>2 DEF Behind, Stored
  <2>5. Fenced(r)'
    BY <1>2, <2>1, <2>2, <2>4 DEF SpeechInv, Fenced, Rest, Writes, WritesEnd
  <2> QED BY <2>3, <2>5
<1> QED BY <1>6, <1>7, <1>8, <1>9, <1>10 DEF SpeechInv

\* A request takes its generation while it has no speech, and is accepted
\* when it is queued.
LEMMA SubmitKeepsSpeech ==
    ASSUME FenceInv, ReplyInv, SpeechInv, NEW r \in Request, SubmitCheck(r) \/ SubmitPut(r)
    PROVE  SpeechInv'
<1>1. /\ UNCHANGED <<generations, stored, segments, replyEnd, worker>>
      /\ submission[r] # "accepted"
      /\ \A q \in Request \ {r} : submission'[q] = submission[q]
  BY DEF SubmitCheck, SubmitPut, turnVars, ReplyInv, ReplyTypeOK
<1>2. Grows
  BY <1>1, StillGrows
<1>3. segments[r] = <<>> /\ replyEnd[r] = "none"
  BY <1>1 DEF SpeechInv, Unspoken
<1>4. (SpeechTypeOK /\ WorkerAccepted /\ Unspoken /\ BatchBound)'
  <2>1. SpeechTypeOK' /\ BatchBound'
    BY <1>1 DEF SpeechInv, SpeechTypeOK, SpeechTypeIn, BatchBound
  <2>2. WorkerAccepted' /\ Unspoken'
    BY <1>1, <1>3 DEF SpeechInv, WorkerAccepted, Unspoken
  <2> QED BY <2>1, <2>2
<1>5. QueueAccepted'
  <2>1. CASE requests' = requests
    BY <1>1, <2>1 DEF SpeechInv, QueueAccepted, ReplyInv, ReplyTypeOK
  <2>2. CASE requests' # requests
    <3>1. requests \in Seq(Request) /\ requests' = Append(requests, r) /\ submission'[r] = "accepted"
      BY <2>2 DEF SubmitCheck, SubmitPut, SpeechInv, QueueAccepted, ReplyInv, ReplyTypeOK
    <3>2. PICK n \in Nat : n = Len(requests)
      BY <3>1, LenProperties
    <3>3. /\ Append(requests, r) \in Seq(Request) /\ Len(Append(requests, r)) = n + 1
          /\ \A i \in 1 .. n : Append(requests, r)[i] = requests[i]
          /\ Append(requests, r)[n + 1] = r
      BY <3>1, <3>2, AppendProperties
    <3>4. ASSUME NEW i \in 1 .. n + 1 PROVE submission'[requests'[i]] = "accepted"
      <4>1. CASE i = n + 1
        BY <3>1, <3>3, <4>1
      <4>2. CASE i \in 1 .. n
        <5>1. requests'[i] = requests[i] /\ submission[requests[i]] = "accepted"
          BY <3>1, <3>2, <3>3, <4>2 DEF SpeechInv, QueueAccepted
        <5>2. requests[i] \in Request
          BY <3>1, <3>2, <4>2, ElementOfSeq
        <5> QED BY <1>1, <5>1, <5>2
      <4> QED BY <4>1, <4>2
    <3> QED BY <3>1, <3>3, <3>4 DEF QueueAccepted
  <2> QED BY <2>1, <2>2
<1>6. ASSUME NEW q \in Request \ {r} PROVE Kept(q)' /\ Fenced(q)'
  <2>1. generationOf'[q] = generationOf[q]
    BY DEF SubmitCheck, SubmitPut, ReplyInv, ReplyTypeOK
  <2> QED BY <1>1, <1>2, <2>1, RequestKept DEF SpeechInv, Writes, WritesEnd
<1>7. Kept(r)' /\ Fenced(r)'
  <2>1. LiveRows(r)' = {} /\ DOMAIN segments'[r] = {} /\ replyEnd'[r] = "none"
    BY <1>1, <1>3 DEF LiveRows
  <2>2. ~Writes(r)' /\ ~WritesEnd(r)'
    BY <1>1 DEF SpeechInv, WorkerAccepted, Writes, WritesEnd
  <2>3. IsFiniteSet({}) /\ Cardinality({}) <= MaxBatch
    BY FS_EmptySet, CoordinatorAssumption DEF CoordinatorAssumption
  <2> QED BY <2>1, <2>2, <2>3 DEF Kept, Fenced, Rest
<1> QED BY <1>4, <1>5, <1>6, <1>7 DEF SpeechInv

\* Of a thread, only the sink touches speech.
LEMMA ThreadKeepsSpeech ==
    ASSUME FenceInv, ReplyInv, SpeechInv, NEW t \in Thread, ThreadStep(t)
    PROVE  SpeechInv'
<1>1. CASE \E d \in Speaking : SinkCancels(t, d)
  BY <1>1, SinkKeepsSpeech
<1>2. CASE ~\E d \in Speaking : SinkCancels(t, d)
  <2>1. NoSpeech /\ UNCHANGED <<generations, worker, requests>>
    BY <1>2 DEF ThreadStep, TellMorrow, AwaitNoTurn, GiveUp, ResetAwaitReady, ResetDrain,
       ResetSend, ResetReads, ResetRetries, SwitchClient, SwitchAwaits, EndTransition,
       OnlyThread, sharedVars, turnVars, NoSpeech
  <2> QED BY <2>1, StillGrows, SpeechStays
<1> QED BY <1>1, <1>2

\* And so does every step.
LEMMA SpeechNext == FenceInv /\ ReplyInv /\ SpeechInv /\ [CoordNext]_coordVars => SpeechInv'
<1> SUFFICES ASSUME FenceInv, ReplyInv, SpeechInv, [CoordNext]_coordVars PROVE SpeechInv'
  OBVIOUS
<1>1. CASE \E r \in Request : SubmitCheck(r) \/ SubmitPut(r)
  BY <1>1, SubmitKeepsSpeech
<1>2. CASE \E r \in Request : Expires(r)
  <2>1. NoSpeech /\ UNCHANGED <<generations, worker, requests>>
    BY <1>2 DEF Expires, turnVars, NoSpeech
  <2> QED BY <2>1, StillGrows, SpeechStays
<1>3. CASE Worker
  BY <1>3, WorkerKeepsSpeech
<1>4. CASE \E t \in Thread : \/ \E d \in Speaking :
                                  \/ CancelDevice(t, d)
                                  \/ \E g \in 0 .. MaxGeneration : SyncDeviceGeneration(t, d, g)
                            \/ \E job \in {"reset", "switch"} : BeginTransition(t, job)
  <2>1. Grows
    BY <1>4, JobsGrow
  <2>2. NoSpeech /\ UNCHANGED <<worker, requests>>
    BY <1>4 DEF CancelDevice, SyncDeviceGeneration, BeginTransition, Begins, turnVars, NoSpeech
  <2> QED BY <2>1, <2>2, SpeechStays
<1>5. CASE \E t \in Thread : ThreadStep(t)
  BY <1>5, ThreadKeepsSpeech
<1>6. CASE UNCHANGED <<sharedVars, turnVars, thread>>
  BY <1>6, StillGrows, SpeechStays DEF sharedVars, turnVars, NoSpeech
<1>7. CASE UNCHANGED coordVars
  BY <1>6, <1>7 DEF coordVars
<1> QED BY <1>1, <1>2, <1>3, <1>4, <1>5, <1>6, <1>7 DEF CoordNext

\* A cancellation fences speech: once its sink has run, an older request has
\* at most the rest of one batch or its reply end, and a request that is not
\* cancelled keeps all it has said.
THEOREM SpeechStaysFenced == CoordSpec => []SpeechIsFenced
<1>1. SpeechInv => SpeechIsFenced
  BY DEF SpeechInv, Kept, Fenced, Rest, Behind, SpeechIsFenced
<1> QED BY <1>1, FenceInit, FenceNext, ReplyInit, ReplyNext, SpeechInit, SpeechNext, PTL
        DEF CoordSpec

-----------------------------------------------------------------------------
(* The queue: a request that waits or is run is pending, and is there once. *)

LineInv ==
    /\ \A r \in pending : submission[r] = "accepted"
    /\ \A i \in 1 .. Len(requests) :
          /\ requests[i] \in pending
          /\ \A j \in 1 .. Len(requests) : requests[i] = requests[j] => i = j
    /\ worker.at # "idle" => /\ worker.req \in pending
                             /\ \A i \in 1 .. Len(requests) : requests[i] # worker.req

\* The first of a queue.
LEMMA HeadIsFirst ==
    ASSUME NEW S, NEW q \in Seq(S), q # << >>
    PROVE  Head(q) = q[1] /\ Len(q) > 0
<1>1. Len(q) \in Nat \ {0}
  BY EmptySeq
<1>2. Head(q) = q[1]
  OBVIOUS
<1> QED BY <1>1, <1>2

\* More arithmetic of a tail.
LEMMA TailIndex ==
    \A n \in Nat : n > 0 => /\ 1 \in 1 .. n
                            /\ \A i \in 1 .. n - 1 : i + 1 \in 1 .. n /\ i + 1 # 1
                            /\ \A i, j \in 1 .. n - 1 : i + 1 = j + 1 => i = j
  OBVIOUS

LEMMA LineInit == CoordInit => LineInv
  BY DEF CoordInit, LineInv, Idle

\* A step that takes and ends no request.
LEMMA LineStays ==
    ASSUME LineInv, requests' = requests, pending' = pending,
           \A r \in pending : submission'[r] = submission[r],
           worker'.at # "idle" => worker.at # "idle" /\ worker'.req = worker.req
    PROVE  LineInv'
  BY DEF LineInv

\* The places the worker goes to with its request.
LEMMA WorkerKeepsRequest ==
    ASSUME SpeechInv,
           \/ WorkerAwaitReady \/ WorkerActivate \/ WorkerDrain \/ WorkerStart \/ WorkerStops
           \/ WorkerTimesOut \/ WorkerReads \/ WorkerDeliver \/ WorkerWrite \/ WorkerFinish
    PROVE  /\ worker.at # "idle" /\ worker'.req = worker.req
           /\ UNCHANGED <<requests, pending, submission, generationOf, generations, stored, replyEnd>>
<1>1. PICK X : worker \in WorkerIn(X)
  BY DEF SpeechInv, SpeechTypeOK, SpeechTypeIn
<1>2. UNCHANGED <<requests, pending, submission, generationOf, generations, stored, replyEnd>>
  BY DEF WorkerAwaitReady, WorkerActivate, WorkerDrain, WorkerStart, WorkerStops, WorkerTimesOut,
     WorkerReads, WorkerDeliver, WorkerWrite, WorkerFinish, OnlyWorker, sharedVars
<1>3. worker.at # "idle"
  BY DEF WorkerAwaitReady, WorkerActivate, WorkerDrain, WorkerStart, WorkerStops, WorkerTimesOut,
     WorkerReads, WorkerDeliver, WorkerWrite, WorkerFinish
<1>4. ASSUME WorkerAwaitReady \/ WorkerActivate \/ WorkerDrain \/ WorkerStart \/ WorkerStops
             \/ WorkerTimesOut \/ WorkerFinish
      PROVE  worker'.req = worker.req
  <2>1. \E at \in Stations : worker' = [worker EXCEPT !.at = at]
    BY <1>4 DEF WorkerAwaitReady, WorkerActivate, WorkerDrain, WorkerStart, WorkerStops,
       WorkerTimesOut, WorkerFinish, Ends, WorkerGoes, Stations
  <2> QED BY <1>1, <2>1 DEF WorkerIn
<1>5. ASSUME WorkerReads PROVE worker'.req = worker.req
  <2>1. \/ worker' = [worker EXCEPT !.at = "deliver", !.batch = Head(events).of]
        \/ worker' = [worker EXCEPT !.tail = Head(events).of]
        \/ \E at \in {"finish", "deliver"} :
              worker' = [worker EXCEPT !.at = at, !.batch = worker.tail, !.tail = NoRequest,
                                       !.last = TRUE]
        \/ worker' = [worker EXCEPT !.at = "finish"]
        \/ worker' = worker
    BY <1>5 DEF WorkerReads, Ends, WorkerGoes
  <2> QED BY <1>1, <2>1 DEF WorkerIn
<1>6. ASSUME WorkerDeliver \/ WorkerWrite PROVE worker'.req = worker.req
  <2>1. \/ \E at \in {"finish", "loop"} : worker' = [worker EXCEPT !.left = 0, !.at = at]
        \/ \E n \in 1 .. MaxBatch : worker' = [worker EXCEPT !.at = "write", !.left = n]
        \/ worker' = [worker EXCEPT !.left = worker.left - 1]
    BY <1>6 DEF WorkerDeliver, WorkerWrite, Delivered
  <2> QED BY <1>1, <2>1 DEF WorkerIn
<1> QED BY <1>2, <1>3, <1>4, <1>5, <1>6

\* A request is put at the end of the queue once: it was not accepted before.
LEMMA SubmitKeepsLine ==
    ASSUME FenceInv, ReplyInv, SpeechInv, LineInv, NEW r \in Request,
           SubmitCheck(r) \/ SubmitPut(r) \/ Expires(r)
    PROVE  LineInv'
<1>1. /\ worker' = worker
      /\ \A q \in Request \ {r} : submission'[q] = submission[q]
      /\ pending \subseteq Request
  BY DEF SubmitCheck, SubmitPut, Expires, turnVars, ReplyInv, ReplyTypeOK, FenceInv, FenceTypeOK
<1>2. CASE requests' = requests /\ pending' = pending
  <2>1. \A q \in pending : submission'[q] = submission[q]
    BY <1>1 DEF LineInv, SubmitCheck, SubmitPut, Expires
  <2> QED BY <1>1, <1>2, <2>1, LineStays
<1>3. CASE ~(requests' = requests /\ pending' = pending)
  <2>1. /\ submission[r] = "checked" /\ submission'[r] = "accepted"
        /\ requests' = Append(requests, r) /\ pending' = pending \cup {r}
        /\ r \notin pending
    BY <1>3 DEF SubmitCheck, SubmitPut, Expires, ReplyInv, ReplyTypeOK, LineInv
  <2>2. requests \in Seq(Request)
    BY DEF SpeechInv, QueueAccepted
  <2>3. PICK n \in Nat : n = Len(requests)
    BY <2>2, LenProperties
  <2>4. /\ Len(requests') = n + 1 /\ requests'[n + 1] = r
        /\ \A i \in 1 .. n : requests'[i] = requests[i]
    BY <2>1, <2>2, <2>3, AppendProperties
  <2>5. \A i \in 1 .. n : requests[i] \in pending /\ requests[i] # r
    BY <2>1, <2>3 DEF LineInv
  <2>6. \A i \in 1 .. n + 1 : i \in 1 .. n \/ i = n + 1
    BY <2>3
  <2>7. \A i \in 1 .. n, j \in 1 .. n : requests[i] = requests[j] => i = j
    BY <2>3 DEF LineInv
  <2>8. ASSUME NEW i \in 1 .. n + 1
        PROVE  /\ requests'[i] \in pending'
               /\ \A j \in 1 .. n + 1 : requests'[i] = requests'[j] => i = j
    BY <2>1, <2>4, <2>5, <2>6, <2>7
  <2>9. ASSUME worker'.at # "idle"
        PROVE  worker'.req \in pending' /\ \A i \in 1 .. n + 1 : requests'[i] # worker'.req
    BY <1>1, <2>1, <2>3, <2>4, <2>6, <2>9 DEF LineInv
  <2>10. \A q \in pending' : submission'[q] = "accepted"
    BY <1>1, <2>1 DEF LineInv
  <2> QED BY <2>4, <2>8, <2>9, <2>10 DEF LineInv
<1> QED BY <1>2, <1>3

\* The worker takes the first, and the others are behind it.
LEMMA TakeKeepsLine ==
    ASSUME SpeechInv, LineInv, WorkerTake
    PROVE  LineInv'
<1>1. requests \in Seq(Request) /\ requests # <<>> /\ requests' = Tail(requests)
  BY DEF WorkerTake, SpeechInv, QueueAccepted
<1>2. PICK at \in {"finish", "await ready"} :
             worker' = [Idle EXCEPT !.at = at, !.req = Head(requests)]
  BY DEF WorkerTake
<1>3. worker'.req = Head(requests)
  BY <1>2 DEF Idle
<1>4. UNCHANGED <<pending, submission>>
  BY DEF WorkerTake
<1>5. PICK n \in Nat : n = Len(requests)
  BY <1>1, LenProperties
<1>6. /\ Len(requests') = n - 1 /\ n > 0 /\ Head(requests) = requests[1]
      /\ \A i \in 1 .. n - 1 : requests'[i] = requests[i + 1]
  <2>1. /\ Len(Tail(requests)) = Len(requests) - 1
        /\ \A i \in 1 .. Len(Tail(requests)) : Tail(requests)[i] = requests[i + 1]
    BY <1>1, HeadTailProperties
  <2>2. n > 0
    BY <1>1, <1>5, HeadIsFirst
  <2>3. Head(requests) = requests[1]
    BY <1>1, HeadIsFirst
  <2> QED BY <1>1, <1>5, <2>1, <2>2, <2>3
<1>7. /\ \A i \in 1 .. n : requests[i] \in pending
      /\ \A i \in 1 .. n, j \in 1 .. n : requests[i] = requests[j] => i = j
  BY <1>5 DEF LineInv
<1>8. ASSUME NEW i \in 1 .. n - 1
      PROVE  /\ requests'[i] \in pending' /\ requests'[i] # worker'.req
             /\ \A j \in 1 .. n - 1 : requests'[i] = requests'[j] => i = j
  <2>1. i + 1 \in 1 .. n /\ 1 \in 1 .. n /\ i + 1 # 1
    BY <1>6, TailIndex
  <2>2. ASSUME NEW j \in 1 .. n - 1 PROVE j + 1 \in 1 .. n /\ (i + 1 = j + 1 => i = j)
    BY <1>6, TailIndex
  <2>3. requests'[i] \in pending' /\ requests'[i] # worker'.req
    BY <1>3, <1>4, <1>6, <1>7, <2>1
  <2>4. ASSUME NEW j \in 1 .. n - 1, requests'[i] = requests'[j] PROVE i = j
    BY <1>6, <1>7, <2>1, <2>2, <2>4
  <2> QED BY <2>3, <2>4
<1>9. worker'.req \in pending'
  <2>1. 1 \in 1 .. n
    BY <1>6, TailIndex
  <2> QED BY <2>1, <1>3, <1>4, <1>6, <1>7
<1> QED BY <1>4, <1>6, <1>8, <1>9 DEF LineInv

\* It is through with its request, which is not in the queue.
LEMMA PopsKeepsLine ==
    ASSUME SpeechInv, LineInv, worker.at # "idle", Pops, requests' = requests,
           submission' = submission
    PROVE  LineInv'
  BY DEF Pops, LineInv, Idle

LEMMA LineNext ==
    FenceInv /\ ReplyInv /\ SpeechInv /\ LineInv /\ [CoordNext]_coordVars => LineInv'
<1> SUFFICES ASSUME FenceInv, ReplyInv, SpeechInv, LineInv, [CoordNext]_coordVars
             PROVE  LineInv'
  OBVIOUS
<1>1. CASE \E r \in Request : SubmitCheck(r) \/ SubmitPut(r) \/ Expires(r)
  BY <1>1, SubmitKeepsLine
<1>2. CASE Worker
  <2>1. CASE WorkerTake
    BY <2>1, TakeKeepsLine
  <2>2. CASE WorkerReplyEnd \/ WorkerWriteEnd
    <3>1. /\ worker.at # "idle" /\ requests' = requests /\ submission' = submission
          /\ \/ Pops
             \/ UNCHANGED pending /\ worker' = [worker EXCEPT !.at = "write end"]
      BY <2>2 DEF WorkerReplyEnd, WorkerWriteEnd, OnlyPops, WorkerGoes
    <3>2. \E X : worker \in WorkerIn(X)
      BY DEF SpeechInv, SpeechTypeOK, SpeechTypeIn
    <3>3. worker' = [worker EXCEPT !.at = "write end"] => worker'.req = worker.req
      BY <3>2 DEF WorkerIn
    <3> QED BY <3>1, <3>3, PopsKeepsLine, LineStays
  <2>3. CASE ~(WorkerTake \/ WorkerReplyEnd \/ WorkerWriteEnd)
    BY <1>2, <2>3, WorkerKeepsRequest, LineStays DEF Worker
  <2> QED BY <2>1, <2>2, <2>3
<1>3. CASE \E t \in Thread :
              \/ \E d \in Speaking : \/ CancelDevice(t, d)
                                     \/ \E g \in 0 .. MaxGeneration : SyncDeviceGeneration(t, d, g)
              \/ \E job \in {"reset", "switch"} : BeginTransition(t, job)
              \/ ThreadStep(t)
  <2>1. UNCHANGED <<requests, pending, submission, worker>>
    BY <1>3 DEF CancelDevice, SyncDeviceGeneration, BeginTransition, Begins, ThreadStep, SinkCancels,
       TellMorrow, AwaitNoTurn, GiveUp, ResetAwaitReady, ResetDrain, ResetSend, ResetReads,
       ResetRetries, SwitchClient, SwitchAwaits, EndTransition, OnlyThread, sharedVars, turnVars
  <2> QED BY <2>1, LineStays
<1>4. CASE UNCHANGED <<sharedVars, turnVars, thread>>
  BY <1>4, LineStays DEF sharedVars, turnVars
<1>5. CASE UNCHANGED coordVars
  BY <1>4, <1>5 DEF coordVars
<1> QED BY <1>1, <1>2, <1>3, <1>4, <1>5 DEF CoordNext
-----------------------------------------------------------------------------
(* The promise of SpeechFence, step by step.                               *)

PromiseInv == FenceInv /\ ReplyInv /\ SpeechInv /\ LineInv

PhasesOf == [r \in Request |-> PhaseOf(r)]
RowsOf == [r \in Request |-> Len(segments[r])]
LiveOf == [r \in Request |-> LiveRows(r)]

\* Nothing is asked at first.
LEMMA PromiseInit == CoordInit => Promise!Init
<1> SUFFICES ASSUME CoordInit PROVE Promise!Init
  OBVIOUS
<1>1. PhasesOf = [r \in Request |-> "new"] /\ PenOf = Promise!Nobody
  BY DEF CoordInit, Idle, PhasesOf, PhaseOf, PenOf, Promise!Nobody, Promise!Pen
<1>2. ASSUME NEW r \in Request PROVE Len(segments[r]) = 0 /\ LiveRows(r) = {}
  <2>1. segments[r] = <<>>
    BY DEF CoordInit
  <2> QED BY <2>1 DEF LiveRows
<1>3. RowsOf = [r \in Request |-> 0] /\ LiveOf = [r \in Request |-> {}]
  BY <1>2 DEF RowsOf, LiveOf
<1> QED BY <1>1, <1>3 DEF CoordInit, Promise!Init, PhasesOf, RowsOf, LiveOf

\* A step that leaves speech, requests and pen as they are is a stutter.
LEMMA PromiseStutters ==
    ASSUME UNCHANGED <<generations, stored, generationOf, segments, replyEnd>>,
           \A r \in Request : PhaseOf(r)' = PhaseOf(r), PenOf' = PenOf
    PROVE  UNCHANGED Promise!fenceVars
<1>1. PhasesOf' = PhasesOf
  BY DEF PhasesOf
<1>2. LiveOf' = LiveOf /\ RowsOf' = RowsOf
  BY DEF LiveOf, RowsOf, LiveRows
<1> QED BY <1>1, <1>2 DEF Promise!fenceVars, PhasesOf, LiveOf, RowsOf

\* What a step that writes nothing leaves of the rows.
LEMMA RowsStay ==
    ASSUME UNCHANGED segments
    PROVE  UNCHANGED <<RowsOf, LiveOf>>
  BY DEF LiveOf, RowsOf, LiveRows

\* submit asks, and the queueing of the request is no step of the promise.
LEMMA SubmitPromised ==
    ASSUME PromiseInv, NEW r \in Request, SubmitCheck(r) \/ SubmitPut(r) \/ Expires(r)
    PROVE  [Promise!Next]_Promise!fenceVars
<1>1. /\ UNCHANGED <<generations, stored, segments, replyEnd, worker>>
      /\ PenOf' = PenOf
  BY DEF SubmitCheck, SubmitPut, Expires, turnVars, PenOf
<1>2. CASE SubmitCheck(r)
  <2>1. /\ submission[r] = "none" /\ submission'[r] \in {"refused", "checked"}
        /\ \A q \in Request \ {r} : submission'[q] = submission[q]
        /\ pending' = pending
    BY <1>2 DEF SubmitCheck, PromiseInv, ReplyInv, ReplyTypeOK
  <2>2. /\ PhaseOf(r) = "new" /\ PhaseOf(r)' = "asked"
        /\ \A q \in Request \ {r} : PhaseOf(q)' = PhaseOf(q)
    BY <2>1 DEF PhaseOf
  <2>3. PhasesOf' = [PhasesOf EXCEPT ![r] = "asked"] /\ PhasesOf[r] = "new"
    BY <2>2 DEF PhasesOf
  <2>4. generationOf' = [generationOf EXCEPT ![r] = generations[DeviceOf[r]]]
    BY <1>2 DEF SubmitCheck
  <2>5. UNCHANGED <<RowsOf, LiveOf>>
    BY <1>1, RowsStay
  <2>6. Promise!Ask(r)
    BY <1>1, <2>3, <2>4, <2>5 DEF Promise!Ask, PhasesOf, RowsOf, LiveOf
  <2> QED BY <2>6 DEF Promise!Next
<1>3. CASE SubmitPut(r) \/ Expires(r)
  <2>1. generationOf' = generationOf
    BY <1>3 DEF SubmitPut, Expires
  <2>2. ASSUME NEW q \in Request PROVE PhaseOf(q)' = PhaseOf(q)
    <3>1. CASE Expires(r)
      BY <3>1 DEF Expires, PhaseOf
    <3>2. CASE SubmitPut(r)
      BY <3>2 DEF SubmitPut, PhaseOf, PromiseInv, ReplyInv, ReplyTypeOK
    <3> QED BY <1>3, <3>1, <3>2
  <2>3. UNCHANGED Promise!fenceVars
    BY <1>1, <2>1, <2>2, PromiseStutters
  <2> QED BY <2>3
<1> QED BY <1>2, <1>3

\* The request of the worker is asked, and is a request.
LEMMA WorkersRequest ==
    ASSUME PromiseInv, worker.at # "idle"
    PROVE  /\ worker.req \in Request /\ worker.req \in pending
           /\ PhaseOf(worker.req) = "asked" /\ submission[worker.req] = "accepted"
<1>1. worker.req \in Request /\ submission[worker.req] = "accepted"
  BY DEF PromiseInv, SpeechInv, WorkerAccepted
<1>2. worker.req \in pending
  BY DEF PromiseInv, LineInv
<1> QED BY <1>1, <1>2 DEF PhaseOf

\* The end of the request of the worker closes it.
LEMMA PopsCloses ==
    ASSUME PromiseInv, worker.at # "idle", Pops, submission' = submission
    PROVE  /\ PhasesOf' = [PhasesOf EXCEPT ![worker.req] = "closed"]
           /\ PhasesOf[worker.req] = "asked"
           /\ PenOf' = Promise!Nobody
<1>1. PICK r \in Request : r = worker.req /\ PhaseOf(r) = "asked" /\ submission[r] = "accepted"
  BY WorkersRequest
<1>2. PhaseOf(r)' = "closed"
  BY <1>1 DEF PhaseOf, Pops
<1>3. \A q \in Request \ {r} : PhaseOf(q)' = PhaseOf(q)
  BY <1>1 DEF PhaseOf, Pops
<1>4. PenOf' = Promise!Nobody
  BY DEF Pops, Idle, PenOf, Promise!Nobody, Promise!Pen
<1> QED BY <1>1, <1>2, <1>3, <1>4 DEF PhasesOf

\* Where the worker looks for staleness it takes the pen.
LEMMA DeliverPromised ==
    ASSUME PromiseInv, WorkerDeliver
    PROVE  [Promise!Next]_Promise!fenceVars
<1>1. PICK X : worker \in WorkerIn(X)
  BY DEF PromiseInv, SpeechInv, SpeechTypeOK, SpeechTypeIn
<1>2. /\ worker.at = "deliver" /\ worker.at # "idle"
      /\ UNCHANGED <<generations, stored, generationOf, pending, submission, segments, replyEnd>>
  BY DEF WorkerDeliver, OnlyWorker, sharedVars
<1>3. PhasesOf' = PhasesOf /\ \A q \in Request : PhaseOf(q)' = PhaseOf(q)
  BY <1>2 DEF PhasesOf, PhaseOf
<1>4. PenOf = Promise!Nobody
  BY <1>2 DEF PenOf, Promise!Nobody, Promise!Pen
<1>5. CASE Stale(worker.req) \/ DeviceOf[worker.req] = Web
  <2>1. \E at \in {"finish", "loop"} : worker' = [worker EXCEPT !.left = 0, !.at = at]
    BY <1>5 DEF WorkerDeliver, Delivered
  <2>2. worker'.at \in {"finish", "loop"}
    BY <1>1, <2>1 DEF WorkerIn
  <2>3. PenOf' = PenOf
    BY <1>4, <2>2 DEF PenOf, Promise!Nobody, Promise!Pen
  <2> QED BY <1>2, <1>3, <2>3, PromiseStutters
<1>6. CASE ~(Stale(worker.req) \/ DeviceOf[worker.req] = Web)
  <2>1. PICK n \in 1 .. MaxBatch : worker' = [worker EXCEPT !.at = "write", !.left = n]
    BY <1>6 DEF WorkerDeliver
  <2>2. worker'.at = "write" /\ worker'.left = n /\ worker'.req = worker.req
    BY <1>1, <2>1 DEF WorkerIn
  <2>3. PenOf' = Promise!Pen(worker.req, n)
    BY <2>2 DEF PenOf, Promise!Pen
  <2>4. worker.req \in Request /\ PhasesOf[worker.req] = "asked"
    BY <1>2, WorkersRequest DEF PhasesOf
  <2>5. Promise!Speaks(worker.req)
    BY <1>6 DEF Stale, Current, Promise!Speaks
  <2>6. UNCHANGED <<RowsOf, LiveOf>>
    BY <1>2, RowsStay
  <2>7. Promise!TakePen(worker.req, n)
    BY <1>2, <1>3, <1>4, <2>3, <2>4, <2>5, <2>6 DEF Promise!TakePen, PhasesOf, RowsOf, LiveOf
  <2>8. n \in 0 .. MaxBatch
    OBVIOUS
  <2> QED BY <2>4, <2>7, <2>8 DEF Promise!Next
<1> QED BY <1>5, <1>6

\* A sentence written is a row of the claim.
LEMMA WritePromised ==
    ASSUME PromiseInv, WorkerWrite
    PROVE  [Promise!Next]_Promise!fenceVars
<1>1. PICK X : SpeechTypeIn(X)
  BY DEF PromiseInv, SpeechInv, SpeechTypeOK
<1>2. worker.at = "write" /\ worker.at # "idle"
  BY DEF WorkerWrite
<1> DEFINE row == [of |-> worker.batch, live |-> TRUE]
<1>3. PICK r \in Request : r = worker.req
  BY <1>2, WorkersRequest
<1>4. /\ worker \in WorkerIn(X)
      /\ UNCHANGED <<generations, stored, generationOf, pending, submission, replyEnd>>
      /\ segments' = [segments EXCEPT ![r] = Append(@, row)]
  BY <1>1, <1>3 DEF SpeechTypeIn, WorkerWrite, sharedVars
<1>5. /\ segments[r] \in Seq(Row(X)) /\ segments'[r] = Append(segments[r], row)
      /\ \A q \in Request \ {r} : segments'[q] = segments[q]
      /\ row \in Row(X) /\ row.live
  BY <1>1, <1>3, <1>4 DEF SpeechTypeIn, Row, WorkerIn
<1>6. PhasesOf' = PhasesOf
  BY <1>4 DEF PhasesOf, PhaseOf
<1>7. Len(segments'[r]) = Len(segments[r]) + 1
  <2> HIDE DEF row
  <2> QED BY <1>5, AppendProperties
<1>8. LiveRows(r)' = LiveRows(r) \cup {Len(segments[r]) + 1}
  BY <1>5, RowAppended
<1>9. \A q \in Request \ {r} : Len(segments'[q]) = Len(segments[q]) /\ LiveRows(q)' = LiveRows(q)
  BY <1>5 DEF LiveRows
<1>10. RowsOf' = [RowsOf EXCEPT ![r] = RowsOf[r] + 1]
  <2>1. RowsOf[r] = Len(segments[r])
    BY DEF RowsOf
  <2>2. RowsOf' = [q \in Request |-> IF q = r THEN RowsOf[r] + 1 ELSE RowsOf[q]]
    BY <1>7, <1>9, <2>1 DEF RowsOf
  <2> QED BY <2>2 DEF RowsOf
<1>11. LiveOf' = [LiveOf EXCEPT ![r] = LiveOf[r] \cup {RowsOf[r] + 1}]
  <2>1. RowsOf[r] = Len(segments[r]) /\ LiveOf[r] = LiveRows(r)
    BY DEF RowsOf, LiveOf
  <2>2. LiveOf' = [q \in Request |-> IF q = r THEN LiveOf[r] \cup {RowsOf[r] + 1} ELSE LiveOf[q]]
    BY <1>8, <1>9, <2>1 DEF LiveOf
  <2> QED BY <2>2 DEF LiveOf
<1>12. worker.left \in 1 .. MaxBatch /\ MaxBatch \in Nat
  BY <1>2, CoordinatorAssumption DEF PromiseInv, SpeechInv, BatchBound, CoordinatorAssumption
<1>13. PenOf = Promise!Pen(r, worker.left)
  BY <1>2, <1>3 DEF PenOf, Promise!Pen
<1>14. PenOf' = IF worker.left > 1 THEN Promise!Pen(r, worker.left - 1) ELSE Promise!Nobody
  <2>1. CASE worker.left > 1
    <3>1. worker' = [worker EXCEPT !.left = worker.left - 1]
      BY <2>1 DEF WorkerWrite
    <3>2. worker'.at = "write" /\ worker'.left = worker.left - 1 /\ worker'.req = r
      BY <1>2, <1>3, <1>4, <3>1 DEF WorkerIn
    <3> QED BY <2>1, <3>2 DEF PenOf, Promise!Pen
  <2>2. CASE ~(worker.left > 1)
    <3>1. \E at \in {"finish", "loop"} : worker' = [worker EXCEPT !.left = 0, !.at = at]
      BY <2>2 DEF WorkerWrite, Delivered
    <3>2. worker'.at \in {"finish", "loop"}
      BY <1>4, <3>1 DEF WorkerIn
    <3> QED BY <2>2, <3>2 DEF PenOf, Promise!Nobody, Promise!Pen
  <2> QED BY <2>1, <2>2
<1>15. PenOf.of = r /\ PenOf.left = worker.left /\ PenOf.left > 0
  BY <1>12, <1>13 DEF Promise!Pen
<1> HIDE DEF row
<1>16. Promise!Write(r)
  BY <1>4, <1>6, <1>10, <1>11, <1>14, <1>15 DEF Promise!Write, PhasesOf, RowsOf, LiveOf
<1> QED BY <1>16 DEF Promise!Next

\* The end of a turn takes the pen for the reply end, or closes the request.
LEMMA ReplyEndPromised ==
    ASSUME PromiseInv, WorkerReplyEnd
    PROVE  [Promise!Next]_Promise!fenceVars
<1>1. PICK X : worker \in WorkerIn(X)
  BY DEF PromiseInv, SpeechInv, SpeechTypeOK, SpeechTypeIn
<1> DEFINE r == worker.req
<1>2. /\ worker.at = "reply end" /\ worker.at # "idle"
      /\ UNCHANGED <<generations, stored, generationOf, submission, segments, replyEnd>>
  BY DEF WorkerReplyEnd, OnlyPops
<1>3. r \in Request /\ PhaseOf(r) = "asked" /\ PenOf = Promise!Nobody
  BY <1>2, WorkersRequest DEF PenOf, Promise!Nobody, Promise!Pen
<1>4. UNCHANGED <<RowsOf, LiveOf>>
  BY <1>2, RowsStay
<1>5. CASE EndsReply(r)
  <2>1. worker' = [worker EXCEPT !.at = "write end"] /\ pending' = pending
    BY <1>5 DEF WorkerReplyEnd, WorkerGoes
  <2>2. worker'.at = "write end" /\ worker'.req = r
    BY <1>1, <2>1 DEF WorkerIn
  <2>3. PenOf' = Promise!Pen(r, 0)
    BY <2>2 DEF PenOf, Promise!Pen
  <2>4. PhasesOf' = PhasesOf /\ PhasesOf[r] = "asked"
    BY <1>2, <1>3, <2>1 DEF PhasesOf, PhaseOf
  <2>5. Promise!Speaks(r)
    BY <1>5 DEF EndsReply, Current, Promise!Speaks
  <2> HIDE DEF r
  <2>6. Promise!TakePen(r, 0)
    BY <1>2, <1>3, <1>4, <2>3, <2>4, <2>5 DEF Promise!TakePen, PhasesOf, RowsOf, LiveOf
  <2>7. 0 \in 0 .. MaxBatch
    BY CoordinatorAssumption DEF CoordinatorAssumption
  <2> QED BY <1>3, <2>6, <2>7 DEF Promise!Next
<1>6. CASE ~EndsReply(r)
  <2>1. Pops
    BY <1>6 DEF WorkerReplyEnd
  <2>2. /\ PhasesOf' = [PhasesOf EXCEPT ![r] = "closed"] /\ PhasesOf[r] = "asked"
        /\ PenOf' = PenOf
    BY <1>2, <1>3, <2>1, PopsCloses
  <2>3. ~Promise!Speaks(r)
    BY <1>6 DEF EndsReply, Current, Promise!Speaks
  <2>4. PenOf.of # r
    BY <1>3, ClientAssumption DEF ClientAssumption, Promise!Nobody, Promise!Pen
  <2> HIDE DEF r
  <2>5. Promise!Close(r)
    BY <1>2, <1>4, <2>2, <2>3, <2>4 DEF Promise!Close, PhasesOf, RowsOf, LiveOf
  <2> QED BY <1>3, <2>5 DEF Promise!Next
<1> QED BY <1>5, <1>6

\* The reply end is written and the request closed.
LEMMA WriteEndPromised ==
    ASSUME PromiseInv, WorkerWriteEnd
    PROVE  [Promise!Next]_Promise!fenceVars
<1> DEFINE r == worker.req
<1>1. /\ worker.at = "write end" /\ worker.at # "idle" /\ Pops
      /\ UNCHANGED <<generations, stored, generationOf, submission, segments>>
      /\ replyEnd' = [replyEnd EXCEPT ![r] = "live"]
  BY DEF WorkerWriteEnd, OnlyPops
<1>2. r \in Request /\ PenOf = Promise!Pen(r, 0)
  BY <1>1, WorkersRequest DEF PenOf, Promise!Pen
<1>3. UNCHANGED <<RowsOf, LiveOf>>
  BY <1>1, RowsStay
<1>4. /\ PhasesOf' = [PhasesOf EXCEPT ![r] = "closed"] /\ PhasesOf[r] = "asked"
      /\ PenOf' = Promise!Nobody
  BY <1>1, PopsCloses
<1> HIDE DEF r
<1>5. Promise!End(r)
  BY <1>1, <1>2, <1>3, <1>4 DEF Promise!End, PhasesOf, RowsOf, LiveOf
<1> QED BY <1>2, <1>5 DEF Promise!Next

\* The other steps of the worker are none of the promise.
LEMMA MovesPromised ==
    ASSUME PromiseInv,
           \/ WorkerTake \/ WorkerAwaitReady \/ WorkerActivate \/ WorkerDrain \/ WorkerStart
           \/ WorkerStops \/ WorkerTimesOut \/ WorkerReads \/ WorkerFinish
    PROVE  [Promise!Next]_Promise!fenceVars
<1>1. PICK X : worker \in WorkerIn(X)
  BY DEF PromiseInv, SpeechInv, SpeechTypeOK, SpeechTypeIn
<1>2. UNCHANGED <<generations, stored, generationOf, pending, submission, segments, replyEnd>>
  BY DEF WorkerTake, WorkerAwaitReady, WorkerActivate, WorkerDrain, WorkerStart, WorkerStops,
     WorkerTimesOut, WorkerReads, WorkerFinish, OnlyWorker, sharedVars
<1>3. worker.at \notin {"write", "write end"}
  BY DEF WorkerTake, WorkerAwaitReady, WorkerActivate, WorkerDrain, WorkerStart, WorkerStops,
     WorkerTimesOut, WorkerReads, WorkerFinish
<1>4. worker'.at \notin {"write", "write end"}
  <2>1. CASE WorkerTake
    <3>1. \E at \in {"finish", "await ready"} :
             worker' = [Idle EXCEPT !.at = at, !.req = Head(requests)]
      BY <2>1 DEF WorkerTake
    <3> QED BY <3>1 DEF Idle
  <2>2. CASE WorkerReads
    <3>1. \/ worker' = [worker EXCEPT !.at = "deliver", !.batch = Head(events).of]
          \/ worker' = [worker EXCEPT !.tail = Head(events).of]
          \/ \E at \in {"finish", "deliver"} :
                worker' = [worker EXCEPT !.at = at, !.batch = worker.tail, !.tail = NoRequest,
                                         !.last = TRUE]
          \/ worker' = [worker EXCEPT !.at = "finish"]
          \/ worker' = worker
      BY <2>2 DEF WorkerReads, Ends, WorkerGoes
    <3> QED BY <1>1, <1>3, <3>1 DEF WorkerIn
  <2>3. CASE ~(WorkerTake \/ WorkerReads)
    <3>1. \E at \in Stations \ {"write", "write end"} : worker' = [worker EXCEPT !.at = at]
      BY <2>3 DEF WorkerAwaitReady, WorkerActivate, WorkerDrain, WorkerStart, WorkerStops,
         WorkerTimesOut, WorkerFinish, Ends, WorkerGoes, Stations
    <3> QED BY <1>1, <3>1 DEF WorkerIn
  <2> QED BY <2>1, <2>2, <2>3
<1>5. PenOf' = PenOf
  BY <1>3, <1>4 DEF PenOf
<1>6. \A q \in Request : PhaseOf(q)' = PhaseOf(q)
  BY <1>2 DEF PhaseOf
<1> QED BY <1>2, <1>5, <1>6, PromiseStutters

\* The cancel sink is the fence.
LEMMA SinkPromised ==
    ASSUME PromiseInv, NEW t \in Thread, NEW d \in Speaking, SinkCancels(t, d)
    PROVE  [Promise!Next]_Promise!fenceVars
<1> DEFINE g == thread[t].mark[d]
           Old(r) == DeviceOf[r] = d /\ generationOf[r] < g
           cancelled(r) == [i \in DOMAIN segments[r] |-> [segments[r][i] EXCEPT !.live = FALSE]]
<1>1. PICK X : SpeechTypeIn(X)
  BY DEF PromiseInv, SpeechInv, SpeechTypeOK
<1>2. /\ d \in thread[t].sinks
      /\ stored' = [stored EXCEPT ![d] = IF g > @ THEN g ELSE @]
      /\ segments' = [r \in Request |-> IF Old(r) THEN cancelled(r) ELSE segments[r]]
      /\ replyEnd' = [r \in Request |->
                          IF Old(r) /\ replyEnd[r] = "live" THEN "cancelled" ELSE replyEnd[r]]
      /\ UNCHANGED <<generations, generationOf, submission, pending, worker>>
  BY DEF SinkCancels, Stored
<1>3. d \in Device \ {Web} /\ g \in 0 .. generations[d]
  <2>1. d \in Device /\ generations \in [Device -> Nat] /\ thread[t] \in Job
    BY DEF PromiseInv, FenceInv, FenceTypeOK, Speaking
  <2>2. thread[t].mark[d] <= generations[d]
    BY <1>2 DEF PromiseInv, FenceInv
  <2>3. g \in Nat /\ generations[d] \in Nat
    BY <2>1 DEF Job
  <2> HIDE DEF g
  <2>4. g \in 0 .. generations[d]
    BY <2>2, <2>3 DEF g
  <2> QED BY <2>4 DEF Speaking
<1>4. ASSUME NEW r \in Request
      PROVE  /\ Len(segments'[r]) = Len(segments[r])
             /\ LiveRows(r)' = IF Old(r) THEN {} ELSE LiveRows(r)
  <2>1. segments[r] \in Seq(Row(X))
    BY <1>1 DEF SpeechTypeIn
  <2>2. CASE ~Old(r)
    <3>1. segments'[r] = segments[r]
      BY <1>2, <2>2
    <3> QED BY <2>2, <3>1 DEF LiveRows
  <2>3. CASE Old(r)
    <3>1. segments'[r] = cancelled(r)
      BY <1>2, <2>3
    <3>2. PICK n \in Nat : n = Len(segments[r]) /\ DOMAIN segments[r] = 1 .. n
      BY <2>1, LenProperties
    <3>3. ASSUME NEW i \in 1 .. n
          PROVE  /\ [segments[r][i] EXCEPT !.live = FALSE] \in Row(X)
                 /\ ~[segments[r][i] EXCEPT !.live = FALSE].live
      <4>1. segments[r][i] \in Row(X)
        BY <2>1, <3>2, ElementOfSeq
      <4> QED BY <4>1 DEF Row
    <3>4. segments'[r] = [i \in 1 .. n |-> [segments[r][i] EXCEPT !.live = FALSE]]
      BY <3>1, <3>2
    <3>5. Len(segments'[r]) = n /\ DOMAIN segments'[r] = 1 .. n
      BY <3>2, <3>4
    <3>6. LiveRows(r)' = {}
      BY <3>3, <3>4, <3>5 DEF LiveRows
    <3> QED BY <2>3, <3>2, <3>5, <3>6
  <2> QED BY <2>2, <2>3
<1>5. RowsOf' = RowsOf
  BY <1>4 DEF RowsOf
<1>6. LiveOf' = [r \in Request |-> IF Old(r) THEN {} ELSE LiveOf[r]]
  <2> HIDE DEF Old
  <2> QED BY <1>4 DEF LiveOf
<1>7. PhasesOf' = PhasesOf /\ PenOf' = PenOf
  BY <1>2 DEF PhasesOf, PhaseOf, PenOf
<1>8. g <= generations[d]
  BY <1>3
<1> HIDE DEF g
<1>9. Promise!Fence(d, g)
  BY <1>2, <1>5, <1>6, <1>7, <1>8 DEF Promise!Fence, PhasesOf, RowsOf, LiveOf
<1> QED BY <1>3, <1>9 DEF Promise!Next

\* A job that begins moves generations on.
LEMMA JobPromised ==
    ASSUME PromiseInv, FenceInv', NEW t,
           \/ \E d \in Speaking : \/ CancelDevice(t, d)
                                  \/ \E g \in 0 .. MaxGeneration : SyncDeviceGeneration(t, d, g)
           \/ \E job \in {"reset", "switch"} : BeginTransition(t, job)
    PROVE  [Promise!Next]_Promise!fenceVars
<1>1. UNCHANGED <<stored, generationOf, pending, submission, worker, segments, replyEnd>>
  BY DEF CancelDevice, SyncDeviceGeneration, BeginTransition, Begins, turnVars
<1>2. Grows /\ generations' \in [Device -> Nat]
  BY JobsGrow DEF PromiseInv, FenceInv, FenceTypeOK
<1>3. \A d \in Device : generations'[d] >= generations[d]
  BY <1>2 DEF Grows
<1>4. PhasesOf' = PhasesOf /\ PenOf' = PenOf /\ UNCHANGED <<RowsOf, LiveOf>>
  BY <1>1, RowsStay DEF PhasesOf, PhaseOf, PenOf
<1>5. Promise!MoveOn
  BY <1>1, <1>2, <1>3, <1>4 DEF Promise!MoveOn, PhasesOf, RowsOf, LiveOf
<1> QED BY <1>5 DEF Promise!Next

\* So every step of the coordinator is one of the promise, or none.
LEMMA PromiseStep ==
    PromiseInv /\ FenceInv' /\ [CoordNext]_coordVars => [Promise!Next]_Promise!fenceVars
<1> SUFFICES ASSUME PromiseInv, FenceInv', [CoordNext]_coordVars
             PROVE  [Promise!Next]_Promise!fenceVars
  OBVIOUS
<1>1. CASE \E r \in Request : SubmitCheck(r) \/ SubmitPut(r) \/ Expires(r)
  BY <1>1, SubmitPromised
<1>2. CASE Worker
  BY <1>2, DeliverPromised, WritePromised, ReplyEndPromised, WriteEndPromised, MovesPromised
     DEF Worker
<1>3. CASE \E t \in Thread :
              \/ \E d \in Speaking : \/ CancelDevice(t, d)
                                     \/ \E g \in 0 .. MaxGeneration : SyncDeviceGeneration(t, d, g)
              \/ \E job \in {"reset", "switch"} : BeginTransition(t, job)
  BY <1>3, JobPromised
<1>4. CASE \E t \in Thread, d \in Speaking : SinkCancels(t, d)
  BY <1>4, SinkPromised
<1>5. CASE UNCHANGED <<generations, stored, generationOf, pending, submission, turnVars>>
  <2>1. PenOf' = PenOf /\ \A q \in Request : PhaseOf(q)' = PhaseOf(q)
    BY <1>5 DEF PenOf, PhaseOf, turnVars
  <2> QED BY <1>5, <2>1, PromiseStutters DEF turnVars
<1>6. CASE \E t \in Thread : ThreadStep(t) /\ ~\E d \in Speaking : SinkCancels(t, d)
  <2>1. UNCHANGED <<generations, stored, generationOf, pending, submission, turnVars>>
    BY <1>6 DEF ThreadStep, TellMorrow, AwaitNoTurn, GiveUp, ResetAwaitReady, ResetDrain,
       ResetSend, ResetReads, ResetRetries, SwitchClient, SwitchAwaits, EndTransition,
       OnlyThread, sharedVars
  <2> QED BY <1>5, <2>1
<1>7. CASE UNCHANGED <<sharedVars, turnVars, thread>> \/ UNCHANGED coordVars
  <2>1. UNCHANGED <<generations, stored, generationOf, pending, submission, turnVars>>
    BY <1>7 DEF coordVars, sharedVars
  <2> QED BY <1>5, <2>1
<1> QED BY <1>1, <1>2, <1>3, <1>4, <1>6, <1>7 DEF CoordNext

\* The coordinator, with its queue, its worker and any number of threads that
\* cancel, reset and switch at any time, keeps the promise of SpeechFence.
THEOREM CoordinatorKeepsItsPromise == CoordSpec => SpeaksBehindTheFence
<1>1. CoordInit => PromiseInv
  BY FenceInit, ReplyInit, SpeechInit, LineInit DEF PromiseInv
<1>2. PromiseInv /\ [CoordNext]_coordVars => PromiseInv'
  BY FenceNext, ReplyNext, SpeechNext, LineNext DEF PromiseInv
<1>3. PromiseInv' => FenceInv'
  BY DEF PromiseInv
<1>4. CoordSpec => Promise!Spec
  BY <1>1, <1>2, <1>3, PromiseInit, PromiseStep, PTL DEF CoordSpec, Promise!Spec
<1> QED BY <1>4 DEF SpeaksBehindTheFence
-----------------------------------------------------------------------------
(* The types of the client.  What a text or a snapshot is about is a turn,  *)
(* and so is what a start_turn asks for.                                    *)

Turn == Request \cup {NoRequest}
Told == {m \in Message : /\ m.type = "text" => m.of \in Request
                         /\ m.type = "snapshot" => m.of \in Turn}
Asked == {f \in Frame : f.type = "start_turn" => f.of \in Request}

LinkTypes ==
    /\ link \in {"down", "up", "closing"} /\ ready \in BOOLEAN /\ turnId \in Turn
    /\ session \in 1 .. MaxSession + 1 /\ linked \in 1 .. MaxSession + 1
    /\ drops \in 0 .. MaxDrops
AgentTypes == running \in [1 .. MaxSession + 1 -> Turn] /\ texts \in 0 .. MaxTexts
WireTypes ==
    /\ events \in Seq(Told) /\ Len(events) <= EventQueueSize
    /\ uplink \in Seq(Asked) /\ downlink \in Seq(Told)
ClientTypes == LinkTypes /\ AgentTypes /\ WireTypes

LEMMA ClientTyped == ClientTypes => ClientTypeOK
<1> SUFFICES ASSUME ClientTypes PROVE ClientTypeOK
  OBVIOUS
<1>1. Told \subseteq Message /\ Asked \subseteq Frame
  BY DEF Told, Asked
<1>2. Seq(Told) \subseteq Seq(Message) /\ Seq(Asked) \subseteq Seq(Frame)
  BY <1>1, SeqMonotonic
<1>3. DOMAIN running = 1 .. MaxSession + 1
  BY DEF ClientTypes, AgentTypes
<1> QED BY <1>2, <1>3 DEF ClientTypes, LinkTypes, AgentTypes, WireTypes, ClientTypeOK, Turn

LEMMA ClientInitTypes == ClientInit => ClientTypes
<1> SUFFICES ASSUME ClientInit PROVE ClientTypes
  OBVIOUS
<1>1. EventQueueSize \in Nat /\ MaxTexts \in Nat /\ MaxDrops \in Nat /\ MaxSession \in Nat
  BY ClientAssumption DEF ClientAssumption
<1>2. << >> \in Seq(Told) /\ << >> \in Seq(Asked) /\ Len(<< >>) = 0
  OBVIOUS
<1>3. 1 \in 1 .. MaxSession + 1 /\ 0 \in 0 .. MaxDrops /\ 0 \in 0 .. MaxTexts
  BY <1>1
<1>4. LinkTypes
  BY <1>3 DEF ClientInit, LinkTypes, Turn
<1>5. AgentTypes
  BY <1>3 DEF ClientInit, AgentTypes, Turn
<1>6. WireTypes
  BY <1>1, <1>2 DEF ClientInit, WireTypes
<1> QED BY <1>4, <1>5, <1>6 DEF ClientTypes

LEMMA ClientStays == ClientTypes /\ UNCHANGED clientVars => ClientTypes'
  BY DEF clientVars, socketVars, agentVars, ClientTypes, LinkTypes, AgentTypes, WireTypes

LEMMA HeadAndTail ==
    ASSUME NEW S, NEW q \in Seq(S), q # << >>
    PROVE  Head(q) \in S /\ Tail(q) \in Seq(S) /\ Len(Tail(q)) = Len(q) - 1 /\ Len(q) \in Nat
  OBVIOUS

LEMMA OfferedTypes ==
    ASSUME WireTypes, NEW m \in Told
    PROVE  Offered(m) \in Seq(Told) /\ Len(Offered(m)) <= EventQueueSize
<1>1. EventQueueSize \in Nat /\ Len(events) \in Nat
  BY ClientAssumption DEF ClientAssumption, WireTypes
<1>2. Append(events, m) \in Seq(Told) /\ Len(Append(events, m)) = Len(events) + 1
  BY DEF WireTypes
<1> QED BY <1>1, <1>2 DEF Offered, WireTypes

LEMMA SendsTypes == ASSUME ClientTypes, NEW f \in Asked, Sends(f) PROVE ClientTypes'
<1>1. Append(uplink, f) \in Seq(Asked)
  BY DEF ClientTypes, WireTypes
<1> QED BY <1>1 DEF Sends, agentVars, ClientTypes, LinkTypes, AgentTypes, WireTypes

LEMMA CancelTypes == ASSUME ClientTypes, CancelTurn \/ CancelTurnRaises PROVE ClientTypes'
<1>1. CASE turnId # NoRequest /\ Sends([type |-> "cancel_turn", of |-> turnId])
  <2>1. [type |-> "cancel_turn", of |-> turnId] \in Asked
    BY <1>1 DEF ClientTypes, LinkTypes, Turn, Asked, Frame
  <2> QED BY <1>1, <2>1, SendsTypes
<1>2. CASE UNCHANGED clientVars
  BY <1>2, ClientStays
<1> QED BY <1>1, <1>2 DEF CancelTurn, CancelTurnRaises, SendRaises

LEMMA DrainTypes == ASSUME ClientTypes, Drain PROVE ClientTypes'
<1>1. << >> \in Seq(Told) /\ Len(<< >>) = 0 /\ EventQueueSize \in Nat
  BY ClientAssumption DEF ClientAssumption
<1> QED BY <1>1 DEF Drain, socketVars, agentVars, ClientTypes, LinkTypes, AgentTypes, WireTypes

LEMMA TakeTypes == ASSUME ClientTypes, events # << >>, Take PROVE ClientTypes' /\ Head(events) \in Told
<1>1. /\ Head(events) \in Told /\ Tail(events) \in Seq(Told)
      /\ Len(Tail(events)) = Len(events) - 1 /\ Len(events) \in Nat
  BY HeadAndTail DEF ClientTypes, WireTypes
<1>2. EventQueueSize \in Nat
  BY ClientAssumption DEF ClientAssumption
<1> QED BY <1>1, <1>2 DEF Take, socketVars, agentVars, ClientTypes, LinkTypes, AgentTypes, WireTypes

LEMMA SwitchTypes == ASSUME ClientTypes, session <= MaxSession, SwitchSession PROVE ClientTypes'
<1>1. MaxSession \in Nat
  BY ClientAssumption DEF ClientAssumption
<1>2. session + 1 \in 1 .. MaxSession + 1
  BY <1>1 DEF ClientTypes, LinkTypes
<1>3. LinkTypes'
  BY <1>2 DEF SwitchSession, socketVars, ClientTypes, LinkTypes
<1> QED BY <1>3 DEF SwitchSession, socketVars, agentVars, ClientTypes, AgentTypes, WireTypes

LEMMA ReaderTypes == ASSUME ClientTypes, Reader PROVE ClientTypes'
<1>0. LinkTypes /\ AgentTypes /\ WireTypes /\ MaxDrops \in Nat
  BY ClientAssumption DEF ClientAssumption, ClientTypes
<1>1. [type |-> "disconnected", of |-> NoRequest] \in Told
  BY DEF Told, Message
<1>2. CASE Connect
  <2>1. running[session] \in Turn
    BY <1>0 DEF LinkTypes, AgentTypes
  <2>2. [type |-> "snapshot", of |-> running[session]] \in Told
    BY <2>1 DEF Told, Message, Turn
  <2> QED BY <1>0, <1>2, <2>2 DEF Connect, agentVars, ClientTypes, LinkTypes, AgentTypes, WireTypes
<1>3. CASE ConnectFails
  <2>1. drops' \in 0 .. MaxDrops
    BY <1>0, <1>3 DEF ConnectFails, LinkTypes
  <2> QED BY <1>0, <1>1, <1>3, <2>1, OfferedTypes DEF ConnectFails, agentVars, ClientTypes, LinkTypes, AgentTypes, WireTypes
<1>4. CASE Receive
  <2>1. Head(downlink) \in Told /\ Tail(downlink) \in Seq(Told)
    BY <1>0, <1>4, HeadAndTail DEF Receive, WireTypes
  <2>2. turnId' \in Turn /\ ready' \in BOOLEAN
    BY <1>0, <1>4, <2>1 DEF Receive, Told, LinkTypes
  <2>3. WireTypes'
    BY <1>0, <1>4, <2>1, OfferedTypes DEF Receive, WireTypes
  <2> QED BY <1>0, <1>4, <2>2, <2>3 DEF Receive, agentVars, ClientTypes, LinkTypes, AgentTypes
<1>5. CASE Disconnect
  <2>1. drops' \in 0 .. MaxDrops
    BY <1>0, <1>5 DEF Disconnect, LinkTypes
  <2> QED BY <1>0, <1>1, <1>5, <2>1, OfferedTypes DEF Disconnect, agentVars, ClientTypes, LinkTypes, AgentTypes, WireTypes
<1>6. CASE Retire
  BY <1>0, <1>6 DEF Retire, agentVars, ClientTypes, LinkTypes, AgentTypes, WireTypes, Turn
<1> QED BY <1>2, <1>3, <1>4, <1>5, <1>6 DEF Reader

LEMMA TellsTypes == ASSUME WireTypes, NEW s, NEW m \in Told, Tells(s, m) PROVE downlink' \in Seq(Told)
<1>1. Append(downlink, m) \in Seq(Told)
  BY DEF WireTypes
<1> QED BY <1>1 DEF Tells, WireTypes

LEMMA AgentKeepsTypes == ASSUME ClientTypes, Agent PROVE ClientTypes'
<1>0. LinkTypes /\ AgentTypes /\ WireTypes /\ MaxTexts \in Nat
  BY ClientAssumption DEF ClientAssumption, ClientTypes
<1>1. ASSUME NEW of \in Request \cup Resetter, NEW type \in {"turn_saved", "error", "turn_rejected"}
      PROVE  [type |-> type, of |-> of] \in Told
  BY DEF Told, Message
<1>2. CASE AgentTakes
  <2> DEFINE f == Head(uplink)
  <2>1. f \in Asked /\ Tail(uplink) \in Seq(Asked)
    BY <1>0, <1>2, HeadAndTail DEF AgentTakes, WireTypes
  <2>2. f.of \in Request \cup Resetter /\ (f.type = "start_turn" => f.of \in Request)
    BY <2>1 DEF Asked, Frame
  <2>3. uplink' = Tail(uplink) /\ UNCHANGED <<session, link, linked, ready, turnId, events, drops>>
    BY <1>2 DEF AgentTakes
  <2>4. [type |-> "snapshot", of |-> NoRequest] \in Told
    BY DEF Told, Message, Turn
  <2>5. AgentTypes' /\ downlink' \in Seq(Told)
    <3>1. \/ running' = [running EXCEPT ![linked] = f.of] /\ texts' = 0 /\ downlink' = downlink /\ f.type = "start_turn"
          \/ Tells(linked, [type |-> "snapshot", of |-> NoRequest]) /\ UNCHANGED agentVars
          \/ Tells(linked, [type |-> "turn_rejected", of |-> f.of]) /\ UNCHANGED agentVars
          \/ /\ \E t \in {"turn_saved", "error"} : Tells(linked, [type |-> t, of |-> f.of])
             /\ running' = [running EXCEPT ![linked] = NoRequest] /\ texts' = texts
          \/ UNCHANGED <<downlink, agentVars>>
      BY <1>2 DEF AgentTakes
    <3>2. CASE running' = [running EXCEPT ![linked] = f.of] /\ texts' = 0 /\ downlink' = downlink /\ f.type = "start_turn"
      <4>1. f.of \in Turn /\ 0 \in 0 .. MaxTexts
        BY <1>0, <2>2, <3>2 DEF Turn
      <4> QED BY <1>0, <3>2, <4>1 DEF AgentTypes, WireTypes
    <3>3. CASE Tells(linked, [type |-> "snapshot", of |-> NoRequest]) /\ UNCHANGED agentVars
      BY <1>0, <2>4, <3>3, TellsTypes DEF AgentTypes, agentVars
    <3>4. CASE Tells(linked, [type |-> "turn_rejected", of |-> f.of]) /\ UNCHANGED agentVars
      BY <1>0, <1>1, <2>2, <3>4, TellsTypes DEF AgentTypes, agentVars
    <3>5. CASE /\ \E t \in {"turn_saved", "error"} : Tells(linked, [type |-> t, of |-> f.of])
               /\ running' = [running EXCEPT ![linked] = NoRequest] /\ texts' = texts
      BY <1>0, <1>1, <2>2, <3>5, TellsTypes DEF AgentTypes, Turn
    <3>6. CASE UNCHANGED <<downlink, agentVars>>
      BY <1>0, <3>6 DEF AgentTypes, WireTypes, agentVars
    <3> QED BY <3>1, <3>2, <3>3, <3>4, <3>5, <3>6
  <2> QED BY <1>0, <2>1, <2>3, <2>5 DEF ClientTypes, LinkTypes, WireTypes
<1>3. ASSUME NEW s \in DOMAIN running, AgentTells(s) PROVE ClientTypes'
  <2>1. running[s] \in Request
    BY <1>0, <1>3 DEF AgentTells, AgentTypes, Turn
  <2>2. [type |-> "text", of |-> running[s]] \in Told
    BY <2>1 DEF Told, Message
  <2>3. texts' \in 0 .. MaxTexts /\ running' \in [1 .. MaxSession + 1 -> Turn]
    BY <1>0, <1>3 DEF AgentTells, AgentTypes, Turn
  <2>4. downlink' \in Seq(Told)
    BY <1>0, <1>1, <1>3, <2>1, <2>2, TellsTypes DEF AgentTells
  <2> QED BY <1>0, <1>3, <2>3, <2>4 DEF AgentTells, ClientTypes, LinkTypes, AgentTypes, WireTypes
<1> QED BY <1>2, <1>3 DEF Agent

-----------------------------------------------------------------------------
(* The types of the coordinator: what is active is the worker's turn, from  *)
(* its activation to its end, and only a thread that resets or switches     *)
(* goes beyond its sinks.                                                   *)

Station == [at : Stations, req : Turn, batch : Turn, left : Nat, tail : Turn, last : BOOLEAN]
Bounded == 0 .. MaxGeneration
BoundedJob == {j \in Job : j.mark \in [Device -> Bounded]}

QueueTypes ==
    /\ requests \in Seq(Request) /\ Len(requests) <= QueueSize
    /\ pending \subseteq Request /\ expired \subseteq Request
WorkerTypes ==
    /\ worker \in Station
    /\ worker.at # "idle" => worker.req \in Request
    /\ worker.at \in {"deliver", "write"} => worker.batch \in Request
ActiveIs ==
    /\ worker.at \in {"drain", "start", "loop", "deliver", "write"} => active = worker.req
    /\ worker.at \in {"idle", "await ready", "activate", "reply end", "write end"} => active = NoRequest
    /\ worker.at = "finish" => active \in {NoRequest, worker.req}
SegmentTypes == segments \in [Request -> Seq(Row(Request))]
JobTypes ==
    /\ generations \in [Device -> Bounded] /\ stored \in [Device -> Bounded]
    /\ thread \in [Thread -> BoundedJob]
    /\ \A t \in Thread \ Resetter :
          thread[t].at = "idle" \/ (thread[t].at = "sinks" /\ thread[t].job = "cancel")

CoordTypes == ClientTypes /\ QueueTypes /\ WorkerTypes /\ ActiveIs /\ SegmentTypes /\ JobTypes

LEMMA CoordTyped == CoordTypes => CoordTypeOK
<1> SUFFICES ASSUME CoordTypes PROVE CoordTypeOK
  OBVIOUS
<1>1. ClientTypeOK
  BY ClientTyped DEF CoordTypes
<1>2. ASSUME NEW r \in Request, NEW i \in DOMAIN segments[r] PROVE segments[r][i].of \in Request
  <2>1. segments[r] \in Seq(Row(Request))
    BY DEF CoordTypes, SegmentTypes
  <2>2. segments[r][i] \in Row(Request)
    BY <2>1
  <2> QED BY <2>2 DEF Row
<1>3. worker.req \in Turn
  BY DEF CoordTypes, WorkerTypes, Station
<1> QED BY <1>1, <1>2, <1>3 DEF CoordTypes, QueueTypes, ActiveIs, JobTypes, Bounded, Turn, CoordTypeOK

LEMMA CoordInitTypes == CoordInit => CoordTypes
<1> SUFFICES ASSUME CoordInit PROVE CoordTypes
  OBVIOUS
<1>0. QueueSize \in Nat /\ MaxGeneration \in Nat
  BY CoordinatorAssumption DEF CoordinatorAssumption
<1>1. ClientTypes
  BY ClientInitTypes DEF CoordInit
<1>2. QueueTypes
  BY <1>0 DEF CoordInit, QueueTypes
<1>3. WorkerTypes /\ ActiveIs
  BY DEF CoordInit, WorkerTypes, ActiveIs, Idle, Station, Stations, Turn
<1>4. SegmentTypes
  BY DEF CoordInit, SegmentTypes
<1>5. JobTypes
  <2>1. 0 \in Bounded
    BY <1>0 DEF Bounded
  <2>2. Free \in BoundedJob /\ Free.at = "idle"
    BY <2>1, FreeJob DEF BoundedJob, Free
  <2> QED BY <2>1, <2>2 DEF CoordInit, JobTypes
<1> QED BY <1>1, <1>2, <1>3, <1>4, <1>5 DEF CoordTypes

\* A step keeps the parts whose variables it leaves alone.
LEMMA PartsStay ==
    ASSUME CoordTypes
    PROVE  /\ UNCHANGED clientVars => ClientTypes'
           /\ UNCHANGED <<requests, pending, expired>> => QueueTypes'
           /\ UNCHANGED worker => WorkerTypes'
           /\ UNCHANGED <<worker, active>> => ActiveIs'
           /\ UNCHANGED segments => SegmentTypes'
           /\ UNCHANGED <<generations, stored, thread>> => JobTypes'
  BY ClientStays DEF CoordTypes, QueueTypes, WorkerTypes, ActiveIs, SegmentTypes, JobTypes

-----------------------------------------------------------------------------
LEMMA SubmitTypes ==
    ASSUME CoordTypes, NEW r \in Request, SubmitCheck(r) \/ SubmitPut(r) \/ Expires(r)
    PROVE  CoordTypes'
<1>0. QueueTypes /\ QueueSize \in Nat
  BY CoordinatorAssumption DEF CoordinatorAssumption, CoordTypes
<1>1. CASE SubmitCheck(r)
  BY <1>1, PartsStay DEF SubmitCheck, turnVars, CoordTypes
<1>2. CASE SubmitPut(r)
  <2>1. Append(requests, r) \in Seq(Request) /\ Len(Append(requests, r)) = Len(requests) + 1
        /\ Len(requests) \in Nat
    BY <1>0 DEF QueueTypes
  <2>2. QueueTypes'
    BY <1>0, <1>2, <2>1 DEF SubmitPut, QueueTypes
  <2> QED BY <1>2, <2>2, PartsStay DEF SubmitPut, turnVars, CoordTypes
<1>3. CASE Expires(r)
  <2>1. QueueTypes'
    BY <1>0, <1>3 DEF Expires, QueueTypes
  <2> QED BY <1>3, <2>1, PartsStay DEF Expires, turnVars, CoordTypes
<1> QED BY <1>1, <1>2, <1>3

\* A step that only moves the worker keeps the types of what it is not at.
LEMMA WorkerGoesTypes ==
    ASSUME CoordTypes, OnlyWorker, ClientTypes', worker' \in Station,
           worker'.req = worker.req, worker.at # "idle", worker'.at # "idle",
           worker'.at \in {"deliver", "write"} => worker'.batch \in Request,
           ActiveIs'
    PROVE  CoordTypes'
<1>1. WorkerTypes'
  BY DEF CoordTypes, WorkerTypes
<1> QED BY <1>1, PartsStay DEF OnlyWorker, sharedVars, CoordTypes

LEMMA StationMoves ==
    ASSUME WorkerTypes, NEW at \in Stations, WorkerGoes(at)
    PROVE  worker' \in Station /\ worker'.at = at /\ worker'.req = worker.req
  BY DEF WorkerTypes, Station, WorkerGoes

\* Wherever it ends, what is active is its own turn or none.
LEMMA EndsTypes ==
    ASSUME CoordTypes, worker.at \in {"await ready", "start", "loop"}, Ends, OnlyWorker, ClientTypes'
    PROVE  CoordTypes'
<1>1. worker' \in Station /\ worker'.at = "finish" /\ worker'.req = worker.req
  BY StationMoves DEF Ends, CoordTypes, Stations
<1>2. ActiveIs'
  BY <1>1 DEF CoordTypes, ActiveIs, OnlyWorker, sharedVars
<1> QED BY <1>1, <1>2, WorkerGoesTypes

LEMMA TakenTypes == ASSUME CoordTypes, WorkerTake PROVE QueueTypes' /\ Head(requests) \in Request
<1>1. requests \in Seq(Request) /\ requests # << >> /\ requests' = Tail(requests)
  BY DEF WorkerTake, CoordTypes, QueueTypes
<1>2. /\ Head(requests) \in Request /\ requests' \in Seq(Request)
      /\ Len(requests') = Len(requests) - 1 /\ Len(requests) \in Nat
  BY <1>1, HeadAndTail
<1>3. Len(requests) <= QueueSize /\ QueueSize \in Nat
  BY CoordinatorAssumption DEF CoordinatorAssumption, CoordTypes, QueueTypes
<1>4. Len(requests') <= QueueSize
  BY <1>2, <1>3
<1> QED BY <1>2, <1>4 DEF WorkerTake, CoordTypes, QueueTypes

LEMMA WorkerTakeTypes == ASSUME CoordTypes, WorkerTake PROVE CoordTypes'
<1>1. Head(requests) \in Request
  BY TakenTypes
<1>2. PICK at \in {"finish", "await ready"} :
            worker' = [at |-> at, req |-> Head(requests), batch |-> NoRequest, left |-> 0,
                       tail |-> NoRequest, last |-> FALSE]
  BY DEF WorkerTake, Idle
<1>3. WorkerTypes'
  BY <1>1, <1>2 DEF WorkerTypes, Station, Stations, Turn
<1>4. ActiveIs'
  BY <1>2 DEF WorkerTake, CoordTypes, ActiveIs
<1> QED BY <1>3, <1>4, TakenTypes, PartsStay DEF WorkerTake, CoordTypes

LEMMA WorkerReadsTypes == ASSUME CoordTypes, WorkerReads PROVE CoordTypes'
<1> DEFINE e == Head(events)
<1>0. OnlyWorker /\ worker.at = "loop" /\ worker \in Station /\ active = worker.req
  BY DEF WorkerReads, CoordTypes, WorkerTypes, ActiveIs
<1>1. ClientTypes' /\ e \in Told
  BY TakeTypes DEF WorkerReads, CoordTypes
<1>2. e.type = "text" => e.of \in Request
  BY <1>1 DEF Told
<1>3. CASE Ends
  BY <1>0, <1>1, <1>3, EndsTypes
<1>4. CASE worker' = worker
  BY <1>0, <1>1, <1>4, PartsStay DEF OnlyWorker, sharedVars, CoordTypes
<1>5. CASE e.type = "text" /\ worker' = [worker EXCEPT !.at = "deliver", !.batch = e.of]
  <2>1. worker' \in Station /\ worker'.at = "deliver" /\ worker'.batch \in Request /\ worker'.req = worker.req
    BY <1>0, <1>2, <1>5 DEF Station, Stations, Turn
  <2>2. ActiveIs'
    BY <1>0, <2>1 DEF ActiveIs, OnlyWorker, sharedVars
  <2> QED BY <1>0, <1>1, <2>1, <2>2, WorkerGoesTypes
<1>6. CASE e.type = "text" /\ worker' = [worker EXCEPT !.tail = e.of]
  <2>1. worker' \in Station /\ worker'.at = "loop" /\ worker'.req = worker.req
    BY <1>0, <1>2, <1>6 DEF Station, Turn
  <2>2. ActiveIs'
    BY <1>0, <2>1 DEF ActiveIs, OnlyWorker, sharedVars
  <2> QED BY <1>0, <1>1, <2>1, <2>2, WorkerGoesTypes
<1>7. CASE worker' = [worker EXCEPT !.at = IF worker.tail = NoRequest THEN "finish" ELSE "deliver",
                                    !.batch = worker.tail, !.tail = NoRequest, !.last = TRUE]
  <2>1. worker' \in Station /\ worker'.req = worker.req /\ worker'.at \in {"finish", "deliver"}
    BY <1>0, <1>7 DEF Station, Stations, Turn
  <2>2. worker'.at = "deliver" => worker'.batch \in Request
    BY <1>0, <1>7 DEF Station, Turn
  <2>3. ActiveIs'
    BY <1>0, <2>1 DEF ActiveIs, OnlyWorker, sharedVars
  <2> QED BY <1>0, <1>1, <2>1, <2>2, <2>3, WorkerGoesTypes
<1> QED BY <1>3, <1>4, <1>5, <1>6, <1>7 DEF WorkerReads

LEMMA DeliveredTypes ==
    ASSUME CoordTypes, worker.at \in {"deliver", "write"}, Delivered, UNCHANGED <<clientVars, sharedVars, thread>>,
           SegmentTypes'
    PROVE  CoordTypes'
<1>1. worker \in Station /\ worker.req \in Request /\ active = worker.req
  BY DEF CoordTypes, WorkerTypes, ActiveIs
<1>2. worker' \in Station /\ worker'.req = worker.req /\ worker'.at \in {"finish", "loop"}
  BY <1>1 DEF Delivered, Station, Stations
<1>3. ActiveIs' /\ WorkerTypes'
  BY <1>1, <1>2 DEF ActiveIs, WorkerTypes, sharedVars
<1> QED BY <1>3, PartsStay DEF sharedVars, CoordTypes

LEMMA WorkerDeliverTypes == ASSUME CoordTypes, WorkerDeliver PROVE CoordTypes'
<1>0. worker.at = "deliver" /\ worker \in Station /\ worker.batch \in Request /\ active = worker.req
      /\ OnlyWorker /\ UNCHANGED clientVars /\ MaxBatch \in Nat
  BY CoordinatorAssumption DEF CoordinatorAssumption, WorkerDeliver, CoordTypes, WorkerTypes, ActiveIs
<1>1. CASE Delivered
  <2>1. SegmentTypes'
    BY <1>0, PartsStay DEF OnlyWorker
  <2> QED BY <1>0, <1>1, <2>1, DeliveredTypes DEF OnlyWorker
<1>2. ASSUME NEW n \in 1 .. MaxBatch, worker' = [worker EXCEPT !.at = "write", !.left = n]
      PROVE  CoordTypes'
  <2>0. n \in Nat
    BY <1>0
  <2>1. /\ worker' \in Station /\ worker'.at = "write" /\ worker'.batch \in Request
        /\ worker'.req = worker.req
    BY <1>0, <1>2, <2>0 DEF Station, Stations
  <2>2. ActiveIs'
    BY <1>0, <2>1 DEF ActiveIs, OnlyWorker, sharedVars
  <2> QED BY <1>0, <2>1, <2>2, PartsStay, WorkerGoesTypes
<1> QED BY <1>1, <1>2 DEF WorkerDeliver

LEMMA WorkerWriteTypes == ASSUME CoordTypes, WorkerWrite PROVE CoordTypes'
<1> DEFINE row == [of |-> worker.batch, live |-> TRUE]
<1>0. /\ worker.at = "write" /\ worker \in Station /\ worker.batch \in Request /\ worker.req \in Request
      /\ active = worker.req /\ segments \in [Request -> Seq(Row(Request))]
      /\ UNCHANGED <<clientVars, sharedVars, thread>>
  BY DEF WorkerWrite, CoordTypes, WorkerTypes, ActiveIs, SegmentTypes
<1>1. SegmentTypes'
  <2>1. row \in Row(Request)
    BY <1>0 DEF Row
  <2>2. segments' = [segments EXCEPT ![worker.req] = Append(@, row)]
    BY DEF WorkerWrite
  <2> HIDE DEF row
  <2>3. Append(segments[worker.req], row) \in Seq(Row(Request))
    BY <1>0, <2>1
  <2> QED BY <1>0, <2>2, <2>3 DEF SegmentTypes
<1>2. CASE Delivered
  BY <1>0, <1>1, <1>2, DeliveredTypes
<1>3. CASE worker.left > 1 /\ worker' = [worker EXCEPT !.left = @ - 1]
  <2>1. worker' \in Station /\ worker'.at = "write" /\ worker'.batch = worker.batch /\ worker'.req = worker.req
    BY <1>0, <1>3 DEF Station
  <2>2. WorkerTypes' /\ ActiveIs'
    BY <1>0, <2>1 DEF WorkerTypes, ActiveIs, sharedVars
  <2> QED BY <1>0, <1>1, <2>2, PartsStay DEF sharedVars, CoordTypes
<1> QED BY <1>2, <1>3 DEF WorkerWrite

\* The request leaves: the worker is idle, and nothing is active.
LEMMA PopsTypes ==
    ASSUME CoordTypes, worker.at \in {"reply end", "write end"}, Pops, OnlyPops
    PROVE  CoordTypes'
<1>1. QueueTypes'
  BY DEF Pops, OnlyPops, CoordTypes, QueueTypes
<1>2. WorkerTypes' /\ ActiveIs'
  BY DEF Pops, OnlyPops, CoordTypes, WorkerTypes, ActiveIs, Idle, Station, Stations, Turn
<1> QED BY <1>1, <1>2, PartsStay DEF OnlyPops, CoordTypes

LEMMA WorkerKeepsTypes == ASSUME CoordTypes, Worker PROVE CoordTypes'
<1>0. /\ worker \in Station /\ ClientTypes /\ WorkerTypes /\ ActiveIs
      /\ worker.at # "idle" => worker.req \in Request
  BY DEF CoordTypes, WorkerTypes
<1>1. CASE WorkerAwaitReady
  <2>1. OnlyWorker /\ worker.at = "await ready" /\ ClientTypes' /\ (Ends \/ WorkerGoes("activate"))
    BY <1>1, PartsStay DEF WorkerAwaitReady
  <2>2. CASE WorkerGoes("activate")
    <3>1. worker' \in Station /\ worker'.at = "activate" /\ worker'.req = worker.req
      BY <1>0, <2>2, StationMoves DEF Stations
    <3>2. ActiveIs'
      BY <1>0, <2>1, <3>1 DEF ActiveIs, OnlyWorker, sharedVars
    <3> QED BY <2>1, <3>1, <3>2, WorkerGoesTypes
  <2> QED BY <2>1, <2>2, EndsTypes
<1>2. CASE WorkerActivate
  <2>1. worker' \in Station /\ worker'.at = "drain" /\ worker'.req = worker.req /\ active' = worker.req
        /\ worker.req \in Request
    BY <1>0, <1>2, StationMoves DEF WorkerActivate, Stations
  <2>2. WorkerTypes' /\ ActiveIs'
    BY <2>1 DEF WorkerTypes, ActiveIs
  <2> QED BY <1>2, <2>2, PartsStay DEF WorkerActivate, CoordTypes
<1>3. CASE WorkerDrain
  <2>1. OnlyWorker /\ worker.at = "drain" /\ ClientTypes' /\ WorkerGoes("start")
    BY <1>0, <1>3, DrainTypes DEF WorkerDrain
  <2>2. worker' \in Station /\ worker'.at = "start" /\ worker'.req = worker.req
    BY <1>0, <2>1, StationMoves DEF Stations
  <2>3. ActiveIs'
    BY <1>0, <2>1, <2>2 DEF ActiveIs, OnlyWorker, sharedVars
  <2> QED BY <2>1, <2>2, <2>3, WorkerGoesTypes
<1>4. CASE WorkerStart
  <2>1. OnlyWorker /\ worker.at = "start" /\ worker.req \in Request
    BY <1>0, <1>4 DEF WorkerStart
  <2>2. [type |-> "start_turn", of |-> worker.req] \in Asked
    BY <2>1 DEF Asked, Frame
  <2>3. CASE StartTurn(worker.req) /\ WorkerGoes("loop")
    <3>1. ClientTypes'
      BY <1>0, <2>2, <2>3, SendsTypes DEF StartTurn
    <3>2. worker' \in Station /\ worker'.at = "loop" /\ worker'.req = worker.req
      BY <1>0, <2>3, StationMoves DEF Stations
    <3>3. ActiveIs'
      BY <1>0, <2>1, <3>2 DEF ActiveIs, OnlyWorker, sharedVars
    <3> QED BY <2>1, <3>1, <3>2, <3>3, WorkerGoesTypes
  <2>4. CASE SendRaises /\ Ends
    BY <2>1, <2>4, PartsStay, EndsTypes DEF SendRaises
  <2> QED BY <1>4, <2>3, <2>4 DEF WorkerStart
<1>5. CASE WorkerStops \/ WorkerTimesOut
  BY <1>5, PartsStay, EndsTypes DEF WorkerStops, WorkerTimesOut
<1>6. CASE WorkerFinish
  <2>1. worker' \in Station /\ worker'.at = "reply end" /\ worker'.req = worker.req /\ worker.req \in Request
        /\ active' = NoRequest
    BY <1>0, <1>6, StationMoves DEF WorkerFinish, Stations, ActiveIs, Released
  <2>2. WorkerTypes' /\ ActiveIs'
    BY <2>1 DEF WorkerTypes, ActiveIs
  <2> QED BY <1>6, <2>2, PartsStay DEF WorkerFinish, CoordTypes
<1>7. CASE WorkerReplyEnd
  <2>1. CASE WorkerGoes("write end") /\ UNCHANGED pending
    <3>1. worker' \in Station /\ worker'.at = "write end" /\ worker'.req = worker.req /\ worker.req \in Request
      BY <1>0, <1>7, <2>1, StationMoves DEF WorkerReplyEnd, Stations
    <3>2. WorkerTypes' /\ ActiveIs'
      BY <1>0, <1>7, <3>1 DEF WorkerReplyEnd, WorkerTypes, ActiveIs, OnlyPops
    <3> QED BY <1>7, <2>1, <3>2, PartsStay DEF WorkerReplyEnd, OnlyPops, CoordTypes
  <2> QED BY <1>7, <2>1, PopsTypes DEF WorkerReplyEnd
<1>8. CASE WorkerWriteEnd
  BY <1>8, PopsTypes DEF WorkerWriteEnd
<1> QED BY <1>1, <1>2, <1>3, <1>4, <1>5, <1>6, <1>7, <1>8, WorkerTakeTypes, WorkerReadsTypes,
           WorkerDeliverTypes, WorkerWriteTypes DEF Worker

-----------------------------------------------------------------------------
LEMMA FreeIsBounded == Free \in BoundedJob /\ Free.at = "idle"
<1>1. 0 \in Bounded
  BY CoordinatorAssumption DEF CoordinatorAssumption, Bounded
<1> QED BY <1>1, FreeJob DEF BoundedJob, Free

LEMMA JobMoves ==
    ASSUME JobTypes, NEW t \in Thread, NEW j \in BoundedJob, thread' = [thread EXCEPT ![t] = j],
           UNCHANGED generations, stored' \in [Device -> Bounded],
           t \in Resetter \/ j.at = "idle" \/ (j.at = "sinks" /\ j.job = "cancel")
    PROVE  JobTypes'
<1>1. ASSUME NEW u \in Thread PROVE thread'[u] = IF u = t THEN j ELSE thread[u]
  BY DEF JobTypes
<1>2. thread' \in [Thread -> BoundedJob]
  BY DEF JobTypes
<1> QED BY <1>1, <1>2 DEF JobTypes

\* A thread that resets or switches goes on, and any thread may end.
LEMMA JobGoes ==
    ASSUME JobTypes, NEW t \in Resetter, NEW at \in Places, ThreadGoes(t, at), UNCHANGED <<generations, stored>>
    PROVE  JobTypes'
<1> DEFINE j == [thread[t] EXCEPT !.at = at]
<1>1. t \in Thread /\ thread[t] \in BoundedJob
  BY CoordinatorAssumption DEF CoordinatorAssumption, JobTypes
<1>2. j \in BoundedJob
  BY <1>1 DEF BoundedJob, Job
<1>3. thread' = [thread EXCEPT ![t] = j]
  BY DEF ThreadGoes
<1> HIDE DEF j
<1> QED BY <1>1, <1>2, <1>3, JobMoves DEF JobTypes

LEMMA JobEnds ==
    ASSUME JobTypes, NEW t \in Thread, thread' = [thread EXCEPT ![t] = Free], UNCHANGED <<generations, stored>>
    PROVE  JobTypes'
  BY FreeIsBounded, JobMoves DEF JobTypes

\* A job that begins: its devices move on within the bound.
LEMMA BeginsTypes ==
    ASSUME CoordTypes, NEW t \in Thread, NEW job \in {"cancel", "reset", "switch"},
           NEW D \in SUBSET Device, NEW G \in [Device -> Nat], NEW hit \in BOOLEAN,
           Begins(t, job, D, G, hit), t \in Resetter \/ job = "cancel"
    PROVE  CoordTypes'
<1> DEFINE M == [d \in Device |-> IF d \in D THEN G[d] ELSE 0]
           j == [at |-> "sinks", job |-> job, sinks |-> D \ {Web}, mark |-> M, hit |-> hit]
<1>0. JobTypes /\ MaxGeneration \in Nat
  BY CoordinatorAssumption DEF CoordinatorAssumption, CoordTypes
<1>1. \A d \in D : G[d] \in Bounded
  BY <1>0 DEF Begins, Bounded
<1>2. M \in [Device -> Bounded] /\ M \in [Device -> Nat]
  BY <1>0, <1>1 DEF Bounded
<1>3. /\ generations' = [d \in Device |-> IF d \in D THEN G[d] ELSE generations[d]]
      /\ thread' = [thread EXCEPT ![t] = j]
      /\ UNCHANGED <<clientVars, stored, requests, pending, expired, active, turnVars>>
  BY DEF Begins
<1> HIDE DEF M
<1>4. j \in Job /\ j.mark = M /\ j.at = "sinks" /\ j.job = job
  BY <1>2 DEF Job, Places
<1>5. j \in BoundedJob
  BY <1>2, <1>4 DEF BoundedJob
<1> HIDE DEF j
<1>6. JobTypes'
  <2>1. generations' \in [Device -> Bounded] /\ stored' \in [Device -> Bounded]
    BY <1>0, <1>1, <1>3 DEF JobTypes
  <2>2. ASSUME NEW u \in Thread PROVE thread'[u] = IF u = t THEN j ELSE thread[u]
    BY <1>0, <1>3 DEF JobTypes
  <2>3. thread' \in [Thread -> BoundedJob]
    BY <1>0, <1>3, <1>5 DEF JobTypes
  <2> QED BY <1>0, <1>4, <2>1, <2>2, <2>3 DEF JobTypes
<1> QED BY <1>3, <1>6, PartsStay DEF turnVars, CoordTypes

LEMMA CancelJobTypes ==
    ASSUME CoordTypes, NEW t \in Thread, NEW d \in Speaking,
           \/ CancelDevice(t, d)
           \/ \E g \in 0 .. MaxGeneration : SyncDeviceGeneration(t, d, g)
    PROVE  CoordTypes'
<1>0. {d} \in SUBSET Device /\ generations \in [Device -> Nat]
  BY CoordinatorAssumption DEF CoordinatorAssumption, CoordTypes, JobTypes, Bounded, Speaking
<1>1. CASE CancelDevice(t, d)
  <2>1. Next1 \in [Device -> Nat]
    BY <1>0 DEF Next1
  <2> QED BY <1>0, <1>1, <2>1, BeginsTypes DEF CancelDevice
<1>2. CASE \E g \in 0 .. MaxGeneration : SyncDeviceGeneration(t, d, g)
  <2>1. PICK g \in 0 .. MaxGeneration : SyncDeviceGeneration(t, d, g)
    BY <1>2
  <2> DEFINE G == [x \in Device |-> g]
             hit == active # NoRequest /\ DeviceOf[active] = d /\ generationOf[active] < g
  <2>2. G \in [Device -> Nat] /\ Begins(t, "cancel", {d}, G, hit)
    BY <1>0, <2>1, CoordinatorAssumption DEF SyncDeviceGeneration, CoordinatorAssumption
  <2> QED BY <1>0, <2>2, BeginsTypes
<1> QED BY <1>1, <1>2

LEMMA TransitionTypes ==
    ASSUME CoordTypes, NEW t \in Resetter, NEW job \in {"reset", "switch"}, BeginTransition(t, job)
    PROVE  CoordTypes'
<1>1. Targets \in SUBSET Device /\ generations \in [Device -> Nat] /\ t \in Thread
  BY CoordinatorAssumption DEF CoordinatorAssumption, CoordTypes, QueueTypes, JobTypes, Bounded, Targets, Speaking
<1>2. Next1 \in [Device -> Nat]
  BY <1>1 DEF Next1
<1> QED BY <1>1, <1>2, BeginsTypes DEF BeginTransition

LEMMA SinkTypes ==
    ASSUME CoordTypes, NEW t \in Thread, NEW d \in Speaking, SinkCancels(t, d)
    PROVE  CoordTypes'
<1> DEFINE g == thread[t].mark[d]
           older(r) == DeviceOf[r] = d /\ generationOf[r] < g
           cancelled(r) == [i \in DOMAIN segments[r] |-> [segments[r][i] EXCEPT !.live = FALSE]]
           j == [thread[t] EXCEPT !.sinks = @ \ {d}]
<1>1. /\ thread[t].at = "sinks"
      /\ stored' = [stored EXCEPT ![d] = Stored(@, g)]
      /\ segments' = [r \in Request |-> IF older(r) THEN cancelled(r) ELSE segments[r]]
      /\ thread' = [thread EXCEPT ![t] = j]
      /\ UNCHANGED <<clientVars, generations, requests, pending, expired, active, worker>>
  BY DEF SinkCancels
<1>2. ASSUME NEW r \in Request PROVE cancelled(r) \in Seq(Row(Request)) /\ segments[r] \in Seq(Row(Request))
  <2>1. segments[r] \in Seq(Row(Request))
    BY DEF CoordTypes, SegmentTypes
  <2>2. PICK n \in Nat : n = Len(segments[r]) /\ DOMAIN segments[r] = 1 .. n
    BY <2>1, LenProperties
  <2>3. ASSUME NEW i \in 1 .. n PROVE [segments[r][i] EXCEPT !.live = FALSE] \in Row(Request)
    <3>1. segments[r][i] \in Row(Request)
      BY <2>1, <2>2, ElementOfSeq
    <3> QED BY <3>1 DEF Row
  <2>4. cancelled(r) = [i \in 1 .. n |-> [segments[r][i] EXCEPT !.live = FALSE]]
    BY <2>2
  <2> HIDE DEF cancelled
  <2>5. cancelled(r) \in Seq(Row(Request))
    BY <2>3, <2>4
  <2> QED BY <2>1, <2>5
<1>3. SegmentTypes'
  <2> HIDE DEF older, cancelled
  <2> QED BY <1>1, <1>2 DEF SegmentTypes
<1>4. JobTypes /\ thread[t] \in BoundedJob /\ thread[t] \in Job /\ d \in Device
  BY DEF CoordTypes, JobTypes, BoundedJob, Speaking
<1>5. JobTypes'
  <2>1. g \in Bounded
    BY <1>4 DEF BoundedJob
  <2> HIDE DEF g
  <2>2. stored' \in [Device -> Bounded]
    BY <1>1, <1>4, <2>1 DEF JobTypes, Stored
  <2>3. j \in BoundedJob /\ j.at = thread[t].at /\ j.job = thread[t].job
    BY <1>4 DEF BoundedJob, Job
  <2> HIDE DEF j
  <2>4. t \in Resetter \/ (j.at = "sinks" /\ j.job = "cancel")
    BY <1>1, <1>4, <2>3 DEF JobTypes
  <2> QED BY <1>1, <1>4, <2>2, <2>3, <2>4, JobMoves
<1> QED BY <1>1, <1>3, <1>5, PartsStay DEF CoordTypes

\* The steps of a thread past its sinks.
LEMMA ThreadOnly ==
    ASSUME CoordTypes, ClientTypes', JobTypes',
           UNCHANGED <<requests, pending, expired, worker, active, segments>>
    PROVE  CoordTypes'
  BY PartsStay DEF CoordTypes

LEMMA TellTypes == ASSUME CoordTypes, NEW t \in Thread, TellMorrow(t) PROVE CoordTypes'
<1>0. JobTypes /\ ClientTypes /\ thread[t].at = "sinks" /\ OnlyThread
  BY DEF TellMorrow, CoordTypes
<1>1. ClientTypes'
  BY <1>0, PartsStay, CancelTypes DEF TellMorrow
<1>2. JobTypes'
  <2>1. \/ thread' = [thread EXCEPT ![t] = Free]
        \/ thread[t].job # "cancel" /\ ThreadGoes(t, "wait")
    <3>1. CASE AfterCancelTurn(t)
      BY <3>1 DEF AfterCancelTurn, ThreadGoes
    <3> QED BY <3>1 DEF TellMorrow
  <2>2. CASE thread[t].job # "cancel" /\ ThreadGoes(t, "wait")
    <3>1. t \in Resetter
      BY <1>0, <2>2 DEF JobTypes
    <3> QED BY <1>0, <2>2, <3>1, JobGoes DEF Places, OnlyThread, sharedVars
  <2> QED BY <1>0, <2>1, <2>2, JobEnds DEF OnlyThread, sharedVars
<1> QED BY <1>0, <1>1, <1>2, ThreadOnly DEF OnlyThread, sharedVars, turnVars

LEMMA TransitionEnds ==
    ASSUME CoordTypes, NEW t \in Thread, EndTransition(t), ClientTypes'
    PROVE  CoordTypes'
<1>1. JobTypes'
  BY JobEnds DEF EndTransition, CoordTypes
<1> QED BY <1>1, ThreadOnly DEF EndTransition, turnVars

LEMMA TransitionGoes ==
    ASSUME CoordTypes, NEW t \in Resetter, NEW at \in Places, ThreadGoes(t, at), OnlyThread, ClientTypes'
    PROVE  CoordTypes'
<1>1. JobTypes'
  BY JobGoes DEF OnlyThread, sharedVars, CoordTypes
<1> QED BY <1>1, ThreadOnly DEF OnlyThread, sharedVars, turnVars

LEMMA ThreadKeepsTypes == ASSUME CoordTypes, NEW t \in Thread, ThreadStep(t) PROVE CoordTypes'
<1>0. ClientTypes /\ (thread[t].at \notin {"idle", "sinks"} => t \in Resetter)
  BY DEF CoordTypes, JobTypes
<1> USE DEF Places
<1>1. CASE AwaitNoTurn(t)
  BY <1>0, <1>1, PartsStay, TransitionGoes DEF AwaitNoTurn
<1>2. CASE GiveUp(t) \/ SwitchAwaits(t)
  BY <1>2, PartsStay, TransitionEnds DEF GiveUp, SwitchAwaits
<1>3. CASE ResetAwaitReady(t)
  BY <1>0, <1>3, PartsStay, TransitionGoes DEF ResetAwaitReady
<1>4. CASE ResetDrain(t)
  BY <1>0, <1>4, DrainTypes, TransitionGoes DEF ResetDrain
<1>5. CASE ResetSend(t)
  <2>1. t \in Resetter /\ thread[t].at = "send"
    BY <1>0, <1>5 DEF ResetSend
  <2>2. [type |-> "reset_session", of |-> t] \in Asked
    BY <2>1 DEF Asked, Frame
  <2>3. CASE ResetSession(t) /\ ThreadGoes(t, "await reset") /\ OnlyThread
    <3>1. ClientTypes'
      BY <1>0, <2>2, <2>3, SendsTypes DEF ResetSession
    <3> QED BY <2>1, <2>3, <3>1, TransitionGoes
  <2>4. CASE SendRaises /\ EndTransition(t)
    BY <2>4, PartsStay, TransitionEnds DEF SendRaises
  <2> QED BY <1>5, <2>3, <2>4 DEF ResetSend
<1>6. CASE ResetReads(t)
  <2>1. t \in Resetter /\ ClientTypes'
    BY <1>0, <1>6, TakeTypes DEF ResetReads
  <2>2. \/ EndTransition(t)
        \/ ThreadGoes(t, "retry") /\ OnlyThread
        \/ UNCHANGED thread /\ OnlyThread
    BY <1>6 DEF ResetReads
  <2>3. CASE UNCHANGED thread /\ OnlyThread
    BY <2>1, <2>3, PartsStay, ThreadOnly DEF OnlyThread, sharedVars, turnVars
  <2>4. CASE ThreadGoes(t, "retry") /\ OnlyThread
    BY <2>1, <2>4, TransitionGoes
  <2> QED BY <2>1, <2>2, <2>3, <2>4, TransitionEnds
<1>7. CASE ResetRetries(t)
  <2>1. t \in Resetter /\ ClientTypes'
    BY <1>0, <1>7, CancelTypes DEF ResetRetries
  <2>2. EndTransition(t) \/ (ThreadGoes(t, "send") /\ OnlyThread)
    BY <1>7 DEF ResetRetries
  <2>3. CASE ThreadGoes(t, "send") /\ OnlyThread
    BY <2>1, <2>3, TransitionGoes
  <2> QED BY <2>1, <2>2, <2>3, TransitionEnds
<1>8. CASE SwitchClient(t)
  <2>1. t \in Resetter /\ ClientTypes'
    BY <1>0, <1>8, SwitchTypes DEF SwitchClient
  <2> QED BY <1>8, <2>1, TransitionGoes DEF SwitchClient
<1> QED BY <1>1, <1>2, <1>3, <1>4, <1>5, <1>6, <1>7, <1>8, SinkTypes, TellTypes DEF ThreadStep

LEMMA CoordNextTypes == CoordTypes /\ [CoordNext]_coordVars => CoordTypes'
<1> SUFFICES ASSUME CoordTypes, [CoordNext]_coordVars PROVE CoordTypes'
  OBVIOUS
<1>1. CASE \E r \in Request : SubmitCheck(r) \/ SubmitPut(r) \/ Expires(r)
  BY <1>1, SubmitTypes
<1>2. CASE Worker
  BY <1>2, WorkerKeepsTypes
<1>3. CASE \E t \in Thread, d \in Speaking :
              \/ CancelDevice(t, d)
              \/ \E g \in 0 .. MaxGeneration : SyncDeviceGeneration(t, d, g)
  BY <1>3, CancelJobTypes
<1>4. CASE \E t \in Resetter, job \in {"reset", "switch"} : BeginTransition(t, job)
  BY <1>4, TransitionTypes
<1>5. CASE \E t \in Thread : ThreadStep(t)
  BY <1>5, ThreadKeepsTypes
<1>6. CASE (Reader \/ Agent) /\ UNCHANGED <<sharedVars, turnVars, thread>>
  <2>1. ClientTypes'
    BY <1>6, ReaderTypes, AgentKeepsTypes DEF CoordTypes
  <2> QED BY <1>6, <2>1, PartsStay DEF sharedVars, turnVars, CoordTypes
<1>7. CASE UNCHANGED coordVars
  BY <1>7, PartsStay DEF coordVars, sharedVars, turnVars, CoordTypes
<1> QED BY <1>1, <1>2, <1>3, <1>4, <1>5, <1>6, <1>7 DEF CoordNext

\* The coordinator and the client keep their types and bounds, whatever Morrow
\* sends and however threads cancel, reset and switch; the turn the worker runs
\* is the active one from its activation to its end, so that a cancellation
\* finds it, and what is spoken is always of some request.
THEOREM CoordinatorTyped == CoordSpec => []CoordTypeOK
<1> QED BY CoordInitTypes, CoordNextTypes, CoordTyped, PTL DEF CoordSpec
=============================================================================
