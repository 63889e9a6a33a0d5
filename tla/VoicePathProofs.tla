-------------------------- MODULE VoicePathProofs ---------------------------
(***************************************************************************)
(* Proofs about the two ways in which speech reaches the server: the       *)
(* realtime voice sessions (RealtimeSessions), for every set of            *)
(* connections, devices, bridges and texts and every number of messages,   *)
(* and the uploads (VoiceCommands), for every set of requests and          *)
(* utterances and every number of timeouts, faults and restarts.           *)
(***************************************************************************)
EXTENDS RealtimeSessions, VoiceCommands, SequenceTheorems, TLAPS

Coroutine == [kind : {"text", "finished"}, bridge : Bridge, device : Device]

\* The awaits a coroutine comes back from, and what a task may be.
Awaits == {"shown", "woken", "rewoken", "sleep_reply", "waiting"}
Await == [at : {"idle", "raised"}, session : {NoSession}] \cup [at : Awaits, session : Session]

SessionTypes ==
    /\ socket \in [Session -> {"none", "open", "closing", "closed", "ended"}]
    /\ deviceId \in [Session -> Device]
    /\ awake \in [Session -> BOOLEAN] /\ listen \in [Session -> BOOLEAN]
    /\ asr \in [Session -> Bridge \cup {NoBridge}]

ManagerTypes ==
    /\ sessions \in [Device -> Session \cup {NoSession}]
    /\ remembered \in [Device -> {"unset", "awake", "asleep"}]

BridgeTypes ==
    /\ thread \in [Bridge -> {"none", "connecting", "streaming", "draining", "heard", "finished", "failing", "dead"}]
    /\ order \in [Bridge -> {"run", "eof", "stop"}]
    /\ owner \in [Bridge -> Session \cup {NoSession}]
    /\ bridgeId \in [Bridge -> Device]

LoopTypes == posted \in Seq(Coroutine) /\ task \in [Handler -> Await]

\* The dictionary and the order of its keys agree.
Listed == {d \in Device : sessions[d] # NoSession}
KeysAgree == keys \in Seq(Device) /\ IsInjective(keys) /\ ToSet(keys) = Listed

Types == SessionTypes /\ ManagerTypes /\ BridgeTypes /\ LoopTypes /\ KeysAgree

-----------------------------------------------------------------------------
(* The parts of the handlers.                                               *)

LEMMA IdleIs == Idle \in Await /\ [Idle EXCEPT !.at = "raised"] \in Await
  BY DEF Idle, Await

LEMMA StopTypes ==
    ASSUME SessionTypes, BridgeTypes, NEW S, NEW how \in {"eof", "stop"}, StopAsr(S, how)
    PROVE  /\ listen' \in [Session -> BOOLEAN] /\ asr' \in [Session -> Bridge \cup {NoBridge}]
           /\ order' \in [Bridge -> {"run", "eof", "stop"}]
<1>1. listen' \in [Session -> BOOLEAN]
  BY DEF StopAsr, SessionTypes
<1>2. asr' \in [Session -> Bridge \cup {NoBridge}]
  BY DEF StopAsr, SessionTypes
<1>3. order' \in [Bridge -> {"run", "eof", "stop"}]
  BY DEF StopAsr, BridgeTypes
<1> QED BY <1>1, <1>2, <1>3

LEMMA SelectedIs ==
    ASSUME ManagerTypes, KeysAgree, NEW d \in Device
    PROVE  Selected(d) \in Session \cup {NoSession}
<1>1. CASE keys # << >>
  <2>1. Head(keys) \in Device
    BY <1>1, EmptySeq DEF KeysAgree
  <2> QED BY <2>1 DEF Selected, ManagerTypes
<1>2. CASE keys = << >>
  BY <1>2 DEF Selected, ManagerTypes
<1> QED BY <1>1, <1>2

\* What a send leaves of the other tasks, and of its own.
LEMMA SendsDoes ==
    ASSUME LoopTypes, NEW h \in Handler, NEW s \in Session, NEW at \in Awaits \cup {"idle"}, Sends(h, s, at)
    PROVE  /\ task' \in [Handler -> Await]
           /\ \A g \in Handler \ {h} : task'[g] = task[g]
           /\ task'[h].session \in {NoSession, s}
<1> DEFINE r == IF socket[s] \in {"open", "closing"}
                THEN [at |-> at, session |-> IF at = "idle" THEN NoSession ELSE s]
                ELSE Failed(h, at)
<1>1. r \in Await /\ r.session \in {NoSession, s}
  <2>1. [at |-> at, session |-> IF at = "idle" THEN NoSession ELSE s] \in Await
    <3>1. CASE at = "idle"
      BY <3>1 DEF Await
    <3>2. CASE at \in Awaits /\ at # "idle"
      BY <3>2 DEF Await
    <3> QED BY <3>1, <3>2
  <2> QED BY <2>1, IdleIs DEF Idle, Failed
<1>2. task' = [task EXCEPT ![h] = r]
  BY DEF Sends
<1> HIDE DEF r
<1> QED BY <1>1, <1>2 DEF LoopTypes

LEMMA RememberTypes ==
    ASSUME SessionTypes, ManagerTypes, NEW s \in Session, NEW b \in BOOLEAN, Remember(s, b)
    PROVE  awake' \in [Session -> BOOLEAN] /\ remembered' \in [Device -> {"unset", "awake", "asleep"}]
  BY DEF Remember, SessionTypes, ManagerTypes

\* Whatever is made of a final text is one send, and what is remembered.
LEMMA SleepOrSubmitDoes ==
    ASSUME NEW h, NEW s, NEW t, NEW woke, SleepOrSubmit(h, s, t, woke)
    PROVE  /\ \E at \in Awaits \cup {"idle"} : Sends(h, s, at)
           /\ UNCHANGED <<awake, remembered>> \/ \E b \in BOOLEAN : Remember(s, b)
  BY DEF SleepOrSubmit, Awaits

LEMMA FinalTextDoes ==
    ASSUME NEW h, NEW s, NEW t, FinalText(h, s, t)
    PROVE  /\ \E at \in Awaits \cup {"idle"} : Sends(h, s, at)
           /\ UNCHANGED <<awake, remembered>> \/ \E b \in BOOLEAN : Remember(s, b)
  BY SleepOrSubmitDoes DEF FinalText, Returns, Awaits

LEMMA TextTypes ==
    ASSUME SessionTypes, ManagerTypes, LoopTypes, NEW h \in Handler, NEW s \in Session,
           \E at \in Awaits \cup {"idle"} : Sends(h, s, at),
           UNCHANGED <<awake, remembered>> \/ \E b \in BOOLEAN : Remember(s, b)
    PROVE  /\ task' \in [Handler -> Await] /\ awake' \in [Session -> BOOLEAN]
           /\ remembered' \in [Device -> {"unset", "awake", "asleep"}]
  BY SendsDoes, RememberTypes DEF SessionTypes, ManagerTypes

\* A coroutine that comes back is in the hands of a task that has a session.
LEMMA AwaitedIs ==
    ASSUME LoopTypes, NEW h \in Handler, task[h].at \notin {"idle", "raised"}
    PROVE  task[h].session \in Session
<1>1. task[h] \in Await
  BY DEF LoopTypes
<1> QED BY <1>1 DEF Await

-----------------------------------------------------------------------------
(* The keys of _sessions.                                                   *)

LEMMA KeyedIs ==
    ASSUME NEW ks \in Seq(Device), IsInjective(ks), NEW d \in Device
    PROVE  /\ Keyed(ks, d) \in Seq(Device) /\ IsInjective(Keyed(ks, d))
           /\ ToSet(Keyed(ks, d)) = ToSet(ks) \cup {d}
<1>1. CASE d \in ToSet(ks)
  BY <1>1 DEF Keyed
<1>2. CASE d \notin ToSet(ks)
  <2> DEFINE kd == Append(ks, d)
  <2>1. /\ kd \in Seq(Device) /\ Len(ks) \in Nat /\ DOMAIN ks = 1 .. Len(ks)
        /\ DOMAIN kd = 1 .. (Len(ks) + 1) /\ kd[Len(ks) + 1] = d
        /\ \A i \in DOMAIN ks : kd[i] = ks[i]
    OBVIOUS
  <2> HIDE DEF kd
  <2>2. \A i \in DOMAIN kd : i \in DOMAIN ks \/ i = Len(ks) + 1
    BY <2>1
  <2>3. \A i \in DOMAIN ks : ks[i] # d /\ i \in DOMAIN kd
    BY <1>2, <2>1 DEF ToSet
  <2>4. IsInjective(kd)
    BY <2>1, <2>2, <2>3 DEF IsInjective
  <2>5. ToSet(kd) = ToSet(ks) \cup {d}
    <3>1. Len(ks) + 1 \in DOMAIN kd
      BY <2>1
    <3> QED BY <2>1, <2>2, <2>3, <3>1 DEF ToSet
  <2>6. Keyed(ks, d) = kd
    BY <1>2 DEF Keyed, kd
  <2> QED BY <2>1, <2>4, <2>5, <2>6
<1> QED BY <1>1, <1>2

LEMMA PoppedIs ==
    ASSUME NEW ks \in Seq(Device), IsInjective(ks), NEW d \in ToSet(ks)
    PROVE  /\ Popped(ks, d) \in Seq(Device) /\ IsInjective(Popped(ks, d))
           /\ ToSet(Popped(ks, d)) = ToSet(ks) \ {d}
<1> DEFINE at == CHOOSE i \in DOMAIN ks : ks[i] = d
           p  == [i \in 1 .. Len(ks) - 1 |-> IF i < at THEN ks[i] ELSE ks[i + 1]]
           n  == Len(ks)
<1>1. at \in DOMAIN ks /\ ks[at] = d
  BY DEF ToSet
<1>2. Popped(ks, d) = p
  BY DEF Popped
<1>3. n \in Nat /\ DOMAIN ks = 1 .. n /\ \A i \in 1 .. n : ks[i] \in Device
  OBVIOUS
<1> HIDE DEF at
<1>4. at \in 1 .. n /\ n - 1 \in Nat
  BY <1>1, <1>3
<1>5. p \in Seq(Device) /\ DOMAIN p = 1 .. (n - 1)
  <2>1. \A i \in 1 .. (n - 1) : p[i] \in Device
    BY <1>3, <1>4
  <2>2. p \in [1 .. (n - 1) -> Device]
    BY <2>1
  <2> QED BY <1>4, <2>2
<1>6. \A i \in 1 .. (n - 1) : /\ i < at => p[i] = ks[i] /\ i \in 1 .. n
                              /\ ~(i < at) => p[i] = ks[i + 1] /\ i + 1 \in 1 .. n /\ i + 1 > at
  BY <1>3, <1>4
<1>7. \A i \in 1 .. n : /\ i < at => i \in 1 .. (n - 1)
                        /\ i > at => i - 1 \in 1 .. (n - 1) /\ ~(i - 1 < at) /\ (i - 1) + 1 = i
                        /\ i < at \/ i = at \/ i > at
  BY <1>3, <1>4
<1> HIDE DEF p, n
<1>8. \A i, j \in 1 .. n : ks[i] = ks[j] => i = j
  BY <1>3 DEF IsInjective
<1>9. IsInjective(p)
  <2> SUFFICES ASSUME NEW i \in 1 .. (n - 1), NEW j \in 1 .. (n - 1), p[i] = p[j] PROVE i = j
    BY <1>5 DEF IsInjective
  <2>1. CASE i < at /\ j < at
    BY <1>6, <1>8, <2>1
  <2>2. CASE ~(i < at) /\ ~(j < at)
    <3>1. i + 1 = j + 1
      BY <1>6, <1>8, <2>2
    <3> QED BY <3>1
  <2>3. CASE i < at /\ ~(j < at)
    <3>1. i = j + 1 /\ j + 1 > at
      BY <1>6, <1>8, <2>3
    <3> QED BY <1>4, <2>3, <3>1
  <2>4. CASE ~(i < at) /\ j < at
    <3>1. j = i + 1 /\ i + 1 > at
      BY <1>6, <1>8, <2>4
    <3> QED BY <1>4, <2>4, <3>1
  <2> QED BY <2>1, <2>2, <2>3, <2>4
<1>10. ToSet(p) = ToSet(ks) \ {d}
  <2>1. ASSUME NEW i \in 1 .. (n - 1) PROVE p[i] \in ToSet(ks) /\ p[i] # d
    <3>1. CASE i < at
      <4>1. p[i] = ks[i] /\ i \in 1 .. n /\ i # at
        BY <1>4, <1>6, <3>1
      <4> QED BY <1>1, <1>3, <1>4, <1>8, <4>1 DEF ToSet
    <3>2. CASE ~(i < at)
      <4>1. p[i] = ks[i + 1] /\ i + 1 \in 1 .. n /\ i + 1 # at
        BY <1>4, <1>6, <3>2
      <4> QED BY <1>1, <1>3, <1>4, <1>8, <4>1 DEF ToSet
    <3> QED BY <3>1, <3>2
  <2>2. ASSUME NEW i \in 1 .. n, ks[i] # d PROVE \E j \in 1 .. (n - 1) : p[j] = ks[i]
    BY <1>1, <1>6, <1>7, <2>2
  <2>3. \A x \in ToSet(ks) : \E i \in 1 .. n : ks[i] = x
    BY <1>3 DEF ToSet
  <2>4. \A x \in ToSet(ks) \ {d} : x \in ToSet(p)
    BY <1>5, <2>2, <2>3 DEF ToSet
  <2>5. \A x \in ToSet(p) : x \in ToSet(ks) \ {d}
    BY <1>5, <2>1 DEF ToSet
  <2> QED BY <2>4, <2>5
<1> QED BY <1>2, <1>5, <1>9, <1>10

-----------------------------------------------------------------------------
(* The types.                                                               *)

\* A bridge thread: what its step may change.
LEMMA ThreadDoes ==
    ASSUME BridgeTypes, LoopTypes, NEW b \in Bridge, ThreadStep(b)
    PROVE  /\ \E to \in {"streaming", "draining", "heard", "finished", "failing", "dead"} :
                 thread' = [thread EXCEPT ![b] = to]
           /\ thread[b] \notin {"none", "dead"}
           /\ \/ posted' = posted
              \/ posted' = Append(posted, [kind |-> "text", bridge |-> b, device |-> bridgeId[b]])
              \/ /\ posted' = Append(posted, [kind |-> "finished", bridge |-> b, device |-> bridgeId[b]])
                 /\ thread'[b] = "dead"
           /\ thread'[b] \in {"streaming", "draining"} => thread[b] \in {"connecting", "streaming"}
           /\ UNCHANGED <<sessionVars, managerVars, order, owner, bridgeId, task>>
<1>1. CASE Connected(b)
  BY <1>1 DEF Connected, Moves, ThreadOnly, BridgeTypes
<1>2. CASE Fail(b)
  BY <1>2 DEF Fail, Moves, ThreadOnly, BridgeTypes
<1>3. CASE Drain(b) \/ Hear(b) \/ Finish(b)
  BY <1>3 DEF Drain, Hear, Finish, Moves, ThreadOnly, BridgeTypes
<1>4. CASE Notify(b)
  BY <1>4 DEF Notify, Moves, ThreadOnly, BridgeTypes
<1> QED BY <1>1, <1>2, <1>3, <1>4 DEF ThreadStep

LEMMA SocketsOf ==
    ASSUME NEW R, NEW sockets \in [Session -> {"none", "open", "closing", "closed", "ended"}],
           Retire(R, sockets)
    PROVE  /\ StopAsr(R, "stop") /\ socket' \in [Session -> {"none", "open", "closing", "closed", "ended"}]
           /\ \A r \in Session : \/ socket'[r] = sockets[r] /\ (r \in R => sockets[r] # "open")
                                 \/ r \in R /\ sockets[r] = "open" /\ socket'[r] = "closing"
  BY DEF Retire

LEMMA ConnectTypes ==
    ASSUME Types, NEW s \in Session, NEW d \in Device, Connect(s, d)
    PROVE  Types'
<1>0. SessionTypes /\ ManagerTypes /\ BridgeTypes /\ LoopTypes /\ KeysAgree
  BY DEF Types
<1> DEFINE sockets == [socket EXCEPT ![s] = "open"]
<1>1. sockets \in [Session -> {"none", "open", "closing", "closed", "ended"}]
  BY <1>0 DEF SessionTypes
<1>2. Retire(Replaced(s, d), sockets)
  BY DEF Connect
<1> HIDE DEF sockets
<1>3. /\ StopAsr(Replaced(s, d), "stop")
      /\ socket' \in [Session -> {"none", "open", "closing", "closed", "ended"}]
  BY <1>1, <1>2, SocketsOf
<1>4. /\ listen' \in [Session -> BOOLEAN] /\ asr' \in [Session -> Bridge \cup {NoBridge}]
      /\ order' \in [Bridge -> {"run", "eof", "stop"}]
  BY <1>0, <1>3, StopTypes
<1>5. SessionTypes' /\ ManagerTypes' /\ BridgeTypes' /\ LoopTypes'
  <2>1. SessionTypes'
    BY <1>0, <1>3, <1>4 DEF Connect, SessionTypes
  <2>2. ManagerTypes' /\ LoopTypes'
    BY <1>0 DEF Connect, ManagerTypes, LoopTypes, loopVars
  <2>3. BridgeTypes'
    BY <1>0, <1>4 DEF Connect, BridgeTypes
  <2> QED BY <2>1, <2>2, <2>3
<1>6. KeysAgree'
  <2>1. keys' = Keyed(keys, d) /\ sessions' = [sessions EXCEPT ![d] = s]
    BY DEF Connect
  <2>2. Listed' = Listed \cup {d}
    BY <1>0, <2>1, SessionsAssumption DEF Listed, ManagerTypes, SessionsAssumption
  <2> QED BY <1>0, <2>1, <2>2, KeyedIs DEF KeysAgree
<1> QED BY <1>5, <1>6 DEF Types

LEMMA HelloTypes ==
    ASSUME Types, NEW s \in Session, NEW d \in Device, Hello(s, d)
    PROVE  Types'
<1>0. SessionTypes /\ ManagerTypes /\ BridgeTypes /\ LoopTypes /\ KeysAgree
  BY DEF Types
<1> DEFINE old == deviceId[s]
           mine == sessions[old] = s
<1>1. socket \in [Session -> {"none", "open", "closing", "closed", "ended"}] /\ old \in Device /\ d # old
  BY <1>0 DEF SessionTypes, Hello
<1>2. Retire(Replaced(s, d), socket)
  BY DEF Hello
<1>3. /\ StopAsr(Replaced(s, d), "stop")
      /\ socket' \in [Session -> {"none", "open", "closing", "closed", "ended"}]
  BY <1>1, <1>2, SocketsOf
<1>4. /\ listen' \in [Session -> BOOLEAN] /\ asr' \in [Session -> Bridge \cup {NoBridge}]
      /\ order' \in [Bridge -> {"run", "eof", "stop"}]
  BY <1>0, <1>3, StopTypes
<1>5. Sends(s, s, "idle") /\ s \in Handler /\ posted' = posted
  BY DEF Hello, Returns, Handler
<1>6. SessionTypes'
  <2>1. deviceId' = [deviceId EXCEPT ![s] = d]
    BY DEF Hello
  <2>2. awake' \in [Session -> BOOLEAN]
    BY <1>0 DEF Hello, SessionTypes
  <2> QED BY <1>0, <1>3, <1>4, <2>1, <2>2 DEF SessionTypes
<1>7. ManagerTypes'
  BY <1>0 DEF Hello, ManagerTypes
<1>8. BridgeTypes'
  BY <1>0, <1>4 DEF Hello, BridgeTypes
<1>9. LoopTypes'
  BY <1>0, <1>5, SendsDoes DEF LoopTypes
<1>10. KeysAgree'
  <2> DEFINE rest == IF mine THEN Popped(keys, old) ELSE keys
  <2>1. keys' = Keyed(rest, d)
    BY DEF Hello
  <2>2. sessions' = [e \in Device |-> IF e = d THEN s ELSE IF mine /\ e = old THEN NoSession ELSE sessions[e]]
    BY DEF Hello
  <2>3. rest \in Seq(Device) /\ IsInjective(rest) /\ ToSet(rest) = IF mine THEN Listed \ {old} ELSE Listed
    <3>1. CASE mine
      <4>1. old \in ToSet(keys)
        BY <1>0, <1>1, <3>1, SessionsAssumption DEF KeysAgree, Listed, SessionsAssumption
      <4> QED BY <1>0, <3>1, <4>1, PoppedIs DEF KeysAgree
    <3>2. CASE ~mine
      BY <1>0, <3>2 DEF KeysAgree
    <3> QED BY <3>1, <3>2
  <2>4. Listed' = (IF mine THEN Listed \ {old} ELSE Listed) \cup {d}
    BY <1>1, <2>2, SessionsAssumption DEF Listed, SessionsAssumption
  <2> HIDE DEF rest, mine
  <2> QED BY <2>1, <2>3, <2>4, KeyedIs DEF KeysAgree
<1> QED BY <1>6, <1>7, <1>8, <1>9, <1>10 DEF Types

LEMMA EndTypes ==
    ASSUME Types, NEW s \in Session, End(s)
    PROVE  Types'
<1>0. SessionTypes /\ ManagerTypes /\ BridgeTypes /\ LoopTypes /\ KeysAgree
  BY DEF Types
<1> DEFINE d == deviceId[s]
<1>1. /\ StopAsr({s}, "stop") /\ d \in Device
      /\ socket' = [socket EXCEPT ![s] = "ended"] /\ task' = [task EXCEPT ![s] = Idle]
      /\ sessions' = [sessions EXCEPT ![d] = IF Unregister(s) THEN NoSession ELSE @]
      /\ keys' = IF Unregister(s) THEN Popped(keys, d) ELSE keys
      /\ UNCHANGED <<messages, deviceId, awake, remembered, thread, owner, bridgeId, posted>>
  BY <1>0 DEF End, SessionTypes
<1>2. /\ listen' \in [Session -> BOOLEAN] /\ asr' \in [Session -> Bridge \cup {NoBridge}]
      /\ order' \in [Bridge -> {"run", "eof", "stop"}]
  BY <1>0, <1>1, StopTypes
<1> HIDE DEF d
<1>3. SessionTypes' /\ ManagerTypes' /\ BridgeTypes'
  BY <1>0, <1>1, <1>2 DEF SessionTypes, ManagerTypes, BridgeTypes
<1>4. LoopTypes'
  BY <1>0, <1>1, IdleIs DEF LoopTypes
<1>5. KeysAgree'
  <2>1. CASE Unregister(s)
    <3>1. sessions[d] = s
      BY <2>1 DEF Unregister, d
    <3>2. d \in ToSet(keys)
      BY <1>0, <1>1, <3>1, SessionsAssumption DEF KeysAgree, Listed, SessionsAssumption
    <3>3. Listed' = Listed \ {d}
      BY <1>0, <1>1, <2>1 DEF Listed, ManagerTypes
    <3> QED BY <1>0, <1>1, <2>1, <3>2, <3>3, PoppedIs DEF KeysAgree
  <2>2. CASE ~Unregister(s)
    <3>1. sessions' = sessions /\ keys' = keys
      BY <1>0, <1>1, <2>2 DEF ManagerTypes
    <3> QED BY <1>0, <3>1 DEF KeysAgree, Listed
  <2> QED BY <2>1, <2>2
<1> QED BY <1>3, <1>4, <1>5 DEF Types

\* The messages of a connection that stay within its session.
LEMMA MessageTypes ==
    ASSUME Types, NEW s \in Session,
           \/ ListenStart(s) \/ ListenStop(s) \/ Close(s)
           \/ (\E b \in Bridge : Audio(s, b)) \/ (\E t \in Texts : DeviceText(s, t))
    PROVE  Types'
<1>0. SessionTypes /\ ManagerTypes /\ BridgeTypes /\ LoopTypes /\ KeysAgree
  BY DEF Types
<1>1. UNCHANGED <<sessions, keys>> => KeysAgree'
  BY <1>0 DEF KeysAgree, Listed
<1>2. CASE ListenStart(s) \/ Close(s)
  <2>1. UNCHANGED <<deviceId, awake, asr, managerVars, bridgeVars, loopVars>>
    BY <1>2 DEF ListenStart, Close
  <2>2. SessionTypes'
    BY <1>0, <1>2, <2>1 DEF ListenStart, Close, SessionTypes
  <2>3. ManagerTypes' /\ BridgeTypes' /\ LoopTypes' /\ UNCHANGED <<sessions, keys>>
    BY <1>0, <2>1 DEF ManagerTypes, BridgeTypes, LoopTypes, managerVars, bridgeVars, loopVars
  <2> QED BY <1>1, <2>2, <2>3 DEF Types
<1>3. CASE ListenStop(s)
  <2>1. /\ \E how \in {"eof", "stop"} : StopAsr({s}, how)
        /\ UNCHANGED <<socket, deviceId, awake, managerVars, thread, owner, bridgeId, loopVars>>
    BY <1>3 DEF ListenStop
  <2>2. /\ listen' \in [Session -> BOOLEAN] /\ asr' \in [Session -> Bridge \cup {NoBridge}]
        /\ order' \in [Bridge -> {"run", "eof", "stop"}]
    BY <1>0, <2>1, StopTypes
  <2>3. SessionTypes' /\ BridgeTypes' /\ ManagerTypes' /\ LoopTypes' /\ UNCHANGED <<sessions, keys>>
    BY <1>0, <2>1, <2>2 DEF SessionTypes, BridgeTypes, ManagerTypes, LoopTypes, managerVars, loopVars
  <2> QED BY <1>1, <2>3 DEF Types
<1>4. CASE \E b \in Bridge : Audio(s, b)
  <2>1. PICK b \in Bridge : Audio(s, b)
    BY <1>4
  <2>2. /\ asr' = [asr EXCEPT ![s] = b] /\ thread' = [thread EXCEPT ![b] = "connecting"]
        /\ owner' = [owner EXCEPT ![b] = s] /\ bridgeId' = [bridgeId EXCEPT ![b] = deviceId[s]]
        /\ \E how \in {"run", "stop"} : order' = [order EXCEPT ![b] = how]
        /\ UNCHANGED <<socket, deviceId, awake, listen, managerVars, loopVars>>
    BY <2>1 DEF Audio
  <2>3. SessionTypes' /\ BridgeTypes'
    BY <1>0, <2>2 DEF SessionTypes, BridgeTypes
  <2>4. ManagerTypes' /\ LoopTypes' /\ UNCHANGED <<sessions, keys>>
    BY <1>0, <2>2 DEF ManagerTypes, LoopTypes, managerVars, loopVars
  <2> QED BY <1>1, <2>3, <2>4 DEF Types
<1>5. CASE \E t \in Texts : DeviceText(s, t)
  <2>1. PICK t \in Texts : DeviceText(s, t)
    BY <1>5
  <2>2. /\ FinalText(s, s, t) /\ UNCHANGED <<socket, deviceId, listen, asr, sessions, keys, bridgeVars, posted>>
    BY <2>1 DEF DeviceText
  <2>3. /\ task' \in [Handler -> Await] /\ awake' \in [Session -> BOOLEAN]
        /\ remembered' \in [Device -> {"unset", "awake", "asleep"}]
    BY <1>0, <2>2, FinalTextDoes, TextTypes DEF Handler
  <2>4. SessionTypes' /\ BridgeTypes' /\ ManagerTypes' /\ LoopTypes'
    BY <1>0, <2>2, <2>3 DEF SessionTypes, BridgeTypes, ManagerTypes, LoopTypes, bridgeVars
  <2> QED BY <1>1, <2>2, <2>4 DEF Types
<1> QED BY <1>2, <1>3, <1>4, <1>5

LEMMA LoopStepTypes ==
    ASSUME Types, StartText \/ BridgeFinished \/ \E h \in Handler : Resume(h)
    PROVE  Types'
<1>0. SessionTypes /\ ManagerTypes /\ BridgeTypes /\ LoopTypes /\ KeysAgree
  BY DEF Types
<1>1. UNCHANGED <<sessions, keys>> => KeysAgree'
  BY <1>0 DEF KeysAgree, Listed
<1>2. ASSUME posted # << >>
      PROVE  /\ Tail(posted) \in Seq(Coroutine) /\ Head(posted) \in Coroutine
             /\ Head(posted).bridge \in Bridge /\ Head(posted).device \in Device
  <2>1. Tail(posted) \in Seq(Coroutine) /\ Head(posted) \in Coroutine
    BY <1>0, <1>2, EmptySeq DEF LoopTypes
  <2> QED BY <2>1 DEF Coroutine
<1>3. CASE StartText
  <2> DEFINE p == Head(posted)
  <2>1. /\ posted # << >> /\ posted' = Tail(posted)
        /\ UNCHANGED <<sessionVars, managerVars, bridgeVars>>
        /\ IF IsHome(p.bridge, p.device) THEN Sends(p.bridge, Selected(p.device), "shown") ELSE UNCHANGED task
    BY <1>3 DEF StartText
  <2>2. task' \in [Handler -> Await]
    <3>1. CASE IsHome(p.bridge, p.device)
      <4>1. Selected(p.device) \in Session /\ p.bridge \in Handler
        BY <1>0, <1>2, <2>1, <3>1, SelectedIs DEF IsHome, Handler
      <4> QED BY <1>0, <2>1, <3>1, <4>1, SendsDoes DEF Awaits
    <3>2. CASE ~IsHome(p.bridge, p.device)
      BY <1>0, <2>1, <3>2 DEF LoopTypes
    <3> QED BY <3>1, <3>2
  <2>3. SessionTypes' /\ ManagerTypes' /\ BridgeTypes' /\ LoopTypes' /\ UNCHANGED <<sessions, keys>>
    BY <1>0, <1>2, <2>1, <2>2
       DEF SessionTypes, ManagerTypes, BridgeTypes, LoopTypes, sessionVars, managerVars, bridgeVars
  <2> QED BY <1>1, <2>3 DEF Types
<1>4. CASE BridgeFinished
  <2>1. /\ posted # << >> /\ posted' = Tail(posted)
        /\ UNCHANGED <<messages, socket, deviceId, awake, managerVars, bridgeVars, task>>
        /\ \E S : /\ asr' = [r \in Session |-> IF r \in S THEN NoBridge ELSE asr[r]]
                  /\ listen' = [r \in Session |-> listen[r] /\ r \notin S]
    BY <1>4 DEF BridgeFinished
  <2>2. SessionTypes'
    BY <1>0, <2>1 DEF SessionTypes
  <2>3. ManagerTypes' /\ BridgeTypes' /\ LoopTypes' /\ UNCHANGED <<sessions, keys>>
    BY <1>0, <1>2, <2>1 DEF ManagerTypes, BridgeTypes, LoopTypes, managerVars, bridgeVars
  <2> QED BY <1>1, <2>2, <2>3 DEF Types
<1>5. CASE \E h \in Handler : Resume(h)
  <2> PICK h \in Handler : Resume(h)
    BY <1>5
  <2> DEFINE s == task[h].session
  <2>1. ASSUME s \in Session, UNCHANGED <<socket, deviceId, listen, asr, sessions, keys, bridgeVars, posted>>,
               \E at \in Awaits \cup {"idle"} : Sends(h, s, at),
               UNCHANGED <<awake, remembered>> \/ \E b \in BOOLEAN : Remember(s, b)
        PROVE  Types'
    <3>1. /\ task' \in [Handler -> Await] /\ awake' \in [Session -> BOOLEAN]
          /\ remembered' \in [Device -> {"unset", "awake", "asleep"}]
      BY <1>0, <2>1, TextTypes
    <3>2. SessionTypes' /\ BridgeTypes' /\ ManagerTypes' /\ LoopTypes'
      BY <1>0, <2>1, <3>1 DEF SessionTypes, BridgeTypes, ManagerTypes, LoopTypes, bridgeVars
    <3> QED BY <1>1, <2>1, <3>2 DEF Types
  <2>2. CASE Shown(h)
    <3>1. /\ s \in Session /\ StopAsr({s}, "stop")
          /\ UNCHANGED <<socket, deviceId, sessions, keys, thread, owner, bridgeId, posted>>
      BY <1>0, <2>2, AwaitedIs DEF Shown
    <3>2. /\ \E at \in Awaits \cup {"idle"} : Sends(h, s, at)
          /\ UNCHANGED <<awake, remembered>> \/ \E b \in BOOLEAN : Remember(s, b)
      BY <2>2, FinalTextDoes DEF Shown
    <3> HIDE DEF s
    <3>3. /\ listen' \in [Session -> BOOLEAN] /\ asr' \in [Session -> Bridge \cup {NoBridge}]
          /\ order' \in [Bridge -> {"run", "eof", "stop"}]
      BY <1>0, <3>1, StopTypes
    <3>4. /\ task' \in [Handler -> Await] /\ awake' \in [Session -> BOOLEAN]
          /\ remembered' \in [Device -> {"unset", "awake", "asleep"}]
      BY <1>0, <3>1, <3>2, TextTypes
    <3>5. SessionTypes' /\ BridgeTypes' /\ ManagerTypes' /\ LoopTypes'
      BY <1>0, <3>1, <3>3, <3>4 DEF SessionTypes, BridgeTypes, ManagerTypes, LoopTypes
    <3> QED BY <1>1, <3>1, <3>5 DEF Types
  <2>3. CASE Woken(h)
    <3>1. s \in Session
      BY <1>0, <2>3, AwaitedIs DEF Woken
    <3>2. /\ \E at \in Awaits \cup {"idle"} : Sends(h, s, at)
          /\ UNCHANGED <<awake, remembered>> \/ \E b \in BOOLEAN : Remember(s, b)
      BY <2>3, SleepOrSubmitDoes DEF Woken, Returns
    <3> QED BY <2>1, <2>3, <3>1, <3>2 DEF Woken
  <2>4. CASE Rewoken(h)
    <3>1. s \in Session
      BY <1>0, <2>4, AwaitedIs DEF Rewoken
    <3>2. \E at \in Awaits \cup {"idle"} : Sends(h, s, at)
      BY <2>4 DEF Rewoken, Returns, Awaits
    <3> QED BY <2>1, <2>4, <3>1, <3>2 DEF Rewoken, sessionVars, managerVars
  <2>5. CASE SleepReplied(h)
    <3>1. s \in Session
      BY <1>0, <2>5, AwaitedIs DEF SleepReplied
    <3> QED BY <2>1, <2>5, <3>1 DEF SleepReplied, Returns
  <2>6. CASE Submit(h) \/ Raise(h)
    <3>1. \/ task' = [task EXCEPT ![h] = Idle]
          \/ task' = [task EXCEPT ![h] = [Idle EXCEPT !.at = "raised"]]
      BY <2>6 DEF Submit, Raise, Failed
    <3>2. task' \in [Handler -> Await]
      BY <1>0, <3>1, IdleIs DEF LoopTypes
    <3>3. UNCHANGED <<sessionVars, managerVars, bridgeVars, posted>>
      BY <2>6 DEF Submit, Raise
    <3>4. SessionTypes' /\ ManagerTypes' /\ BridgeTypes' /\ LoopTypes' /\ UNCHANGED <<sessions, keys>>
      BY <1>0, <3>2, <3>3
         DEF SessionTypes, ManagerTypes, BridgeTypes, LoopTypes, sessionVars, managerVars, bridgeVars
    <3> QED BY <1>1, <3>4 DEF Types
  <2> QED BY <2>2, <2>3, <2>4, <2>5, <2>6 DEF Resume
<1> QED BY <1>3, <1>4, <1>5

LEMMA BridgeStepTypes ==
    ASSUME Types, NEW b \in Bridge, ThreadStep(b)
    PROVE  Types'
<1>0. SessionTypes /\ ManagerTypes /\ BridgeTypes /\ LoopTypes /\ KeysAgree
  BY DEF Types
<1>1. PICK to \in {"streaming", "draining", "heard", "finished", "failing", "dead"} :
         thread' = [thread EXCEPT ![b] = to]
  BY <1>0, ThreadDoes
<1>2. /\ \/ posted' = posted
         \/ \E k \in {"text", "finished"} : posted' = Append(posted, [kind |-> k, bridge |-> b, device |-> bridgeId[b]])
      /\ UNCHANGED <<sessionVars, managerVars, order, owner, bridgeId, task>>
  BY <1>0, ThreadDoes
<1>3. posted' \in Seq(Coroutine)
  <2>1. \A k \in {"text", "finished"} : [kind |-> k, bridge |-> b, device |-> bridgeId[b]] \in Coroutine
    BY <1>0 DEF Coroutine, BridgeTypes
  <2> QED BY <1>0, <1>2, <2>1 DEF LoopTypes
<1>4. BridgeTypes'
  BY <1>0, <1>1, <1>2 DEF BridgeTypes
<1>5. SessionTypes' /\ ManagerTypes' /\ LoopTypes' /\ KeysAgree'
  BY <1>0, <1>2, <1>3 DEF SessionTypes, ManagerTypes, LoopTypes, KeysAgree, Listed, sessionVars, managerVars
<1> QED BY <1>4, <1>5 DEF Types

LEMMA InitTypes == Init => Types
<1> SUFFICES ASSUME Init PROVE Types
  OBVIOUS
<1>1. SessionTypes /\ ManagerTypes /\ BridgeTypes
  BY SessionsAssumption DEF Init, SessionsAssumption, SessionTypes, ManagerTypes, BridgeTypes
<1>2. LoopTypes
  BY IdleIs DEF Init, LoopTypes
<1>3. KeysAgree
  <2>1. keys = << >> /\ Listed = {}
    BY DEF Init, Listed
  <2>2. ToSet(keys) = {} /\ IsInjective(keys)
    BY <2>1 DEF ToSet, IsInjective
  <2> QED BY <2>1, <2>2 DEF KeysAgree
<1> QED BY <1>1, <1>2, <1>3 DEF Types

LEMMA StepTypes == Types /\ [Next]_vars => Types'
<1> SUFFICES ASSUME Types, [Next]_vars PROVE Types'
  OBVIOUS
<1>1. CASE Next
  BY <1>1, ConnectTypes, HelloTypes, EndTypes, MessageTypes, LoopStepTypes, BridgeStepTypes DEF Next
<1>2. CASE UNCHANGED vars
  BY <1>2 DEF Types, SessionTypes, ManagerTypes, BridgeTypes, LoopTypes, KeysAgree, Listed, vars,
     sessionVars, managerVars, bridgeVars, loopVars
<1> QED BY <1>1, <1>2

LEMMA Typed == Spec => []Types
  BY InitTypes, StepTypes, PTL DEF Spec

\* The variables keep their types, and the order in which the loop iterates
\* over the sessions lists each registered device once.
THEOREM SessionsTyped == Spec => []SessionsTypeOK
<1>1. Types => SessionsTypeOK
  <2> SUFFICES ASSUME Types PROVE SessionsTypeOK
    OBVIOUS
  <2>1. \A i \in 1 .. Len(posted) : posted[i].bridge \in Bridge /\ posted[i].device \in Device
    <3>1. \A i \in 1 .. Len(posted) : posted[i] \in Coroutine
      BY DEF Types, LoopTypes
    <3> QED BY <3>1 DEF Coroutine
  <2>2. \A h \in Handler : task[h].session \in Session \cup {NoSession}
    <3>1. \A h \in Handler : task[h] \in Await
      BY DEF Types, LoopTypes
    <3> QED BY <3>1 DEF Await
  <2> QED BY <2>1, <2>2 DEF Types, SessionTypes, ManagerTypes, BridgeTypes, KeysAgree, Listed, SessionsTypeOK
<1> QED BY <1>1, Typed, PTL

-----------------------------------------------------------------------------
(* The registry.  RegistryIsTrue is inductive with the types: a connection  *)
(* is put in the dictionary with its id, the one that had the place is told *)
(* to close in the same step, and who ends only takes out itself.           *)

LEMMA RegistryRests ==
    ASSUME RegistryIsTrue, UNCHANGED <<socket, deviceId, sessions>>
    PROVE  RegistryIsTrue'
  BY DEF RegistryIsTrue, Running

\* The states of a socket whose _dispatch runs.
Up == {"open", "closing", "closed"}

LEMMA StepRegistry == Types /\ RegistryIsTrue /\ [Next]_vars => RegistryIsTrue'
<1> SUFFICES ASSUME Types, RegistryIsTrue, [Next]_vars PROVE RegistryIsTrue'
  OBVIOUS
<1>0. /\ SessionTypes /\ ManagerTypes /\ BridgeTypes /\ LoopTypes /\ NoSession \notin Session
      /\ socket \in [Session -> {"none", "open", "closing", "closed", "ended"}]
      /\ deviceId \in [Session -> Device] /\ sessions \in [Device -> Session \cup {NoSession}]
  BY SessionsAssumption DEF Types, SessionTypes, ManagerTypes, SessionsAssumption
<1>1. ASSUME NEW s \in Session, NEW d \in Device, Connect(s, d) PROVE RegistryIsTrue'
  <2> DEFINE sockets == [socket EXCEPT ![s] = "open"]
             R == Replaced(s, d)
  <2>1. /\ socket[s] = "none" /\ Retire(R, sockets) /\ deviceId' = [deviceId EXCEPT ![s] = d]
        /\ sessions' = [sessions EXCEPT ![d] = s]
    BY <1>1 DEF Connect
  <2>2. /\ sockets \in [Session -> {"none", "open", "closing", "closed", "ended"}]
        /\ sockets[s] = "open" /\ \A r \in Session \ {s} : sockets[r] = socket[r]
    BY <1>0
  <2>3. R = {sessions[d]} \ {s, NoSession}
    BY DEF Replaced
  <2> HIDE DEF sockets, R
  <2>4. \A r \in Session : \/ socket'[r] = sockets[r] /\ (r \in R => sockets[r] # "open")
                           \/ r \in R /\ sockets[r] = "open" /\ socket'[r] = "closing"
    BY <2>1, <2>2, SocketsOf
  <2>5. socket'[s] = "open"
    BY <2>2, <2>3, <2>4
  <2>6. \A e \in Device : sessions[e] # s
    BY <1>0, <2>1 DEF RegistryIsTrue, Running, Up
  <2>8. \A e \in Device : sessions'[e] # NoSession => socket'[sessions'[e]] \in Up /\ deviceId'[sessions'[e]] = e
    <3> SUFFICES ASSUME NEW e \in Device, sessions'[e] # NoSession
                 PROVE  socket'[sessions'[e]] \in Up /\ deviceId'[sessions'[e]] = e
      OBVIOUS
    <3>1. CASE e = d
      BY <1>0, <2>1, <2>5, <3>1 DEF Running, Up
    <3>2. CASE e # d
      <4>1. sessions'[e] = sessions[e] /\ sessions[e] \in Session \ {s}
        BY <1>0, <2>1, <2>6, <3>2
      <4>2. Running(sessions[e]) /\ deviceId[sessions[e]] = e
        BY <1>0, <4>1 DEF RegistryIsTrue
      <4>4. socket'[sessions[e]] \in Up
        BY <2>2, <2>4, <4>1, <4>2 DEF Running, Up
      <4> QED BY <1>0, <2>1, <4>1, <4>2, <4>4 DEF Running, Up
    <3> QED BY <3>1, <3>2
  <2>9. \A r \in Session : socket'[r] = "open" => sessions'[deviceId'[r]] = r
    <3> SUFFICES ASSUME NEW r \in Session, socket'[r] = "open" PROVE sessions'[deviceId'[r]] = r
      OBVIOUS
    <3>1. CASE r = s
      BY <1>0, <2>1, <3>1
    <3>2. CASE r # s
      <4>1. socket[r] = "open" /\ r \notin R /\ deviceId'[r] = deviceId[r]
        BY <1>0, <2>1, <2>2, <2>4, <3>2
      <4>2. sessions[deviceId[r]] = r
        BY <4>1 DEF RegistryIsTrue
      <4>3. deviceId[r] # d
        BY <1>0, <2>3, <3>2, <4>1, <4>2
      <4> QED BY <1>0, <2>1, <4>1, <4>2, <4>3
    <3> QED BY <3>1, <3>2
  <2> QED BY <2>8, <2>9 DEF RegistryIsTrue, Running, Up
<1>2. ASSUME NEW s \in Session, NEW d \in Device, Hello(s, d) PROVE RegistryIsTrue'
  <2> DEFINE old == deviceId[s]
             mine == sessions[old] = s
             R == Replaced(s, d)
  <2>1. /\ Running(s) /\ d # old /\ Retire(R, socket) /\ deviceId' = [deviceId EXCEPT ![s] = d]
        /\ sessions' = [e \in Device |-> IF e = d THEN s ELSE IF mine /\ e = old THEN NoSession ELSE sessions[e]]
    BY <1>2 DEF Hello, Reads
  <2>2. R = {sessions[d]} \ {s, NoSession}
    BY DEF Replaced
  <2> HIDE DEF R
  <2>3. \A r \in Session : \/ socket'[r] = socket[r] /\ (r \in R => socket[r] # "open")
                           \/ r \in R /\ socket[r] = "open" /\ socket'[r] = "closing"
    BY <1>0, <2>1, SocketsOf
  <2>4. \A e \in Device : sessions'[e] # NoSession => socket'[sessions'[e]] \in Up /\ deviceId'[sessions'[e]] = e
    <3> SUFFICES ASSUME NEW e \in Device, sessions'[e] # NoSession
                 PROVE  socket'[sessions'[e]] \in Up /\ deviceId'[sessions'[e]] = e
      OBVIOUS
    <3>1. CASE e = d
      <4>1. sessions'[e] = s /\ deviceId'[s] = d /\ socket'[s] \in Up
        BY <1>0, <2>1, <2>3, <3>1 DEF Running, Up
      <4> QED BY <3>1, <4>1 DEF Running, Up
    <3>2. CASE e # d
      <4>1. sessions'[e] = sessions[e] /\ sessions[e] \in Session /\ ~(mine /\ e = old)
        BY <1>0, <2>1, <3>2
      <4>2. Running(sessions[e]) /\ deviceId[sessions[e]] = e
        BY <1>0, <4>1 DEF RegistryIsTrue
      <4>3. sessions[e] # s
        BY <4>1, <4>2
      <4>4. socket'[sessions[e]] \in Up
        BY <2>3, <4>1, <4>2 DEF Running, Up
      <4> QED BY <1>0, <2>1, <4>1, <4>2, <4>3, <4>4 DEF Running, Up
    <3> QED BY <3>1, <3>2
  <2>5. \A r \in Session : socket'[r] = "open" => sessions'[deviceId'[r]] = r
    <3> SUFFICES ASSUME NEW r \in Session, socket'[r] = "open" PROVE sessions'[deviceId'[r]] = r
      OBVIOUS
    <3>1. CASE r = s
      BY <1>0, <2>1, <3>1
    <3>2. CASE r # s
      <4>1. socket[r] = "open" /\ r \notin R /\ deviceId'[r] = deviceId[r]
        BY <1>0, <2>1, <2>3, <3>2
      <4>2. sessions[deviceId[r]] = r /\ deviceId[r] \in Device
        BY <1>0, <4>1 DEF RegistryIsTrue
      <4>3. deviceId[r] # d /\ ~(mine /\ deviceId[r] = old)
        BY <1>0, <2>2, <3>2, <4>1, <4>2
      <4> QED BY <2>1, <4>1, <4>2, <4>3
    <3> QED BY <3>1, <3>2
  <2> QED BY <2>4, <2>5 DEF RegistryIsTrue, Running, Up
<1>3. ASSUME NEW s \in Session, End(s) PROVE RegistryIsTrue'
  <2> DEFINE d == deviceId[s]
  <2>1. /\ socket' = [socket EXCEPT ![s] = "ended"] /\ deviceId' = deviceId
        /\ sessions' = [sessions EXCEPT ![d] = IF sessions[d] = s THEN NoSession ELSE @]
    BY <1>3 DEF End, Unregister
  <2>2. \A e \in Device : sessions'[e] # NoSession => sessions'[e] = sessions[e] /\ sessions[e] # s
    BY <1>0, <2>1 DEF RegistryIsTrue
  <2>3. \A e \in Device : sessions'[e] # NoSession => socket'[sessions'[e]] \in Up /\ deviceId'[sessions'[e]] = e
    <3> SUFFICES ASSUME NEW e \in Device, sessions'[e] # NoSession
                 PROVE  socket'[sessions'[e]] \in Up /\ deviceId'[sessions'[e]] = e
      OBVIOUS
    <3>1. sessions'[e] = sessions[e] /\ sessions[e] \in Session \ {s}
      BY <1>0, <2>2
    <3>2. socket'[sessions[e]] \in Up /\ deviceId[sessions[e]] = e
      BY <1>0, <2>1, <3>1 DEF RegistryIsTrue, Running, Up
    <3> QED BY <2>1, <3>1, <3>2 DEF Running, Up
  <2>4. \A r \in Session : socket'[r] = "open" => sessions'[deviceId'[r]] = r
    BY <1>0, <2>1 DEF RegistryIsTrue
  <2> QED BY <2>3, <2>4 DEF RegistryIsTrue, Running, Up
<1>4. ASSUME NEW s \in Session, Close(s) PROVE RegistryIsTrue'
  <2>1. /\ socket[s] \in {"open", "closing"} /\ socket' = [socket EXCEPT ![s] = "closed"]
        /\ deviceId' = deviceId /\ sessions' = sessions
    BY <1>4 DEF Close, managerVars
  <2>2. \A e \in Device : sessions[e] # NoSession => socket'[sessions[e]] \in Up
    BY <1>0, <2>1 DEF RegistryIsTrue, Running, Up
  <2>3. \A r \in Session : socket'[r] = "open" => socket[r] = "open"
    BY <1>0, <2>1
  <2> QED BY <2>1, <2>2, <2>3 DEF RegistryIsTrue, Running, Up
<1>5. CASE /\ \A s \in Session, d \in Device : ~Connect(s, d) /\ ~Hello(s, d)
           /\ \A s \in Session : ~End(s) /\ ~Close(s)
  <2>1. ASSUME NEW s \in Session,
               ListenStart(s) \/ ListenStop(s) \/ (\E b \in Bridge : Audio(s, b)) \/ (\E t \in Texts : DeviceText(s, t))
        PROVE  UNCHANGED <<socket, deviceId, sessions>>
    BY <2>1 DEF ListenStart, ListenStop, Audio, DeviceText, managerVars
  <2>2. ASSUME NEW b \in Bridge, ThreadStep(b) PROVE UNCHANGED <<socket, deviceId, sessions>>
    BY <1>0, <2>2, ThreadDoes DEF sessionVars, managerVars
  <2>3. ASSUME StartText \/ BridgeFinished PROVE UNCHANGED <<socket, deviceId, sessions>>
    BY <2>3 DEF StartText, BridgeFinished, sessionVars, managerVars
  <2>4. ASSUME NEW h \in Handler, Resume(h) PROVE UNCHANGED <<socket, deviceId, sessions>>
    BY <2>4 DEF Resume, Shown, Woken, Rewoken, SleepReplied, Submit, Raise, sessionVars, managerVars
  <2>5. UNCHANGED vars => UNCHANGED <<socket, deviceId, sessions>>
    BY DEF vars, sessionVars, managerVars
  <2> QED BY <1>5, <2>1, <2>2, <2>3, <2>4, <2>5, RegistryRests DEF Next
<1> QED BY <1>1, <1>2, <1>3, <1>4, <1>5

\* _sessions is true: a key leads to a session of that id whose _dispatch
\* runs, and a connection nobody replaced or closed is found under its id,
\* whatever the sessions before it still do when they end.
THEOREM RegistryKept == Spec => []RegistryIsTrue
<1>1. Init => RegistryIsTrue
  BY SessionsAssumption DEF Init, RegistryIsTrue, SessionsAssumption
<1> QED BY <1>1, Typed, StepRegistry, PTL DEF Spec

-----------------------------------------------------------------------------
(* The bridges.  To them a step is one of six: sessions let go of their     *)
(* bridges and tell them to end, a thread moves, a frame starts one, the    *)
(* loop takes one of the two coroutines, or nothing they have changes.      *)

LettingGo ==
    \E S : \E how \in {"eof", "stop"} :
        /\ StopAsr(S, how) /\ UNCHANGED <<thread, owner, posted>>
        /\ \A s \in Session : s \notin S /\ Running(s) => socket'[s] \in Up

Apart ==
    /\ UNCHANGED <<asr, order, thread, owner, posted>>
    /\ \A s \in Session : listen[s] => listen'[s]
    /\ \A s \in Session : Running(s) => socket'[s] \in Up

LEMMA StepIs ==
    ASSUME Types, [Next]_vars
    PROVE  \/ LettingGo \/ Apart \/ StartText \/ BridgeFinished
           \/ (\E b \in Bridge : ThreadStep(b)) \/ (\E s \in Session, b \in Bridge : Audio(s, b))
<1>0. SessionTypes /\ socket \in [Session -> {"none", "open", "closing", "closed", "ended"}]
      /\ listen \in [Session -> BOOLEAN]
  BY DEF Types, SessionTypes
<1>1. ASSUME NEW s \in Session, NEW d \in Device, Connect(s, d) PROVE LettingGo
  <2> DEFINE sockets == [socket EXCEPT ![s] = "open"]
  <2>1. /\ Retire(Replaced(s, d), sockets) /\ UNCHANGED <<thread, owner, posted>>
        /\ sockets \in [Session -> {"none", "open", "closing", "closed", "ended"}]
        /\ \A r \in Session : Running(r) => sockets[r] \in Up
    BY <1>0, <1>1 DEF Connect, loopVars, Running, Up
  <2> HIDE DEF sockets
  <2>2. /\ StopAsr(Replaced(s, d), "stop")
        /\ \A r \in Session : Running(r) => socket'[r] \in Up
    BY <2>1, SocketsOf DEF Up
  <2> QED BY <2>1, <2>2 DEF LettingGo
<1>2. ASSUME NEW s \in Session, NEW d \in Device, Hello(s, d) PROVE LettingGo
  <2>1. Retire(Replaced(s, d), socket) /\ UNCHANGED <<thread, owner, posted>>
    BY <1>2 DEF Hello
  <2>2. /\ StopAsr(Replaced(s, d), "stop")
        /\ \A r \in Session : Running(r) => socket'[r] \in Up
    BY <1>0, <2>1, SocketsOf DEF Up, Running
  <2> QED BY <2>1, <2>2 DEF LettingGo
<1>3. ASSUME NEW s \in Session, End(s) PROVE LettingGo
  <2>1. /\ StopAsr({s}, "stop") /\ UNCHANGED <<thread, owner, posted>>
        /\ socket' = [socket EXCEPT ![s] = "ended"]
    BY <1>3 DEF End
  <2>2. \A r \in Session : r \notin {s} /\ Running(r) => socket'[r] \in Up
    BY <1>0, <2>1 DEF Running, Up
  <2> QED BY <2>1, <2>2 DEF LettingGo
<1>4. ASSUME NEW s \in Session, ListenStop(s) PROVE LettingGo
  <2>1. /\ \E how \in {"eof", "stop"} : StopAsr({s}, how)
        /\ UNCHANGED <<socket, thread, owner, posted>>
    BY <1>4 DEF ListenStop, loopVars
  <2> QED BY <2>1 DEF LettingGo, Running, Up
<1>5. ASSUME NEW h \in Handler, Shown(h) PROVE LettingGo
  BY <1>5 DEF Shown, LettingGo, Running, Up
<1>6. ASSUME NEW s \in Session, ListenStart(s) PROVE Apart
  BY <1>0, <1>6 DEF ListenStart, Apart, bridgeVars, loopVars, Running, Up
<1>7. ASSUME NEW s \in Session, Close(s) PROVE Apart
  BY <1>0, <1>7 DEF Close, Apart, bridgeVars, loopVars, Running, Up
<1>8. ASSUME NEW s \in Session, NEW t \in Texts, DeviceText(s, t) PROVE Apart
  BY <1>8 DEF DeviceText, Apart, bridgeVars, Running, Up
<1>9. ASSUME NEW h \in Handler, Woken(h) \/ Rewoken(h) \/ SleepReplied(h) \/ Submit(h) \/ Raise(h) PROVE Apart
  BY <1>9 DEF Woken, Rewoken, SleepReplied, Submit, Raise, Apart, sessionVars, bridgeVars, Running, Up
<1>10. CASE UNCHANGED vars
  BY <1>10 DEF vars, sessionVars, bridgeVars, loopVars, Apart, Running, Up
<1> QED BY <1>1, <1>2, <1>3, <1>4, <1>5, <1>6, <1>7, <1>8, <1>9, <1>10 DEF Next, Resume

\* A step of a thread, bridge by bridge.
LEMMA ThreadsMove ==
    ASSUME Types, [Next]_vars
    PROVE  \A b \in Bridge : /\ thread'[b] = "none" => thread[b] = "none"
                             /\ thread[b] = "dead" => thread'[b] = "dead"
                             /\ thread[b] # "none" => owner'[b] = owner[b]
<1>0. BridgeTypes /\ LoopTypes
  BY DEF Types
<1>1. ASSUME UNCHANGED <<thread, owner>>
      PROVE  \A b \in Bridge : /\ thread'[b] = "none" => thread[b] = "none"
                               /\ thread[b] = "dead" => thread'[b] = "dead"
                               /\ thread[b] # "none" => owner'[b] = owner[b]
  BY <1>1
<1>2. CASE LettingGo \/ Apart \/ StartText \/ BridgeFinished
  BY <1>1, <1>2 DEF LettingGo, Apart, StartText, BridgeFinished, bridgeVars
<1>3. CASE \E b \in Bridge : ThreadStep(b)
  <2> PICK b \in Bridge : ThreadStep(b)
    BY <1>3
  <2>1. /\ \E to \in {"streaming", "draining", "heard", "finished", "failing", "dead"} :
              thread' = [thread EXCEPT ![b] = to]
        /\ thread[b] \notin {"none", "dead"} /\ owner' = owner
    BY <1>0, ThreadDoes
  <2> QED BY <1>0, <2>1 DEF BridgeTypes
<1>4. CASE \E s \in Session, b \in Bridge : Audio(s, b)
  BY <1>0, <1>4 DEF Audio, BridgeTypes
<1> QED BY <1>2, <1>3, <1>4, StepIs

-----------------------------------------------------------------------------
(* A bridge is held by the session that made it, which listens.             *)

HeldInv ==
    /\ HeldWhileListening
    /\ \A s \in Session : asr[s] # NoBridge => thread[asr[s]] # "none"

LEMMA StepHeld == Types /\ HeldInv /\ [Next]_vars => HeldInv'
<1> SUFFICES ASSUME Types, HeldInv, [Next]_vars PROVE HeldInv'
  OBVIOUS
<1>0. /\ asr \in [Session -> Bridge \cup {NoBridge}] /\ listen \in [Session -> BOOLEAN]
      /\ thread \in [Bridge -> {"none", "connecting", "streaming", "draining", "heard", "finished", "failing", "dead"}]
      /\ owner \in [Bridge -> Session \cup {NoSession}]
      /\ NoBridge \notin Bridge
  BY SessionsAssumption DEF Types, SessionTypes, BridgeTypes, SessionsAssumption
<1>1. ASSUME \A s \in Session : asr'[s] \in {asr[s], NoBridge} /\ (asr'[s] # NoBridge /\ listen[s] => listen'[s]),
             UNCHANGED owner
      PROVE  HeldInv'
  <2>1. \A s \in Session : asr'[s] # NoBridge => asr'[s] = asr[s] /\ asr[s] \in Bridge /\ listen'[s] /\ owner'[asr'[s]] = s
    BY <1>0, <1>1 DEF HeldInv, HeldWhileListening
  <2>2. \A s \in Session : asr'[s] # NoBridge => thread'[asr'[s]] # "none"
    BY <2>1, ThreadsMove DEF HeldInv
  <2> QED BY <2>1, <2>2 DEF HeldInv, HeldWhileListening
<1>2. CASE LettingGo
  BY <1>0, <1>1, <1>2 DEF LettingGo, StopAsr
<1>3. CASE Apart
  BY <1>1, <1>3 DEF Apart
<1>4. CASE StartText
  BY <1>1, <1>4 DEF StartText, sessionVars, bridgeVars
<1>5. CASE BridgeFinished
  <2>1. /\ UNCHANGED owner
        /\ \E S : /\ asr' = [r \in Session |-> IF r \in S THEN NoBridge ELSE asr[r]]
                  /\ listen' = [r \in Session |-> listen[r] /\ r \notin S]
    BY <1>5 DEF BridgeFinished, bridgeVars
  <2> QED BY <1>0, <1>1, <2>1
<1>6. CASE \E b \in Bridge : ThreadStep(b)
  <2>1. UNCHANGED <<sessionVars, owner>>
    BY <1>6, ThreadDoes DEF Types
  <2> QED BY <1>1, <2>1 DEF sessionVars
<1>7. CASE \E s \in Session, b \in Bridge : Audio(s, b)
  <2> PICK s \in Session, b \in Bridge : Audio(s, b)
    BY <1>7
  <2>1. /\ listen[s] /\ thread[b] = "none" /\ asr' = [asr EXCEPT ![s] = b] /\ owner' = [owner EXCEPT ![b] = s]
        /\ thread' = [thread EXCEPT ![b] = "connecting"] /\ listen' = listen
    BY DEF Audio
  <2>2. \A r \in Session \ {s} : asr'[r] # NoBridge => /\ asr'[r] = asr[r] /\ asr[r] # b /\ asr[r] \in Bridge
                                                     /\ listen[r] /\ owner[asr[r]] = r /\ thread[asr[r]] # "none"
    BY <1>0, <2>1 DEF HeldInv, HeldWhileListening
  <2>3. \A r \in Session \ {s} : asr'[r] # NoBridge => listen'[r] /\ owner'[asr'[r]] = r /\ thread'[asr'[r]] # "none"
    BY <1>0, <2>1, <2>2
  <2>4. asr'[s] = b /\ listen'[s] /\ owner'[b] = s /\ thread'[b] # "none"
    BY <1>0, <2>1
  <2> QED BY <2>3, <2>4 DEF HeldInv, HeldWhileListening
<1> QED BY <1>2, <1>3, <1>4, <1>5, <1>6, <1>7, StepIs

LEMMA HeldKept == Spec => []HeldWhileListening
<1>1. Init => HeldInv
  BY DEF Init, HeldInv, HeldWhileListening
<1>2. HeldInv => HeldWhileListening
  BY DEF HeldInv
<1> QED BY <1>1, <1>2, Typed, StepHeld, PTL DEF Spec

-----------------------------------------------------------------------------
(* What the bridges have handed to the loop: the notice that one finished   *)
(* is the last that it does.                                                *)

PostedTrue ==
    \A i \in DOMAIN posted : /\ thread[posted[i].bridge] # "none"
                             /\ posted[i].kind = "finished" => thread[posted[i].bridge] = "dead"

LEMMA PostedAre == ASSUME Types PROVE \A i \in DOMAIN posted : posted[i].bridge \in Bridge
<1>1. \A i \in DOMAIN posted : posted[i] \in Coroutine
  BY DEF Types, LoopTypes
<1> QED BY <1>1 DEF Coroutine

LEMMA HeadAndTail ==
    ASSUME NEW S, NEW q \in Seq(S), q # << >>
    PROVE  /\ 1 \in DOMAIN q /\ Head(q) = q[1]
           /\ \A i \in DOMAIN Tail(q) : i + 1 \in DOMAIN q /\ Tail(q)[i] = q[i + 1]
<1>1. Len(q) \in Nat \ {0} /\ DOMAIN q = 1 .. Len(q)
  BY EmptySeq
<1>2. DOMAIN Tail(q) = 1 .. (Len(q) - 1) /\ \A i \in DOMAIN Tail(q) : Tail(q)[i] = q[i + 1]
  BY <1>1
<1>3. Head(q) = q[1]
  BY <1>1
<1> QED BY <1>1, <1>2, <1>3

LEMMA StepPosted == Types /\ PostedTrue /\ [Next]_vars => PostedTrue'
<1> SUFFICES ASSUME Types, PostedTrue, [Next]_vars PROVE PostedTrue'
  OBVIOUS
<1>0. /\ posted \in Seq(Coroutine) /\ BridgeTypes /\ LoopTypes
      /\ thread \in [Bridge -> {"none", "connecting", "streaming", "draining", "heard", "finished", "failing", "dead"}]
  BY DEF Types, LoopTypes, BridgeTypes
<1>1. \A i \in DOMAIN posted : /\ thread'[posted[i].bridge] # "none"
                               /\ posted[i].kind = "finished" => thread'[posted[i].bridge] = "dead"
  BY PostedAre, ThreadsMove DEF PostedTrue
<1>2. posted' = posted => PostedTrue'
  BY <1>1 DEF PostedTrue
<1>3. CASE StartText \/ BridgeFinished
  <2>1. posted # << >> /\ posted' = Tail(posted)
    BY <1>3 DEF StartText, BridgeFinished
  <2>2. \A i \in DOMAIN posted' : i + 1 \in DOMAIN posted /\ posted'[i] = posted[i + 1]
    BY <1>0, <2>1, HeadAndTail
  <2> QED BY <1>1, <2>2 DEF PostedTrue
<1>4. CASE \E b \in Bridge : ThreadStep(b)
  <2> PICK b \in Bridge : ThreadStep(b)
    BY <1>4
  <2>1. thread'[b] # "none"
    BY <1>0, ThreadDoes, ThreadsMove
  <2>2. CASE posted' = posted
    BY <1>2, <2>2
  <2>3. CASE \E k \in {"text", "finished"} : /\ posted' = Append(posted, [kind |-> k, bridge |-> b, device |-> bridgeId[b]])
                                             /\ k = "finished" => thread'[b] = "dead"
    <3> PICK k \in {"text", "finished"} : /\ posted' = Append(posted, [kind |-> k, bridge |-> b, device |-> bridgeId[b]])
                                          /\ k = "finished" => thread'[b] = "dead"
      BY <2>3
    <3> DEFINE e == [kind |-> k, bridge |-> b, device |-> bridgeId[b]]
    <3>1. e.kind = k /\ e.bridge = b /\ posted' = Append(posted, e)
      OBVIOUS
    <3> HIDE DEF e
    <3>2. \A i \in DOMAIN posted' : (i \in DOMAIN posted /\ posted'[i] = posted[i]) \/ posted'[i] = e
      BY <1>0, <3>1
    <3> QED BY <1>1, <2>1, <3>1, <3>2 DEF PostedTrue
  <2> QED BY <1>0, <2>2, <2>3, ThreadDoes
<1>5. CASE LettingGo \/ Apart \/ \E s \in Session, b \in Bridge : Audio(s, b)
  BY <1>2, <1>5 DEF LettingGo, Apart, Audio, loopVars
<1> QED BY <1>3, <1>4, <1>5, StepIs

LEMMA Posted == Spec => []PostedTrue
<1>1. Init => PostedTrue
  BY DEF Init, PostedTrue
<1> QED BY <1>1, Typed, StepPosted, PTL DEF Spec

-----------------------------------------------------------------------------
(* No recognition goes on that nothing can end.                             *)

Hearing == {"connecting", "streaming", "draining"}
Held(b) == \E s \in Session : owner[b] = s /\ asr[s] = b /\ Running(s)

LEMMA StepOrphan == Types /\ PostedTrue /\ RunningIsHeld /\ [Next]_vars => RunningIsHeld'
<1> SUFFICES ASSUME Types, PostedTrue, RunningIsHeld, [Next]_vars PROVE RunningIsHeld'
  OBVIOUS
<1>0. /\ asr \in [Session -> Bridge \cup {NoBridge}] /\ BridgeTypes /\ LoopTypes /\ posted \in Seq(Coroutine)
      /\ thread \in [Bridge -> {"none", "connecting", "streaming", "draining", "heard", "finished", "failing", "dead"}]
      /\ order \in [Bridge -> {"run", "eof", "stop"}] /\ owner \in [Bridge -> Session \cup {NoSession}]
      /\ NoBridge \notin Bridge
  BY SessionsAssumption DEF Types, SessionTypes, BridgeTypes, LoopTypes, SessionsAssumption
<1>1. \A b \in Bridge : thread[b] \in Hearing /\ order[b] = "run" => Held(b)
  BY DEF RunningIsHeld, Hearing, Held
<1>2. ASSUME \A b \in Bridge : thread'[b] \in Hearing /\ order'[b] = "run"
                => \E s \in Session : owner'[b] = s /\ asr'[s] = b /\ socket'[s] \in Up
      PROVE  RunningIsHeld'
  BY <1>2 DEF RunningIsHeld, Hearing, Running, Up
<1>3. CASE LettingGo
  <2> PICK S : \E how \in {"eof", "stop"} :
               /\ StopAsr(S, how) /\ UNCHANGED <<thread, owner, posted>>
               /\ \A s \in Session : s \notin S /\ Running(s) => socket'[s] \in Up
    BY <1>3, Zenon DEF LettingGo
  <2> PICK how \in {"eof", "stop"} :
               /\ StopAsr(S, how) /\ UNCHANGED <<thread, owner, posted>>
               /\ \A s \in Session : s \notin S /\ Running(s) => socket'[s] \in Up
    OBVIOUS
  <2> SUFFICES ASSUME NEW b \in Bridge, thread'[b] \in Hearing, order'[b] = "run"
               PROVE  \E s \in Session : owner'[b] = s /\ asr'[s] = b /\ socket'[s] \in Up
    BY <1>2
  <2>1. order[b] = "run" /\ \A s \in S : asr[s] # b
    BY DEF StopAsr
  <2>2. PICK s \in Session : owner[b] = s /\ asr[s] = b /\ Running(s)
    BY <1>1, <2>1 DEF Held
  <2>3. s \notin S /\ asr'[s] = b
    BY <2>1, <2>2 DEF StopAsr
  <2> QED BY <2>2, <2>3
<1>4. CASE Apart
  BY <1>1, <1>2, <1>4 DEF Apart, Held
<1>5. CASE StartText
  BY <1>1, <1>2, <1>5 DEF StartText, sessionVars, bridgeVars, Held, Running, Up
<1>6. CASE BridgeFinished
  <2> DEFINE p == Head(posted)
             S == IF IsHome(p.bridge, p.device) /\ asr[Selected(p.device)] = p.bridge
                  THEN {Selected(p.device)} ELSE {}
  <2>1. /\ posted # << >> /\ p.kind = "finished" /\ UNCHANGED <<socket, thread, order, owner>>
        /\ asr' = [r \in Session |-> IF r \in S THEN NoBridge ELSE asr[r]]
    BY <1>6 DEF BridgeFinished, bridgeVars
  <2>2. thread[p.bridge] = "dead"
    BY <1>0, <2>1, HeadAndTail DEF PostedTrue
  <2>3. \A s \in S : asr[s] = p.bridge
    OBVIOUS
  <2> HIDE DEF S, p
  <2> SUFFICES ASSUME NEW b \in Bridge, thread'[b] \in Hearing, order'[b] = "run"
               PROVE  \E s \in Session : owner'[b] = s /\ asr'[s] = b /\ socket'[s] \in Up
    BY <1>2
  <2>4. b # p.bridge
    BY <2>1, <2>2 DEF Hearing
  <2>5. PICK s \in Session : owner[b] = s /\ asr[s] = b /\ Running(s)
    BY <1>1, <2>1 DEF Held
  <2> QED BY <2>1, <2>3, <2>4, <2>5 DEF Running, Up
<1>7. CASE \E b \in Bridge : ThreadStep(b)
  <2> PICK b \in Bridge : ThreadStep(b)
    BY <1>7
  <2>1. /\ \E to \in {"streaming", "draining", "heard", "finished", "failing", "dead"} :
              thread' = [thread EXCEPT ![b] = to]
        /\ thread'[b] \in {"streaming", "draining"} => thread[b] \in {"connecting", "streaming"}
        /\ UNCHANGED <<sessionVars, order, owner>>
    BY <1>0, ThreadDoes
  <2>2. \A x \in Bridge : thread'[x] \in Hearing => thread[x] \in Hearing
    BY <1>0, <2>1 DEF Hearing
  <2> QED BY <1>1, <1>2, <2>1, <2>2 DEF sessionVars, Held, Running, Up
<1>8. CASE \E s \in Session, b \in Bridge : Audio(s, b)
  <2> PICK s \in Session, b \in Bridge : Audio(s, b)
    BY <1>8
  <2>1. /\ Running(s) /\ Replaceable(s) /\ thread[b] = "none"
        /\ asr' = [asr EXCEPT ![s] = b] /\ owner' = [owner EXCEPT ![b] = s]
        /\ thread' = [thread EXCEPT ![b] = "connecting"] /\ socket' = socket
        /\ \A x \in Bridge \ {b} : order'[x] = order[x]
    BY <1>0 DEF Audio, Reads, BridgeTypes
  <2>2. owner'[b] = s /\ asr'[s] = b /\ socket'[s] \in Up
    BY <1>0, <2>1 DEF Running, Up
  <2>3. ASSUME NEW x \in Bridge, x # b, thread'[x] \in Hearing, order'[x] = "run"
        PROVE  \E r \in Session : owner'[x] = r /\ asr'[r] = x /\ socket'[r] \in Up
    <3>1. thread[x] \in Hearing /\ order[x] = "run"
      BY <1>0, <2>1, <2>3
    <3>2. PICK r \in Session : owner[x] = r /\ asr[r] = x /\ Running(r)
      BY <1>1, <3>1 DEF Held
    <3>3. r # s
      <4>1. Active(x)
        BY <3>1 DEF Active, Hearing
      <4> QED BY <1>0, <2>1, <3>2, <4>1 DEF Replaceable
    <3> QED BY <1>0, <2>1, <2>3, <3>2, <3>3 DEF Running, Up
  <2> QED BY <1>2, <2>2, <2>3
<1> QED BY <1>3, <1>4, <1>5, <1>6, <1>7, <1>8, StepIs

\* A bridge is held by the session that made it while that session listens,
\* and one that nobody told to stop is held by a session whose _dispatch
\* still runs.
THEOREM NoneOrphaned == Spec => []NoOrphanBridge
<1>1. Init => RunningIsHeld
  BY DEF Init, RunningIsHeld
<1>2. HeldWhileListening /\ RunningIsHeld => NoOrphanBridge
  BY DEF NoOrphanBridge
<1> QED BY <1>1, <1>2, Typed, Posted, HeldKept, StepOrphan, PTL DEF Spec

-----------------------------------------------------------------------------
(* What a bridge hears stays in its session.                                *)

HomeInv ==
    /\ TextStaysHome
    /\ \A b \in Bridge : thread[b] = "none" => task[b].session = NoSession

\* Only the start of a text gives the task of a bridge a session.
LEMMA TasksStay ==
    ASSUME Types, [Next]_vars, ~StartText
    PROVE  \A b \in Bridge : task'[b].session \in {NoSession, task[b].session}
<1> DEFINE Goal == \A b \in Bridge : task'[b].session \in {NoSession, task[b].session}
<1>0. /\ LoopTypes /\ BridgeTypes /\ task \in [Handler -> Await] /\ Handler = Session \cup Bridge
      /\ \A s \in Session : s \notin Bridge
      /\ Idle.session = NoSession /\ [Idle EXCEPT !.at = "raised"].session = NoSession
  BY SessionsAssumption DEF Types, LoopTypes, Handler, SessionsAssumption, Idle
<1>1. ASSUME task' = task PROVE Goal
  BY <1>1
<1>2. ASSUME NEW h \in Handler, NEW s \in Session, h \in Session \/ s = task[h].session,
             \E at \in Awaits \cup {"idle"} : Sends(h, s, at)
      PROVE  Goal
  <2>1. /\ \A g \in Handler \ {h} : task'[g] = task[g]
        /\ task'[h].session \in {NoSession, s}
    BY <1>0, <1>2, SendsDoes
  <2> QED BY <1>0, <1>2, <2>1
<1>3. ASSUME NEW h \in Handler,
             \/ task' = [task EXCEPT ![h] = Idle]
             \/ task' = [task EXCEPT ![h] = [Idle EXCEPT !.at = "raised"]]
      PROVE  Goal
  BY <1>0, <1>3
<1>4. ASSUME NEW s \in Session, NEW d \in Device, Connect(s, d) \/ Hello(s, d) PROVE Goal
  BY <1>0, <1>1, <1>2, <1>4 DEF Connect, Hello, Returns, loopVars
<1>5. ASSUME NEW s \in Session, ListenStart(s) \/ ListenStop(s) \/ Close(s) PROVE Goal
  BY <1>1, <1>5 DEF ListenStart, ListenStop, Close, loopVars
<1>6. ASSUME NEW s \in Session, End(s) PROVE Goal
  BY <1>0, <1>3, <1>6 DEF End
<1>7. ASSUME NEW s \in Session, NEW b \in Bridge, Audio(s, b) PROVE Goal
  BY <1>1, <1>7 DEF Audio, loopVars
<1>8. ASSUME NEW s \in Session, NEW t \in Texts, DeviceText(s, t) PROVE Goal
  BY <1>0, <1>2, <1>8, FinalTextDoes DEF DeviceText
<1>9. ASSUME NEW b \in Bridge, ThreadStep(b) PROVE Goal
  BY <1>0, <1>1, <1>9, ThreadDoes
<1>10. CASE BridgeFinished \/ UNCHANGED vars
  BY <1>1, <1>10 DEF BridgeFinished, vars, loopVars
<1>11. ASSUME NEW h \in Handler, Resume(h) PROVE Goal
  <2>1. CASE Submit(h) \/ Raise(h)
    BY <1>3, <2>1 DEF Submit, Raise, Failed
  <2>2. CASE Shown(h) \/ Woken(h) \/ Rewoken(h) \/ SleepReplied(h)
    <3> DEFINE s == task[h].session
    <3>1. s \in Session
      BY <1>0, <2>2, AwaitedIs DEF Shown, Woken, Rewoken, SleepReplied
    <3>2. \E at \in Awaits \cup {"idle"} : Sends(h, s, at)
      <4>1. CASE Shown(h)
        BY <4>1, FinalTextDoes DEF Shown
      <4>2. CASE Woken(h)
        BY <4>2, SleepOrSubmitDoes DEF Woken, Returns
      <4>3. CASE Rewoken(h) \/ SleepReplied(h)
        BY <4>3 DEF Rewoken, SleepReplied, Returns, Awaits
      <4> QED BY <2>2, <4>1, <4>2, <4>3
    <3> QED BY <1>2, <3>1, <3>2
  <2> QED BY <1>11, <2>1, <2>2 DEF Resume
<1> QED BY <1>4, <1>5, <1>6, <1>7, <1>8, <1>9, <1>10, <1>11 DEF Next

LEMMA StepHome == Types /\ PostedTrue /\ HomeInv /\ [Next]_vars => HomeInv'
<1> SUFFICES ASSUME Types, PostedTrue, HomeInv, [Next]_vars PROVE HomeInv'
  OBVIOUS
<1>0. LoopTypes /\ ManagerTypes /\ KeysAgree /\ posted \in Seq(Coroutine)
  BY DEF Types, LoopTypes
<1>1. ASSUME NEW b \in Bridge, task'[b].session \in {NoSession, task[b].session}
      PROVE  /\ task'[b].session \in {NoSession, owner'[b]}
             /\ thread'[b] = "none" => task'[b].session = NoSession
  <2>1. CASE thread[b] = "none"
    BY <1>1, <2>1 DEF HomeInv
  <2>2. CASE thread[b] # "none"
    BY <1>1, <2>2, ThreadsMove DEF HomeInv, TextStaysHome
  <2> QED BY <2>1, <2>2
<1>2. CASE ~StartText
  BY <1>1, <1>2, TasksStay DEF HomeInv, TextStaysHome
<1>3. CASE StartText
  <2> DEFINE p == Head(posted)
  <2>1. /\ posted # << >> /\ UNCHANGED <<thread, owner>>
        /\ IF IsHome(p.bridge, p.device) THEN Sends(p.bridge, Selected(p.device), "shown") ELSE UNCHANGED task
    BY <1>3 DEF StartText, bridgeVars
  <2>2. p = posted[1] /\ 1 \in DOMAIN posted /\ p \in Coroutine
    BY <1>0, <2>1, HeadAndTail
  <2>3. p.bridge \in Bridge /\ p.device \in Device /\ thread[p.bridge] # "none"
    BY <2>2 DEF Coroutine, PostedTrue
  <2>4. CASE ~IsHome(p.bridge, p.device)
    BY <1>1, <2>1, <2>4 DEF HomeInv, TextStaysHome
  <2>5. CASE IsHome(p.bridge, p.device)
    <3>1. Selected(p.device) \in Session /\ Selected(p.device) = owner[p.bridge] /\ p.bridge \in Handler
      BY <1>0, <2>3, <2>5, SelectedIs DEF IsHome, Handler
    <3>2. /\ \A g \in Handler \ {p.bridge} : task'[g] = task[g]
          /\ task'[p.bridge].session \in {NoSession, Selected(p.device)}
      BY <1>0, <2>1, <2>5, <3>1, SendsDoes DEF Awaits
    <3> HIDE DEF p
    <3>3. \A b \in Bridge \ {p.bridge} : task'[b] = task[b]
      BY <3>2 DEF Handler
    <3> QED BY <1>1, <2>1, <2>3, <3>1, <3>2, <3>3 DEF HomeInv, TextStaysHome
  <2> QED BY <2>4, <2>5
<1> QED BY <1>2, <1>3

\* What a bridge hears is handled in the session whose audio it was, also
\* when that session has gone and "default" leads to another one.
THEOREM StaysHome == Spec => []TextStaysHome
<1>1. Init => HomeInv
  BY DEF Init, HomeInv, TextStaysHome, Handler, Idle
<1>2. HomeInv => TextStaysHome
  BY DEF HomeInv
<1> QED BY <1>1, <1>2, Typed, Posted, StepHome, PTL DEF Spec

-----------------------------------------------------------------------------
(* The other way in which speech reaches the server, whole utterances over  *)
(* HTTP.                                                                    *)

Place == {"none", "done", "volume", "set", "store", "tell", "answer", "check", "look", "extend", "wake",
          "wake_reply", "sleep_reply", "zero", "sleep", "waiting", "submit", "submitted"}
ThreadWork == [at : Place, words : Utterance \cup {<<>>}, target : Int, slept : BOOLEAN]

\* A thread has gone to change the volume only for a text that says how.
VoiceTypes ==
    /\ serving \in [Thread -> ThreadWork]
    /\ \A t \in Thread : At(t, "volume") => VolumeCommand(serving[t].words) # "none"
    /\ volume \in Int /\ stored \in Int

\* Who has come to speak of a text without a wake word was not asleep since
\* its upload, and what has yet to look finds the dialogue still asleep.
ForwardInv ==
    \A r \in Request :
        /\ At(r, "none") => serving[r].words = <<>>
        /\ serving[r].words # <<>> /\ ~HasWakeWord(serving[r].words) /\ serving[r].slept =>
              /\ serving[r].at \notin {"wake", "wake_reply", "extend", "waiting", "submit", "submitted"}
              /\ serving[r].at \in {"check", "look"} => until # "ahead"

\* One thread at a time is between its read of the volume and the end of its
\* write, unless two have overlapped, and what it writes is the volume in force.
VolumeInv ==
    /\ \A t \in Thread : serving[t].at \in {"volume", "set", "store"} => t \in Request
    /\ ~overlapped =>
          \A t, u \in Thread : {serving[t].at, serving[u].at} \subseteq {"set", "store"} => t = u
    /\ ~overlapped => \A t \in Thread : At(t, "store") => volume = serving[t].target
    /\ VolumeSurvives

LEMMA TargetIsVolume ==
    ASSUME NEW now \in Int, NEW words, VolumeCommand(words) # "none"
    PROVE  Target(now, VolumeCommand(words)) \in Int
<1>1. ASSUME NEW a \in Int, NEW b \in Int PROVE Min({a, b}) \in Int /\ Max({a, b}) \in Int
  <2>1. \E x \in {a, b} : \A y \in {a, b} : x =< y
    BY <1>1
  <2>2. \E x \in {a, b} : \A y \in {a, b} : x >= y
    BY <1>1
  <2> QED BY <2>1, <2>2, <1>1 DEF Min, Max
<1>2. VolumeCommand(words) \in {"up", "down", "most", "least"}
  BY DEF VolumeCommand
<1>3. Min({MaxVolume, now + 1}) \in Int /\ Max({MinVolume, now - 1}) \in Int
  <2>1. MaxVolume \in Int /\ MinVolume \in Int /\ now + 1 \in Int /\ now - 1 \in Int
    BY DEF MinVolume, MaxVolume
  <2> QED BY ONLY <1>1, <2>1
<1>4. ASSUME NEW change \in {"up", "down", "most", "least"} PROVE Target(now, change) \in Int
  <2>1. CASE change = "up"
    BY <2>1, <1>3 DEF Target
  <2>2. CASE change = "down"
    BY <2>2, <1>3 DEF Target
  <2>3. CASE change = "most"
    BY <2>3 DEF Target, MaxVolume
  <2>4. CASE change = "least"
    BY <2>4 DEF Target, MinVolume
  <2> QED BY <1>4, <2>1, <2>2, <2>3, <2>4
<1> QED BY <1>2, <1>4

\* The steps by what they do to the work of a thread: a few set more than the
\* place it is at.
Steps(t) ==
    \/ SetVolume(t) \/ StoreVolume(t) \/ TellVolume(t) \/ Answer(t) \/ Check(t) \/ Look(t)
    \/ WakeReply(t) \/ SleepReply(t) \/ Zero(t) \/ Sleep(t) \/ Waiting(t) \/ SubmitText(t)
    \/ Touch(t) \/ Event(t) \/ (t = Poll /\ PollExpires)

LEMMA ReturnGoes == \A t : Finishes(t) => Goes(t, "done")
  BY DEF Goes, Ends

LEMMA StepGoes ==
    ASSUME NEW t \in Thread, Steps(t)
    PROVE  \E at \in Place \ {"none", "volume", "set"} : Goes(t, at) /\ (at = "store" => SetVolume(t))
<1> USE DEF Ends, Place
<1>2. CASE StoreVolume(t) \/ Sleep(t) \/ Touch(t)
  BY ReturnGoes, <1>2 DEF StoreVolume, Sleep, Touch
<1>3. CASE Answer(t) \/ (t = Poll /\ PollExpires)
  BY <1>3 DEF Answer, PollExpires, Expires
<1>4. CASE Check(t)
  BY <1>4 DEF Check, Expires
<1>5. CASE Look(t)
  BY <1>5 DEF Look
<1>6. CASE WakeReply(t)
  BY <1>6 DEF WakeReply
<1>7. CASE SetVolume(t) \/ TellVolume(t) \/ SleepReply(t) \/ Waiting(t) \/ Event(t)
  BY <1>7 DEF SetVolume, TellVolume, SleepReply, Waiting, Event
<1>8. CASE SubmitText(t) \/ Zero(t)
  BY <1>8 DEF SubmitText, Zero, AfterZero
<1> QED BY <1>2, <1>3, <1>4, <1>5, <1>6, <1>7, <1>8 DEF Steps

\* A thread that goes on keeps its text, its volume and what it knows of the
\* dialogue; the thread of the polls forgets them when it returns.
LEMMA WhenItGoes ==
    ASSUME VoiceTypes, NEW t \in Thread, NEW at \in Place \ {"none", "volume"}, Goes(t, at)
    PROVE  /\ serving' \in [Thread -> ThreadWork]
           /\ \A u \in Thread \ {t} : serving'[u] = serving[u]
           /\ \/ /\ serving'[t].at = at /\ serving'[t].words = serving[t].words
                 /\ serving'[t].target = serving[t].target /\ serving'[t].slept = serving[t].slept
              \/ t = Poll /\ at = "done" /\ serving'[t] = Fresh
<1>1. Fresh \in ThreadWork
  BY DEF ThreadWork, Place, Fresh
<1>2. CASE t = Poll /\ at = "done"
  <2>1. serving' = [serving EXCEPT ![t] = Fresh]
    BY <1>2 DEF Goes, Finishes, Ends
  <2> QED BY <1>1, <1>2, <2>1 DEF VoiceTypes
<1>3. CASE ~(t = Poll /\ at = "done")
  <2>1. serving' = [serving EXCEPT ![t].at = at]
    BY <1>3 DEF Goes, Finishes, Moved, Ends
  <2> QED BY <1>3, <2>1 DEF VoiceTypes, ThreadWork
<1> QED BY <1>2, <1>3

LEMMA NextVoice ==
    ASSUME VoiceNext
    PROVE  \/ \E t \in Thread : Steps(t)
           \/ \E r \in Request, words \in Utterance : Upload(r, words)
           \/ \E t \in Thread : ReadVolume(t) \/ Extend(t) \/ Wake(t)
           \/ TimeOut \/ Restart
<1>1. Request \subseteq Thread /\ Poll \in Thread
  BY DEF Thread
<1> QED BY <1>1 DEF VoiceNext, Steps

RestartWork == {Fresh, [Fresh EXCEPT !.at = "done"]}

LEMMA WhenRestarted ==
    ASSUME VoiceTypes, Restart
    PROVE  /\ \A t \in Thread : serving'[t] = serving[t] \/ serving'[t] \in RestartWork
           /\ serving' \in [Thread -> ThreadWork]
<1>1. /\ serving' = [t \in Thread |-> serving'[t]]
      /\ \A t \in Thread : serving'[t] = serving[t] \/ serving'[t] \in RestartWork
  BY DEF Restart, RestartWork, Ends
<1>2. Fresh \in ThreadWork
  BY DEF Fresh, ThreadWork, Place
<1>3. [Fresh EXCEPT !.at = "done"] \in ThreadWork
  <2>1. \A w \in ThreadWork : [w EXCEPT !.at = "done"] \in ThreadWork
    BY DEF ThreadWork, Place
  <2> QED BY <1>2, <2>1
<1>4. RestartWork \subseteq ThreadWork
  BY <1>2, <1>3 DEF RestartWork
<1> QED BY <1>1, <1>4 DEF VoiceTypes

LEMMA VoiceTyped ==
    ASSUME VoiceTypes, [VoiceNext]_voiceVars
    PROVE  VoiceTypes'
<1>0. \A t \in Thread : serving[t] \in ThreadWork
  BY DEF VoiceTypes
<1>1. ASSUME NEW t \in Thread, Steps(t) PROVE VoiceTypes'
  <2>1. PICK at \in Place \ {"none", "volume"} : Goes(t, at)
    BY <1>1, StepGoes
  <2>2. serving' \in [Thread -> ThreadWork] /\ \A u \in Thread \ {t} : serving'[u] = serving[u]
    BY <2>1, WhenItGoes
  <2>3. serving'[t].at # "volume"
    BY <2>1, WhenItGoes DEF Fresh
  <2>4. serving[t].target \in Int
    BY <1>0 DEF ThreadWork
  <2>5. volume' \in Int /\ stored' \in Int
    BY <1>1, <2>4 DEF VoiceTypes, Steps, SetVolume, StoreVolume, TellVolume, Answer, Check, Look,
       WakeReply, SleepReply, Zero, Sleep, Waiting, SubmitText, Touch, Event, PollExpires,
       volumes, Kept
  <2> QED BY <2>2, <2>3, <2>5 DEF VoiceTypes, At
<1>2. ASSUME NEW r \in Request, NEW words \in Utterance, Upload(r, words) PROVE VoiceTypes'
  <2>1. r \in Thread
    BY DEF Thread
  <2>2. Branch(words) \in Place /\ (Branch(words) = "volume" => VolumeCommand(words) # "none")
    BY DEF Branch, Place, Ends
  <2> QED BY <1>2, <2>1, <2>2 DEF VoiceTypes, ThreadWork, Upload, volumes, At
<1>3. ASSUME NEW t \in Thread, ReadVolume(t) PROVE VoiceTypes'
  <2>1. Target(volume, VolumeCommand(serving[t].words)) \in Int
    BY <1>3, TargetIsVolume DEF VoiceTypes, ReadVolume
  <2> QED BY <1>3, <2>1 DEF VoiceTypes, ThreadWork, Place, ReadVolume, Moved, At
<1>4. ASSUME NEW t \in Thread, Extend(t) \/ Wake(t) PROVE VoiceTypes'
  <2>1. PICK at \in {"waiting", "wake_reply"} : AwakeAndGoes(t, at)
    BY <1>4 DEF Extend, Wake
  <2>2. serving' \in [Thread -> ThreadWork]
    BY <1>0, <2>1 DEF ThreadWork, Place, AwakeAndGoes
  <2>3. \A u \in Thread : serving'[u].words = serving[u].words /\ serving'[u].at \in {at, serving[u].at}
    BY <1>0, <2>1 DEF ThreadWork, AwakeAndGoes
  <2> QED BY <1>4, <2>2, <2>3 DEF VoiceTypes, At, Extend, Wake, volumes
<1>5. CASE TimeOut \/ UNCHANGED voiceVars
  BY <1>5 DEF TimeOut, voiceVars, volumes, dialog, VoiceTypes, At
<1>6. CASE Restart
  <2>1. /\ \A t \in Thread : serving'[t] = serving[t] \/ serving'[t] \in RestartWork
        /\ serving' \in [Thread -> ThreadWork]
    BY <1>6, <1>0, WhenRestarted
  <2>2. \A t \in Thread : serving'[t].at = "volume" => serving'[t] = serving[t]
    BY <2>1 DEF RestartWork, Fresh
  <2> QED BY <1>6, <2>1, <2>2 DEF Restart, VoiceTypes, At
<1> QED BY <1>1, <1>2, <1>3, <1>4, <1>5, <1>6, NextVoice

VoiceKept == VoiceTypes /\ ForwardInv /\ VolumeInv

LEMMA VoiceBegins == VoiceInit => VoiceKept /\ SleepIsTold /\ ForwardedAwake
<1> SUFFICES ASSUME VoiceInit PROVE VoiceKept /\ SleepIsTold /\ ForwardedAwake
  OBVIOUS
<1>0. /\ \A t \in Thread : serving[t] = Fresh
      /\ serving = [t \in Thread |-> Fresh]
      /\ volume = stored /\ stored \in Int /\ ~woken
  BY DEF VoiceInit, MaxVolume
<1>1. Request \subseteq Thread
  BY DEF Thread
<1>2. Fresh \in ThreadWork /\ Fresh.at = "none" /\ Fresh.words = <<>>
  BY DEF Fresh, ThreadWork, Place
<1>3. VoiceTypes
  BY <1>0, <1>2 DEF VoiceTypes, At
<1>4. ForwardInv /\ ForwardedAwake
  BY <1>0, <1>1, <1>2 DEF ForwardInv, ForwardedAwake, At
<1>5. VolumeInv
  BY <1>0, <1>2 DEF VolumeInv, VolumeSurvives, At
<1> QED BY <1>0, <1>3, <1>4, <1>5 DEF VoiceKept, SleepIsTold

LEMMA ForwardStep ==
    ASSUME VoiceTypes, ForwardInv, [VoiceNext]_voiceVars
    PROVE  ForwardInv'
<1>0. (\A t \in Thread : serving[t] \in ThreadWork) /\ Request \subseteq Thread
  BY DEF VoiceTypes, Thread
<1> DEFINE Mute(r) == serving[r].words # <<>> /\ ~HasWakeWord(serving[r].words) /\ serving[r].slept
           Told == {"wake", "wake_reply", "extend", "waiting", "submit", "submitted"}
           Looks == {"check", "look"}
<1>1. ASSUME NEW t \in Thread, Steps(t) PROVE ForwardInv'
  <2>1. PICK at \in Place \ {"none", "volume"} : Goes(t, at)
    BY <1>1, StepGoes
  <2>2. /\ \A u \in Thread \ {t} : serving'[u] = serving[u]
        /\ \/ /\ serving'[t].at = at /\ serving'[t].words = serving[t].words
              /\ serving'[t].slept = serving[t].slept
           \/ serving'[t] = Fresh
    BY <2>1, WhenItGoes
  <2>3. until' = until \/ until' = "zero"
    BY <1>1 DEF Steps, SetVolume, StoreVolume, TellVolume, Answer, Check, Look,
       WakeReply, SleepReply, Zero, Sleep, Waiting, SubmitText, Touch, Event, PollExpires,
       volumes, dialog
  <2>4. ASSUME t \in Request, Mute(t), serving'[t] # Fresh
        PROVE  serving'[t].at \notin Told /\ (serving'[t].at \in Looks => until' # "ahead")
    <3>1. \A x \in Place \ {"none", "volume"} : Goes(t, x) => serving'[t].at = x
      BY WhenItGoes, <2>4
    <3>2. serving[t].at \notin Told /\ serving[t].at # "none" /\ (serving[t].at \in Looks => until # "ahead")
      BY <2>4 DEF ForwardInv, At
    <3>3. CASE SetVolume(t) \/ TellVolume(t) \/ SleepReply(t)
      BY <3>1, <3>3 DEF SetVolume, TellVolume, SleepReply, Place
    <3>4. CASE StoreVolume(t) \/ Sleep(t)
      BY <3>1, <3>4, ReturnGoes DEF StoreVolume, Sleep, Place
    <3>5. CASE Answer(t)
      BY <3>1, <3>5 DEF Answer, Expires, Ends, Place
    <3>6. CASE Check(t)
      BY <3>1, <3>2, <3>6 DEF Check, Expires, dialog, At, Place
    <3>7. CASE Look(t)
      BY <3>1, <3>2, <3>7 DEF Look, IsAwake, Ends, At, Place
    <3>8. CASE Zero(t)
      BY <3>1, <3>8 DEF Zero, AfterZero, Place
    <3>9. CASE WakeReply(t) \/ Waiting(t) \/ SubmitText(t)
      BY <3>2, <3>9 DEF WakeReply, Waiting, SubmitText, At
    <3>10. CASE Touch(t) \/ Event(t) \/ (t = Poll /\ PollExpires)
      BY <3>2, <3>10 DEF Touch, Event, PollExpires, At
    <3> QED BY <1>1, <3>3, <3>4, <3>5, <3>6, <3>7, <3>8, <3>9, <3>10 DEF Steps
  <2>5. ASSUME NEW r \in Request PROVE
            /\ At(r, "none")' => serving'[r].words = <<>>
            /\ Mute(r)' => serving'[r].at \notin Told /\ (serving'[r].at \in Looks => until' # "ahead")
    <3>1. CASE r # t
      BY <1>0, <2>2, <2>3, <3>1 DEF ForwardInv, At
    <3>2. CASE serving'[r] = Fresh
      BY <3>2 DEF Fresh
    <3>3. CASE r = t /\ serving'[r] # Fresh
      BY <2>1, <2>2, <2>4, <3>3 DEF At
    <3> QED BY <3>1, <3>2, <3>3
  <2> QED BY <2>5 DEF ForwardInv
<1>2. ASSUME NEW r \in Request, NEW words \in Utterance, Upload(r, words) PROVE ForwardInv'
  <2>1. /\ \A q \in Request \ {r} : serving'[q] = serving[q]
        /\ serving'[r].at = Branch(words) /\ serving'[r].words = words
        /\ serving'[r].slept = (until # "ahead")
        /\ until' = until
    BY <1>0, <1>2 DEF Upload, dialog, VoiceTypes, ThreadWork
  <2>2. Branch(words) # "none" /\ (Branch(words) \in Told => HasWakeWord(words))
    BY DEF Branch, Ends
  <2> QED BY <2>1, <2>2 DEF ForwardInv, At
<1>3. ASSUME NEW t \in Thread, ReadVolume(t) PROVE ForwardInv'
  <2>1. /\ \A u \in Thread \ {t} : serving'[u] = serving[u]
        /\ serving'[t].at = "set" /\ serving'[t].words = serving[t].words
        /\ serving'[t].slept = serving[t].slept
        /\ until' = until
    BY <1>0, <1>3 DEF ReadVolume, Moved, dialog, VoiceTypes, ThreadWork
  <2> QED BY <1>0, <2>1 DEF ForwardInv, At
<1>4. ASSUME NEW t \in Thread, Extend(t) \/ Wake(t) PROVE ForwardInv'
  <2>1. PICK at \in {"waiting", "wake_reply"} : AwakeAndGoes(t, at)
    BY <1>4 DEF Extend, Wake
  <2>2. /\ \A u \in Thread \ {t} : serving'[u].at = serving[u].at /\ serving'[u].words = serving[u].words
                                     /\ ~serving'[u].slept
        /\ serving'[t].at = at /\ serving'[t].words = serving[t].words /\ serving'[t].slept = serving[t].slept
    BY <1>0, <2>1 DEF AwakeAndGoes, ThreadWork
  <2>3. serving[t].at \in {"extend", "wake"}
    BY <1>4 DEF Extend, Wake, At
  <2> QED BY <1>0, <2>2, <2>3 DEF ForwardInv, At
<1>5. CASE TimeOut \/ UNCHANGED voiceVars
  BY <1>5 DEF TimeOut, voiceVars, dialog, ForwardInv, At
<1>6. CASE Restart
  <2>1. \A t \in Thread : serving'[t] = serving[t] \/ serving'[t] \in RestartWork
    BY <1>6, WhenRestarted
  <2>2. \A w \in RestartWork : w.words = <<>>
    BY DEF RestartWork, Fresh
  <2>3. until' = "zero"
    BY <1>6 DEF Restart
  <2>4. ASSUME NEW r \in Request PROVE
            /\ At(r, "none")' => serving'[r].words = <<>>
            /\ Mute(r)' => serving'[r].at \notin Told /\ (serving'[r].at \in Looks => until' # "ahead")
    BY <1>0, <2>1, <2>2, <2>3 DEF ForwardInv, At
  <2> QED BY <2>4 DEF ForwardInv
<1> QED BY <1>1, <1>2, <1>3, <1>4, <1>5, <1>6, NextVoice

LEMMA VolumeStep ==
    ASSUME VoiceTypes, VolumeInv, [VoiceNext]_voiceVars
    PROVE  VolumeInv'
<1>0. (\A t \in Thread : serving[t] \in ThreadWork) /\ Request \subseteq Thread
  BY DEF VoiceTypes, Thread
<1> DEFINE Busy(t) == serving[t].at \in {"set", "store"}
           Others(t) == \A u \in Thread \ {t} : serving'[u] = serving[u]
           Settled(t) == Others(t) /\ serving'[t].at \notin {"volume", "set", "store"}
           Calm == UNCHANGED <<volume, stored, overlapped>> /\ lost \subseteq lost'
<1>1. ASSUME NEW t \in Thread, Steps(t), ~SetVolume(t), ~StoreVolume(t) PROVE VolumeInv'
  <2>1. Calm /\ serving[t].at \notin {"volume", "set", "store"}
    BY <1>1 DEF Steps, TellVolume, Answer, Check, Look, WakeReply, SleepReply, Zero, Sleep,
       Waiting, SubmitText, Touch, Event, PollExpires, volumes, NothingRaises, Raises, Creates, At
  <2>2. Settled(t)
    <3>1. PICK at \in Place \ {"none", "volume", "set", "store"} : Goes(t, at)
      BY <1>1, StepGoes
    <3> QED BY <3>1, WhenItGoes DEF Fresh
  <2> QED BY <1>0, <2>1, <2>2 DEF VolumeInv, VolumeSurvives, At
<1>2. ASSUME NEW t \in Thread, SetVolume(t) PROVE VolumeInv'
  <2>1. Goes(t, "store") /\ serving[t].at = "set" /\ volume' = serving[t].target
        /\ UNCHANGED <<stored, overlapped, lost>>
    BY <1>2 DEF SetVolume, At
  <2>2. Others(t) /\ serving'[t].at = "store" /\ serving'[t].target = serving[t].target
    BY <2>1, WhenItGoes DEF Place
  <2> QED BY <2>1, <2>2, <1>0 DEF VolumeInv, VolumeSurvives, At
<1>3. ASSUME NEW t \in Thread, StoreVolume(t) PROVE VolumeInv'
  <2>1. /\ serving[t].at = "store" /\ UNCHANGED <<volume, overlapped>>
        /\ \/ stored' = serving[t].target /\ lost' = lost
           \/ "setting" \in lost'
    BY <1>3 DEF StoreVolume, At, Kept, NothingRaises, Raises
  <2>2. Settled(t)
    <3>1. Goes(t, "tell") \/ Goes(t, "done")
      BY <1>3, ReturnGoes DEF StoreVolume
    <3> QED BY <3>1, WhenItGoes DEF Place, Fresh
  <2> QED BY <2>1, <2>2, <1>0 DEF VolumeInv, VolumeSurvives, At
<1>4. ASSUME NEW r \in Request, NEW words \in Utterance, Upload(r, words) PROVE VolumeInv'
  <2>1. /\ Others(r) /\ serving[r].at = "none" /\ serving'[r].at = Branch(words)
        /\ UNCHANGED <<volume, stored, overlapped, lost>>
    BY <1>0, <1>4 DEF Upload, volumes, At, VoiceTypes, ThreadWork
  <2>2. Branch(words) \notin {"set", "store"}
    BY DEF Branch, Ends
  <2> QED BY <1>0, <2>1, <2>2 DEF VolumeInv, VolumeSurvives, At
<1>5. ASSUME NEW t \in Thread, ReadVolume(t) PROVE VolumeInv'
  <2>1. /\ Others(t) /\ serving[t].at = "volume" /\ serving'[t].at = "set"
        /\ UNCHANGED <<volume, stored, lost>>
        /\ overlapped' = (overlapped \/ \E u \in Request : Busy(u))
    BY <1>0, <1>5 DEF ReadVolume, Moved, At, VoiceTypes, ThreadWork
  <2>2. t \in Request /\ \A u \in Thread : Busy(u) => u \in Request
    BY <2>1, <1>0 DEF VolumeInv
  <2> QED BY <1>0, <2>1, <2>2 DEF VolumeInv, VolumeSurvives, At
<1>6. ASSUME NEW t \in Thread, Extend(t) \/ Wake(t) PROVE VolumeInv'
  <2>1. PICK at \in {"waiting", "wake_reply"} : AwakeAndGoes(t, at)
    BY <1>6 DEF Extend, Wake
  <2>2. \A u \in Thread : serving'[u].at \in {serving[u].at, at} /\ serving'[u].target = serving[u].target
                             /\ (u # t => serving'[u].at = serving[u].at)
    BY <1>0, <2>1 DEF AwakeAndGoes, ThreadWork
  <2>3. serving[t].at \notin {"set", "store", "volume"} /\ UNCHANGED <<volume, stored, overlapped, lost>>
    BY <1>6 DEF Extend, Wake, volumes, At
  <2> QED BY <1>0, <2>2, <2>3 DEF VolumeInv, VolumeSurvives, At
<1>7. CASE TimeOut \/ UNCHANGED voiceVars
  BY <1>7 DEF TimeOut, voiceVars, volumes, VolumeInv, VolumeSurvives, At
<1>8. CASE Restart
  <2>1. \A t \in Thread : serving'[t].at \in {"none", "done", "submitted"}
    BY <1>8 DEF Restart, Fresh, Ends, At
  <2>2. volume' = stored /\ UNCHANGED <<stored, overlapped, lost>>
    BY <1>8 DEF Restart
  <2> QED BY <2>1, <2>2 DEF VolumeInv, VolumeSurvives, At
<1> QED BY <1>1, <1>2, <1>3, <1>4, <1>5, <1>6, <1>7, <1>8, NextVoice

LEMMA SleepStep ==
    ASSUME VoiceTypes, SleepIsTold, [VoiceNext]_voiceVars
    PROVE  SleepIsTold'
<1>0. \A t \in Thread : serving[t] \in ThreadWork
  BY DEF VoiceTypes
<1>1. ASSUME NEW t \in Thread, Steps(t), ~Zero(t), ~Sleep(t) PROVE SleepIsTold'
  <2>1. /\ UNCHANGED <<until, woken>> /\ created \subseteq created' /\ lost \subseteq lost'
        /\ ~At(t, "sleep")
    BY <1>1 DEF Steps, SetVolume, StoreVolume, TellVolume, Answer, Check, Look, WakeReply,
       SleepReply, Waiting, SubmitText, Touch, Event, PollExpires, dialog, NothingRaises, Raises,
       Creates, At
  <2>2. PICK at \in Place \ {"none", "volume"} : Goes(t, at)
    BY <1>1, StepGoes
  <2>3. \A u \in Thread \ {t} : serving'[u] = serving[u]
    BY <2>2, WhenItGoes
  <2> QED BY <2>1, <2>3 DEF SleepIsTold, At
<1>2. ASSUME NEW t \in Thread, Zero(t) PROVE SleepIsTold'
  <2>1. Goes(t, "sleep")
    BY <1>2 DEF Zero, AfterZero
  <2>2. serving'[t].at = "sleep"
    BY <2>1, WhenItGoes DEF Place
  <2> QED BY <2>2 DEF SleepIsTold, At
<1>3. ASSUME NEW t \in Thread, Sleep(t) PROVE SleepIsTold'
  BY <1>3 DEF Sleep, Creates, Raises, SleepIsTold
<1>4. ASSUME NEW r \in Request, NEW words \in Utterance, Upload(r, words) PROVE SleepIsTold'
  BY <1>0, <1>4 DEF Upload, dialog, SleepIsTold, At, VoiceTypes
<1>5. ASSUME NEW t \in Thread, ReadVolume(t) PROVE SleepIsTold'
  BY <1>0, <1>5 DEF ReadVolume, Moved, dialog, SleepIsTold, At, VoiceTypes
<1>6. ASSUME NEW t \in Thread, Extend(t) \/ Wake(t) PROVE SleepIsTold'
  BY <1>6 DEF Extend, Wake, Awakes, SleepIsTold
<1>7. CASE TimeOut \/ Restart
  BY <1>7 DEF TimeOut, Restart, SleepIsTold
<1>8. CASE UNCHANGED voiceVars
  BY <1>8 DEF voiceVars, dialog, SleepIsTold, At
<1> QED BY <1>1, <1>2, <1>3, <1>4, <1>5, <1>6, <1>7, <1>8, NextVoice

LEMMA VoiceHolds == VoiceSpec => []VoiceKept
<1>1. VoiceKept /\ [VoiceNext]_voiceVars => VoiceKept'
  BY VoiceTyped, ForwardStep, VolumeStep DEF VoiceKept
<1> QED BY VoiceBegins, <1>1, PTL DEF VoiceSpec

\* While the dialogue sleeps nothing that is said goes to the agent without a
\* wake word, however other uploads, polls and the timeout move the dialogue
\* between an upload and its submission.
THEOREM ForwardsAwake == VoiceSpec => []ForwardedAwake
<1>1. VoiceKept => ForwardedAwake
  BY DEF VoiceKept, ForwardInv, ForwardedAwake, At
<1> QED BY <1>1, VoiceHolds, PTL

\* A dialogue that has gone to sleep, by a word or by time, is one the device
\* has been told of since it was last awake, or a thread is about to tell it.
THEOREM SleepTold == VoiceSpec => []SleepIsTold
<1>1. VoiceKept /\ SleepIsTold /\ [VoiceNext]_voiceVars => SleepIsTold'
  BY SleepStep DEF VoiceKept
<1> QED BY <1>1, VoiceBegins, VoiceHolds, PTL DEF VoiceSpec

\* When no change of the volume is under way, the database has the volume in
\* force, unless two changes have overlapped or a write failed.
THEOREM VolumeKept == VoiceSpec => []VolumeSurvives
<1>1. VoiceKept => VolumeSurvives
  BY DEF VoiceKept, VolumeInv
<1> QED BY <1>1, VoiceHolds, PTL
=============================================================================
