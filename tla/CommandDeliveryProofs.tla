------------------------ MODULE CommandDeliveryProofs ------------------------
(***************************************************************************)
(* Proofs about the delivery of commands, for every set of commands,       *)
(* server threads and boots, and every capacity of the queues.             *)
(***************************************************************************)
EXTENDS CommandDelivery, CommandStoreProofs, FiniteSetTheorems, SequenceTheorems

QP == INSTANCE DeviceCommandQueueProofs WITH
         QCmd <- Cmd, QBoots <- Boots \cup {0}, Meta <- QueueMeta, MaxSize <- QueueSize,
         items <- memory

-----------------------------------------------------------------------------
(* The in-memory queue: what its operations leave in it.                    *)

LEMMA QueueParameters == QP!QueueAssumption
  BY DeliveryAssumption DEF DeliveryAssumption, QP!QueueAssumption, QP!CommandMeta, Queue!CommandMeta

LEMMA SameTypes == (Queue!TypeOK <=> QP!TypeOK) /\ Queue!Item = QP!Item
  BY DEF Queue!TypeOK, QP!TypeOK, Queue!Item, QP!Item

\* The two instances of the queue, and of the library under it, are one.
LEMMA SameToSet == \A s : QP!ToSet(s) = ToSet(s)
  BY DEF QP!ToSet, ToSet

LEMMA SameCardinality == \A S : Queue!Cardinality(S) = QP!Cardinality(S)
  BY DEF Queue!Cardinality, QP!Cardinality

LEMMA SameNth == \A I, k : Queue!Nth(I, k) = QP!Nth(I, k)
  BY SameCardinality DEF Queue!Nth, QP!Nth

LEMMA SameKept == ASSUME NEW q, NEW I PROVE Queue!Kept(q, I) = QP!Kept(q, I)
  BY SameCardinality, SameNth DEF Queue!Kept, QP!Kept

LEMMA SameWithout == ASSUME NEW q, NEW i PROVE Queue!Without(q, i) = QP!Without(q, i)
  BY SameKept DEF Queue!Without, QP!Without

LEMMA SameThinned == ASSUME NEW q, NEW e PROVE Queue!Thinned(q, e) = QP!Thinned(q, e)
  BY SameKept
     DEF Queue!Thinned, QP!Thinned, Queue!Preempted, QP!Preempted, Queue!Coalesced, QP!Coalesced,
         Queue!Priority, QP!Priority

LEMMA SameOutranked ==
    ASSUME NEW q, NEW e
    PROVE  Queue!Outranked(q, e) = QP!Outranked(q, e) /\ Queue!DropIndex(q, e) = QP!DropIndex(q, e)
  BY DEF Queue!Outranked, QP!Outranked, Queue!DropIndex, QP!DropIndex, Queue!LowestOldest,
         QP!LowestOldest, Queue!Priority, QP!Priority

LEMMA SameAfterPut == ASSUME NEW q, NEW e PROVE Queue!AfterPut(q, e) = QP!AfterPut(q, e)
  BY SameThinned, SameOutranked, SameWithout DEF Queue!AfterPut, QP!AfterPut

LEMMA PutInQueue ==
    ASSUME Queue!TypeOK, NEW e \in Queue!Item, Queue!Put(e)
    PROVE  Queue!TypeOK' /\ ToSet(memory') \subseteq ToSet(memory) \cup {e}
<1>1. QP!Put(e)
  BY SameAfterPut DEF Queue!Put, QP!Put
<1>2. QP!TypeOK /\ e \in QP!Item
  BY SameTypes
<1>3. QP!TypeOK' /\ QP!ToSet(memory') \subseteq QP!ToSet(memory) \cup {e}
  BY <1>1, <1>2, QueueParameters, QP!PutTyped
<1>4. Queue!TypeOK'
  BY <1>3 DEF Queue!TypeOK, QP!TypeOK, Queue!Item, QP!Item
<1> QED BY <1>3, <1>4, SameToSet

LEMMA DropFromQueue ==
    ASSUME Queue!TypeOK, QP!Drops \/ memory' = memory
    PROVE  Queue!TypeOK' /\ ToSet(memory') \subseteq ToSet(memory)
<1>1. CASE QP!Drops
  <2>1. QP!TypeOK' /\ QP!ToSet(memory') \subseteq QP!ToSet(memory)
    BY <1>1, SameTypes, QueueParameters, QP!DropsTyped
  <2>2. Queue!TypeOK'
    BY <2>1 DEF Queue!TypeOK, QP!TypeOK, Queue!Item, QP!Item
  <2> QED BY <2>1, <2>2, SameToSet
<1>2. CASE memory' = memory
  BY <1>2 DEF Queue!TypeOK
<1> QED BY <1>1, <1>2

LEMMA ExpireInQueue ==
    ASSUME Queue!TypeOK, Queue!Expire
    PROVE  Queue!TypeOK' /\ ToSet(memory') \subseteq ToSet(memory)
<1>1. QP!Expire
  BY SameWithout DEF Queue!Expire, QP!Expire
<1> QED BY <1>1, QueueParameters, QP!ExpireDrops, DropFromQueue

LEMMA DiscardInQueue ==
    ASSUME Queue!TypeOK, NEW c, Queue!Discard(c)
    PROVE  Queue!TypeOK' /\ ToSet(memory') \subseteq ToSet(memory)
<1>1. QP!Discard(c)
  BY SameWithout DEF Queue!Discard, QP!Discard, Queue!AfterDiscard, QP!AfterDiscard
<1>2. memory \in Seq(QP!Item)
  BY SameTypes DEF Queue!TypeOK
<1> QED BY <1>1, <1>2, QueueParameters, QP!DiscardDrops, DropFromQueue

LEMMA BootsInQueue ==
    ASSUME Queue!TypeOK, NEW b, Queue!DiscardOtherBoots(b)
    PROVE  Queue!TypeOK' /\ ToSet(memory') \subseteq ToSet(memory)
<1>1. QP!DiscardOtherBoots(b)
  BY SameKept
     DEF Queue!DiscardOtherBoots, QP!DiscardOtherBoots, Queue!OtherBootsDiscarded, QP!OtherBootsDiscarded
<1> QED BY <1>1, QueueParameters, QP!DiscardOtherBootsDrops, DropFromQueue

\* What get returns is an item of the queue, of the boot it asks for.
LEMMA GetFromQueue ==
    ASSUME Queue!TypeOK, NEW b, NEW s, NEW f, Queue!Get(b, s, f)
    PROVE  LET x == memory[Queue!Best(memory, Queue!Eligible(memory, b, s, f))]
           IN  /\ x \in ToSet(memory) /\ x \in Queue!Item /\ (b # 0 => x.boot \in {0, b})
               /\ Queue!TypeOK' /\ ToSet(memory') \subseteq ToSet(memory)
<1> DEFINE I == Queue!Eligible(memory, b, s, f)
           i == Queue!Best(memory, I)
<1>1. QP!Get(b, s, f)
  BY SameWithout
     DEF Queue!Get, QP!Get, Queue!Eligible, QP!Eligible, Queue!Best, QP!Best, Queue!Priority, QP!Priority
<1>2. Queue!TypeOK' /\ ToSet(memory') \subseteq ToSet(memory)
  BY <1>1, QueueParameters, QP!GetDrops, DropFromQueue
<1>3. memory \in Seq(QP!Item) /\ I \in SUBSET DOMAIN memory /\ I # {}
  BY SameTypes DEF Queue!TypeOK, Queue!Get, Queue!Eligible
<1>4. i \in I
  <2>1. QP!Best(memory, I) = i
    BY DEF Queue!Best, QP!Best, Queue!Priority, QP!Priority
  <2> HIDE DEF I, i
  <2>2. QP!Best(memory, I) \in I
    BY <1>3, QueueParameters, QP!BestIs
  <2> QED BY <2>1, <2>2
<1>5. b # 0 => memory[i].boot \in {0, b}
  <2>1. I = Queue!Eligible(memory, b, s, f)
    OBVIOUS
  <2> HIDE DEF i
  <2> QED BY <1>4, <2>1 DEF Queue!Eligible
<1>6. memory[i] \in ToSet(memory) /\ memory[i] \in Queue!Item
  <2> HIDE DEF I, i
  <2> QED BY <1>3, <1>4, SameTypes DEF ToSet
<1> QED BY <1>2, <1>5, <1>6

-----------------------------------------------------------------------------
(* What the two sides hold.                                                 *)

Holding == {"lease", "discard", "grab", "last"}

ProducerState == [at : {"idle", "stamped", "created", "done"}, boot : Boots \cup {0}]
HandlerState ==
    [at : {"free", "observe", "adopt", "gate", "select", "wait"} \cup Holding,
     boot : Boots \cup {0}, speak : BOOLEAN, cmd : Cmd \cup {NoCmd}]
Request == [cmd : Cmd, state : AckStates, boot : Boots]

ServerTypes ==
    /\ producer \in [Cmd -> ProducerState]
    /\ handler \in [Handler -> HandlerState]
    /\ \A h \in Handler : /\ handler[h].at # "free" => handler[h].boot \in Boots
                          /\ handler[h].at \in Holding => handler[h].cmd \in Cmd

Noted == {c \in Cmd : table[c] # "none"}

\* What the command task does ...
TaskTypes ==
    /\ task \in {"hello", "idle", "polling", "handling", "acking", "executing"}
    /\ waits \in Handler \cup {NoHandler} /\ (task = "polling" <=> waits \in Handler)
    /\ inbox \in Cmd \cup {NoCmd}
    /\ task \in {"handling", "acking", "executing"} => inbox \in Cmd
    /\ replaying \subseteq Noted

\* ... and what the firmware has noted and queued.
NoteTypes ==
    /\ devBoot \in Boots
    /\ speech \in Seq(Cmd \cup {Local}) /\ Len(speech) <= SpeechCapacity
    /\ worker \in Cmd \cup {NoCmd}
    /\ table \in [Cmd -> AckStates \cup {"none"}]
    /\ nvs \in [Cmd -> Terminal \cup {"none"}]
    /\ pending \subseteq Noted /\ marked \subseteq Noted
    /\ executed \in [Cmd -> [Boots -> Nat]]

DeviceTypes == TaskTypes /\ NoteTypes

LinkTypes == Queue!TypeOK /\ ServerTypes /\ DeviceTypes /\ late \subseteq Request

-----------------------------------------------------------------------------
(* Every step of the delivery is a transaction of the store, or leaves it.  *)

StoreStep == [Next]_vars

LEMMA Transactions ==
    /\ \A c \in Cmd, b \in Boots \cup {0} : CreateCommand(c, b) \/ LeaseCommand(c, b) => StoreStep
    /\ \A b \in Boots : ObserveDeviceBoot(dev, b) => StoreStep
    /\ \A C : ExpireStaleDialogue(C) => StoreStep
    /\ \A c \in Cmd : Deadline({c}) \/ LeaseLapse(c) => StoreStep
    /\ ExpireInactiveBoots \/ Sweep \/ UNCHANGED storeVars => StoreStep
<1>1. dev \in Device
  BY DeliveryAssumption DEF DeliveryAssumption
<1>2. \A C : ExpireStaleDialogue(C) => C \in SUBSET Dialogue
  BY DEF ExpireStaleDialogue
<1> QED BY <1>1, <1>2 DEF StoreStep, Next, storeVars

LEMMA ArriveIsTransaction ==
    ASSUME NEW c \in Cmd, NEW s \in AckStates, NEW b \in Boots, Arrive(c, s, b)
    PROVE  StoreStep
  BY DEF Arrive, StoreStep, Next, storeVars

\* Everything Post can do to the store, the network and the table.
LEMMA PostDoes ==
    ASSUME DeviceTypes, late \subseteq Request, NEW c \in Cmd, NEW s \in AckStates, Post(c, s)
    PROVE  /\ Arrive(c, s, devBoot) \/ UNCHANGED storeVars
           /\ late' = late \/ late' = late \cup {[cmd |-> c, state |-> s, boot |-> devBoot]}
           /\ late' \subseteq Request
           /\ table' = [table EXCEPT ![c] = s] /\ table' \in [Cmd -> AckStates \cup {"none"}]
           /\ nvs' \in [Cmd -> Terminal \cup {"none"}]
           /\ \A x \in Cmd : nvs'[x] \in {nvs[x], table'[x], "none"}
           /\ Noted \cup {c} \subseteq Noted' /\ pending' \subseteq Noted'
<1>1. /\ table \in [Cmd -> AckStates \cup {"none"}] /\ nvs \in [Cmd -> Terminal \cup {"none"}]
      /\ devBoot \in Boots /\ pending \subseteq Noted
  BY DEF DeviceTypes, NoteTypes
<1>2. table' = [table EXCEPT ![c] = s] /\ table' \in [Cmd -> AckStates \cup {"none"}]
  BY <1>1 DEF Post, Note
<1>3. /\ nvs' \in [Cmd -> Terminal \cup {"none"}]
      /\ \A x \in Cmd : nvs'[x] \in {nvs[x], table'[x], "none"}
  <2>1. CASE s \notin Terminal
    BY <1>1, <2>1 DEF Post, Note
  <2>2. CASE s \in Terminal
    <3>1. nvs' = [x \in Cmd |-> IF x \in marked /\ table'[x] \in Terminal THEN table'[x] ELSE "none"]
      BY <2>2 DEF Post, Note
    <3> QED BY <3>1
  <2> QED BY <2>1, <2>2
<1>4. Noted \cup {c} \subseteq Noted'
  <2>1. s # "none"
    BY DEF AckStates
  <2> QED BY <1>1, <1>2, <2>1 DEF Noted
<1>5. pending' \subseteq pending \cup {c}
  BY DEF Post, Send
<1>6. late' = late \/ late' = late \cup {[cmd |-> c, state |-> s, boot |-> devBoot]}
  BY DEF Post, Send
<1>7. late' \subseteq Request
  <2>1. [cmd |-> c, state |-> s, boot |-> devBoot] \in Request
    BY <1>1 DEF Request
  <2> QED BY <1>6, <2>1
<1>8. Arrive(c, s, devBoot) \/ UNCHANGED storeVars
  BY DEF Post, Send
<1> QED BY <1>1, <1>2, <1>3, <1>4, <1>5, <1>6, <1>7, <1>8

-----------------------------------------------------------------------------
(* The polls keep the types.                                                *)

\* The row that lease_next_command selects is one that it may lease.
LEMMA SelectedIs ==
    ASSUME TypeOK, Sweep, NEW b, NEW s, NEW f
    PROVE  LET c == NextCommand(dev, b, s, f)'
           IN  c = NoCmd \/ (c \in Cmd /\ state'[c] # "absent" /\ (b # 0 => bound[c] \in {0, b}))
<1> DEFINE rows == Runnable(dev, b, s, f)'
           c == NextCommand(dev, b, s, f)'
<1>1. seq' = seq /\ bound' = bound
  BY DEF Sweep
<1>2. rows \in SUBSET Cmd /\ \A x \in rows : state'[x] # "absent" /\ (b # 0 => bound[x] \in {0, b})
  BY <1>1 DEF Runnable, Row
<1>3. c = IF rows = {} THEN NoCmd ELSE CHOOSE x \in rows : \A o \in rows : Precedes(x, o)
  BY <1>1 DEF NextCommand, Precedes
<1> HIDE DEF rows, c
<1>4. CASE rows = {}
  BY <1>3, <1>4 DEF c
<1>5. CASE rows # {}
  <2>1. \E x \in rows : \A o \in rows : Precedes(x, o)
    BY <1>2, <1>5, FirstRow
  <2>2. c \in rows
    BY <1>3, <1>5, <2>1
  <2> QED BY <1>2, <2>2 DEF c
<1> QED BY <1>4, <1>5

LEMMA GoTypes ==
    ASSUME ServerTypes, NEW h \in Handler, handler[h].boot \in Boots, producer' = producer,
           NEW at \in {"gate", "adopt", "select", "wait"} \cup Holding, NEW c \in Cmd \cup {NoCmd},
           at \in Holding => c \in Cmd, Go(h, at, c)
    PROVE  ServerTypes'
<1>1. handler' = [handler EXCEPT ![h].at = at, ![h].cmd = c]
  BY DEF Go
<1>2. handler[h] \in HandlerState
  BY DEF ServerTypes
<1> DEFINE r == [handler[h] EXCEPT !.at = at, !.cmd = c]
<1>3. r \in HandlerState /\ r.at = at /\ r.cmd = c /\ r.boot = handler[h].boot
  BY <1>2 DEF HandlerState
<1>4. handler' = [handler EXCEPT ![h] = r]
  BY <1>1
<1> HIDE DEF r
<1> QED BY <1>3, <1>4 DEF ServerTypes

LEMMA ReplyTypes ==
    ASSUME ServerTypes, DeviceTypes, NEW h \in Handler, NEW c \in Cmd \cup {NoCmd},
           producer' = producer, Reply(h, c)
    PROVE  ServerTypes' /\ DeviceTypes'
<1> DEFINE r == [at |-> "free", boot |-> 0, speak |-> TRUE, cmd |-> NoCmd]
<1>1. r \in HandlerState /\ r.at = "free"
  BY DEF HandlerState
<1>2. handler' = [handler EXCEPT ![h] = r]
  BY DEF Reply
<1> HIDE DEF r
<1>3. ServerTypes'
  BY <1>1, <1>2 DEF ServerTypes, Holding
<1>4. Noted' = Noted /\ NoteTypes'
  BY DEF Reply, Noted, DeviceTypes, NoteTypes
<1>5. NoHandler \notin Handler /\ TaskTypes /\ pending \subseteq Noted
  BY DeliveryAssumption DEF DeliveryAssumption, DeviceTypes, NoteTypes
<1>6. TaskTypes'
  <2>1. CASE waits = h /\ waits' = NoHandler /\ c # NoCmd /\ task' = "handling" /\ inbox' = c /\ UNCHANGED replaying
    BY <1>4, <1>5, <2>1 DEF TaskTypes
  <2>2. CASE waits = h /\ waits' = NoHandler /\ LoopTop
    BY <1>4, <1>5, <2>2 DEF TaskTypes, LoopTop, Reply
  <2>3. CASE waits # h /\ UNCHANGED <<waits, inbox, task, replaying>>
    BY <1>4, <1>5, <2>3 DEF TaskTypes
  <2> QED BY <2>1, <2>2, <2>3 DEF Reply
<1> QED BY <1>3, <1>4, <1>6 DEF DeviceTypes

LEMMA DeviceRests ==
    ASSUME DeviceTypes, UNCHANGED deviceVars
    PROVE  DeviceTypes'
  BY DEF DeviceTypes, TaskTypes, NoteTypes, Noted, deviceVars

\* Every step of a poll is a transaction or none, and keeps the types.
LEMMA PollTypes ==
    ASSUME TypeOK, LinkTypes, NEW h \in Handler, PollStep(h)
    PROVE  StoreStep /\ LinkTypes'
<1> DEFINE b == handler[h].boot
           c == handler[h].cmd
<1>0. /\ Queue!TypeOK /\ ServerTypes /\ DeviceTypes
      /\ handler[h].at # "free" => b \in Boots
      /\ handler[h].at \in Holding => c \in Cmd
      /\ Boots \subseteq Boots \cup {0}
  BY DEF LinkTypes, ServerTypes
<1>a. ASSUME late' = late, Queue!TypeOK', ServerTypes', DeviceTypes' PROVE LinkTypes'
  BY <1>a DEF LinkTypes
<1>b. ASSUME memory' = memory PROVE Queue!TypeOK'
  BY <1>0, <1>b DEF Queue!TypeOK
<1>1. CASE PollObserve(h)
  <2>1. late' = late /\ producer' = producer /\ b \in Boots
    BY <1>0, <1>1 DEF PollObserve
  <2>2. CASE ExpireInactiveBoots /\ Reply(h, NoCmd) /\ UNCHANGED memory
    BY <1>0, <1>a, <1>b, <2>1, <2>2, ReplyTypes, Transactions
  <2>3. CASE Queue!DiscardOtherBoots(b) /\ Go(h, "gate", NoCmd) /\ UNCHANGED <<storeVars, deviceVars>>
    BY <1>0, <1>a, <2>1, <2>3, GoTypes, DeviceRests, BootsInQueue, Transactions DEF Holding
  <2>4. CASE Go(h, "adopt", NoCmd) /\ UNCHANGED <<storeVars, deviceVars, memory>>
    BY <1>0, <1>a, <1>b, <2>1, <2>4, GoTypes, DeviceRests, Transactions DEF Holding
  <2> QED BY <1>1, <2>2, <2>3, <2>4 DEF PollObserve
<1>2. CASE PollAdopt(h)
  <2>1. /\ b \in Boots /\ ObserveDeviceBoot(dev, b) /\ Queue!DiscardOtherBoots(b)
        /\ Go(h, "gate", NoCmd) /\ late' = late /\ producer' = producer /\ UNCHANGED deviceVars
    BY <1>0, <1>2 DEF PollAdopt
  <2> QED BY <1>0, <1>a, <2>1, GoTypes, DeviceRests, BootsInQueue, Transactions DEF Holding
<1>3. CASE PollGate(h)
  <2>1. /\ b \in Boots /\ \E C \in SUBSET Dialogue : ExpireStaleDialogue(C)
        /\ Go(h, "select", NoCmd) /\ late' = late /\ producer' = producer /\ memory' = memory
        /\ UNCHANGED deviceVars
    BY <1>0, <1>3 DEF PollGate
  <2> QED BY <1>0, <1>a, <1>b, <2>1, GoTypes, DeviceRests, Transactions DEF Holding
<1>4. CASE PollSelect(h)
  <2>1. /\ b \in Boots /\ Sweep /\ late' = late /\ producer' = producer /\ memory' = memory
        /\ UNCHANGED deviceVars
    BY <1>0, <1>4 DEF PollSelect
  <2>2. PICK d \in Cmd \cup {NoCmd} : Go(h, IF d = NoCmd THEN "wait" ELSE "lease", d)
    BY <1>4, <2>1, SelectedIs DEF PollSelect
  <2>3. ServerTypes'
    <3>1. CASE d = NoCmd
      BY <1>0, <2>1, <2>2, <3>1, GoTypes DEF Holding
    <3>2. CASE d # NoCmd
      BY <1>0, <2>1, <2>2, <3>2, GoTypes DEF Holding
    <3> QED BY <3>1, <3>2
  <2> QED BY <1>0, <1>a, <1>b, <2>1, <2>3, DeviceRests, Transactions
<1>5. CASE PollLease(h)
  <2>1. /\ b \in Boots /\ c \in Cmd /\ LeaseCommand(c, b) /\ late' = late /\ producer' = producer
        /\ memory' = memory /\ UNCHANGED deviceVars
        /\ Go(h, "discard", c) \/ Go(h, "wait", NoCmd)
    BY <1>0, <1>5 DEF PollLease, Holding
  <2>2. ServerTypes'
    BY <1>0, <2>1, GoTypes DEF Holding
  <2> QED BY <1>0, <1>a, <1>b, <2>1, <2>2, DeviceRests, Transactions
<1>6. CASE PollDiscard(h)
  <2>1. /\ c \in Cmd /\ Queue!Discard(c) /\ Reply(h, c) /\ UNCHANGED <<storeVars, producer, late>>
    BY <1>0, <1>6 DEF PollDiscard, Holding
  <2> QED BY <1>0, <1>a, <2>1, ReplyTypes, DiscardInQueue, Transactions
<1>7. CASE PollGet(h)
  <2>1. PICK owner \in AllowFindOwner :
             /\ Queue!Get(b, handler[h].speak, owner)
             /\ Go(h, "grab", memory[Queue!Best(memory, Queue!Eligible(memory, b, handler[h].speak, owner))].cmd)
    BY <1>7 DEF PollGet
  <2>2. /\ b \in Boots /\ late' = late /\ producer' = producer /\ UNCHANGED storeVars /\ UNCHANGED deviceVars
    BY <1>0, <1>7 DEF PollGet
  <2> DEFINE x == memory[Queue!Best(memory, Queue!Eligible(memory, b, handler[h].speak, owner))]
  <2>3. x \in Queue!Item /\ Queue!TypeOK'
    BY <1>0, <2>1, GetFromQueue
  <2>4. x.cmd \in Cmd /\ Go(h, "grab", x.cmd)
    BY <2>1, <2>3 DEF Queue!Item
  <2> HIDE DEF x
  <2> QED BY <1>0, <1>a, <2>2, <2>3, <2>4, GoTypes, DeviceRests, Transactions DEF Holding
<1>8. CASE PollGrab(h)
  <2>1. /\ c \in Cmd /\ b \in Boots /\ LeaseCommand(c, b) /\ Reply(h, c) /\ UNCHANGED <<memory, producer, late>>
    BY <1>0, <1>8 DEF PollGrab, Holding
  <2> QED BY <1>0, <1>a, <1>b, <2>1, ReplyTypes, Transactions
<1>9. CASE PollTimeout(h)
  <2>1. /\ b \in Boots /\ Sweep /\ UNCHANGED <<memory, producer, late>>
    BY <1>0, <1>9 DEF PollTimeout
  <2>2. PICK d \in Cmd \cup {NoCmd} : \/ d = NoCmd /\ Reply(h, NoCmd)
                                      \/ d # NoCmd /\ Go(h, "last", d) /\ UNCHANGED deviceVars
    BY <1>9, <2>1, SelectedIs DEF PollTimeout
  <2>3. CASE d = NoCmd /\ Reply(h, NoCmd)
    BY <1>0, <1>a, <1>b, <2>1, <2>3, ReplyTypes, Transactions
  <2>4. CASE d \in Cmd /\ Go(h, "last", d) /\ UNCHANGED deviceVars
    BY <1>0, <1>a, <1>b, <2>1, <2>4, GoTypes, DeviceRests, Transactions DEF Holding
  <2> QED BY <2>2, <2>3, <2>4
<1>10. CASE PollLast(h)
  <2>1. /\ c \in Cmd /\ b \in Boots /\ LeaseCommand(c, b) /\ UNCHANGED <<memory, producer, late>>
        /\ Reply(h, c) \/ Reply(h, NoCmd)
    BY <1>0, <1>10 DEF PollLast, Holding
  <2> QED BY <1>0, <1>a, <1>b, <2>1, ReplyTypes, Transactions
<1> QED BY <1>1, <1>2, <1>3, <1>4, <1>5, <1>6, <1>7, <1>8, <1>9, <1>10 DEF PollStep

-----------------------------------------------------------------------------
(* So do the producers and the firmware.                                    *)

LEMMA ProduceTypes ==
    ASSUME TypeOK, LinkTypes, NEW c \in Cmd,
           SinkCreate(c) \/ ReadBoot(c) \/ LegacyCreate(c) \/ PutInMemory(c)
    PROVE  StoreStep /\ LinkTypes'
<1>0. /\ Queue!TypeOK /\ ServerTypes /\ DeviceTypes /\ late \subseteq Request
      /\ producer[c] \in ProducerState /\ producer[c].boot \in Boots \cup {0} /\ boot[dev] \in Boots \cup {0}
  BY DeliveryAssumption DEF DeliveryAssumption, LinkTypes, ServerTypes, ProducerState, TypeOK
<1>1. handler' = handler /\ UNCHANGED deviceVars /\ late' = late
  BY DEF SinkCreate, ReadBoot, LegacyCreate, PutInMemory
<1>2. ASSUME NEW r \in ProducerState, producer' = [producer EXCEPT ![c] = r]
      PROVE  ServerTypes'
  BY <1>0, <1>1, <1>2 DEF ServerTypes
<1>3. ASSUME Queue!TypeOK', ServerTypes' PROVE LinkTypes'
  BY <1>0, <1>1, <1>3, DeviceRests DEF LinkTypes
<1>4. ASSUME memory' = memory PROVE Queue!TypeOK'
  BY <1>0, <1>4 DEF Queue!TypeOK
<1>5. ASSUME NEW b \in Boots \cup {0}, NEW at \in {"stamped", "created", "done"}
      PROVE  /\ [at |-> at, boot |-> b] \in ProducerState
             /\ [producer[c] EXCEPT !.at = at] \in ProducerState
  BY <1>0 DEF ProducerState
<1>6. CASE SinkCreate(c)
  <2>1. CreateCommand(c, 0) /\ memory' = memory /\ producer' = [producer EXCEPT ![c] = [at |-> "created", boot |-> boot[dev]]]
    BY <1>6 DEF SinkCreate
  <2>2. ServerTypes'
    BY <1>0, <1>2, <1>5, <2>1
  <2> QED BY <1>3, <1>4, <2>1, <2>2, Transactions
<1>7. CASE ReadBoot(c)
  <2>1. UNCHANGED storeVars /\ memory' = memory /\ producer' = [producer EXCEPT ![c] = [at |-> "stamped", boot |-> boot[dev]]]
    BY <1>7 DEF ReadBoot
  <2>2. ServerTypes'
    BY <1>0, <1>2, <1>5, <2>1
  <2> QED BY <1>3, <1>4, <2>1, <2>2, Transactions
<1>8. CASE LegacyCreate(c)
  <2>1. /\ CreateCommand(c, producer[c].boot) /\ memory' = memory
        /\ producer' = [producer EXCEPT ![c] = [producer[c] EXCEPT !.at = "created"]]
    BY <1>8 DEF LegacyCreate
  <2>2. ServerTypes'
    BY <1>0, <1>2, <1>5, <2>1
  <2> QED BY <1>0, <1>3, <1>4, <2>1, <2>2, Transactions
<1>9. CASE PutInMemory(c)
  <2> DEFINE e == [cmd |-> c, boot |-> producer[c].boot]
  <2>1. /\ Queue!Put(e) /\ UNCHANGED storeVars
        /\ producer' = [producer EXCEPT ![c] = [producer[c] EXCEPT !.at = "done"]]
    BY <1>9 DEF PutInMemory
  <2>2. e \in Queue!Item
    BY <1>0 DEF Queue!Item
  <2>3. ServerTypes'
    BY <1>0, <1>2, <1>5, <2>1
  <2> HIDE DEF e
  <2> QED BY <1>0, <1>3, <2>1, <2>2, <2>3, PutInQueue, Transactions
<1> QED BY <1>6, <1>7, <1>8, <1>9

\* What happens on the server without a poll, and to the network.
LEMMA ServerRestTypes ==
    ASSUME TypeOK, LinkTypes, MemoryExpires \/ Heartbeat \/ LateAck \/ TimePasses
    PROVE  StoreStep /\ LinkTypes'
<1>0. /\ Queue!TypeOK /\ ServerTypes /\ DeviceTypes /\ late \subseteq Request
      /\ devBoot \in Boots
  BY DEF LinkTypes, DeviceTypes, NoteTypes
<1>1. ASSUME Queue!TypeOK', producer' = producer, handler' = handler, UNCHANGED deviceVars,
             late' \subseteq late
      PROVE  LinkTypes'
  BY <1>0, <1>1, DeviceRests DEF LinkTypes, ServerTypes
<1>2. ASSUME memory' = memory PROVE Queue!TypeOK'
  BY <1>0, <1>2 DEF Queue!TypeOK
<1>3. CASE MemoryExpires
  BY <1>0, <1>1, <1>3, ExpireInQueue, Transactions DEF MemoryExpires
<1>4. CASE Heartbeat
  <2>1. UNCHANGED <<producer, handler, deviceVars, late>>
    BY <1>4 DEF Heartbeat
  <2>2. CASE ExpireInactiveBoots /\ UNCHANGED memory
    BY <1>1, <1>2, <2>1, <2>2, Transactions
  <2>3. CASE ObserveDeviceBoot(dev, devBoot) /\ Queue!DiscardOtherBoots(devBoot)
    BY <1>0, <1>1, <2>1, <2>3, BootsInQueue, Transactions
  <2>4. CASE Queue!DiscardOtherBoots(devBoot) /\ UNCHANGED storeVars
    BY <1>0, <1>1, <2>1, <2>4, BootsInQueue, Transactions
  <2> QED BY <1>4, <2>2, <2>3, <2>4 DEF Heartbeat
<1>5. CASE LateAck
  <2>1. PICK r \in late : Arrive(r.cmd, r.state, r.boot) /\ late' = late \ {r} /\ UNCHANGED <<serverVars, deviceVars>>
    BY <1>5 DEF LateAck
  <2>2. r.cmd \in Cmd /\ r.state \in AckStates /\ r.boot \in Boots
    BY <1>0 DEF Request
  <2>3. StoreStep
    BY <2>1, <2>2, ArriveIsTransaction
  <2> QED BY <1>1, <1>2, <2>1, <2>3 DEF serverVars
<1>6. CASE TimePasses
  BY <1>1, <1>2, <1>6, Transactions DEF TimePasses, serverVars
<1> QED BY <1>3, <1>4, <1>5, <1>6

\* The top of the loop is well typed, whatever came before it.
LEMMA LoopTopTypes ==
    ASSUME TaskTypes, LoopTop, pending' \subseteq Noted', waits' \notin Handler, waits' \in Handler \cup {NoHandler}
    PROVE  TaskTypes'
  BY DEF TaskTypes, LoopTop

\* What a POST of the firmware notes is well typed, as long as the rest is.
LEMMA PostTypes ==
    ASSUME LinkTypes, NEW c \in Cmd, NEW s \in AckStates, Post(c, s), UNCHANGED serverVars
    PROVE  /\ StoreStep /\ late' \subseteq Request /\ Queue!TypeOK' /\ ServerTypes'
           /\ c \in Noted' /\ Noted \subseteq Noted' /\ pending' \subseteq Noted' /\ replaying \subseteq Noted'
           /\ table' \in [Cmd -> AckStates \cup {"none"}] /\ nvs' \in [Cmd -> Terminal \cup {"none"}]
           /\ (marked' = marked \/ MarkPersistent(c)) => marked' \subseteq Noted'
<1>0. /\ Queue!TypeOK /\ ServerTypes /\ DeviceTypes /\ TaskTypes /\ NoteTypes /\ late \subseteq Request
      /\ devBoot \in Boots /\ marked \subseteq Noted /\ replaying \subseteq Noted
  BY DEF LinkTypes, DeviceTypes, NoteTypes, TaskTypes
<1>1. Queue!TypeOK' /\ ServerTypes'
  BY <1>0 DEF Queue!TypeOK, ServerTypes, serverVars
<1>2. Arrive(c, s, devBoot) \/ UNCHANGED storeVars
  BY <1>0, PostDoes
<1>3. StoreStep
  BY <1>0, <1>2, ArriveIsTransaction, Transactions
<1>4. /\ late' \subseteq Request
      /\ Noted \cup {c} \subseteq Noted' /\ pending' \subseteq Noted'
      /\ table' \in [Cmd -> AckStates \cup {"none"}] /\ nvs' \in [Cmd -> Terminal \cup {"none"}]
  BY <1>0, PostDoes
<1>5. marked' = marked \/ MarkPersistent(c) => marked' \subseteq Noted'
  BY <1>0, <1>4 DEF MarkPersistent
<1> QED BY <1>0, <1>1, <1>3, <1>4, <1>5

\* The parts of the types that the steps of the firmware put together.
LEMMA DeviceParts ==
    LinkTypes => /\ Queue!TypeOK /\ ServerTypes /\ TaskTypes /\ NoteTypes /\ late \subseteq Request
                 /\ devBoot \in Boots /\ table \in [Cmd -> AckStates \cup {"none"}]
                 /\ executed \in [Cmd -> [Boots -> Nat]]
                 /\ pending \subseteq Noted /\ replaying \subseteq Noted /\ marked \subseteq Noted
                 /\ NoHandler \notin Handler
  BY DeliveryAssumption DEF DeliveryAssumption, LinkTypes, DeviceTypes, NoteTypes, TaskTypes

LEMMA HandleTypes ==
    ASSUME TypeOK, LinkTypes, Handle
    PROVE  StoreStep /\ LinkTypes'
<1> PICK c \in Cmd : \/ HandleDuplicate(c) \/ HandleSpeak(c) \/ AckSpeak(c) \/ SpeakRefused(c)
                     \/ SpeakLocked(c) \/ HandleOther(c) \/ ReportOther(c)
  BY DEF Handle
<1>0. TaskTypes /\ NoteTypes
  BY DeviceParts
\* Every answer but the first of an execution goes back to the top of the loop.
<1>1. ASSUME NEW s \in AckStates, Post(c, s), LoopTop,
             UNCHANGED <<serverVars, devBoot, waits, speech, worker, locals, executed>>,
             marked' = marked \/ MarkPersistent(c), task # "polling"
      PROVE  StoreStep /\ LinkTypes'
  <2>1. /\ StoreStep /\ late' \subseteq Request /\ Queue!TypeOK' /\ ServerTypes'
        /\ pending' \subseteq Noted' /\ table' \in [Cmd -> AckStates \cup {"none"}]
        /\ nvs' \in [Cmd -> Terminal \cup {"none"}] /\ marked' \subseteq Noted'
    BY <1>1, PostTypes
  <2>2. NoteTypes'
    BY <1>0, <1>1, <2>1 DEF NoteTypes
  <2>3. waits' \notin Handler /\ waits' \in Handler \cup {NoHandler}
    BY <1>0, <1>1 DEF TaskTypes
  <2>4. TaskTypes'
    BY <1>0, <1>1, <2>1, <2>3, LoopTopTypes
  <2> QED BY <2>1, <2>2, <2>4 DEF LinkTypes, DeviceTypes
<1>2. CASE HandleDuplicate(c)
  <2>1. table[c] \in AckStates
    BY <1>0, <1>2 DEF HandleDuplicate, Duplicate, NoteTypes
  <2> QED BY <1>1, <1>2, <2>1 DEF HandleDuplicate, DuplicateAnswer
<1>3. CASE HandleSpeak(c)
  <2>1. speech' \in Seq(Cmd \cup {Local}) /\ Len(speech') <= SpeechCapacity
    <3>1. /\ speech \in Seq(Cmd \cup {Local}) /\ Len(speech) < SpeechCapacity /\ speech' = Append(speech, c)
          /\ SpeechCapacity \in Nat
      BY <1>0, <1>3, DeliveryAssumption DEF HandleSpeak, SpeechRoom, NoteTypes, DeliveryAssumption
    <3> QED BY <3>1
  <2>2. UNCHANGED <<storeVars, serverVars, devBoot, waits, inbox, replaying, worker, table,
                    pending, marked, nvs, executed, late>> /\ Noted' = Noted
    BY <1>3 DEF HandleSpeak, Noted
  <2>3. NoteTypes'
    BY <1>0, <2>1, <2>2 DEF NoteTypes
  <2>4. TaskTypes'
    BY <1>0, <1>3, <2>2 DEF TaskTypes, HandleSpeak
  <2>5. Queue!TypeOK' /\ ServerTypes' /\ late' \subseteq Request
    BY <2>2, DeviceParts DEF Queue!TypeOK, ServerTypes, serverVars
  <2> QED BY <2>2, <2>3, <2>4, <2>5, Transactions DEF LinkTypes, DeviceTypes
<1>4. CASE AckSpeak(c)
  BY <1>1, <1>4 DEF AckSpeak, AckStates
<1>5. CASE SpeakRefused(c)
  BY <1>1, <1>5 DEF SpeakRefused, AckStates
<1>6. CASE SpeakLocked(c)
  BY <1>1, <1>6 DEF SpeakLocked, AckStates
<1>7. CASE HandleOther(c)
  <2>1. /\ Post(c, "received") /\ "received" \in AckStates /\ MarkPersistent(c) /\ Executing(c)
        /\ UNCHANGED <<serverVars, devBoot, waits, inbox, replaying, speech, worker>>
        /\ task' = "executing" /\ task = "handling"
    BY <1>7 DEF HandleOther, AckStates
  <2>2. /\ StoreStep /\ late' \subseteq Request /\ Queue!TypeOK' /\ ServerTypes'
        /\ pending' \subseteq Noted' /\ replaying \subseteq Noted'
        /\ table' \in [Cmd -> AckStates \cup {"none"}]
        /\ nvs' \in [Cmd -> Terminal \cup {"none"}] /\ marked' \subseteq Noted'
    BY <2>1, PostTypes
  <2>3. executed' \in [Cmd -> [Boots -> Nat]]
    BY <2>1, DeviceParts DEF Executing
  <2>4. NoteTypes'
    BY <1>0, <2>1, <2>2, <2>3 DEF NoteTypes
  <2>5. TaskTypes'
    BY <1>0, <2>1, <2>2 DEF TaskTypes
  <2> QED BY <2>2, <2>4, <2>5 DEF LinkTypes, DeviceTypes
<1>8. CASE ReportOther(c)
  BY <1>1, <1>8 DEF ReportOther, AckStates
<1> QED BY <1>2, <1>3, <1>4, <1>5, <1>6, <1>7, <1>8

LEMMA LoopTypes ==
    ASSUME TypeOK, LinkTypes,
           Hello \/ (\E c \in Cmd : Replay(c)) \/ (\E h \in Handler : StartPoll(h)) \/ GiveUpPoll
    PROVE  StoreStep /\ LinkTypes'
<1>0. TaskTypes /\ NoteTypes /\ Queue!TypeOK /\ ServerTypes /\ devBoot \in Boots /\ pending \subseteq Noted
      /\ NoHandler \notin Handler /\ late \subseteq Request
  BY DeviceParts
<1>1. CASE Hello
  <2>1. /\ UNCHANGED <<producer, handler, devBoot, waits, speech, worker, table, pending, marked, nvs, executed, late>>
        /\ Noted' = Noted /\ LoopTop /\ task = "hello"
    BY <1>1 DEF Hello, Noted
  <2>2. NoteTypes' /\ ServerTypes'
    BY <1>0, <2>1 DEF NoteTypes, ServerTypes
  <2>3. TaskTypes'
    <3>1. waits' \notin Handler /\ waits' \in Handler \cup {NoHandler} /\ pending' \subseteq Noted'
      BY <1>0, <2>1 DEF TaskTypes
    <3> QED BY <1>0, <2>1, <3>1, LoopTopTypes
  <2>4. Queue!TypeOK' /\ StoreStep
    <3>1. CASE ObserveDeviceBoot(dev, devBoot) /\ Queue!DiscardOtherBoots(devBoot)
      BY <1>0, <3>1, BootsInQueue, Transactions
    <3>2. CASE UNCHANGED <<storeVars, memory>>
      BY <1>0, <3>2, Transactions DEF Queue!TypeOK
    <3> QED BY <1>1, <3>1, <3>2 DEF Hello
  <2> QED BY <1>0, <2>1, <2>2, <2>3, <2>4 DEF LinkTypes, DeviceTypes
<1>2. CASE \E c \in Cmd : Replay(c)
  <2> PICK c \in Cmd : Replay(c)
    BY <1>2
  <2>1. /\ Post(c, table[c]) /\ replaying' \subseteq replaying /\ c \in pending /\ task = "idle"
        /\ UNCHANGED <<serverVars, devBoot, task, waits, inbox, speech, worker, marked, executed>>
    BY DEF Replay
  <2>2. table[c] \in AckStates
    BY <1>0, <2>1 DEF Noted, NoteTypes
  <2>3. /\ StoreStep /\ late' \subseteq Request /\ Queue!TypeOK' /\ ServerTypes'
        /\ pending' \subseteq Noted' /\ replaying \subseteq Noted'
        /\ table' \in [Cmd -> AckStates \cup {"none"}]
        /\ nvs' \in [Cmd -> Terminal \cup {"none"}] /\ marked' \subseteq Noted'
    BY <2>1, <2>2, PostTypes
  <2>4. NoteTypes'
    BY <1>0, <2>1, <2>3 DEF NoteTypes
  <2>5. TaskTypes'
    BY <1>0, <2>1, <2>3 DEF TaskTypes
  <2> QED BY <2>3, <2>4, <2>5 DEF LinkTypes, DeviceTypes
<1>3. CASE \E h \in Handler : StartPoll(h)
  <2> PICK h \in Handler : StartPoll(h)
    BY <1>3
  <2> DEFINE r == [at |-> "observe", boot |-> devBoot, cmd |-> NoCmd, speak |-> SpeechRoom]
  <2>1. r \in HandlerState /\ r.at = "observe" /\ r.boot \in Boots
    BY <1>0 DEF HandlerState, SpeechRoom
  <2>2. /\ handler' = [handler EXCEPT ![h] = r] /\ task' = "polling" /\ waits' = h
        /\ UNCHANGED <<storeVars, memory, producer, devBoot, inbox, replaying, speech, worker,
                       table, pending, marked, nvs, executed, late>> /\ Noted' = Noted
    BY DEF StartPoll, Noted
  <2> HIDE DEF r
  <2>3. ServerTypes'
    BY <1>0, <2>1, <2>2 DEF ServerTypes, Holding
  <2>4. NoteTypes' /\ Queue!TypeOK' /\ StoreStep
    BY <1>0, <2>2, Transactions DEF NoteTypes, Queue!TypeOK
  <2>5. TaskTypes'
    BY <1>0, <2>2 DEF TaskTypes
  <2> QED BY <1>0, <2>2, <2>3, <2>4, <2>5 DEF LinkTypes, DeviceTypes
<1>4. CASE GiveUpPoll
  <2>1. /\ UNCHANGED <<storeVars, serverVars, devBoot, speech, worker, table, pending, marked, nvs, executed, late>>
        /\ Noted' = Noted /\ LoopTop /\ waits' = NoHandler
    BY <1>4 DEF GiveUpPoll, Noted
  <2>2. NoteTypes' /\ ServerTypes' /\ Queue!TypeOK' /\ StoreStep
    BY <1>0, <2>1, Transactions DEF NoteTypes, ServerTypes, Queue!TypeOK, serverVars
  <2>3. TaskTypes'
    <3>1. waits' \notin Handler /\ waits' \in Handler \cup {NoHandler} /\ pending' \subseteq Noted'
      BY <1>0, <2>1
    <3> QED BY <1>0, <2>1, <3>1, LoopTopTypes
  <2> QED BY <1>0, <2>1, <2>2, <2>3 DEF LinkTypes, DeviceTypes
<1> QED BY <1>1, <1>2, <1>3, <1>4

LEMMA SpeechTypes ==
    ASSUME TypeOK, LinkTypes, SpeakTake \/ SpeakReport \/ LocalSpeech \/ Reboot
    PROVE  StoreStep /\ LinkTypes'
<1>0. TaskTypes /\ NoteTypes /\ Queue!TypeOK /\ ServerTypes /\ devBoot \in Boots /\ pending \subseteq Noted
      /\ NoHandler \notin Handler /\ late \subseteq Request /\ speech \in Seq(Cmd \cup {Local})
      /\ executed \in [Cmd -> [Boots -> Nat]] /\ SpeechCapacity \in Nat /\ Len(speech) <= SpeechCapacity
  BY DeviceParts, DeliveryAssumption DEF NoteTypes, DeliveryAssumption
<1>1. ASSUME NEW c \in Cmd, NEW s \in AckStates, Post(c, s),
             UNCHANGED <<serverVars, devBoot, task, waits, inbox, replaying, marked>>,
             speech' \in Seq(Cmd \cup {Local}), Len(speech') <= SpeechCapacity,
             worker' \in Cmd \cup {NoCmd}, executed' \in [Cmd -> [Boots -> Nat]]
      PROVE  StoreStep /\ LinkTypes'
  <2>1. /\ StoreStep /\ late' \subseteq Request /\ Queue!TypeOK' /\ ServerTypes'
        /\ pending' \subseteq Noted' /\ replaying \subseteq Noted'
        /\ table' \in [Cmd -> AckStates \cup {"none"}]
        /\ nvs' \in [Cmd -> Terminal \cup {"none"}] /\ marked' \subseteq Noted'
    BY <1>1, PostTypes
  <2>2. NoteTypes'
    BY <1>0, <1>1, <2>1 DEF NoteTypes
  <2>3. TaskTypes'
    BY <1>0, <1>1, <2>1 DEF TaskTypes
  <2> QED BY <2>1, <2>2, <2>3 DEF LinkTypes, DeviceTypes
<1>2. ASSUME NEW s, s \in AckStates, UNCHANGED <<storeVars, serverVars, devBoot, task, waits, inbox, replaying,
                       marked, table, pending, nvs, executed, worker, late>>,
             speech' \in Seq(Cmd \cup {Local}), Len(speech') <= SpeechCapacity
      PROVE  StoreStep /\ LinkTypes'
  <2>1. NoteTypes' /\ TaskTypes' /\ Queue!TypeOK' /\ ServerTypes' /\ StoreStep
    BY <1>0, <1>2, Transactions DEF NoteTypes, TaskTypes, Noted, Queue!TypeOK, ServerTypes, serverVars
  <2> QED BY <1>0, <1>2, <2>1 DEF LinkTypes, DeviceTypes
<1>3. CASE SpeakTake
  <2>1. speech' \in Seq(Cmd \cup {Local}) /\ Len(speech') <= SpeechCapacity /\ Head(speech) \in Cmd \cup {Local}
    <3>1. speech' = Tail(speech) /\ speech # << >>
      BY <1>3 DEF SpeakTake
    <3>2. Len(speech) \in Nat /\ Len(speech) > 0
      BY <1>0, <3>1
    <3> QED BY <1>0, <3>1, <3>2
  <2>2. UNCHANGED <<serverVars, devBoot, task, waits, inbox, replaying, marked>>
    BY <1>3 DEF SpeakTake
  <2>3. CASE Head(speech) = Local /\ UNCHANGED <<storeVars, worker, table, pending, nvs, locals, executed, late>>
    BY <1>2, <2>1, <2>2, <2>3 DEF AckStates
  <2>4. CASE /\ Head(speech) # Local /\ \E s \in {"cancelled", "expired"} : Post(Head(speech), s)
             /\ UNCHANGED <<worker, executed>>
    BY <1>0, <1>1, <2>1, <2>2, <2>4 DEF AckStates, NoteTypes
  <2>5. CASE /\ Head(speech) # Local /\ Post(Head(speech), "running")
             /\ worker' = Head(speech) /\ Executing(worker')
    <3>1. executed' \in [Cmd -> [Boots -> Nat]]
      BY <1>0, <2>1, <2>5 DEF Executing
    <3> QED BY <1>1, <2>1, <2>2, <2>5, <3>1 DEF AckStates
  <2> QED BY <1>3, <2>3, <2>4, <2>5 DEF SpeakTake
<1>4. CASE SpeakReport
  <2>1. worker \in Cmd
    BY <1>0, <1>4 DEF SpeakReport, NoteTypes
  <2> QED BY <1>0, <1>1, <1>4, <2>1 DEF SpeakReport, AckStates
<1>5. CASE LocalSpeech
  <2>1. speech' = Append(speech, Local) /\ Len(speech) < SpeechCapacity
    BY <1>5 DEF LocalSpeech, SpeechRoom
  <2>2. speech' \in Seq(Cmd \cup {Local}) /\ Len(speech') <= SpeechCapacity
    BY <1>0, <2>1
  <2> QED BY <1>2, <1>5, <2>2 DEF LocalSpeech, AckStates
<1>6. CASE Reboot
  <2>1. /\ devBoot' \in Boots /\ task' = "hello" /\ waits' = NoHandler /\ inbox' = NoCmd /\ replaying' = {}
        /\ speech' = << >> /\ worker' = NoCmd
        /\ table' = nvs /\ pending' = {} /\ marked' = {c \in Cmd : nvs[c] # "none"}
        /\ UNCHANGED <<storeVars, serverVars, nvs, executed, late>>
    BY <1>6 DEF Reboot
  <2>2. nvs \in [Cmd -> Terminal \cup {"none"}] /\ table' \in [Cmd -> AckStates \cup {"none"}] /\ Noted' = marked'
    BY <1>0, <2>1 DEF NoteTypes, Noted, AckStates, Terminal
  <2>3. speech' \in Seq(Cmd \cup {Local}) /\ Len(speech') = 0
    BY <2>1
  <2>4. NoteTypes'
    BY <1>0, <2>1, <2>2, <2>3 DEF NoteTypes
  <2>5. TaskTypes'
    BY <1>0, <2>1 DEF TaskTypes
  <2>6. Queue!TypeOK' /\ ServerTypes' /\ StoreStep
    BY <1>0, <2>1, Transactions DEF Queue!TypeOK, ServerTypes, serverVars
  <2> QED BY <1>0, <2>1, <2>4, <2>5, <2>6 DEF LinkTypes, DeviceTypes
<1> QED BY <1>3, <1>4, <1>5, <1>6

-----------------------------------------------------------------------------
LEMMA LinkInit == DeliveryInit => LinkTypes
<1> SUFFICES ASSUME DeliveryInit PROVE LinkTypes
  OBVIOUS
<1>1. Queue!TypeOK
  BY DeliveryAssumption DEF DeliveryInit, Queue!TypeOK, DeliveryAssumption
<1>2. ServerTypes
  BY DEF DeliveryInit, ServerTypes, ProducerState, HandlerState, Holding
<1>3. DeviceTypes
  BY DeliveryAssumption
     DEF DeliveryInit, DeliveryAssumption, DeviceTypes, TaskTypes, NoteTypes, Noted
<1>4. late \subseteq Request
  BY DEF DeliveryInit
<1> QED BY <1>1, <1>2, <1>3, <1>4 DEF LinkTypes

LEMMA LinkStep ==
    TypeOK /\ LinkTypes /\ [DeliveryNext]_allVars => StoreStep /\ TypeOK' /\ LinkTypes'
<1> SUFFICES ASSUME TypeOK, LinkTypes, [DeliveryNext]_allVars PROVE StoreStep /\ LinkTypes'
  BY NextType DEF StoreStep
<1>1. CASE Produce
  BY <1>1, ProduceTypes DEF Produce
<1>2. CASE MemoryExpires \/ Heartbeat \/ LateAck \/ TimePasses
  BY <1>2, ServerRestTypes
<1>3. CASE \E h \in Handler : PollStep(h)
  BY <1>3, PollTypes
<1>4. CASE CommandTask \/ GiveUpPoll
  BY <1>4, HandleTypes, LoopTypes DEF CommandTask
<1>5. CASE SpeechWorker \/ LocalSpeech \/ Reboot
  BY <1>5, SpeechTypes DEF SpeechWorker
<1>6. CASE UNCHANGED allVars
  <2>1. UNCHANGED storeVars /\ UNCHANGED serverVars /\ UNCHANGED deviceVars /\ late' = late
    BY <1>6 DEF allVars
  <2>2. Queue!TypeOK' /\ ServerTypes' /\ DeviceTypes'
    BY <2>1, DeviceRests DEF LinkTypes, Queue!TypeOK, ServerTypes, serverVars
  <2> QED BY <2>1, <2>2, Transactions DEF LinkTypes
<1> QED BY <1>1, <1>2, <1>3, <1>4, <1>5, <1>6 DEF DeliveryNext

\* Whatever the producers, the polls, the firmware and the network do is,
\* seen from the tables, a run of the command store: what holds of the store
\* for every schedule of its transactions holds of the delivery.
THEOREM DeliveryUsesStore == DeliverySpec => Spec
<1>1. DeliveryInit => Init /\ TypeOK
  BY InitType DEF DeliveryInit
<1> QED BY <1>1, LinkInit, LinkStep, PTL DEF DeliverySpec, Spec, StoreStep

LEMMA LinkTyped == DeliverySpec => [](TypeOK /\ LinkTypes)
<1>1. DeliveryInit => TypeOK
  BY InitType DEF DeliveryInit
<1> QED BY <1>1, LinkInit, LinkStep, PTL DEF DeliverySpec

\* Both sides keep their types: the speech queue keeps to its capacity, NVS
\* holds terminal states only, and the command task waits for a response only
\* while it polls.
THEOREM DeliveryTyped == DeliverySpec => []DeliveryTypeOK
<1>1. TypeOK /\ LinkTypes => DeliveryTypeOK
  <2>1. AckStates \subseteq CommandState \cup {"deferred"}
    BY DEF AckStates, CommandState, Terminal, Live
  <2> QED BY <2>1 DEF DeliveryTypeOK, LinkTypes, DeviceTypes, TaskTypes, NoteTypes, Noted
<1> QED BY <1>1, LinkTyped, PTL

\* The transactions that neither create a row nor record an ACK: the polls
\* run no other.
Upkeep ==
    \/ \E c \in Cmd, b \in Boots \cup {0} : LeaseCommand(c, b)
    \/ \E b \in Boots : ObserveDeviceBoot(dev, b)
    \/ \E C \in SUBSET Cmd : ExpireStaleDialogue(C)
    \/ \E c \in Cmd : Deadline({c}) \/ LeaseLapse(c)
    \/ ExpireInactiveBoots \/ Sweep \/ UNCHANGED storeVars

Housekeeping == Upkeep \/ \E c \in Cmd, b \in Boots \cup {0} : CreateCommand(c, b)

LEMMA PollKeepsHouse ==
    ASSUME TypeOK, LinkTypes, NEW h \in Handler, PollStep(h)
    PROVE  /\ Upkeep /\ late' = late /\ producer' = producer
           /\ UNCHANGED deviceVars \/ \E c : Reply(h, c)
<1> DEFINE b == handler[h].boot
           c == handler[h].cmd
<1>0. /\ handler[h].at # "free" => b \in Boots
      /\ handler[h].at \in Holding => c \in Cmd
      /\ Boots \subseteq Boots \cup {0}
  BY DEF LinkTypes, ServerTypes
<1>1. Upkeep
  <2>1. CASE PollObserve(h)
    BY <2>1 DEF PollObserve, Upkeep
  <2>2. CASE PollAdopt(h)
    BY <1>0, <2>2 DEF PollAdopt, Upkeep
  <2>3. CASE PollGate(h)
    <3>1. PICK C \in SUBSET Dialogue : ExpireStaleDialogue(C)
      BY <2>3 DEF PollGate
    <3>2. C \in SUBSET Cmd
      BY <3>1 DEF Dialogue, Active
    <3> QED BY <3>1, <3>2 DEF Upkeep
  <2>4. CASE PollSelect(h) \/ PollTimeout(h)
    BY <2>4 DEF PollSelect, PollTimeout, Upkeep
  <2>5. CASE PollLease(h) \/ PollGrab(h) \/ PollLast(h)
    <3>1. LeaseCommand(c, b) /\ c \in Cmd /\ b \in Boots \cup {0}
      BY <1>0, <2>5 DEF PollLease, PollGrab, PollLast, Holding
    <3> QED BY <3>1 DEF Upkeep
  <2>6. CASE PollDiscard(h) \/ PollGet(h)
    BY <2>6 DEF PollDiscard, PollGet, Upkeep
  <2> QED BY <2>1, <2>2, <2>3, <2>4, <2>5, <2>6 DEF PollStep
<1>2. /\ late' = late /\ producer' = producer
      /\ UNCHANGED deviceVars \/ \E d : Reply(h, d)
  BY DEF PollStep, PollObserve, PollAdopt, PollGate, PollSelect, PollLease, PollDiscard,
         PollGet, PollGrab, PollTimeout, PollLast
<1> QED BY <1>1, <1>2

-----------------------------------------------------------------------------
(* No command is executed twice in one boot.  What is queued for speech has *)
(* not been executed in this boot, nor has what the table does not have; a  *)
(* queued sentence that the table does not have is the one the command task *)
(* is about to ACK, and none is queued twice.                               *)

OnceInv ==
    /\ OncePerBoot
    /\ \A c \in Cmd, b \in Boots : b > devBoot => executed[c][b] = 0
    /\ \A c \in Cmd : table[c] = "none" => executed[c][devBoot] = 0
    /\ \A i \in DOMAIN speech : speech[i] \in Cmd =>
          /\ executed[speech[i]][devBoot] = 0
          /\ table[speech[i]] = "none" => task = "acking" /\ inbox = speech[i]
    /\ \A i, j \in DOMAIN speech : i < j /\ speech[i] = speech[j] => speech[i] = Local

\* Steps that only note an answer in the table, or not even that.
LEMMA OnceQuiet ==
    ASSUME LinkTypes, OnceInv, UNCHANGED <<devBoot, speech, executed>>,
           \/ table' = table
           \/ \E c \in Cmd, s \in AckStates : table' = [table EXCEPT ![c] = s],
           \A c \in Cmd : table'[c] = "none" => \/ UNCHANGED <<task, inbox>>
                                                \/ task # "acking" \/ inbox # c
    PROVE  OnceInv'
<1>1. \A c \in Cmd : table'[c] = "none" => table[c] = "none"
  BY DeviceParts DEF AckStates
<1>2. OncePerBoot'
  BY DEF OnceInv, OncePerBoot
<1>3. \A i \in DOMAIN speech : speech[i] \in Cmd /\ table'[speech[i]] = "none" => task' = "acking" /\ inbox' = speech[i]
  BY <1>1 DEF OnceInv
<1> QED BY <1>1, <1>2, <1>3 DEF OnceInv

LEMMA PostNotes ==
    ASSUME NEW c, NEW s, Post(c, s)
    PROVE  table' = [table EXCEPT ![c] = s]
  BY DEF Post, Note

LEMMA HandleOnce ==
    ASSUME TypeOK, LinkTypes, OnceInv, Handle
    PROVE  OnceInv'
<1> PICK c \in Cmd : \/ HandleDuplicate(c) \/ HandleSpeak(c) \/ AckSpeak(c) \/ SpeakRefused(c)
                     \/ SpeakLocked(c) \/ HandleOther(c) \/ ReportOther(c)
  BY DEF Handle
<1>0. /\ devBoot \in Boots /\ table \in [Cmd -> AckStates \cup {"none"}]
      /\ executed \in [Cmd -> [Boots -> Nat]] /\ NoteTypes
      /\ \A s \in AckStates : s # "none"
  BY DeviceParts DEF AckStates
<1>1. ASSUME NEW s \in AckStates, Post(c, s), UNCHANGED <<devBoot, speech, executed>>,
             task # "acking" \/ inbox = c
      PROVE  OnceInv'
  <2>1. table' = [table EXCEPT ![c] = s]
    BY <1>1, PostNotes
  <2>2. table'[c] # "none"
    BY <1>0, <2>1
  <2>3. \A x \in Cmd : table'[x] = "none" => task # "acking" \/ inbox # x
    BY <1>1, <2>2
  <2> QED BY <1>1, <2>1, <2>3, OnceQuiet
<1>2. CASE HandleDuplicate(c)
  <2>1. table[c] \in AckStates
    BY <1>0, <1>2 DEF HandleDuplicate, Duplicate
  <2> QED BY <1>1, <1>2, <2>1 DEF HandleDuplicate, DuplicateAnswer
<1>3. CASE HandleSpeak(c)
  <2>1. /\ speech' = Append(speech, c) /\ task = "handling" /\ inbox = c /\ task' = "acking" /\ inbox' = c
        /\ table[c] = "none" /\ UNCHANGED <<devBoot, table, executed>>
    BY <1>3 DEF HandleSpeak, Duplicate
  <2>2. /\ Len(speech) \in Nat /\ DOMAIN speech = 1 .. Len(speech) /\ DOMAIN speech' = 1 .. (Len(speech) + 1)
        /\ \A i \in DOMAIN speech : speech'[i] = speech[i]
        /\ speech'[Len(speech) + 1] = c
    BY <1>0, <2>1 DEF NoteTypes
  <2>3. executed[c][devBoot] = 0 /\ \A i \in DOMAIN speech : speech[i] # c
    BY <2>1 DEF OnceInv
  <2>4. \A i \in DOMAIN speech' : speech'[i] \in Cmd =>
              /\ executed[speech'[i]][devBoot] = 0
              /\ table[speech'[i]] = "none" => speech'[i] = c
    <3> SUFFICES ASSUME NEW i \in DOMAIN speech', speech'[i] \in Cmd
                 PROVE  executed[speech'[i]][devBoot] = 0 /\ (table[speech'[i]] = "none" => speech'[i] = c)
      OBVIOUS
    <3>1. CASE i \in DOMAIN speech
      BY <2>1, <2>2, <3>1 DEF OnceInv
    <3>2. CASE i = Len(speech) + 1
      BY <2>2, <2>3, <3>2
    <3> QED BY <2>2, <3>1, <3>2
  <2>5. \A i, j \in DOMAIN speech' : i < j /\ speech'[i] = speech'[j] => speech'[i] = Local
    <3> SUFFICES ASSUME NEW i \in DOMAIN speech', NEW j \in DOMAIN speech', i < j, speech'[i] = speech'[j]
                 PROVE  speech'[i] = Local
      OBVIOUS
    <3>1. i \in DOMAIN speech
      BY <2>2
    <3>2. CASE j \in DOMAIN speech
      BY <2>2, <3>1, <3>2 DEF OnceInv
    <3>3. CASE j = Len(speech) + 1
      BY <2>2, <2>3, <3>1, <3>3
    <3> QED BY <2>2, <3>2, <3>3
  <2> QED BY <2>1, <2>4, <2>5 DEF OnceInv, OncePerBoot
<1>4. CASE AckSpeak(c)
  BY <1>1, <1>4 DEF AckSpeak, AckStates
<1>5. CASE SpeakRefused(c)
  BY <1>1, <1>5 DEF SpeakRefused, AckStates
<1>6. CASE SpeakLocked(c)
  BY <1>1, <1>6 DEF SpeakLocked, AckStates
<1>7. CASE HandleOther(c)
  <2>1. /\ Post(c, "received") /\ "received" \in AckStates /\ Executing(c) /\ UNCHANGED <<devBoot, speech>>
        /\ task = "handling" /\ table[c] = "none"
    BY <1>7 DEF HandleOther, Duplicate, AckStates
  <2>2. table' = [table EXCEPT ![c] = "received"]
    BY <2>1, PostNotes
  <2>3. /\ executed[c][devBoot] = 0
        /\ \A i \in DOMAIN speech : speech[i] \in Cmd => table[speech[i]] # "none"
    BY <2>1 DEF OnceInv
  <2>4. /\ \A x \in Cmd, b \in Boots : x # c \/ b # devBoot => executed'[x][b] = executed[x][b]
        /\ executed'[c][devBoot] = 1
    BY <1>0, <2>1, <2>3 DEF Executing
  <2>5. \A x \in Cmd : table'[x] = "none" <=> x # c /\ table[x] = "none"
    BY <1>0, <2>1, <2>2
  <2>6. OncePerBoot'
    BY <2>4 DEF OnceInv, OncePerBoot
  <2>7. \A x \in Cmd, b \in Boots : b > devBoot => executed'[x][b] = 0
    <3>1. \A b \in Boots : b > devBoot => b # devBoot
      BY <1>0, StoreAssumption DEF StoreAssumption
    <3> QED BY <2>4, <3>1 DEF OnceInv
  <2>8. \A x \in Cmd : table'[x] = "none" => executed'[x][devBoot] = 0
    BY <1>0, <2>4, <2>5 DEF OnceInv
  <2>9. \A i \in DOMAIN speech : speech[i] \in Cmd => executed'[speech[i]][devBoot] = 0 /\ table'[speech[i]] # "none"
    BY <1>0, <2>1, <2>3, <2>4, <2>5 DEF OnceInv
  <2> QED BY <2>1, <2>6, <2>7, <2>8, <2>9 DEF OnceInv
<1>8. CASE ReportOther(c)
  BY <1>1, <1>8 DEF ReportOther, AckStates
<1> QED BY <1>2, <1>3, <1>4, <1>5, <1>6, <1>7, <1>8

LEMMA TailIs ==
    ASSUME NEW S, NEW s \in Seq(S), s # << >>
    PROVE  /\ 1 \in DOMAIN s /\ Head(s) = s[1] /\ Head(s) \in S
           /\ \A i \in DOMAIN Tail(s) : i + 1 \in DOMAIN s /\ i + 1 # 1 /\ Tail(s)[i] = s[i + 1]
           /\ \A i, j \in DOMAIN Tail(s) : i < j => i + 1 < j + 1
           /\ \A i \in DOMAIN s : i = 1 \/ i > 1
<1>1. Len(s) \in Nat \ {0} /\ DOMAIN s = 1 .. Len(s)
  BY EmptySeq
<1>2. DOMAIN Tail(s) = 1 .. (Len(s) - 1) /\ \A i \in DOMAIN Tail(s) : Tail(s)[i] = s[i + 1]
  BY <1>1
<1>3. Head(s) = s[1] /\ s[1] \in S
  BY <1>1
<1> QED BY <1>1, <1>2, <1>3

LEMMA SpeechOnce ==
    ASSUME TypeOK, LinkTypes, OnceInv, SpeakTake \/ SpeakReport \/ LocalSpeech \/ Reboot
    PROVE  OnceInv'
<1>0. /\ devBoot \in Boots /\ table \in [Cmd -> AckStates \cup {"none"}]
      /\ executed \in [Cmd -> [Boots -> Nat]] /\ NoteTypes /\ speech \in Seq(Cmd \cup {Local})
      /\ \A s \in AckStates : s # "none"
      /\ Local \notin Cmd
  BY DeviceParts, DeliveryAssumption DEF AckStates, NoteTypes, DeliveryAssumption
<1>1. CASE SpeakTake
  <2>1. /\ speech # << >> /\ speech' = Tail(speech) /\ UNCHANGED <<devBoot, task, inbox>>
    BY <1>1 DEF SpeakTake
  <2>2. /\ 1 \in DOMAIN speech /\ Head(speech) = speech[1] /\ Head(speech) \in Cmd \cup {Local}
        /\ \A i \in DOMAIN speech' : i + 1 \in DOMAIN speech /\ i + 1 # 1 /\ speech'[i] = speech[i + 1]
        /\ \A i, j \in DOMAIN speech' : i < j => i + 1 < j + 1
        /\ \A i \in DOMAIN speech : i = 1 \/ i > 1
    BY <1>0, <2>1, TailIs
  <2> DEFINE c == speech[1]
  <2>3. \A i, j \in DOMAIN speech' : i < j /\ speech'[i] = speech'[j] => speech'[i] = Local
    BY <2>2 DEF OnceInv
  <2>4. \A i \in DOMAIN speech' : speech'[i] \in Cmd =>
              /\ executed[speech'[i]][devBoot] = 0
              /\ table[speech'[i]] = "none" => task = "acking" /\ inbox = speech'[i]
    BY <2>2 DEF OnceInv
  <2>5. c \in Cmd => \A i \in DOMAIN speech' : speech'[i] # c
    <3> SUFFICES ASSUME c \in Cmd, NEW i \in DOMAIN speech', speech'[i] = c PROVE FALSE
      OBVIOUS
    <3>1. i + 1 \in DOMAIN speech /\ 1 < i + 1 /\ speech[1] = speech[i + 1]
      BY <2>2
    <3>2. speech[1] = Local
      BY <2>2, <3>1 DEF OnceInv
    <3> QED BY <1>0, <3>2
  <2>6. CASE c = Local /\ UNCHANGED <<table, executed>>
    BY <2>1, <2>3, <2>4, <2>6 DEF OnceInv, OncePerBoot
  <2>7. CASE c \in Cmd /\ (\E s \in {"cancelled", "expired"} : Post(c, s)) /\ UNCHANGED executed
    <3>1. PICK s \in AckStates : table' = [table EXCEPT ![c] = s]
      BY <2>7, PostNotes DEF AckStates
    <3>2. \A x \in Cmd : table'[x] = "none" => table[x] = "none"
      BY <1>0, <3>1
    <3>3. \A i \in DOMAIN speech' : speech'[i] \in Cmd =>
              /\ executed'[speech'[i]][devBoot] = 0
              /\ table'[speech'[i]] = "none" => task = "acking" /\ inbox = speech'[i]
      BY <2>4, <2>7, <3>2
    <3>4. OncePerBoot'
      BY <2>7 DEF OnceInv, OncePerBoot
    <3> QED BY <2>1, <2>3, <2>7, <3>2, <3>3, <3>4 DEF OnceInv
  <2>8. CASE c \in Cmd /\ Post(c, "running") /\ Executing(c)
    <3>1. table' = [table EXCEPT ![c] = "running"] /\ executed[c][devBoot] = 0
      BY <2>2, <2>8, PostNotes DEF OnceInv
    <3>2. /\ \A x \in Cmd, b \in Boots : x # c \/ b # devBoot => executed'[x][b] = executed[x][b]
          /\ executed'[c][devBoot] = 1
      BY <1>0, <2>8, <3>1 DEF Executing
    <3>3. \A x \in Cmd : table'[x] = "none" => x # c /\ table[x] = "none"
      BY <1>0, <2>8, <3>1
    <3>4. OncePerBoot'
      BY <3>2 DEF OnceInv, OncePerBoot
    <3>5. \A x \in Cmd, b \in Boots : b > devBoot => executed'[x][b] = 0
      <4>1. \A b \in Boots : b > devBoot => b # devBoot
        BY <1>0, StoreAssumption DEF StoreAssumption
      <4> QED BY <3>2, <4>1 DEF OnceInv
    <3>6. \A x \in Cmd : table'[x] = "none" => executed'[x][devBoot] = 0
      BY <1>0, <3>2, <3>3 DEF OnceInv
    <3>7. \A i \in DOMAIN speech' : speech'[i] \in Cmd =>
              /\ executed'[speech'[i]][devBoot] = 0
              /\ table'[speech'[i]] = "none" => task = "acking" /\ inbox = speech'[i]
      BY <1>0, <2>4, <2>5, <2>8, <3>2, <3>3
    <3> QED BY <2>1, <2>3, <3>4, <3>5, <3>6, <3>7 DEF OnceInv
  <2> QED BY <1>1, <2>2, <2>6, <2>7, <2>8 DEF SpeakTake
<1>2. CASE SpeakReport
  <2>1. worker \in Cmd /\ UNCHANGED <<devBoot, task, inbox, speech, executed>>
    BY <1>0, <1>2 DEF SpeakReport, NoteTypes
  <2>2. \E s \in AckStates : table' = [table EXCEPT ![worker] = s]
    BY <1>2, PostNotes DEF SpeakReport, AckStates
  <2> QED BY <2>1, <2>2, OnceQuiet
<1>3. CASE LocalSpeech
  <2>1. /\ speech' = Append(speech, Local) /\ UNCHANGED <<devBoot, task, inbox, table, executed>>
    BY <1>3 DEF LocalSpeech
  <2>2. /\ Len(speech) \in Nat /\ DOMAIN speech = 1 .. Len(speech) /\ DOMAIN speech' = 1 .. (Len(speech) + 1)
        /\ \A i \in DOMAIN speech : speech'[i] = speech[i]
        /\ speech'[Len(speech) + 1] = Local
    BY <1>0, <2>1
  <2>3. \A i \in DOMAIN speech' : i \in DOMAIN speech \/ speech'[i] = Local
    BY <2>2
  <2>4. \A i \in DOMAIN speech' : speech'[i] \in Cmd =>
              /\ executed[speech'[i]][devBoot] = 0
              /\ table[speech'[i]] = "none" => task = "acking" /\ inbox = speech'[i]
    BY <1>0, <2>2, <2>3 DEF OnceInv
  <2>5. \A i, j \in DOMAIN speech' : i < j /\ speech'[i] = speech'[j] => speech'[i] = Local
    BY <2>2, <2>3 DEF OnceInv
  <2> QED BY <2>1, <2>4, <2>5 DEF OnceInv, OncePerBoot
<1>4. CASE Reboot
  <2>1. devBoot' \in Boots /\ devBoot' = devBoot + 1 /\ speech' = << >> /\ UNCHANGED executed
    BY <1>4 DEF Reboot
  <2>2. devBoot \in Nat /\ Boots \subseteq Nat
    BY <1>0, StoreAssumption DEF StoreAssumption
  <2>3. \A x \in Cmd, b \in Boots : b > devBoot => executed'[x][b] = 0
    BY <2>1 DEF OnceInv
  <2>4. \A x \in Cmd, b \in Boots : b > devBoot' => executed'[x][b] = 0
    BY <2>1, <2>2, <2>3
  <2>5. \A x \in Cmd : executed'[x][devBoot'] = 0
    BY <2>1, <2>2, <2>3
  <2>6. DOMAIN speech' = {}
    BY <2>1
  <2>7. OncePerBoot'
    BY <2>1 DEF OnceInv, OncePerBoot
  <2> QED BY <2>4, <2>5, <2>6, <2>7 DEF OnceInv
<1> QED BY <1>1, <1>2, <1>3, <1>4

LEMMA StepOnce == TypeOK /\ LinkTypes /\ OnceInv /\ [DeliveryNext]_allVars => OnceInv'
<1> SUFFICES ASSUME TypeOK, LinkTypes, OnceInv, [DeliveryNext]_allVars PROVE OnceInv'
  OBVIOUS
<1>0. TaskTypes /\ table \in [Cmd -> AckStates \cup {"none"}]
  BY DeviceParts
<1>1. ASSUME UNCHANGED <<devBoot, speech, executed, table>>, UNCHANGED <<task, inbox>> \/ task # "acking"
      PROVE  OnceInv'
  BY <1>1, OnceQuiet
<1>2. CASE Produce
  <2>1. UNCHANGED deviceVars
    BY <1>2 DEF Produce, SinkCreate, ReadBoot, LegacyCreate, PutInMemory
  <2> QED BY <1>1, <2>1 DEF deviceVars
<1>3. CASE MemoryExpires \/ Heartbeat \/ LateAck \/ TimePasses
  <2>1. UNCHANGED deviceVars
    BY <1>3 DEF MemoryExpires, Heartbeat, LateAck, TimePasses
  <2> QED BY <1>1, <2>1 DEF deviceVars
<1>4. CASE \E h \in Handler : PollStep(h)
  <2> PICK h \in Handler : PollStep(h)
    BY <1>4
  <2>1. UNCHANGED deviceVars \/ \E c : Reply(h, c)
    BY PollKeepsHouse
  <2>2. CASE UNCHANGED deviceVars
    BY <1>1, <2>2 DEF deviceVars
  <2>3. CASE \E c : Reply(h, c)
    <3>1. UNCHANGED <<devBoot, speech, executed, table>>
      BY <2>3 DEF Reply
    <3>2. UNCHANGED <<task, inbox>> \/ waits = h
      BY <2>3 DEF Reply
    <3> QED BY <1>0, <1>1, <3>1, <3>2 DEF TaskTypes
  <2> QED BY <2>1, <2>2, <2>3
<1>5. CASE Hello \/ GiveUpPoll \/ \E h \in Handler : StartPoll(h)
  <2>1. UNCHANGED <<devBoot, speech, executed, table>> /\ task # "acking"
    BY <1>5 DEF Hello, GiveUpPoll, StartPoll
  <2> QED BY <1>1, <2>1
<1>6. CASE \E c \in Cmd : Replay(c)
  <2> PICK c \in Cmd : Replay(c)
    BY <1>6
  <2>1. Post(c, table[c]) /\ UNCHANGED <<devBoot, speech, executed, task, inbox>> /\ c \in pending
    BY DEF Replay
  <2>2. table[c] \in AckStates
    BY <1>0, <2>1, DeviceParts DEF Noted
  <2> QED BY <2>1, <2>2, PostNotes, OnceQuiet
<1>7. CASE Handle
  BY <1>7, HandleOnce
<1>8. CASE SpeechWorker \/ LocalSpeech \/ Reboot
  BY <1>8, SpeechOnce DEF SpeechWorker
<1>9. CASE UNCHANGED allVars
  BY <1>1, <1>9 DEF allVars, deviceVars
<1> QED BY <1>2, <1>3, <1>4, <1>5, <1>6, <1>7, <1>8, <1>9 DEF DeliveryNext, CommandTask

LEMMA OnceInit == DeliveryInit => OnceInv
<1> SUFFICES ASSUME DeliveryInit PROVE OnceInv
  OBVIOUS
<1>1. \A c \in Cmd, b \in Boots : executed[c][b] = 0
  BY DEF DeliveryInit
<1>2. devBoot \in Boots
  BY DeliveryAssumption DEF DeliveryInit, DeliveryAssumption
<1>3. \A i \in DOMAIN << >> : FALSE
  OBVIOUS
<1> QED BY <1>1, <1>2, <1>3 DEF DeliveryInit, OnceInv, OncePerBoot

\* The device never executes a command twice in one boot, however often the
\* server sends it: over any thread, from either queue, on a lapsed lease or
\* after an ACK that was lost.
THEOREM ExecutedOnce == DeliverySpec => []OncePerBoot
<1>1. OnceInv => OncePerBoot
  BY DEF OnceInv
<1> QED BY OnceInit, <1>1, LinkTyped, StepOnce, PTL DEF DeliverySpec

-----------------------------------------------------------------------------
(* What is reported as spoken or done has been begun: the table, NVS, the   *)
(* requests in the network and the tasks that will report it all know that. *)

Begun(c) == \E b \in Boots : executed[c][b] > 0
Claims(s) == s \in {"rendered", "done"}

ReportInv ==
    /\ ReportedMeansExecuted
    /\ \A c \in Cmd : Claims(table[c]) \/ Claims(nvs[c]) => Begun(c)
    /\ \A r \in late : Claims(r.state) => Begun(r.cmd)
    /\ worker \in Cmd => Begun(worker)
    /\ task = "executing" => Begun(inbox)

\* The transactions that do not record an ACK claim nothing.
LEMMA HousekeepingClaims ==
    ASSUME TypeOK, Housekeeping
    PROVE  \A x \in Cmd : Claims(state'[x]) => Claims(state[x])
<1> DEFINE Goal == \A x \in Cmd : Claims(state'[x]) => Claims(state[x])
<1>0. state \in [Cmd -> CommandState \cup {"absent"}]
  BY DEF TypeOK
<1>1. ASSUME NEW st, NEW C, NEW s, s \in {"expired", "failed"}
      PROVE  \A x \in Cmd : Claims(Mark(st, C, s)[x]) => Claims(st[x])
  BY <1>1 DEF Mark, Claims
<1>2. ASSUME NEW C, GiveUp(C, "expired") PROVE Goal
  BY <1>1, <1>2 DEF GiveUp
<1>3. /\ ExpireDue \in [Cmd -> CommandState \cup {"absent"}]
      /\ \A x \in Cmd : Claims(ExpireDue[x]) => Claims(state[x])
  BY <1>1, SweepType DEF ExpireDue
<1>4. ASSUME NEW c \in Cmd, NEW b, CreateCommand(c, b) PROVE Goal
  BY <1>0, <1>4 DEF CreateCommand, Claims
<1>5. ASSUME NEW c \in Cmd, NEW b, LeaseCommand(c, b) PROVE Goal
  <2>1. CASE state' = [ExpireDue EXCEPT ![c] = "leased"]
    BY <1>3, <2>1 DEF Claims
  <2>2. CASE \E C : state' = Mark(ExpireDue, C, "failed")
    BY <1>1, <1>3, <2>2
  <2> QED BY <1>5, <2>1, <2>2 DEF LeaseCommand
<1>6. ASSUME NEW b, ObserveDeviceBoot(dev, b) PROVE Goal
  BY <1>2, <1>6 DEF ObserveDeviceBoot
<1>7. ASSUME NEW C, ExpireStaleDialogue(C) PROVE Goal
  BY <1>2, <1>7 DEF ExpireStaleDialogue
<1>8. ASSUME NEW c, Deadline({c}) \/ LeaseLapse(c) PROVE Goal
  BY <1>8 DEF Deadline, LeaseLapse, rowVars
<1>9. CASE ExpireInactiveBoots
  BY <1>2, <1>9 DEF ExpireInactiveBoots
<1>10. CASE Sweep
  BY <1>1, <1>3, <1>10 DEF Sweep, FailExhausted
<1>11. CASE UNCHANGED storeVars
  BY <1>11 DEF storeVars, vars, rowVars
<1> QED BY <1>4, <1>5, <1>6, <1>7, <1>8, <1>9, <1>10, <1>11 DEF Housekeeping, Upkeep

LEMMA ArriveClaims ==
    ASSUME TypeOK, NEW c \in Cmd, NEW s \in AckStates, NEW b, Arrive(c, s, b)
    PROVE  \A x \in Cmd : Claims(state'[x]) => Claims(state[x]) \/ (x = c /\ Claims(s))
<1>1. state \in [Cmd -> CommandState \cup {"absent"}]
  BY DEF TypeOK
<1>2. CASE RecordAck(c, s, b)
  <2>1. \/ state' = [state EXCEPT ![c] = "queued"]
        \/ state' = [state EXCEPT ![c] = s]
        \/ state' = state
    BY <1>1, <1>2 DEF RecordAck
  <2> QED BY <1>1, <2>1 DEF Claims
<1>3. CASE UNCHANGED storeVars
  BY <1>3 DEF storeVars, vars, rowVars
<1> QED BY <1>2, <1>3 DEF Arrive

\* Steps that record no ACK and execute nothing.
LEMMA ReportQuiet ==
    ASSUME TypeOK, ReportInv, Housekeeping, UNCHANGED <<executed, table, nvs, worker>>,
           late' \subseteq late, UNCHANGED <<task, inbox>> \/ task' # "executing"
    PROVE  ReportInv'
<1>1. \A x \in Cmd : Claims(state'[x]) => Claims(state[x])
  BY HousekeepingClaims
<1>2. \A x : Begun(x)' <=> Begun(x)
  BY DEF Begun
<1>3. ReportedMeansExecuted'
  BY <1>1 DEF ReportInv, ReportedMeansExecuted, Claims
<1>4. \A c \in Cmd : Claims(table'[c]) \/ Claims(nvs'[c]) => Begun(c)'
  BY <1>2 DEF ReportInv
<1>5. \A r \in late' : Claims(r.state) => Begun(r.cmd)'
  BY <1>2 DEF ReportInv
<1>6. (worker' \in Cmd => Begun(worker)') /\ (task' = "executing" => Begun(inbox)')
  BY <1>2 DEF ReportInv, Begun
<1> QED BY <1>3, <1>4, <1>5, <1>6 DEF ReportInv

\* A POST of an outcome that is true.
LEMMA ReportPost ==
    ASSUME TypeOK, LinkTypes, ReportInv, NEW c \in Cmd, NEW s \in AckStates, Post(c, s),
           Claims(s) => Begun(c), \A x \in Cmd : Begun(x) => Begun(x)'
    PROVE  /\ ReportedMeansExecuted'
           /\ \A x \in Cmd : Claims(table'[x]) \/ Claims(nvs'[x]) => Begun(x)'
           /\ \A r \in late' : Claims(r.state) => Begun(r.cmd)'
<1>0. DeviceTypes /\ late \subseteq Request /\ devBoot \in Boots /\ table \in [Cmd -> AckStates \cup {"none"}]
  BY DeviceParts DEF LinkTypes
<1>1. /\ Arrive(c, s, devBoot) \/ UNCHANGED storeVars
      /\ late' = late \/ late' = late \cup {[cmd |-> c, state |-> s, boot |-> devBoot]}
      /\ table' = [table EXCEPT ![c] = s]
      /\ \A x \in Cmd : nvs'[x] \in {nvs[x], table'[x], "none"}
  BY <1>0, PostDoes
<1>2. \A x \in Cmd : Claims(state'[x]) => Claims(state[x]) \/ (x = c /\ Claims(s))
  <2>1. CASE Arrive(c, s, devBoot)
    BY <2>1, ArriveClaims
  <2>2. CASE UNCHANGED storeVars
    BY <2>2, HousekeepingClaims DEF Housekeeping, Upkeep
  <2> QED BY <1>1, <2>1, <2>2
<1>3. ReportedMeansExecuted'
  <2>1. \A x \in Cmd : Claims(state'[x]) => Begun(x)
    BY <1>2 DEF ReportInv, ReportedMeansExecuted, Claims, Begun
  <2>2. \A x \in Cmd : Claims(state'[x]) => Begun(x)'
    BY <2>1
  <2> QED BY <2>2 DEF ReportedMeansExecuted, Claims, Begun
<1>4. \A x \in Cmd : Claims(table'[x]) => Begun(x)'
  BY <1>0, <1>1 DEF ReportInv
<1>5. \A x \in Cmd : Claims(nvs'[x]) => Begun(x)'
  <2>1. ~Claims("none")
    BY DEF Claims
  <2> QED BY <1>1, <1>4, <2>1 DEF ReportInv
<1>6. \A r \in late' : Claims(r.state) => Begun(r.cmd)'
  <2> SUFFICES ASSUME NEW r \in late', Claims(r.state) PROVE Begun(r.cmd)'
    OBVIOUS
  <2>1. CASE r \in late
    BY <1>0, <2>1 DEF ReportInv, Request
  <2>2. CASE r = [cmd |-> c, state |-> s, boot |-> devBoot]
    BY <2>2
  <2> QED BY <1>1, <2>1, <2>2
<1> QED BY <1>3, <1>4, <1>5, <1>6

LEMMA ExecutingBegins ==
    ASSUME LinkTypes, NEW c \in Cmd, Executing(c)
    PROVE  Begun(c)' /\ \A x \in Cmd : Begun(x) => Begun(x)'
<1>0. devBoot \in Boots /\ executed \in [Cmd -> [Boots -> Nat]]
  BY DeviceParts
<1>1. executed' = [executed EXCEPT ![c][devBoot] = IF @ < 2 THEN @ + 1 ELSE @]
  BY DEF Executing
<1>2. executed'[c][devBoot] > 0
  BY <1>0, <1>1
<1>3. \A x \in Cmd, b \in Boots : executed[x][b] > 0 => executed'[x][b] > 0
  BY <1>0, <1>1
<1> QED BY <1>0, <1>2, <1>3 DEF Begun

LEMMA StepReports ==
    TypeOK /\ LinkTypes /\ ReportInv /\ [DeliveryNext]_allVars => ReportInv'
<1> SUFFICES ASSUME TypeOK, LinkTypes, ReportInv, [DeliveryNext]_allVars PROVE ReportInv'
  OBVIOUS
<1>0. /\ TaskTypes /\ NoteTypes /\ late \subseteq Request /\ table \in [Cmd -> AckStates \cup {"none"}]
      /\ Boots \subseteq Boots \cup {0} /\ devBoot \in Boots /\ pending \subseteq Noted
  BY DeviceParts
\* A POST that executes nothing, and one that goes with an execution.
<1>1. ASSUME NEW c \in Cmd, NEW s \in AckStates, Post(c, s), Claims(s) => Begun(c), executed' = executed,
             worker' = worker \/ worker' = NoCmd, UNCHANGED <<task, inbox>> \/ task' # "executing"
      PROVE  ReportInv'
  <2>1. \A x : Begun(x)' <=> Begun(x)
    BY <1>1 DEF Begun
  <2>2. (worker' \in Cmd => Begun(worker)') /\ (task' = "executing" => Begun(inbox)')
    BY <1>1, StoreAssumption DEF ReportInv, Begun, StoreAssumption
  <2> QED BY <1>1, <2>1, <2>2, ReportPost DEF ReportInv
<1>2. ASSUME NEW c \in Cmd, NEW s \in AckStates, Post(c, s), ~Claims(s), Executing(c),
             worker' = worker \/ worker' = c, UNCHANGED <<task, inbox>> \/ inbox' = c
      PROVE  ReportInv'
  <2>1. Begun(c)' /\ \A x \in Cmd : Begun(x) => Begun(x)'
    BY <1>2, ExecutingBegins
  <2>2. worker' \in Cmd => Begun(worker)'
    <3>1. CASE worker' = c
      BY <2>1, <3>1 DEF Begun
    <3>2. CASE worker' = worker
      BY <2>1, <3>2 DEF ReportInv, Begun
    <3> QED BY <1>2, <3>1, <3>2
  <2>3. task' = "executing" => Begun(inbox)'
    <3>1. CASE inbox' = c
      BY <2>1, <3>1 DEF Begun
    <3>2. CASE UNCHANGED <<task, inbox>>
      BY <1>0, <2>1, <3>2 DEF ReportInv, TaskTypes, Begun
    <3> QED BY <1>2, <3>1, <3>2
  <2> QED BY <1>2, <2>1, <2>2, <2>3, ReportPost DEF ReportInv
<1>3. ASSUME Housekeeping, UNCHANGED deviceVars, late' \subseteq late PROVE ReportInv'
  BY <1>3, ReportQuiet DEF deviceVars
<1>4. CASE Produce
  <2> PICK c \in Cmd : SinkCreate(c) \/ ReadBoot(c) \/ LegacyCreate(c) \/ PutInMemory(c)
    BY <1>4 DEF Produce
  <2>1. UNCHANGED deviceVars /\ late' = late
    BY DEF SinkCreate, ReadBoot, LegacyCreate, PutInMemory
  <2>2. producer[c].boot \in Boots \cup {0}
    BY DEF LinkTypes, ServerTypes, ProducerState
  <2>3. Housekeeping
    <3>1. (\E b \in Boots \cup {0} : CreateCommand(c, b)) \/ UNCHANGED storeVars
      BY <2>2 DEF SinkCreate, ReadBoot, LegacyCreate, PutInMemory
    <3> QED BY <3>1 DEF Housekeeping, Upkeep
  <2> QED BY <1>3, <2>1, <2>3
<1>5. CASE MemoryExpires \/ Heartbeat \/ TimePasses
  <2>1. UNCHANGED deviceVars /\ late' = late
    BY <1>5 DEF MemoryExpires, Heartbeat, TimePasses
  <2>2. Housekeeping
    BY <1>0, <1>5 DEF MemoryExpires, Heartbeat, TimePasses, Housekeeping, Upkeep
  <2> QED BY <1>3, <2>1, <2>2
<1>6. CASE LateAck
  <2>1. PICK r \in late : Arrive(r.cmd, r.state, r.boot) /\ late' = late \ {r} /\ UNCHANGED deviceVars
    BY <1>6 DEF LateAck
  <2>2. r.cmd \in Cmd /\ r.state \in AckStates /\ r.boot \in Boots /\ (Claims(r.state) => Begun(r.cmd))
    BY <1>0 DEF Request, ReportInv
  <2>3. \A x \in Cmd : Claims(state'[x]) => Claims(state[x]) \/ (x = r.cmd /\ Claims(r.state))
    BY <2>1, <2>2, ArriveClaims
  <2>4. \A x : Begun(x)' <=> Begun(x)
    BY <2>1 DEF Begun, deviceVars
  <2>5. ReportedMeansExecuted'
    <3>1. \A x \in Cmd : Claims(state'[x]) => Begun(x)'
      BY <2>2, <2>3, <2>4 DEF ReportInv, ReportedMeansExecuted, Claims, Begun
    <3> QED BY <3>1 DEF ReportedMeansExecuted, Claims, Begun
  <2>6. /\ UNCHANGED <<table, nvs, worker, task, inbox, executed>>
    BY <2>1 DEF deviceVars
  <2>7. (worker' \in Cmd => Begun(worker)') /\ (task' = "executing" => Begun(inbox)')
    BY <2>6 DEF ReportInv, Begun
  <2> QED BY <2>1, <2>4, <2>5, <2>6, <2>7 DEF ReportInv
<1>7. CASE \E h \in Handler : PollStep(h)
  <2> PICK h \in Handler : PollStep(h)
    BY <1>7
  <2>1. Housekeeping /\ late' = late
    BY PollKeepsHouse DEF Housekeeping
  <2>2. CASE UNCHANGED deviceVars
    BY <1>3, <2>1, <2>2
  <2>3. CASE \E c : Reply(h, c)
    <3>1. UNCHANGED <<executed, table, nvs, worker>> /\ (UNCHANGED <<task, inbox>> \/ task' # "executing")
      BY <2>3 DEF Reply, LoopTop
    <3> QED BY <2>1, <3>1, ReportQuiet
  <2> QED BY <2>2, <2>3, PollKeepsHouse
<1>8. CASE Hello \/ GiveUpPoll \/ \E h \in Handler : StartPoll(h)
  <2>1. Housekeeping
    BY <1>0, <1>8 DEF Hello, GiveUpPoll, StartPoll, Housekeeping, Upkeep
  <2>2. UNCHANGED <<executed, table, nvs, worker, late>> /\ task' # "executing"
    BY <1>8 DEF Hello, GiveUpPoll, StartPoll, LoopTop
  <2> QED BY <2>1, <2>2, ReportQuiet
<1>9. CASE \E c \in Cmd : Replay(c)
  <2> PICK c \in Cmd : Replay(c)
    BY <1>9
  <2>1. Post(c, table[c]) /\ UNCHANGED <<executed, worker, task, inbox>> /\ c \in pending
    BY DEF Replay
  <2>2. table[c] \in AckStates /\ (Claims(table[c]) => Begun(c))
    BY <1>0, <2>1 DEF Noted, ReportInv
  <2> QED BY <1>1, <2>1, <2>2
<1>10. CASE Handle
  <2> PICK c \in Cmd : \/ HandleDuplicate(c) \/ HandleSpeak(c) \/ AckSpeak(c) \/ SpeakRefused(c)
                       \/ SpeakLocked(c) \/ HandleOther(c) \/ ReportOther(c)
    BY <1>10 DEF Handle
  <2>1. CASE HandleDuplicate(c)
    <3>1. table[c] \in AckStates /\ (Claims(table[c]) => Begun(c))
      BY <1>0, <2>1 DEF HandleDuplicate, Duplicate, ReportInv
    <3>2. Post(c, table[c]) /\ UNCHANGED <<executed, worker>> /\ task' # "executing"
      BY <2>1 DEF HandleDuplicate, DuplicateAnswer, LoopTop
    <3> QED BY <1>1, <3>1, <3>2
  <2>2. CASE HandleSpeak(c)
    <3>1. Housekeeping
      BY <2>2 DEF HandleSpeak, Housekeeping, Upkeep
    <3>2. UNCHANGED <<executed, table, nvs, worker, late>> /\ task' # "executing"
      BY <2>2 DEF HandleSpeak
    <3> QED BY <3>1, <3>2, ReportQuiet
  <2>3. CASE AckSpeak(c) \/ SpeakRefused(c) \/ SpeakLocked(c)
    <3>1. PICK s \in {"received", "deferred", "failed", "cancelled"} : Post(c, s)
      BY <2>3 DEF AckSpeak, SpeakRefused, SpeakLocked
    <3>2. UNCHANGED <<executed, worker>> /\ task' # "executing"
      BY <2>3 DEF AckSpeak, SpeakRefused, SpeakLocked, LoopTop
    <3>3. s \in AckStates /\ ~Claims(s)
      BY <3>1 DEF AckStates, Claims
    <3> QED BY <1>1, <3>1, <3>2, <3>3
  <2>4. CASE HandleOther(c)
    <3>1. Post(c, "received") /\ "received" \in AckStates /\ ~Claims("received")
      BY <2>4 DEF HandleOther, AckStates, Claims
    <3>2. Executing(c) /\ worker' = worker /\ inbox' = c
      BY <2>4 DEF HandleOther
    <3> QED BY <1>2, <3>1, <3>2
  <2>5. CASE ReportOther(c)
    <3>1. PICK s \in {"done", "failed"} : Post(c, s)
      BY <2>5 DEF ReportOther
    <3>2. s \in AckStates /\ Begun(c) /\ UNCHANGED <<executed, worker>> /\ task' # "executing"
      BY <2>5, <3>1 DEF ReportOther, AckStates, LoopTop, ReportInv
    <3> QED BY <1>1, <3>1, <3>2
  <2> QED BY <2>1, <2>2, <2>3, <2>4, <2>5
<1>11. CASE SpeakTake
  <2>1. UNCHANGED <<task, inbox>>
    BY <1>11 DEF SpeakTake
  <2>2. Head(speech) \in Cmd \cup {Local}
    <3>1. speech \in Seq(Cmd \cup {Local}) /\ speech # << >>
      BY <1>0, <1>11 DEF SpeakTake, NoteTypes
    <3> QED BY <3>1, TailIs
  <2>3. CASE Head(speech) = Local /\ UNCHANGED <<storeVars, worker, table, pending, nvs, locals, executed, late>>
    BY <2>1, <2>3, ReportQuiet DEF Housekeeping, Upkeep
  <2>4. CASE /\ Head(speech) # Local /\ \E s \in {"cancelled", "expired"} : Post(Head(speech), s)
             /\ UNCHANGED <<worker, executed>>
    BY <1>1, <2>1, <2>2, <2>4 DEF AckStates, Claims
  <2>5. CASE /\ Head(speech) # Local /\ Post(Head(speech), "running")
             /\ worker' = Head(speech) /\ Executing(worker')
    <3>1. Executing(Head(speech))
      BY <2>5 DEF Executing
    <3> QED BY <1>2, <2>1, <2>2, <2>5, <3>1 DEF AckStates, Claims
  <2> QED BY <1>11, <2>3, <2>4, <2>5 DEF SpeakTake
<1>12. CASE SpeakReport
  <2>1. worker \in Cmd /\ Begun(worker)
    BY <1>0, <1>12 DEF SpeakReport, NoteTypes, ReportInv
  <2> QED BY <1>1, <1>12, <2>1 DEF SpeakReport, AckStates
<1>13. CASE LocalSpeech
  BY <1>13, ReportQuiet DEF LocalSpeech, Housekeeping, Upkeep
<1>14. CASE Reboot
  <2>1. /\ UNCHANGED <<storeVars, nvs, executed, late>> /\ table' = nvs /\ worker' = NoCmd /\ task' = "hello"
    BY <1>14 DEF Reboot
  <2>2. \A x : Begun(x)' <=> Begun(x)
    BY <2>1 DEF Begun
  <2>3. ReportedMeansExecuted'
    BY <2>1 DEF ReportInv, ReportedMeansExecuted, storeVars, vars, rowVars
  <2>4. NoCmd \notin Cmd
    BY StoreAssumption DEF StoreAssumption
  <2> QED BY <2>1, <2>2, <2>3, <2>4 DEF ReportInv
<1>15. CASE UNCHANGED allVars
  BY <1>3, <1>15 DEF allVars, Housekeeping, Upkeep
<1> QED BY <1>4, <1>5, <1>6, <1>7, <1>8, <1>9, <1>10, <1>11, <1>12, <1>13, <1>14, <1>15
        DEF DeliveryNext, CommandTask, SpeechWorker

LEMMA ReportInit == DeliveryInit => ReportInv
<1> SUFFICES ASSUME DeliveryInit PROVE ReportInv
  OBVIOUS
<1>1. \A c \in Cmd : state[c] = "absent" /\ table[c] = "none" /\ nvs[c] = "none"
  BY DEF DeliveryInit, Init
<1>2. late = {} /\ worker = NoCmd /\ task = "hello" /\ NoCmd \notin Cmd
  BY StoreAssumption DEF DeliveryInit, StoreAssumption
<1> QED BY <1>1, <1>2 DEF ReportInv, ReportedMeansExecuted, Claims

\* The server reports a command as spoken or done only if a device began it.
THEOREM ReportsAreTrue == DeliverySpec => []ReportedMeansExecuted
<1>1. ReportInv => ReportedMeansExecuted
  BY DEF ReportInv
<1> QED BY ReportInit, <1>1, LinkTyped, StepReports, PTL DEF DeliverySpec

-----------------------------------------------------------------------------
(* A command is executed in the boot its producer stamped.  The stamp does  *)
(* not change once the row exists, so whatever carries the command from     *)
(* there, a row, an item of the queue, a poll, a response, the inbox or the *)
(* speech queue, belongs to a boot that fits it.                            *)

Fits(c, b) == Made(c) /\ producer[c].boot \in {0, b}

RowsFit ==
    \A c \in Cmd : state[c] # "absent" =>
        Made(c) /\ (producer[c].boot # 0 => bound[c] = producer[c].boot)
MemoryFits == \A x \in ToSet(memory) : Made(x.cmd) /\ x.boot = producer[x.cmd].boot
PollsFit ==
    /\ \A h \in Handler : handler[h].at \in Holding => Fits(handler[h].cmd, handler[h].boot)
    /\ waits \in Handler => handler[waits].boot = devBoot
InboxFits == task \in {"handling", "acking", "executing"} => Fits(inbox, devBoot)
SpeechFits ==
    /\ worker \in Cmd => Fits(worker, devBoot)
    /\ \A i \in DOMAIN speech : speech[i] \in Cmd => Fits(speech[i], devBoot)
RunsFit == \A c \in Cmd, b \in Boots : executed[c][b] > 0 => Fits(c, b)

BootInv == RowsFit /\ MemoryFits /\ PollsFit /\ InboxFits /\ SpeechFits /\ RunsFit

\* No transaction but create_command makes a row, and none binds one anew.
BindsOnce ==
    \A x \in Cmd : /\ state'[x] # "absent" => state[x] # "absent"
                   /\ bound[x] # 0 => bound'[x] = bound[x]

LEMMA UpkeepBinds == ASSUME TypeOK, Upkeep PROVE BindsOnce
<1>0. /\ state \in [Cmd -> CommandState \cup {"absent"}] /\ bound \in [Cmd -> Boots \cup {0}]
      /\ \A c \in Active : state[c] # "absent" /\ c \in Cmd
  BY DEF TypeOK, Active, Live
<1>1. ASSUME NEW st, NEW C, NEW s, \A c \in C : c \in Cmd => st[c] # "absent"
      PROVE  \A x \in Cmd : Mark(st, C, s)[x] # "absent" => st[x] # "absent"
  BY <1>1 DEF Mark
<1>2. \A x \in Cmd : ExpireDue[x] # "absent" => state[x] # "absent"
  BY <1>0, <1>1 DEF ExpireDue, Due
<1>3. ASSUME NEW C, GiveUp(C, "expired"), C \subseteq Active,
             \A x \in Cmd : bound[x] # 0 => bound'[x] = bound[x]
      PROVE  BindsOnce
  <2>1. \A x \in Cmd : Mark(state, C, "expired")[x] # "absent" => state[x] # "absent"
    BY <1>0, <1>1, <1>3
  <2> QED BY <1>3, <2>1 DEF GiveUp, BindsOnce
<1>4. ASSUME NEW c \in Cmd, NEW b, LeaseCommand(c, b) PROVE BindsOnce
  <2>1. \A x \in Cmd : bound[x] # 0 => bound'[x] = bound[x]
    BY <1>0, <1>4 DEF LeaseCommand
  <2>2. CASE state' = [ExpireDue EXCEPT ![c] = "leased"] /\ ExpireDue[c] # "absent"
    <3>1. ExpireDue \in [Cmd -> CommandState \cup {"absent"}]
      BY SweepType
    <3> QED BY <1>2, <2>1, <2>2, <3>1 DEF BindsOnce
  <2>3. CASE \E C \in SUBSET {c} : state' = Mark(ExpireDue, C, "failed") /\ (C # {} => ExpireDue[c] # "absent")
    <3>1. \A x \in Cmd : state'[x] # "absent" => ExpireDue[x] # "absent"
      BY <1>1, <2>3
    <3> QED BY <1>2, <2>1, <3>1 DEF BindsOnce
  <2> QED BY <1>4, <2>2, <2>3 DEF LeaseCommand, Refused
<1>5. ASSUME NEW b, ObserveDeviceBoot(dev, b) PROVE BindsOnce
  <2>1. \A x \in Cmd : bound[x] # 0 => bound'[x] = bound[x]
    BY <1>5 DEF ObserveDeviceBoot
  <2> QED BY <1>3, <1>5, <2>1 DEF ObserveDeviceBoot
<1>6. ASSUME NEW C, ExpireStaleDialogue(C) PROVE BindsOnce
  BY <1>3, <1>6 DEF ExpireStaleDialogue, Dialogue
<1>7. CASE ExpireInactiveBoots
  BY <1>3, <1>7 DEF ExpireInactiveBoots
<1>8. CASE Sweep
  <2>1. \A x \in Cmd : state'[x] # "absent" => ExpireDue[x] # "absent"
    BY <1>1, <1>8 DEF Sweep, FailExhausted, Exhausted
  <2> QED BY <1>2, <1>8, <2>1 DEF Sweep, BindsOnce
<1>9. ASSUME NEW c, Deadline({c}) \/ LeaseLapse(c) PROVE BindsOnce
  BY <1>9 DEF Deadline, LeaseLapse, rowVars, BindsOnce
<1>10. CASE UNCHANGED storeVars
  BY <1>10 DEF storeVars, vars, rowVars, BindsOnce
<1> QED BY <1>4, <1>5, <1>6, <1>7, <1>8, <1>9, <1>10 DEF Upkeep

LEMMA ArriveBinds ==
    ASSUME TypeOK, NEW c \in Cmd, NEW s, NEW b, Arrive(c, s, b) \/ UNCHANGED storeVars
    PROVE  BindsOnce
<1>1. CASE RecordAck(c, s, b)
  BY <1>1 DEF RecordAck, BindsOnce, TypeOK
<1>2. CASE UNCHANGED storeVars
  BY <1>2 DEF storeVars, vars, rowVars, BindsOnce
<1> QED BY <1>1, <1>2 DEF Arrive

\* What is left of the invariant by steps that leave the producers alone.
LEMMA RowsStayBound ==
    ASSUME TypeOK, RowsFit, BindsOnce, producer' = producer
    PROVE  RowsFit'
  BY StoreAssumption DEF RowsFit, BindsOnce, Made, StoreAssumption

LEMMA MemoryStays ==
    ASSUME MemoryFits, ToSet(memory') \subseteq ToSet(memory), producer' = producer
    PROVE  MemoryFits'
  BY DEF MemoryFits, Made

LEMMA RestFits ==
    ASSUME producer' = producer, UNCHANGED devBoot
    PROVE  /\ PollsFit /\ UNCHANGED <<handler, waits>> => PollsFit'
           /\ InboxFits /\ UNCHANGED <<task, inbox>> => InboxFits'
           /\ SpeechFits /\ UNCHANGED <<speech, worker>> => SpeechFits'
           /\ RunsFit /\ UNCHANGED executed => RunsFit'
  BY DEF PollsFit, InboxFits, SpeechFits, RunsFit, Fits, Made

\* A poll that goes on with a command that fits its boot, and one that ends.
LEMMA GoFits ==
    ASSUME ServerTypes, PollsFit, NEW h \in Handler, NEW at, NEW c, Go(h, at, c),
           producer' = producer, UNCHANGED <<waits, devBoot>>,
           at \in Holding => Fits(c, handler[h].boot)
    PROVE  PollsFit'
<1>1. handler' = [handler EXCEPT ![h].at = at, ![h].cmd = c]
  BY DEF Go
<1>2. handler[h] \in HandlerState
  BY DEF ServerTypes
<1> DEFINE r == [handler[h] EXCEPT !.at = at, !.cmd = c]
<1>3. r.at = at /\ r.cmd = c /\ r.boot = handler[h].boot
  BY <1>2 DEF HandlerState
<1>4. handler' = [handler EXCEPT ![h] = r] /\ handler \in [Handler -> HandlerState]
  BY <1>1 DEF ServerTypes
<1> HIDE DEF r
<1>5. \A g \in Handler : handler'[g].boot = handler[g].boot
  BY <1>3, <1>4
<1>6. \A g \in Handler : handler'[g].at \in Holding => Fits(handler'[g].cmd, handler'[g].boot)
  BY <1>3, <1>4 DEF PollsFit
<1> QED BY <1>5, <1>6 DEF PollsFit, Fits, Made

LEMMA ReplyFits ==
    ASSUME ServerTypes, PollsFit, InboxFits, NEW h \in Handler, NEW c, Reply(h, c),
           producer' = producer, c # NoCmd => Fits(c, handler[h].boot)
    PROVE  PollsFit' /\ InboxFits'
<1> DEFINE r == [at |-> "free", boot |-> 0, speak |-> TRUE, cmd |-> NoCmd]
<1>1. /\ handler' = [handler EXCEPT ![h] = r] /\ handler \in [Handler -> HandlerState]
      /\ r.at \notin Holding /\ devBoot' = devBoot
  BY DEF Reply, Holding, ServerTypes
<1> HIDE DEF r
<1>3. \A g \in Handler : handler'[g].at \in Holding => Fits(handler'[g].cmd, handler'[g].boot)
  BY <1>1 DEF PollsFit
<1>4. waits' \in Handler => waits # h /\ waits' = waits
  BY DeliveryAssumption DEF Reply, DeliveryAssumption
<1>5. PollsFit'
  BY <1>1, <1>3, <1>4 DEF PollsFit, Fits, Made
<1>6. InboxFits'
  <2>1. CASE waits = h /\ c # NoCmd /\ task' = "handling" /\ inbox' = c
    BY <1>1, <2>1 DEF InboxFits, PollsFit, Fits, Made
  <2>2. CASE LoopTop
    BY <2>2 DEF InboxFits, LoopTop
  <2>3. CASE UNCHANGED <<inbox, task>>
    BY <1>1, <2>3, RestFits
  <2> QED BY <2>1, <2>2, <2>3 DEF Reply
<1> QED BY <1>5, <1>6

LEMMA PollFits ==
    ASSUME TypeOK, LinkTypes, BootInv, NEW h \in Handler, PollStep(h)
    PROVE  BootInv'
<1> DEFINE b == handler[h].boot
           c == handler[h].cmd
<1>0. /\ Queue!TypeOK /\ ServerTypes /\ DeviceTypes
      /\ RowsFit /\ MemoryFits /\ PollsFit /\ InboxFits /\ SpeechFits /\ RunsFit
      /\ handler[h].at # "free" => b \in Boots /\ b # 0
      /\ handler[h].at \in Holding => c \in Cmd /\ Fits(c, b)
      /\ NoCmd \notin Cmd
  BY StoreAssumption DEF LinkTypes, ServerTypes, BootInv, PollsFit, StoreAssumption
<1>1. /\ BindsOnce /\ producer' = producer
      /\ UNCHANGED deviceVars \/ \E d : Reply(h, d)
  BY PollKeepsHouse, UpkeepBinds
<1>2. RowsFit'
  BY <1>0, <1>1, RowsStayBound
<1>3. SpeechFits' /\ RunsFit'
  BY <1>0, <1>1, RestFits DEF deviceVars, Reply
<1>4. ASSUME ToSet(memory') \subseteq ToSet(memory), PollsFit', InboxFits' PROVE BootInv'
  BY <1>0, <1>1, <1>2, <1>3, <1>4, MemoryStays DEF BootInv
<1>5. ASSUME NEW at, NEW d, Go(h, at, d), at \in Holding => Fits(d, b), UNCHANGED deviceVars
      PROVE  PollsFit' /\ InboxFits'
  BY <1>0, <1>1, <1>5, GoFits, RestFits DEF deviceVars
<1>6. ASSUME NEW d, Reply(h, d), d # NoCmd => Fits(d, b) PROVE PollsFit' /\ InboxFits'
  BY <1>0, <1>1, <1>6, ReplyFits
\* What lease_next_command selects fits the boot of the poll.
<1>7. ASSUME Sweep, NEW poll, poll = b, b # 0,
             NEW s, NEW f, NEW d, d = NextCommand(dev, poll, s, f)', d # NoCmd
      PROVE  d \in Cmd /\ Fits(d, b)
  <2>1. d \in Cmd /\ state'[d] # "absent" /\ bound[d] \in {0, b}
    BY <1>7, SelectedIs
  <2>2. state[d] # "absent"
    BY <1>1, <2>1 DEF BindsOnce
  <2>3. Made(d) /\ (producer[d].boot # 0 => bound[d] = producer[d].boot)
    BY <1>0, <2>1, <2>2 DEF RowsFit
  <2> QED BY <2>1, <2>3 DEF Fits
<1>8. CASE PollObserve(h)
  <2>1. CASE ExpireInactiveBoots /\ Reply(h, NoCmd) /\ UNCHANGED memory
    BY <1>4, <1>6, <2>1
  <2>2. CASE Queue!DiscardOtherBoots(b) /\ Go(h, "gate", NoCmd) /\ UNCHANGED <<storeVars, deviceVars>>
    BY <1>0, <1>4, <1>5, <2>2, BootsInQueue DEF Holding
  <2>3. CASE Go(h, "adopt", NoCmd) /\ UNCHANGED <<storeVars, deviceVars, memory>>
    BY <1>4, <1>5, <2>3 DEF Holding
  <2> QED BY <1>8, <2>1, <2>2, <2>3 DEF PollObserve
<1>9. CASE PollAdopt(h)
  <2>1. Queue!DiscardOtherBoots(b) /\ Go(h, "gate", NoCmd) /\ UNCHANGED deviceVars
    BY <1>9 DEF PollAdopt
  <2> QED BY <1>0, <1>4, <1>5, <2>1, BootsInQueue DEF Holding
<1>10. CASE PollGate(h)
  <2>1. Go(h, "select", NoCmd) /\ memory' = memory /\ UNCHANGED deviceVars
    BY <1>10 DEF PollGate
  <2> QED BY <1>4, <1>5, <2>1 DEF Holding
<1>11. CASE PollSelect(h)
  <2>1. /\ b \in Boots /\ b # 0 /\ Sweep /\ memory' = memory /\ UNCHANGED deviceVars
    BY <1>0, <1>11 DEF PollSelect
  <2>2. PICK poll \in {b}, speak \in {handler[h].speak}, owner \in AllowFindOwner :
            LET d == NextCommand(dev, poll, speak, owner)'
            IN  Go(h, IF d = NoCmd THEN "wait" ELSE "lease", d)
    BY <1>11 DEF PollSelect
  <2> DEFINE d == NextCommand(dev, poll, speak, owner)'
  <2>3. Go(h, IF d = NoCmd THEN "wait" ELSE "lease", d) /\ (d # NoCmd => Fits(d, b))
    BY <1>7, <2>1, <2>2
  <2> HIDE DEF d
  <2>4. CASE d = NoCmd
    BY <1>4, <1>5, <2>1, <2>3, <2>4 DEF Holding
  <2>5. CASE d # NoCmd
    BY <1>4, <1>5, <2>1, <2>3, <2>5 DEF Holding
  <2> QED BY <2>4, <2>5
<1>12. CASE PollLease(h)
  <2>1. /\ Fits(c, b) /\ memory' = memory /\ UNCHANGED deviceVars
        /\ Go(h, "discard", c) \/ Go(h, "wait", NoCmd)
    BY <1>0, <1>12 DEF PollLease, Holding
  <2> QED BY <1>4, <1>5, <2>1 DEF Holding
<1>13. CASE PollDiscard(h)
  <2>1. Fits(c, b) /\ Queue!Discard(c) /\ Reply(h, c)
    BY <1>0, <1>13 DEF PollDiscard, Holding
  <2> QED BY <1>0, <1>4, <1>6, <2>1, DiscardInQueue
<1>14. CASE PollGet(h)
  <2>1. PICK owner \in AllowFindOwner :
             /\ Queue!Get(b, handler[h].speak, owner)
             /\ Go(h, "grab", memory[Queue!Best(memory, Queue!Eligible(memory, b, handler[h].speak, owner))].cmd)
    BY <1>14 DEF PollGet
  <2>2. b # 0 /\ UNCHANGED deviceVars
    BY <1>0, <1>14 DEF PollGet
  <2> DEFINE x == memory[Queue!Best(memory, Queue!Eligible(memory, b, handler[h].speak, owner))]
  <2>3. x \in ToSet(memory) /\ x.boot \in {0, b} /\ ToSet(memory') \subseteq ToSet(memory)
    BY <1>0, <2>1, <2>2, GetFromQueue
  <2>4. Go(h, "grab", x.cmd)
    BY <2>1
  <2> HIDE DEF x
  <2>5. Fits(x.cmd, b)
    BY <1>0, <2>3 DEF MemoryFits, Fits
  <2> QED BY <1>4, <1>5, <2>2, <2>3, <2>4, <2>5
<1>15. CASE PollGrab(h)
  <2>1. Fits(c, b) /\ memory' = memory /\ Reply(h, c)
    BY <1>0, <1>15 DEF PollGrab, Holding
  <2> QED BY <1>4, <1>6, <2>1
<1>16. CASE PollTimeout(h)
  <2>1. b \in Boots /\ b # 0 /\ Sweep /\ memory' = memory
    BY <1>0, <1>16 DEF PollTimeout
  <2>2. PICK poll \in {b}, speak \in {handler[h].speak}, owner \in AllowFindOwner :
            LET d == NextCommand(dev, poll, speak, owner)'
            IN  \/ d = NoCmd /\ Reply(h, NoCmd)
                \/ d # NoCmd /\ Go(h, "last", d) /\ UNCHANGED deviceVars
    BY <1>16 DEF PollTimeout
  <2> DEFINE d == NextCommand(dev, poll, speak, owner)'
  <2>3. /\ \/ d = NoCmd /\ Reply(h, NoCmd)
           \/ d # NoCmd /\ Go(h, "last", d) /\ UNCHANGED deviceVars
        /\ d # NoCmd => Fits(d, b)
    BY <1>7, <2>1, <2>2
  <2> HIDE DEF d
  <2> QED BY <1>4, <1>5, <1>6, <2>1, <2>3
<1>17. CASE PollLast(h)
  <2>1. Fits(c, b) /\ memory' = memory /\ (Reply(h, c) \/ Reply(h, NoCmd))
    BY <1>0, <1>17 DEF PollLast, Holding
  <2> QED BY <1>4, <1>6, <2>1
<1> QED BY <1>8, <1>9, <1>10, <1>11, <1>12, <1>13, <1>14, <1>15, <1>16, <1>17 DEF PollStep

\* What a producer has made keeps its stamp.
LEMMA ProduceFits ==
    ASSUME TypeOK, LinkTypes, BootInv, NEW c \in Cmd,
           SinkCreate(c) \/ ReadBoot(c) \/ LegacyCreate(c) \/ PutInMemory(c)
    PROVE  BootInv'
<1>0. /\ Queue!TypeOK /\ ServerTypes /\ TaskTypes /\ NoteTypes
      /\ RowsFit /\ MemoryFits /\ PollsFit /\ InboxFits /\ SpeechFits /\ RunsFit
      /\ producer \in [Cmd -> ProducerState] /\ producer[c].boot \in Boots \cup {0}
      /\ Envelope[c].device = dev /\ state \in [Cmd -> CommandState \cup {"absent"}]
      /\ bound \in [Cmd -> Boots \cup {0}]
  <2>1. Envelope[c] \in CommandEnvelope
    BY StoreAssumption DEF StoreAssumption
  <2>2. Envelope[c].device \in {dev}
    BY <2>1, DeliveryAssumption DEF DeliveryAssumption, CommandEnvelope
  <2> QED BY <2>2, DeviceParts DEF LinkTypes, ServerTypes, ProducerState, BootInv, TypeOK
<1>1. UNCHANGED <<handler, deviceVars>>
  BY DEF SinkCreate, ReadBoot, LegacyCreate, PutInMemory
<1>2. \A x \in Cmd : Made(x) => Made(x)' /\ producer'[x].boot = producer[x].boot
  <2>1. CASE SinkCreate(c) \/ ReadBoot(c) \/ LegacyCreate(c)
    <3>1. ~Made(c) /\ \A x \in Cmd \ {c} : producer'[x] = producer[x]
      BY <1>0, <2>1 DEF SinkCreate, ReadBoot, LegacyCreate, Made
    <3> QED BY <3>1 DEF Made
  <2>2. CASE PutInMemory(c)
    <3>1. producer' = [producer EXCEPT ![c] = [producer[c] EXCEPT !.at = "done"]]
      BY <2>2 DEF PutInMemory
    <3> QED BY <1>0, <3>1 DEF Made, ProducerState
  <2> QED BY <2>1, <2>2
<1>3. \A x \in Cmd : \A b : Fits(x, b) => Made(x)' /\ producer'[x].boot \in {0, b}
  BY <1>2 DEF Fits
<1>4. PollsFit'
  BY <1>0, <1>1, <1>3 DEF PollsFit, Fits, ServerTypes, deviceVars
<1>5. InboxFits' /\ SpeechFits' /\ RunsFit'
  <2>1. InboxFits'
    BY <1>0, <1>1, <1>3 DEF InboxFits, Fits, TaskTypes, deviceVars
  <2>2. SpeechFits'
    BY <1>0, <1>1, <1>3 DEF SpeechFits, Fits, deviceVars
  <2>3. RunsFit'
    BY <1>0, <1>1, <1>3 DEF RunsFit, Fits, deviceVars
  <2> QED BY <2>1, <2>2, <2>3
<1>6. \A x \in ToSet(memory) : x.cmd \in Cmd
  <2>1. memory \in Seq(Queue!Item)
    BY <1>0 DEF Queue!TypeOK
  <2>2. \A x \in ToSet(memory) : x \in Queue!Item
    BY <2>1 DEF ToSet
  <2> QED BY <2>2 DEF Queue!Item
<1>7. ASSUME memory' = memory PROVE MemoryFits'
  BY <1>0, <1>2, <1>6, <1>7 DEF MemoryFits
<1>8. ASSUME CreateCommand(c, producer'[c].boot) \/ (CreateCommand(c, 0) /\ producer'[c].boot = boot[dev]),
             Made(c)', \A x \in Cmd \ {c} : producer'[x] = producer[x]
      PROVE  RowsFit'
  <2>1. /\ \A x \in Cmd \ {c} : state'[x] = state[x] /\ bound'[x] = bound[x]
        /\ producer'[c].boot # 0 => bound'[c] = producer'[c].boot
    BY <1>0, <1>8 DEF CreateCommand
  <2>2. \A x \in Cmd \ {c} : state'[x] # "absent" =>
            Made(x)' /\ (producer'[x].boot # 0 => bound'[x] = producer'[x].boot)
    BY <1>0, <1>8, <2>1 DEF RowsFit, Made
  <2> QED BY <1>8, <2>1, <2>2 DEF RowsFit
<1>9. CASE SinkCreate(c)
  <2>1. /\ CreateCommand(c, 0) /\ memory' = memory /\ producer'[c].boot = boot[dev] /\ Made(c)'
        /\ \A x \in Cmd \ {c} : producer'[x] = producer[x]
    BY <1>0, <1>9 DEF SinkCreate, Made
  <2> QED BY <1>4, <1>5, <1>7, <1>8, <2>1 DEF BootInv
<1>10. CASE ReadBoot(c)
  <2>1. /\ UNCHANGED storeVars /\ memory' = memory /\ ~Made(c)
        /\ \A x \in Cmd \ {c} : producer'[x] = producer[x]
    BY <1>0, <1>10 DEF ReadBoot, Made
  <2>2. RowsFit'
    BY <1>0, <2>1 DEF RowsFit, Made, storeVars, vars, rowVars
  <2> QED BY <1>4, <1>5, <1>7, <2>1, <2>2 DEF BootInv
<1>11. CASE LegacyCreate(c)
  <2>1. /\ producer' = [producer EXCEPT ![c] = [producer[c] EXCEPT !.at = "created"]]
        /\ CreateCommand(c, producer[c].boot) /\ memory' = memory
    BY <1>11 DEF LegacyCreate
  <2>2. /\ producer'[c].boot = producer[c].boot /\ Made(c)'
        /\ \A x \in Cmd \ {c} : producer'[x] = producer[x]
    BY <1>0, <2>1 DEF Made, ProducerState
  <2> QED BY <1>4, <1>5, <1>7, <1>8, <2>1, <2>2 DEF BootInv
<1>12. CASE PutInMemory(c)
  <2> DEFINE e == [cmd |-> c, boot |-> producer[c].boot]
  <2>1. /\ Queue!Put(e) /\ Made(c) /\ UNCHANGED storeVars
        /\ producer' = [producer EXCEPT ![c] = [producer[c] EXCEPT !.at = "done"]]
    BY <1>12 DEF PutInMemory, Made
  <2>2. e \in Queue!Item /\ e.cmd = c /\ e.boot = producer[c].boot
    BY <1>0 DEF Queue!Item
  <2> HIDE DEF e
  <2>3. ToSet(memory') \subseteq ToSet(memory) \cup {e}
    BY <1>0, <2>1, <2>2, PutInQueue
  <2>4. MemoryFits'
    BY <1>0, <1>2, <1>6, <2>1, <2>2, <2>3 DEF MemoryFits
  <2>5. RowsFit'
    <3>1. \A x \in Cmd : state'[x] = state[x] /\ bound'[x] = bound[x]
      BY <2>1 DEF storeVars, vars, rowVars
    <3> QED BY <1>0, <1>2, <3>1 DEF RowsFit
  <2> QED BY <1>4, <1>5, <2>4, <2>5 DEF BootInv
<1> QED BY <1>9, <1>10, <1>11, <1>12

\* An execution that starts in this boot, of a command that fits it.
LEMMA RunsHere ==
    ASSUME LinkTypes, RunsFit, NEW c \in Cmd, Fits(c, devBoot), Executing(c), producer' = producer
    PROVE  RunsFit'
<1>0. devBoot \in Boots /\ executed \in [Cmd -> [Boots -> Nat]]
  BY DeviceParts
<1>1. \A x \in Cmd, b \in Boots : executed'[x][b] > 0 => executed[x][b] > 0 \/ (x = c /\ b = devBoot)
  BY <1>0 DEF Executing
<1> QED BY <1>1 DEF RunsFit, Fits, Made

\* What the firmware's own steps leave of the invariant to show.
LEMMA DeviceFits ==
    ASSUME TypeOK, LinkTypes, BootInv, UNCHANGED <<serverVars, devBoot>>,
           UNCHANGED storeVars \/ \E c \in Cmd, s \in AckStates : Post(c, s),
           waits' = waits \/ waits' = NoHandler,
           InboxFits', SpeechFits', RunsFit'
    PROVE  BootInv'
<1>0. DeviceTypes /\ late \subseteq Request /\ NoHandler \notin Handler
  BY DeviceParts DEF LinkTypes
<1>1. BindsOnce
  <2>1. CASE UNCHANGED storeVars
    BY <2>1, UpkeepBinds DEF Upkeep
  <2>2. CASE \E c \in Cmd, s \in AckStates : Post(c, s)
    <3>1. \E c \in Cmd, s \in AckStates : Arrive(c, s, devBoot) \/ UNCHANGED storeVars
      BY <1>0, <2>2, PostDoes
    <3> QED BY <3>1, ArriveBinds
  <2> QED BY <2>1, <2>2
<1>2. RowsFit' /\ MemoryFits'
  BY <1>1, RowsStayBound, MemoryStays DEF BootInv, serverVars
<1>3. PollsFit'
  BY <1>0 DEF BootInv, PollsFit, Fits, Made, serverVars
<1> QED BY <1>2, <1>3 DEF BootInv

LEMMA HandleFits ==
    ASSUME TypeOK, LinkTypes, BootInv, Handle
    PROVE  BootInv'
<1> PICK c \in Cmd : \/ HandleDuplicate(c) \/ HandleSpeak(c) \/ AckSpeak(c) \/ SpeakRefused(c)
                     \/ SpeakLocked(c) \/ HandleOther(c) \/ ReportOther(c)
  BY DEF Handle
<1>0. /\ NoteTypes /\ table \in [Cmd -> AckStates \cup {"none"}] /\ Local \notin Cmd
      /\ InboxFits /\ SpeechFits /\ RunsFit
  BY DeviceParts, DeliveryAssumption DEF BootInv, DeliveryAssumption
\* Every answer but the first of an execution.
<1>1. ASSUME NEW s \in AckStates, Post(c, s), LoopTop,
             UNCHANGED <<serverVars, devBoot, waits, speech, worker, executed>>
      PROVE  BootInv'
  <2>1. SpeechFits' /\ RunsFit'
    BY <1>0, <1>1, RestFits DEF serverVars
  <2>2. InboxFits'
    BY <1>1 DEF LoopTop, InboxFits
  <2> QED BY <1>1, <2>1, <2>2, DeviceFits
<1>2. CASE HandleDuplicate(c)
  <2>1. table[c] \in AckStates
    BY <1>0, <1>2 DEF HandleDuplicate, Duplicate
  <2> QED BY <1>1, <1>2, <2>1 DEF HandleDuplicate, DuplicateAnswer
<1>3. CASE HandleSpeak(c)
  <2>1. /\ speech' = Append(speech, c) /\ task = "handling" /\ inbox = c /\ task' = "acking"
        /\ UNCHANGED <<storeVars, serverVars, devBoot, waits, inbox, worker, executed>>
    BY <1>3 DEF HandleSpeak
  <2>2. Fits(c, devBoot) /\ speech \in Seq(Cmd \cup {Local})
    BY <1>0, <2>1 DEF InboxFits, NoteTypes
  <2>3. \A i \in DOMAIN speech' : (i \in DOMAIN speech /\ speech'[i] = speech[i]) \/ speech'[i] = c
    BY <2>1, <2>2
  <2>4. producer' = producer
    BY <2>1 DEF serverVars
  <2>5. SpeechFits' /\ InboxFits' /\ RunsFit'
    BY <1>0, <2>1, <2>2, <2>3, <2>4, RestFits DEF SpeechFits, InboxFits, Fits, Made
  <2> QED BY <2>1, <2>5, DeviceFits
<1>4. CASE AckSpeak(c)
  BY <1>1, <1>4 DEF AckSpeak, AckStates
<1>5. CASE SpeakRefused(c)
  BY <1>1, <1>5 DEF SpeakRefused, AckStates
<1>6. CASE SpeakLocked(c)
  BY <1>1, <1>6 DEF SpeakLocked, AckStates
<1>7. CASE HandleOther(c)
  <2>1. /\ Post(c, "received") /\ "received" \in AckStates /\ Executing(c) /\ inbox = c /\ task = "handling"
        /\ UNCHANGED <<serverVars, devBoot, waits, inbox, speech, worker>>
    BY <1>7 DEF HandleOther, AckStates
  <2>2. Fits(c, devBoot) /\ producer' = producer
    BY <1>0, <2>1 DEF InboxFits, serverVars
  <2>3. InboxFits' /\ SpeechFits'
    BY <1>0, <2>1, <2>2, RestFits DEF InboxFits, Fits, Made
  <2>4. RunsFit'
    BY <1>0, <2>1, <2>2, RunsHere
  <2> QED BY <2>1, <2>3, <2>4, DeviceFits
<1>8. CASE ReportOther(c)
  BY <1>1, <1>8 DEF ReportOther, AckStates
<1> QED BY <1>2, <1>3, <1>4, <1>5, <1>6, <1>7, <1>8

LEMMA SpokenFits ==
    ASSUME TypeOK, LinkTypes, BootInv, SpeakTake \/ SpeakReport \/ LocalSpeech
    PROVE  BootInv'
<1>0. /\ NoteTypes /\ Local \notin Cmd /\ NoCmd \notin Cmd /\ speech \in Seq(Cmd \cup {Local})
      /\ InboxFits /\ SpeechFits /\ RunsFit
  BY DeviceParts, DeliveryAssumption, StoreAssumption
     DEF BootInv, NoteTypes, DeliveryAssumption, StoreAssumption
<1>1. CASE SpeakTake
  <2>1. /\ speech # << >> /\ speech' = Tail(speech)
        /\ UNCHANGED <<serverVars, devBoot, task, waits, inbox>>
    BY <1>1 DEF SpeakTake
  <2>2. producer' = producer
    BY <2>1 DEF serverVars
  <2>3. /\ 1 \in DOMAIN speech /\ Head(speech) = speech[1] /\ Head(speech) \in Cmd \cup {Local}
        /\ \A i \in DOMAIN speech' : i + 1 \in DOMAIN speech /\ speech'[i] = speech[i + 1]
    BY <1>0, <2>1, TailIs
  <2>4. \A i \in DOMAIN speech' : speech'[i] \in Cmd => Fits(speech'[i], devBoot)
    BY <1>0, <2>3 DEF SpeechFits
  <2>5. InboxFits'
    BY <1>0, <2>1, <2>2, RestFits
  <2>6. ASSUME worker' = worker \/ (worker' = Head(speech) /\ Head(speech) \in Cmd) PROVE SpeechFits'
    BY <1>0, <2>1, <2>2, <2>3, <2>4, <2>6 DEF SpeechFits, Fits, Made
  <2>7. CASE Head(speech) = Local /\ UNCHANGED <<storeVars, worker, executed>>
    BY <1>0, <2>1, <2>2, <2>5, <2>6, <2>7, RestFits, DeviceFits
  <2>8. CASE /\ Head(speech) # Local /\ \E s \in {"cancelled", "expired"} : Post(Head(speech), s)
             /\ UNCHANGED <<worker, executed>>
    <3>1. \E c \in Cmd, s \in AckStates : Post(c, s)
      BY <2>3, <2>8 DEF AckStates
    <3> QED BY <1>0, <2>1, <2>2, <2>5, <2>6, <2>8, <3>1, RestFits, DeviceFits
  <2>9. CASE /\ Head(speech) # Local /\ Post(Head(speech), "running")
             /\ worker' = Head(speech) /\ Executing(worker')
    <3>1. Head(speech) \in Cmd /\ Fits(Head(speech), devBoot) /\ Executing(Head(speech))
      BY <1>0, <2>3, <2>9 DEF SpeechFits, Executing
    <3>2. RunsFit'
      BY <1>0, <2>2, <3>1, RunsHere
    <3> QED BY <2>1, <2>5, <2>6, <2>9, <3>1, <3>2, DeviceFits DEF AckStates
  <2> QED BY <1>1, <2>7, <2>8, <2>9 DEF SpeakTake
<1>2. CASE SpeakReport
  <2>1. /\ worker \in Cmd /\ worker' = NoCmd /\ \E s \in AckStates : Post(worker, s)
        /\ UNCHANGED <<serverVars, devBoot, task, waits, inbox, speech, executed>>
    BY <1>0, <1>2 DEF SpeakReport, NoteTypes, AckStates
  <2>2. producer' = producer
    BY <2>1 DEF serverVars
  <2>3. InboxFits' /\ RunsFit'
    BY <1>0, <2>1, <2>2, RestFits
  <2>4. SpeechFits'
    BY <1>0, <2>1, <2>2 DEF SpeechFits, Fits, Made
  <2> QED BY <2>1, <2>3, <2>4, DeviceFits
<1>3. CASE LocalSpeech
  <2>1. /\ speech' = Append(speech, Local)
        /\ UNCHANGED <<storeVars, serverVars, devBoot, task, waits, inbox, worker, executed>>
    BY <1>3 DEF LocalSpeech
  <2>2. producer' = producer
    BY <2>1 DEF serverVars
  <2>3. \A i \in DOMAIN speech' : (i \in DOMAIN speech /\ speech'[i] = speech[i]) \/ speech'[i] = Local
    BY <1>0, <2>1
  <2>4. InboxFits' /\ RunsFit' /\ SpeechFits'
    BY <1>0, <2>1, <2>2, <2>3, RestFits DEF SpeechFits, Fits, Made
  <2> QED BY <2>1, <2>4, DeviceFits
<1> QED BY <1>1, <1>2, <1>3

LEMMA StepFits ==
    TypeOK /\ LinkTypes /\ BootInv /\ [DeliveryNext]_allVars => BootInv'
<1> SUFFICES ASSUME TypeOK, LinkTypes, BootInv, [DeliveryNext]_allVars PROVE BootInv'
  OBVIOUS
<1>0. /\ Queue!TypeOK /\ ServerTypes /\ NoteTypes /\ late \subseteq Request /\ devBoot \in Boots
      /\ table \in [Cmd -> AckStates \cup {"none"}] /\ pending \subseteq Noted /\ NoHandler \notin Handler
      /\ RowsFit /\ MemoryFits /\ PollsFit /\ InboxFits /\ SpeechFits /\ RunsFit
  BY DeviceParts DEF BootInv
\* A step of the server that leaves the polls and the device alone.
<1>1. ASSUME BindsOnce, ToSet(memory') \subseteq ToSet(memory), UNCHANGED <<producer, handler, deviceVars>>
      PROVE  BootInv'
  <2>1. RowsFit' /\ MemoryFits'
    BY <1>0, <1>1, RowsStayBound, MemoryStays
  <2>2. PollsFit' /\ InboxFits' /\ SpeechFits' /\ RunsFit'
    BY <1>0, <1>1, RestFits DEF deviceVars
  <2> QED BY <2>1, <2>2 DEF BootInv
<1>2. CASE Produce
  BY <1>2, ProduceFits DEF Produce
<1>3. CASE \E h \in Handler : PollStep(h)
  BY <1>3, PollFits
<1>4. CASE MemoryExpires
  <2>1. BindsOnce
    BY <1>4, UpkeepBinds DEF MemoryExpires, Upkeep
  <2> QED BY <1>0, <1>1, <1>4, <2>1, ExpireInQueue DEF MemoryExpires
<1>5. CASE Heartbeat
  <2>1. BindsOnce
    BY <1>0, <1>5, UpkeepBinds DEF Heartbeat, Upkeep
  <2>2. ToSet(memory') \subseteq ToSet(memory)
    BY <1>0, <1>5, BootsInQueue DEF Heartbeat
  <2> QED BY <1>1, <1>5, <2>1, <2>2 DEF Heartbeat
<1>6. CASE LateAck
  <2>1. PICK r \in late : Arrive(r.cmd, r.state, r.boot) /\ UNCHANGED <<serverVars, deviceVars>>
    BY <1>6 DEF LateAck
  <2>2. r.cmd \in Cmd
    BY <1>0 DEF Request
  <2> QED BY <1>1, <2>1, <2>2, ArriveBinds DEF serverVars
<1>7. CASE TimePasses
  <2>1. BindsOnce
    BY <1>7, UpkeepBinds DEF TimePasses, Upkeep
  <2> QED BY <1>1, <1>7, <2>1 DEF TimePasses, serverVars
<1>8. CASE Hello
  <2>1. BindsOnce
    BY <1>0, <1>8, UpkeepBinds DEF Hello, Upkeep
  <2>2. ToSet(memory') \subseteq ToSet(memory)
    BY <1>0, <1>8, BootsInQueue DEF Hello
  <2>3. UNCHANGED <<producer, handler, devBoot, waits, speech, worker, executed>> /\ InboxFits'
    BY <1>8 DEF Hello, LoopTop, InboxFits
  <2>4. PollsFit' /\ SpeechFits' /\ RunsFit' /\ RowsFit' /\ MemoryFits'
    BY <1>0, <2>1, <2>2, <2>3, RestFits, RowsStayBound, MemoryStays
  <2> QED BY <2>3, <2>4 DEF BootInv
<1>9. CASE \E c \in Cmd : Replay(c)
  <2> PICK c \in Cmd : Replay(c)
    BY <1>9
  <2>1. /\ Post(c, table[c]) /\ c \in pending
        /\ UNCHANGED <<serverVars, devBoot, task, waits, inbox, speech, worker, executed>>
    BY DEF Replay
  <2>2. table[c] \in AckStates /\ producer' = producer
    BY <1>0, <2>1 DEF Noted, serverVars
  <2> QED BY <1>0, <2>1, <2>2, RestFits, DeviceFits
<1>10. CASE \E h \in Handler : StartPoll(h)
  <2> PICK h \in Handler : StartPoll(h)
    BY <1>10
  <2> DEFINE r == [at |-> "observe", boot |-> devBoot, cmd |-> NoCmd, speak |-> SpeechRoom]
  <2>1. /\ handler' = [handler EXCEPT ![h] = r] /\ waits' = h /\ task' = "polling"
        /\ UNCHANGED <<storeVars, memory, producer, devBoot, speech, worker, executed>>
    BY DEF StartPoll
  <2>2. r.at \notin Holding /\ r.boot = devBoot
    BY DEF Holding
  <2> HIDE DEF r
  <2>3. PollsFit'
    BY <1>0, <2>1, <2>2 DEF PollsFit, ServerTypes, Fits, Made
  <2>4. InboxFits' /\ SpeechFits' /\ RunsFit'
    BY <1>0, <2>1, RestFits DEF InboxFits
  <2>5. RowsFit' /\ MemoryFits'
    BY <1>0, <2>1, UpkeepBinds, RowsStayBound, MemoryStays DEF Upkeep
  <2> QED BY <2>3, <2>4, <2>5 DEF BootInv
<1>11. CASE Handle
  BY <1>11, HandleFits
<1>12. CASE GiveUpPoll
  <2>1. /\ waits' = NoHandler /\ InboxFits'
        /\ UNCHANGED <<storeVars, serverVars, devBoot, speech, worker, executed>>
    BY <1>12 DEF GiveUpPoll, LoopTop, InboxFits
  <2>2. producer' = producer
    BY <2>1 DEF serverVars
  <2> QED BY <1>0, <2>1, <2>2, RestFits, DeviceFits
<1>13. CASE SpeechWorker \/ LocalSpeech
  BY <1>13, SpokenFits DEF SpeechWorker
<1>14. CASE Reboot
  <2>1. /\ waits' = NoHandler /\ task' = "hello" /\ speech' = << >> /\ worker' = NoCmd
        /\ UNCHANGED <<storeVars, serverVars, executed>>
    BY <1>14 DEF Reboot
  <2>2. producer' = producer /\ handler' = handler /\ memory' = memory
    BY <2>1 DEF serverVars
  <2>3. RowsFit' /\ MemoryFits'
    BY <1>0, <2>1, <2>2, UpkeepBinds, RowsStayBound, MemoryStays DEF Upkeep
  <2>4. PollsFit' /\ InboxFits' /\ RunsFit'
    BY <1>0, <2>1, <2>2 DEF PollsFit, InboxFits, RunsFit, Fits, Made
  <2>5. SpeechFits'
    <3>1. NoCmd \notin Cmd /\ DOMAIN speech' = {}
      BY <2>1, StoreAssumption DEF StoreAssumption
    <3> QED BY <2>1, <3>1 DEF SpeechFits
  <2> QED BY <2>3, <2>4, <2>5 DEF BootInv
<1>15. CASE UNCHANGED allVars
  <2>1. UNCHANGED storeVars /\ UNCHANGED serverVars /\ UNCHANGED deviceVars
    BY <1>15 DEF allVars
  <2>2. BindsOnce
    BY <2>1, UpkeepBinds DEF Upkeep
  <2> QED BY <1>1, <2>1, <2>2 DEF serverVars
<1> QED BY <1>2, <1>3, <1>4, <1>5, <1>6, <1>7, <1>8, <1>9, <1>10, <1>11, <1>12, <1>13, <1>14, <1>15
        DEF DeliveryNext, CommandTask

LEMMA BootInit == DeliveryInit => BootInv
<1> SUFFICES ASSUME DeliveryInit PROVE BootInv
  OBVIOUS
<1>1. RowsFit /\ MemoryFits
  BY DEF DeliveryInit, Init, RowsFit, MemoryFits, ToSet
<1>2. PollsFit
  BY DeliveryAssumption DEF DeliveryInit, PollsFit, Holding, DeliveryAssumption
<1>3. InboxFits /\ RunsFit
  BY DEF DeliveryInit, InboxFits, RunsFit
<1>4. SpeechFits
  <2>1. NoCmd \notin Cmd /\ DOMAIN speech = {} /\ worker = NoCmd
    BY StoreAssumption DEF DeliveryInit, StoreAssumption
  <2> QED BY <2>1 DEF SpeechFits
<1> QED BY <1>1, <1>2, <1>3, <1>4 DEF BootInv

\* A command stamped with a boot is executed in that boot and no other:
\* neither a row leased late, an item left in the queue, a poll of the boot
\* before nor a response under way carries it into the next one.
THEOREM BootBoundKept == DeliverySpec => []BoundToBoot
<1>1. TypeOK /\ LinkTypes /\ BootInv => BoundToBoot
  <2> SUFFICES ASSUME RunsFit PROVE BoundToBoot
    BY DEF BootInv
  <2> QED BY DEF RunsFit, Fits, BoundToBoot
<1> QED BY BootInit, <1>1, LinkTyped, StepFits, PTL DEF DeliverySpec

-----------------------------------------------------------------------------
(* The delivery implements CommandPromise.  What a producer has made has a  *)
(* row, and nobody on the server knows of a boot the device has not had.    *)

MadeInv == \A c \in Cmd : Made(c) => state[c] # "absent"
KnownInv ==
    /\ boot[dev] <= devBoot
    /\ \A h \in Handler : handler[h].boot <= devBoot
    /\ \A c \in Cmd : producer[c].boot <= devBoot

\* Of the steps that are no producer's, none makes a row or moves the stamps.
LEMMA OthersMakeNothing ==
    ASSUME TypeOK, LinkTypes, [DeliveryNext]_allVars, ~Produce
    PROVE  producer' = producer /\ BindsOnce
<1>0. /\ DeviceTypes /\ late \subseteq Request /\ devBoot \in Boots
      /\ table \in [Cmd -> AckStates \cup {"none"}] /\ pending \subseteq Noted /\ NoteTypes
  BY DeviceParts DEF LinkTypes
<1>1. ASSUME NEW c \in Cmd, NEW s \in AckStates, Post(c, s) PROVE BindsOnce
  <2>1. Arrive(c, s, devBoot) \/ UNCHANGED storeVars
    BY <1>0, <1>1, PostDoes
  <2> QED BY <2>1, ArriveBinds
<1>2. CASE \E h \in Handler : PollStep(h)
  BY <1>2, PollKeepsHouse, UpkeepBinds
<1>3. CASE LateAck
  <2>1. PICK r \in late : Arrive(r.cmd, r.state, r.boot) /\ UNCHANGED serverVars
    BY <1>3 DEF LateAck
  <2>2. r.cmd \in Cmd
    BY <1>0 DEF Request
  <2> QED BY <2>1, <2>2, ArriveBinds DEF serverVars
<1>4. CASE MemoryExpires \/ Heartbeat \/ TimePasses \/ Hello
  <2>1. Upkeep
    BY <1>0, <1>4 DEF MemoryExpires, Heartbeat, TimePasses, Hello, Upkeep
  <2>2. producer' = producer
    BY <1>4 DEF MemoryExpires, Heartbeat, TimePasses, Hello, serverVars
  <2> QED BY <2>1, <2>2, UpkeepBinds
<1>5. CASE GiveUpPoll \/ LocalSpeech \/ Reboot \/ (\E h \in Handler : StartPoll(h)) \/ UNCHANGED allVars
  <2>1. UNCHANGED storeVars /\ producer' = producer
    BY <1>5 DEF GiveUpPoll, LocalSpeech, Reboot, StartPoll, allVars, serverVars
  <2> QED BY <2>1, UpkeepBinds DEF Upkeep
<1>6. CASE \E c \in Cmd : Replay(c)
  <2> PICK c \in Cmd : Replay(c)
    BY <1>6
  <2>1. Post(c, table[c]) /\ c \in pending /\ producer' = producer
    BY DEF Replay, serverVars
  <2>2. table[c] \in AckStates
    BY <1>0, <2>1 DEF Noted
  <2> QED BY <1>1, <2>1, <2>2
<1>7. CASE Handle
  <2> PICK c \in Cmd : \/ HandleDuplicate(c) \/ HandleSpeak(c) \/ AckSpeak(c) \/ SpeakRefused(c)
                       \/ SpeakLocked(c) \/ HandleOther(c) \/ ReportOther(c)
    BY <1>7 DEF Handle
  <2>1. producer' = producer
    BY DEF HandleDuplicate, HandleSpeak, AckSpeak, SpeakRefused, SpeakLocked, HandleOther, ReportOther, serverVars
  <2>2. CASE HandleSpeak(c)
    <3>1. UNCHANGED storeVars
      BY <2>2 DEF HandleSpeak
    <3> QED BY <2>1, <3>1, UpkeepBinds DEF Upkeep
  <2>3. CASE HandleDuplicate(c)
    <3>1. Post(c, table[c]) /\ table[c] \in AckStates
      BY <1>0, <2>3 DEF HandleDuplicate, Duplicate, DuplicateAnswer
    <3> QED BY <1>1, <2>1, <3>1
  <2>4. CASE AckSpeak(c) \/ SpeakRefused(c) \/ SpeakLocked(c) \/ HandleOther(c) \/ ReportOther(c)
    <3>1. \E s \in AckStates : Post(c, s)
      BY <2>4 DEF AckSpeak, SpeakRefused, SpeakLocked, HandleOther, ReportOther, AckStates
    <3> QED BY <1>1, <2>1, <3>1
  <2> QED BY <2>2, <2>3, <2>4
<1>8. CASE SpeakTake
  <2>1. producer' = producer
    BY <1>8 DEF SpeakTake, serverVars
  <2>2. Head(speech) \in Cmd \cup {Local}
    <3>1. speech \in Seq(Cmd \cup {Local}) /\ speech # << >>
      BY <1>0, <1>8 DEF SpeakTake, NoteTypes
    <3> QED BY <3>1, TailIs
  <2>3. UNCHANGED storeVars \/ \E c \in Cmd, s \in AckStates : Post(c, s)
    BY <1>8, <2>2 DEF SpeakTake, AckStates
  <2> QED BY <1>1, <2>1, <2>3, UpkeepBinds DEF Upkeep
<1>9. CASE SpeakReport
  <2>1. producer' = producer /\ \E c \in Cmd, s \in AckStates : Post(c, s)
    BY <1>0, <1>9 DEF SpeakReport, serverVars, AckStates, NoteTypes
  <2> QED BY <1>1, <2>1
<1> QED BY <1>2, <1>3, <1>4, <1>5, <1>6, <1>7, <1>8, <1>9 DEF DeliveryNext, CommandTask, SpeechWorker

\* The row and the stamp are made in one step.
LEMMA StepMakes ==
    TypeOK /\ LinkTypes /\ MadeInv /\ [DeliveryNext]_allVars => MadeInv'
<1> SUFFICES ASSUME TypeOK, LinkTypes, MadeInv, [DeliveryNext]_allVars PROVE MadeInv'
  OBVIOUS
<1>1. \A c \in Cmd : state[c] # "absent" => state'[c] # "absent"
  BY LinkStep, StepIsFinal DEF StoreStep
<1>2. \A c \in Cmd : Made(c)' => Made(c) \/ state'[c] # "absent"
  <2>1. CASE ~Produce
    BY <2>1, OthersMakeNothing DEF Made
  <2>2. CASE Produce
    <3> PICK x \in Cmd : SinkCreate(x) \/ ReadBoot(x) \/ LegacyCreate(x) \/ PutInMemory(x)
      BY <2>2 DEF Produce
    <3>1. producer \in [Cmd -> ProducerState] /\ state \in [Cmd -> CommandState \cup {"absent"}]
      BY DEF LinkTypes, ServerTypes, TypeOK
    <3>2. \A c \in Cmd \ {x} : producer'[c] = producer[c]
      BY <3>1 DEF SinkCreate, ReadBoot, LegacyCreate, PutInMemory
    <3>3. Made(x)' => Made(x) \/ state'[x] # "absent"
      <4>1. CASE SinkCreate(x) \/ LegacyCreate(x)
        <5>1. \E b : CreateCommand(x, b)
          BY <4>1 DEF SinkCreate, LegacyCreate
        <5>2. state' = [state EXCEPT ![x] = "queued"]
          BY <5>1 DEF CreateCommand
        <5> QED BY <3>1, <5>2
      <4>2. CASE ReadBoot(x)
        <5>1. producer'[x].at = "stamped"
          BY <3>1, <4>2 DEF ReadBoot
        <5> QED BY <5>1 DEF Made
      <4>3. CASE PutInMemory(x)
        BY <4>3 DEF PutInMemory, Made
      <4> QED BY <4>1, <4>2, <4>3
    <3> QED BY <3>2, <3>3 DEF Made
  <2> QED BY <2>1, <2>2
<1> QED BY <1>1, <1>2 DEF MadeInv

\* Only a restart changes the boot, and only two steps execute a command.
RunsNow(c) ==
    /\ c \in Cmd /\ Executing(c) /\ devBoot' = devBoot
    /\ Post(c, "received") \/ Post(c, "running")
    /\ \/ table[c] = "none" /\ task = "handling" /\ inbox = c
       \/ speech # << >> /\ c = Head(speech)

LEMMA RunsOrNot ==
    ASSUME LinkTypes, [DeliveryNext]_allVars
    PROVE  Reboot \/ UNCHANGED <<devBoot, executed>> \/ \E c \in Cmd : RunsNow(c)
<1> DEFINE Quiet == UNCHANGED <<devBoot, executed>>
<1>1. CASE Produce \/ MemoryExpires \/ Hello \/ (\E c \in Cmd : Replay(c)) \/ (\E h \in Handler : StartPoll(h))
           \/ GiveUpPoll \/ LocalSpeech \/ Heartbeat \/ LateAck \/ TimePasses \/ UNCHANGED allVars
  BY <1>1 DEF Produce, SinkCreate, ReadBoot, LegacyCreate, PutInMemory, MemoryExpires, Hello, Replay,
              StartPoll, GiveUpPoll, LocalSpeech, Heartbeat, LateAck, TimePasses, deviceVars, allVars
<1>2. CASE \E h \in Handler : PollStep(h)
  <2>1. UNCHANGED deviceVars \/ \E h \in Handler : \E c : Reply(h, c)
    BY <1>2 DEF PollStep, PollObserve, PollAdopt, PollGate, PollSelect, PollLease, PollDiscard, PollGet,
                PollGrab, PollTimeout, PollLast
  <2> QED BY <2>1 DEF deviceVars, Reply
<1>3. CASE Handle
  <2> PICK c \in Cmd : \/ HandleDuplicate(c) \/ HandleSpeak(c) \/ AckSpeak(c) \/ SpeakRefused(c)
                       \/ SpeakLocked(c) \/ HandleOther(c) \/ ReportOther(c)
    BY <1>3 DEF Handle
  <2>1. CASE HandleOther(c)
    BY <2>1 DEF HandleOther, RunsNow, Duplicate
  <2>2. CASE ~HandleOther(c)
    BY <2>2 DEF HandleDuplicate, HandleSpeak, AckSpeak, SpeakRefused, SpeakLocked, ReportOther
  <2> QED BY <2>1, <2>2
<1>4. CASE SpeakTake
  <2>1. /\ speech # << >> /\ UNCHANGED <<serverVars, devBoot>>
        /\ \/ executed' = executed
           \/ Head(speech) # Local /\ Post(Head(speech), "running") /\ Executing(Head(speech))
    BY <1>4 DEF SpeakTake, Executing
  <2>2. Head(speech) \in Cmd \cup {Local}
    BY <2>1, DeviceParts, TailIs DEF NoteTypes
  <2> QED BY <2>1, <2>2 DEF RunsNow
<1>5. CASE SpeakReport
  BY <1>5 DEF SpeakReport
<1>6. CASE Reboot
  BY <1>6
<1> QED BY <1>1, <1>2, <1>3, <1>4, <1>5, <1>6 DEF DeliveryNext, CommandTask, SpeechWorker

\* The server learns of a boot from the device that has it.
LEMMA StepKnows ==
    TypeOK /\ LinkTypes /\ KnownInv /\ [DeliveryNext]_allVars => KnownInv'
<1> SUFFICES ASSUME TypeOK, LinkTypes, KnownInv, [DeliveryNext]_allVars PROVE KnownInv'
  OBVIOUS
<1>0. /\ boot \in [Device -> Boots \cup {0}] /\ dev \in Device /\ devBoot \in Boots /\ Boots \subseteq Nat
      /\ producer \in [Cmd -> ProducerState] /\ handler \in [Handler -> HandlerState]
  BY DeviceParts, DeliveryAssumption, StoreAssumption
     DEF DeliveryAssumption, StoreAssumption, TypeOK, ServerTypes
<1>1. \A b \in Boots \cup {0} : b <= devBoot => b <= devBoot'
  <2>1. devBoot' = devBoot \/ devBoot' = devBoot + 1
    BY RunsOrNot DEF Reboot, RunsNow
  <2> QED BY <1>0, <2>1
\* The boot the tables have for the device is the one they had, or that of a
\* poll, or the device's own.
<1>2. \/ boot' = boot
      \/ boot' = [boot EXCEPT ![dev] = devBoot]
      \/ \E h \in Handler : boot' = [boot EXCEPT ![dev] = handler[h].boot]
  <2>1. ASSUME NEW c \in Cmd, NEW s, Post(c, s) PROVE boot' = boot
    BY <2>1 DEF Post, Send, Arrive, RecordAck, storeVars, vars
  <2>2. CASE Produce
    BY <2>2 DEF Produce, SinkCreate, ReadBoot, LegacyCreate, PutInMemory, CreateCommand, storeVars, vars
  <2>3. CASE \E h \in Handler : PollStep(h)
    <3> PICK h \in Handler : PollStep(h)
      BY <2>3
    <3>1. CASE PollAdopt(h)
      BY <3>1 DEF PollAdopt, ObserveDeviceBoot
    <3>2. CASE ~PollAdopt(h)
      BY <3>2 DEF PollStep, PollObserve, PollGate, PollSelect, PollLease, PollDiscard, PollGet, PollGrab,
                  PollTimeout, PollLast, ExpireInactiveBoots, ExpireStaleDialogue, Sweep, LeaseCommand,
                  storeVars, vars
    <3> QED BY <3>1, <3>2
  <2>4. CASE Hello \/ Heartbeat
    BY <2>4 DEF Hello, Heartbeat, ObserveDeviceBoot, ExpireInactiveBoots, storeVars, vars
  <2>5. CASE MemoryExpires \/ TimePasses \/ GiveUpPoll \/ LocalSpeech \/ Reboot
             \/ (\E h \in Handler : StartPoll(h)) \/ UNCHANGED allVars
    BY <2>5 DEF MemoryExpires, TimePasses, Deadline, LeaseLapse, GiveUpPoll, LocalSpeech, Reboot, StartPoll,
                allVars, storeVars, vars
  <2>6. CASE LateAck
    BY <2>6 DEF LateAck, Arrive, RecordAck, storeVars, vars
  <2>7. CASE \E c \in Cmd : Replay(c)
    BY <2>1, <2>7 DEF Replay
  <2>8. CASE Handle
    <3> PICK c \in Cmd : \/ HandleDuplicate(c) \/ HandleSpeak(c) \/ AckSpeak(c) \/ SpeakRefused(c)
                         \/ SpeakLocked(c) \/ HandleOther(c) \/ ReportOther(c)
      BY <2>8 DEF Handle
    <3>1. CASE HandleSpeak(c)
      BY <3>1 DEF HandleSpeak, storeVars, vars
    <3>2. CASE ~HandleSpeak(c)
      BY <2>1, <3>2 DEF HandleDuplicate, AckSpeak, SpeakRefused, SpeakLocked, HandleOther, ReportOther
    <3> QED BY <3>1, <3>2
  <2>9. CASE SpeakTake
    <3>1. CASE UNCHANGED storeVars
      BY <3>1 DEF storeVars, vars
    <3>2. CASE \E s : Post(Head(speech), s)
      BY <3>2 DEF Post, Send, Arrive, RecordAck, storeVars, vars
    <3> QED BY <2>9, <3>1, <3>2 DEF SpeakTake
  <2>10. CASE SpeakReport
    BY <2>10 DEF SpeakReport, Post, Send, Arrive, RecordAck, storeVars, vars
  <2> QED BY <2>2, <2>3, <2>4, <2>5, <2>6, <2>7, <2>8, <2>9, <2>10 DEF DeliveryNext, CommandTask, SpeechWorker
<1>3. boot'[dev] <= devBoot'
  <2>1. /\ boot[dev] \in Boots \cup {0} /\ boot[dev] <= devBoot /\ devBoot <= devBoot
        /\ \A h \in Handler : handler[h].boot \in Boots \cup {0} /\ handler[h].boot <= devBoot
    BY <1>0 DEF KnownInv, HandlerState
  <2>2. boot'[dev] \in {boot[dev], devBoot} \cup {handler[h].boot : h \in Handler}
    BY <1>0, <1>2
  <2>3. boot'[dev] \in Boots \cup {0} /\ boot'[dev] <= devBoot
    BY <1>0, <2>1, <2>2
  <2> QED BY <1>1, <2>3
<1>4. \A h \in Handler : handler'[h].boot \in {handler[h].boot, devBoot, 0}
  <2> SUFFICES ASSUME NEW g \in Handler PROVE handler'[g].boot \in {handler[g].boot, devBoot, 0}
    OBVIOUS
  <2>1. CASE handler' = handler
    BY <2>1
  <2>2. ASSUME NEW h \in Handler, NEW at, NEW c, Go(h, at, c) PROVE handler'[g].boot = handler[g].boot
    <3> DEFINE r == [handler[h] EXCEPT !.at = at, !.cmd = c]
    <3>1. handler' = [handler EXCEPT ![h] = r]
      BY <2>2 DEF Go
    <3>2. r.boot = handler[h].boot
      BY <1>0 DEF HandlerState
    <3> HIDE DEF r
    <3> QED BY <1>0, <3>1, <3>2
  <2>3. ASSUME NEW h \in Handler, NEW c, Reply(h, c) PROVE handler'[g].boot \in {handler[g].boot, 0}
    <3> DEFINE r == [at |-> "free", boot |-> 0, speak |-> TRUE, cmd |-> NoCmd]
    <3>1. handler' = [handler EXCEPT ![h] = r]
      BY <2>3 DEF Reply
    <3>2. r.boot = 0
      OBVIOUS
    <3> HIDE DEF r
    <3> QED BY <1>0, <3>1, <3>2
  <2>4. CASE \E h \in Handler : PollStep(h)
    <3>1. \E h \in Handler : (\E c : Reply(h, c)) \/ \E at, c : Go(h, at, c)
      BY <2>4 DEF PollStep, PollObserve, PollAdopt, PollGate, PollSelect, PollLease, PollDiscard,
                  PollGet, PollGrab, PollTimeout, PollLast
    <3> QED BY <2>2, <2>3, <3>1
  <2>5. CASE \E h \in Handler : StartPoll(h)
    <3> PICK h \in Handler : StartPoll(h)
      BY <2>5
    <3> DEFINE r == [at |-> "observe", boot |-> devBoot, cmd |-> NoCmd, speak |-> SpeechRoom]
    <3>1. handler' = [handler EXCEPT ![h] = r] /\ r.boot = devBoot
      BY DEF StartPoll
    <3> HIDE DEF r
    <3> QED BY <1>0, <3>1
  <2>6. CASE Produce \/ MemoryExpires \/ Hello \/ (\E c \in Cmd : Replay(c)) \/ Handle \/ GiveUpPoll
             \/ SpeechWorker \/ LocalSpeech \/ Heartbeat \/ Reboot \/ LateAck \/ TimePasses \/ UNCHANGED allVars
    <3>1. handler' = handler
      BY <2>6 DEF Produce, SinkCreate, ReadBoot, LegacyCreate, PutInMemory, MemoryExpires, Hello, Replay,
           Handle, HandleDuplicate, HandleSpeak, AckSpeak, SpeakRefused, SpeakLocked, HandleOther,
           ReportOther, GiveUpPoll, SpeechWorker, SpeakTake, SpeakReport, LocalSpeech, Heartbeat,
           Reboot, LateAck, TimePasses, serverVars, allVars
    <3> QED BY <2>1, <3>1
  <2> QED BY <2>4, <2>5, <2>6 DEF DeliveryNext, CommandTask
<1>5. \A c \in Cmd : producer'[c].boot \in {producer[c].boot, boot[dev]}
  <2>1. CASE ~Produce
    BY <2>1, OthersMakeNothing
  <2>2. CASE Produce
    <3> PICK x \in Cmd : SinkCreate(x) \/ ReadBoot(x) \/ LegacyCreate(x) \/ PutInMemory(x)
      BY <2>2 DEF Produce
    <3>1. CASE SinkCreate(x) \/ ReadBoot(x)
      BY <1>0, <3>1 DEF SinkCreate, ReadBoot
    <3>2. CASE LegacyCreate(x) \/ PutInMemory(x)
      <4>1. PICK at \in {"created", "done"} : producer' = [producer EXCEPT ![x] = [producer[x] EXCEPT !.at = at]]
        BY <3>2 DEF LegacyCreate, PutInMemory
      <4> DEFINE r == [producer[x] EXCEPT !.at = at]
      <4>2. r.boot = producer[x].boot /\ producer' = [producer EXCEPT ![x] = r]
        BY <1>0, <4>1 DEF ProducerState
      <4> HIDE DEF r
      <4> QED BY <1>0, <4>2
    <3> QED BY <3>1, <3>2
  <2> QED BY <2>1, <2>2
<1>6. \A h \in Handler : handler'[h].boot <= devBoot'
  <2>1. \A h \in Handler : handler[h].boot \in Boots \cup {0} /\ handler[h].boot <= devBoot
    BY <1>0 DEF HandlerState, KnownInv
  <2>2. devBoot <= devBoot' /\ 0 <= devBoot'
    BY <1>0, <1>1
  <2> QED BY <1>1, <1>4, <2>1, <2>2
<1>7. \A c \in Cmd : producer'[c].boot <= devBoot'
  <2>1. \A c \in Cmd : producer[c].boot \in Boots \cup {0} /\ producer[c].boot <= devBoot
    BY <1>0 DEF ProducerState, KnownInv
  <2>2. boot[dev] \in Boots \cup {0} /\ boot[dev] <= devBoot
    BY <1>0 DEF KnownInv
  <2> QED BY <1>1, <1>5, <2>1, <2>2
<1> QED BY <1>3, <1>6, <1>7 DEF KnownInv

-----------------------------------------------------------------------------
\* Every transaction keeps each outcome, and one that neither makes rows nor
\* claims what was not begun settles rows.
LEMMA SettlesIf ==
    ASSUME TypeOK, TypeOK', StoreStep, BindsOnce, UNCHANGED <<producer, devBoot, executed>>,
           ReportedMeansExecuted'
    PROVE  Promise!Settle
<1>0. state \in [Cmd -> CommandState \cup {"absent"}] /\ state' \in [Cmd -> CommandState \cup {"absent"}]
  BY DEF TypeOK
<1> DEFINE row == [c \in Cmd |-> Standing(c)]
<1>1. \A c \in Cmd : /\ row[c] = (IF state[c] \in Live THEN "open" ELSE state[c])
                     /\ row'[c] = (IF state'[c] \in Live THEN "open" ELSE state'[c])
  BY DEF Standing
<1>2. row' \in [Cmd -> {"absent", "open"} \cup Promise!Outcome]
  BY <1>0 DEF Standing, CommandState, Terminal, Promise!Outcome, Promise!Success
<1>3. ASSUME NEW c \in Cmd, row'[c] # row[c]
      PROVE  /\ row[c] = "open" /\ row'[c] \in Promise!Outcome
             /\ row'[c] \in Promise!Success => Promise!Ran(c)
  <2>1. /\ state[c] \in Terminal => state'[c] = state[c]
        /\ state[c] = "absent" => state'[c] = "absent"
        /\ state[c] # "absent" => state'[c] # "absent"
    BY StepIsFinal DEF StoreStep, BindsOnce
  <2>2. state[c] \in Live /\ state'[c] \in Terminal
    BY <1>0, <1>1, <1>3, <2>1 DEF CommandState
  <2>3. row[c] = "open" /\ row'[c] = state'[c]
    BY <1>1, <2>2 DEF Terminal, Live
  <2>4. state'[c] \in {"rendered", "done"} => \E b \in Boots : executed[c][b] > 0
    BY DEF ReportedMeansExecuted
  <2> QED BY <2>2, <2>3, <2>4 DEF Promise!Outcome, Promise!Success, Promise!Ran, Terminal
<1>4. [c \in Cmd |-> Stamp(c)]' = [c \in Cmd |-> Stamp(c)]
  BY DEF Stamp, Made
<1> QED BY <1>2, <1>3, <1>4 DEF Promise!Settle

LEMMA ProducersAccept ==
    ASSUME TypeOK, TypeOK', LinkTypes, KnownInv, Produce
    PROVE  (\E c \in Cmd : \E b \in 0 .. devBoot : Promise!Accept(c, b)) \/ UNCHANGED Promise!promiseVars
<1> PICK c \in Cmd : SinkCreate(c) \/ ReadBoot(c) \/ LegacyCreate(c) \/ PutInMemory(c)
  BY DEF Produce
<1>0. /\ producer \in [Cmd -> ProducerState] /\ state \in [Cmd -> CommandState \cup {"absent"}]
      /\ UNCHANGED <<devBoot, executed>>
      /\ devBoot \in Nat /\ boot[dev] \in Nat /\ boot[dev] <= devBoot
      /\ producer[c].boot \in Nat /\ producer[c].boot <= devBoot
  <2>1. Boots \subseteq Nat /\ dev \in Device /\ devBoot \in Boots /\ producer \in [Cmd -> ProducerState]
    BY DeviceParts, StoreAssumption, DeliveryAssumption DEF StoreAssumption, DeliveryAssumption, ServerTypes
  <2> QED BY <2>1 DEF TypeOK, ProducerState, KnownInv, SinkCreate, ReadBoot, LegacyCreate, PutInMemory, deviceVars
\* One command is made, with the boot its producer has.
<1>1. ASSUME NEW b, NEW s, CreateCommand(c, s), b \in Nat, b <= devBoot, ~Made(c),
             producer' = [producer EXCEPT ![c] = [at |-> "created", boot |-> b]]
      PROVE  Promise!Accept(c, b)
  <2>1. /\ state[c] = "absent" /\ state' = [state EXCEPT ![c] = "queued"]
    BY <1>1 DEF CreateCommand
  <2>2. \A x \in Cmd \ {c} : Standing(x)' = Standing(x) /\ Stamp(x)' = Stamp(x)
    BY <1>0, <1>1, <2>1 DEF Standing, Stamp, Made
  <2>3. Standing(c) = "absent" /\ Standing(c)' = "open" /\ Stamp(c)' = b
    BY <1>0, <1>1, <2>1 DEF Standing, Stamp, Made, Live
  <2>4. [x \in Cmd |-> Standing(x)]' = [[x \in Cmd |-> Standing(x)] EXCEPT ![c] = "open"]
    BY <2>2, <2>3
  <2>5. [x \in Cmd |-> Stamp(x)]' = [[x \in Cmd |-> Stamp(x)] EXCEPT ![c] = b]
    BY <2>2, <2>3
  <2> QED BY <1>0, <2>3, <2>4, <2>5 DEF Promise!Accept
\* A producer that makes no row shows no step.
<1>2. ASSUME UNCHANGED storeVars, \A x \in Cmd : Stamp(x)' = Stamp(x)
      PROVE  UNCHANGED Promise!promiseVars
  <2>1. \A x \in Cmd : Standing(x)' = Standing(x)
    BY <1>2 DEF Standing, storeVars, vars, rowVars
  <2> QED BY <1>0, <1>2, <2>1 DEF Promise!promiseVars
<1>3. CASE SinkCreate(c)
  <2>1. Promise!Accept(c, boot[dev])
    BY <1>0, <1>1, <1>3 DEF SinkCreate, Made
  <2> QED BY <1>0, <2>1
<1>4. CASE LegacyCreate(c)
  <2>1. producer' = [producer EXCEPT ![c] = [at |-> "created", boot |-> producer[c].boot]]
    <3>1. producer' = [producer EXCEPT ![c] = [producer[c] EXCEPT !.at = "created"]]
      BY <1>4 DEF LegacyCreate
    <3>2. [producer[c] EXCEPT !.at = "created"] = [at |-> "created", boot |-> producer[c].boot]
      BY <1>0 DEF ProducerState
    <3> QED BY <3>1, <3>2
  <2>2. Promise!Accept(c, producer[c].boot)
    BY <1>0, <1>1, <1>4, <2>1 DEF LegacyCreate, Made
  <2> QED BY <1>0, <2>2
<1>5. CASE ReadBoot(c)
  <2>1. UNCHANGED storeVars /\ ~Made(c) /\ ~Made(c)' /\ \A x \in Cmd \ {c} : producer'[x] = producer[x]
    BY <1>0, <1>5 DEF ReadBoot, Made
  <2>2. \A x \in Cmd : Stamp(x)' = Stamp(x)
    BY <2>1 DEF Stamp, Made
  <2> QED BY <1>2, <2>1, <2>2
<1>6. CASE PutInMemory(c)
  <2>1. /\ UNCHANGED storeVars /\ Made(c)
        /\ producer' = [producer EXCEPT ![c] = [producer[c] EXCEPT !.at = "done"]]
    BY <1>6 DEF PutInMemory, Made
  <2>2. Made(c)' /\ producer'[c].boot = producer[c].boot /\ \A x \in Cmd \ {c} : producer'[x] = producer[x]
    BY <1>0, <2>1 DEF Made, ProducerState
  <2>3. \A x \in Cmd : Stamp(x)' = Stamp(x)
    BY <2>1, <2>2 DEF Stamp, Made
  <2> QED BY <1>2, <2>1, <2>3
<1> QED BY <1>3, <1>4, <1>5, <1>6

\* An execution begins a command that has not run in this boot and is meant
\* for it, and its ACK settles nothing.
LEMMA RunsOnce ==
    ASSUME TypeOK, TypeOK', LinkTypes, StoreStep, OnceInv, BootInv, MadeInv,
           NEW c \in Cmd, RunsNow(c), producer' = producer
    PROVE  Promise!Run(c)
<1>0. /\ NoteTypes /\ devBoot \in Boots /\ devBoot' = devBoot /\ DeviceTypes /\ late \subseteq Request
      /\ executed \in [Cmd -> [Boots -> Nat]] /\ state \in [Cmd -> CommandState \cup {"absent"}]
  BY DeviceParts DEF RunsNow, LinkTypes, TypeOK
<1>1. executed[c][devBoot] = 0 /\ Fits(c, devBoot)
  <2>1. CASE table[c] = "none" /\ task = "handling" /\ inbox = c
    BY <2>1 DEF OnceInv, BootInv, InboxFits
  <2>2. CASE speech # << >> /\ c = Head(speech)
    <3>1. 1 \in DOMAIN speech /\ speech[1] = c
      BY <1>0, <2>2, TailIs DEF NoteTypes
    <3> QED BY <3>1 DEF OnceInv, BootInv, SpeechFits
  <2> QED BY <2>1, <2>2 DEF RunsNow
<1>2. executed' = [executed EXCEPT ![c][devBoot] = 1]
  BY <1>0, <1>1 DEF RunsNow, Executing
<1>3. Standing(c) # "absent" /\ Stamp(c) \in {0, devBoot}
  BY <1>1 DEF Fits, MadeInv, Standing, Stamp
<1>4. \A x \in Cmd : Standing(x)' = Standing(x)
  <2>1. PICK s \in {"received", "running"} : Post(c, s)
    BY DEF RunsNow
  <2>2. s \in AckStates /\ s \in Live
    BY DEF AckStates, Live
  <2>3. Arrive(c, s, devBoot) \/ UNCHANGED storeVars
    BY <1>0, <2>1, <2>2, PostDoes
  <2>4. CASE UNCHANGED storeVars
    BY <2>4 DEF Standing, storeVars, vars, rowVars
  <2>5. CASE RecordAck(c, s, devBoot)
    <3>1. /\ state[c] # "absent" /\ s # "deferred"
          /\ state' = [state EXCEPT ![c] = IF AckCanAdvance(state[c], s) THEN s ELSE @]
      BY <2>1, <2>5 DEF RecordAck
    <3>2. state[c] \in Terminal => state'[c] = state[c]
      BY StepIsFinal DEF StoreStep
    <3>3. state'[c] = state[c] \/ (state[c] \in Live /\ state'[c] \in Live)
      BY <1>0, <2>2, <3>1, <3>2 DEF CommandState
    <3> QED BY <1>0, <3>1, <3>3 DEF Standing
  <2> QED BY <2>3, <2>4, <2>5 DEF Arrive
<1>5. \A x \in Cmd : Stamp(x)' = Stamp(x)
  BY DEF Stamp, Made
<1> QED BY <1>0, <1>1, <1>2, <1>3, <1>4, <1>5 DEF Promise!Run

PromiseInv == OnceInv /\ ReportInv /\ BootInv /\ MadeInv /\ KnownInv

LEMMA StepPromised ==
    TypeOK /\ LinkTypes /\ PromiseInv /\ [DeliveryNext]_allVars
        => PromiseInv' /\ [Promise!Next]_(Promise!promiseVars)
<1> SUFFICES ASSUME TypeOK, LinkTypes, PromiseInv, [DeliveryNext]_allVars
             PROVE  PromiseInv' /\ [Promise!Next]_(Promise!promiseVars)
  OBVIOUS
<1>0. OnceInv /\ ReportInv /\ BootInv /\ MadeInv /\ KnownInv
  BY DEF PromiseInv
<1>1. PromiseInv'
  BY <1>0, StepOnce, StepReports, StepFits, StepMakes, StepKnows DEF PromiseInv
<1>2. StoreStep /\ TypeOK' /\ ReportedMeansExecuted'
  BY <1>1, LinkStep DEF PromiseInv, ReportInv
<1> SUFFICES [Promise!Next]_(Promise!promiseVars)
  BY <1>1
<1>3. CASE Produce
  BY <1>0, <1>2, <1>3, ProducersAccept DEF Promise!Next
<1>4. CASE ~Produce
  <2>1. producer' = producer /\ BindsOnce
    BY <1>4, OthersMakeNothing
  <2>2. CASE UNCHANGED <<devBoot, executed>>
    BY <1>2, <2>1, <2>2, SettlesIf DEF Promise!Next
  <2>3. ASSUME NEW c \in Cmd, RunsNow(c) PROVE Promise!Run(c)
    BY <1>0, <1>2, <2>1, <2>3, RunsOnce
  <2>4. CASE Reboot
    <3>1. UNCHANGED <<storeVars, producer, executed>> /\ devBoot' = devBoot + 1 /\ devBoot' \in Boots
      BY <2>1, <2>4 DEF Reboot
    <3>2. \A x \in Cmd : Standing(x)' = Standing(x) /\ Stamp(x)' = Stamp(x)
      BY <3>1 DEF Standing, Stamp, Made, storeVars, vars, rowVars
    <3>3. Promise!Restart
      BY <3>1, <3>2 DEF Promise!Restart
    <3> QED BY <3>3 DEF Promise!Next
  <2> QED BY <2>2, <2>3, <2>4, RunsOrNot DEF Promise!Next
<1> QED BY <1>3, <1>4

\* The delivery implements CommandPromise: whatever is lost, late, sent twice
\* or cut off by a restart, a command is accepted once, run at most once in a
\* boot and in no boot but its own, and settled once and truly.
THEOREM DeliveryKeepsItsPromise == DeliverySpec => DeliversAsPromised
<1>1. DeliveryInit => PromiseInv
  <2> SUFFICES ASSUME DeliveryInit PROVE MadeInv /\ KnownInv
    BY OnceInit, ReportInit, BootInit DEF PromiseInv
  <2>1. MadeInv
    BY DEF DeliveryInit, MadeInv, Made
  <2>2. KnownInv
    BY DeliveryAssumption DEF DeliveryInit, Init, KnownInv, DeliveryAssumption
  <2> QED BY <2>1, <2>2
<1>2. DeliveryInit => Promise!Init
  <2> SUFFICES ASSUME DeliveryInit PROVE Promise!Init
    OBVIOUS
  <2>1. \A c \in Cmd : Standing(c) = "absent" /\ Stamp(c) = 0
    BY DEF DeliveryInit, Init, Standing, Stamp, Made, Live
  <2> QED BY <2>1 DEF DeliveryInit, Promise!Init
<1> QED BY <1>1, <1>2, LinkTyped, StepPromised, PTL DEF DeliverySpec, DeliversAsPromised, Promise!Spec
=============================================================================
