-------------------------- MODULE NoticeOutboxProofs --------------------------
(***************************************************************************)
(* Proofs about the reminder outbox, for every set of reminders, however   *)
(* many sentences they have and however often they are submitted, and      *)
(* every capacity of the memory queue and LIMIT of the scan.               *)
(***************************************************************************)
EXTENDS NoticeOutbox, CommandStoreProofs, FiniteSetTheorems, SequenceTheorems

QP == INSTANCE DeviceCommandQueueProofs WITH
         QCmd <- Cmd, QBoots <- Boots \cup {0}, Meta <- QueueMeta, MaxSize <- QueueSize,
         items <- memory

-----------------------------------------------------------------------------
(* The in-memory queue: what its operations leave in it.                    *)

LEMMA QueueParameters == QP!QueueAssumption
  BY OutboxAssumption DEF OutboxAssumption, QP!QueueAssumption, QP!CommandMeta, Queue!CommandMeta

LEMMA SameTypes == (Queue!TypeOK <=> QP!TypeOK) /\ Queue!Item = QP!Item
  BY DEF Queue!TypeOK, QP!TypeOK, Queue!Item, QP!Item

\* The two instances of the queue, and of the library under it, are one.
LEMMA SameToSet == \A s : QP!ToSet(s) = ToSet(s)
  BY DEF QP!ToSet, ToSet

LEMMA SameCardinality == \A S : Queue!Cardinality(S) = QP!Cardinality(S)
  BY DEF Queue!Cardinality, QP!Cardinality

LEMMA SameNth == \A I, k : Queue!Nth(I, k) = QP!Nth(I, k)
  BY SameCardinality DEF Queue!Nth, QP!Nth

LEMMA SameKept == ASSUME NEW q, NEW I PROVE Queue!Kept(q, I) = QP!Kept(q, I)
  BY SameCardinality, SameNth DEF Queue!Kept, QP!Kept

LEMMA SameWithout == ASSUME NEW q, NEW i PROVE Queue!Without(q, i) = QP!Without(q, i)
  BY SameKept DEF Queue!Without, QP!Without

LEMMA SameThinned == ASSUME NEW q, NEW e PROVE Queue!Thinned(q, e) = QP!Thinned(q, e)
  BY SameKept
     DEF Queue!Thinned, QP!Thinned, Queue!Preempted, QP!Preempted, Queue!Coalesced, QP!Coalesced,
         Queue!Priority, QP!Priority

LEMMA SameOutranked ==
    ASSUME NEW q, NEW e
    PROVE  Queue!Outranked(q, e) = QP!Outranked(q, e) /\ Queue!DropIndex(q, e) = QP!DropIndex(q, e)
  BY DEF Queue!Outranked, QP!Outranked, Queue!DropIndex, QP!DropIndex, Queue!LowestOldest,
         QP!LowestOldest, Queue!Priority, QP!Priority

LEMMA SameAfterPut == ASSUME NEW q, NEW e PROVE Queue!AfterPut(q, e) = QP!AfterPut(q, e)
  BY SameThinned, SameOutranked, SameWithout DEF Queue!AfterPut, QP!AfterPut

LEMMA PutInQueue ==
    ASSUME Queue!TypeOK, NEW e \in Queue!Item, Queue!Put(e)
    PROVE  Queue!TypeOK' /\ ToSet(memory') \subseteq ToSet(memory) \cup {e}
<1>1. QP!Put(e)
  BY SameAfterPut DEF Queue!Put, QP!Put
<1>2. QP!TypeOK /\ e \in QP!Item
  BY SameTypes
<1>3. QP!TypeOK' /\ QP!ToSet(memory') \subseteq QP!ToSet(memory) \cup {e}
  BY <1>1, <1>2, QueueParameters, QP!PutTyped
<1>4. Queue!TypeOK'
  BY <1>3 DEF Queue!TypeOK, QP!TypeOK, Queue!Item, QP!Item
<1> QED BY <1>3, <1>4, SameToSet

LEMMA DropFromQueue ==
    ASSUME Queue!TypeOK, QP!Drops \/ memory' = memory
    PROVE  Queue!TypeOK' /\ ToSet(memory') \subseteq ToSet(memory)
<1>1. CASE QP!Drops
  <2>1. QP!TypeOK' /\ QP!ToSet(memory') \subseteq QP!ToSet(memory)
    BY <1>1, SameTypes, QueueParameters, QP!DropsTyped
  <2>2. Queue!TypeOK'
    BY <2>1 DEF Queue!TypeOK, QP!TypeOK, Queue!Item, QP!Item
  <2> QED BY <2>1, <2>2, SameToSet
<1>2. CASE memory' = memory
  BY <1>2 DEF Queue!TypeOK
<1> QED BY <1>1, <1>2

LEMMA LossInQueue ==
    ASSUME Queue!TypeOK, NEW i, memory' = Queue!Without(memory, i)
    PROVE  Queue!TypeOK' /\ ToSet(memory') \subseteq ToSet(memory)
<1>1. memory' = QP!Without(memory, i)
  BY SameWithout
<1> QED BY <1>1, QueueParameters, QP!WithoutDrops, DropFromQueue

LEMMA SpeechInQueue ==
    ASSUME Queue!TypeOK, NEW g, Queue!DiscardSpeechBefore(g)
    PROVE  Queue!TypeOK' /\ ToSet(memory') \subseteq ToSet(memory)
<1>1. QP!DiscardSpeechBefore(g)
  BY SameKept
     DEF Queue!DiscardSpeechBefore, QP!DiscardSpeechBefore, Queue!OldSpeechDiscarded, QP!OldSpeechDiscarded
<1> QED BY <1>1, QueueParameters, QP!DiscardSpeechDrops, DropFromQueue

LEMMA DiscardInQueue ==
    ASSUME Queue!TypeOK, NEW c, Queue!Discard(c)
    PROVE  Queue!TypeOK' /\ ToSet(memory') \subseteq ToSet(memory)
<1>1. QP!Discard(c)
  BY SameWithout DEF Queue!Discard, QP!Discard, Queue!AfterDiscard, QP!AfterDiscard
<1>2. memory \in Seq(QP!Item)
  BY SameTypes DEF Queue!TypeOK
<1> QED BY <1>1, <1>2, QueueParameters, QP!DiscardDrops, DropFromQueue

LEMMA BootsInQueue ==
    ASSUME Queue!TypeOK, NEW b, Queue!DiscardOtherBoots(b)
    PROVE  Queue!TypeOK' /\ ToSet(memory') \subseteq ToSet(memory)
<1>1. QP!DiscardOtherBoots(b)
  BY SameKept
     DEF Queue!DiscardOtherBoots, QP!DiscardOtherBoots, Queue!OtherBootsDiscarded, QP!OtherBootsDiscarded
<1> QED BY <1>1, QueueParameters, QP!DiscardOtherBootsDrops, DropFromQueue

\* What get returns is an item of the queue, of the boot it asks for.
LEMMA GetFromQueue ==
    ASSUME Queue!TypeOK, NEW b, NEW s, NEW f, Queue!Get(b, s, f)
    PROVE  LET x == memory[Queue!Best(memory, Queue!Eligible(memory, b, s, f))]
           IN  /\ x \in ToSet(memory) /\ x \in Queue!Item /\ (b # 0 => x.boot \in {0, b})
               /\ Queue!TypeOK' /\ ToSet(memory') \subseteq ToSet(memory)
<1> DEFINE I == Queue!Eligible(memory, b, s, f)
           i == Queue!Best(memory, I)
<1>1. QP!Get(b, s, f)
  BY SameWithout
     DEF Queue!Get, QP!Get, Queue!Eligible, QP!Eligible, Queue!Best, QP!Best, Queue!Priority, QP!Priority
<1>2. Queue!TypeOK' /\ ToSet(memory') \subseteq ToSet(memory)
  BY <1>1, QueueParameters, QP!GetDrops, DropFromQueue
<1>3. memory \in Seq(QP!Item) /\ I \in SUBSET DOMAIN memory /\ I # {}
  BY SameTypes DEF Queue!TypeOK, Queue!Get, Queue!Eligible
<1>4. i \in I
  <2>1. QP!Best(memory, I) = i
    BY DEF Queue!Best, QP!Best, Queue!Priority, QP!Priority
  <2> HIDE DEF I, i
  <2>2. QP!Best(memory, I) \in I
    BY <1>3, QueueParameters, QP!BestIs
  <2> QED BY <2>1, <2>2
<1>5. b # 0 => memory[i].boot \in {0, b}
  <2>1. I = Queue!Eligible(memory, b, s, f)
    OBVIOUS
  <2> HIDE DEF i
  <2> QED BY <1>4, <2>1 DEF Queue!Eligible
<1>6. memory[i] \in ToSet(memory) /\ memory[i] \in Queue!Item
  <2> HIDE DEF I, i
  <2> QED BY <1>3, <1>4, SameTypes DEF ToSet
<1> QED BY <1>2, <1>5, <1>6

-----------------------------------------------------------------------------
(* The batch of a scan, and the work of a thread.                           *)

Distinct(q) == \A i, j \in DOMAIN q : q[i] = q[j] => i = j

\* A scan picks reminders that nobody has submitted, and none of them twice.
LEMMA BatchIs ==
    ASSUME saved \in Seq(Notice)
    PROVE  /\ Batch \in Seq(Notice)
           /\ \A n \in ToSet(Batch) : n \in ToSet(saved) /\ Unsubmitted(n)
           /\ Distinct(saved) => Distinct(Batch)
<1> DEFINE due == {i \in DOMAIN saved : Unsubmitted(saved[i])}
           I   == {i \in due : Cardinality({j \in due : j < i}) < ScanLimit}
<1>1. I \in SUBSET DOMAIN saved /\ \A i \in I : Unsubmitted(saved[i])
  OBVIOUS
<1>2. Batch = QP!Kept(saved, I)
  <2>1. Batch = Queue!Kept(saved, I)
    BY DEF Batch
  <2> HIDE DEF I
  <2> QED BY <2>1, SameKept
<1> HIDE DEF I
<1>3. /\ Batch \in Seq(Notice)
      /\ \A k \in DOMAIN Batch : QP!Nth(I, k) \in I /\ Batch[k] = saved[QP!Nth(I, k)]
  BY <1>1, <1>2, QueueParameters, QP!KeptSeq
<1>4. \A n \in ToSet(Batch) : n \in ToSet(saved) /\ Unsubmitted(n)
  BY <1>1, <1>3 DEF ToSet
<1>5. ASSUME Distinct(saved), NEW k \in DOMAIN Batch, NEW l \in DOMAIN Batch, Batch[k] = Batch[l], k # l
      PROVE  FALSE
  <2>1. QP!Nth(I, k) = QP!Nth(I, l) /\ QP!Nth(I, k) \in DOMAIN saved
    BY <1>1, <1>3, <1>5 DEF Distinct
  <2>2. QP!Nth(I, k) \in Nat
    BY <2>1
  <2>3. k \in Nat /\ l \in Nat
    BY <1>3
  <2>4. k < l => QP!Nth(I, k) < QP!Nth(I, l)
    BY <1>1, <1>2, QueueParameters, QP!KeptOrder
  <2>5. l < k => QP!Nth(I, l) < QP!Nth(I, k)
    BY <1>1, <1>2, QueueParameters, QP!KeptOrder
  <2> QED BY <1>5, <2>1, <2>2, <2>3, <2>4, <2>5
<1>6. Distinct(saved) => Distinct(Batch)
  BY <1>5 DEF Distinct
<1> QED BY <1>3, <1>4, <1>6

SubmitterState ==
    [at : {"idle", "check", "mark", "create", "link"}, notice : Notice \cup {NoNotice},
     k : Nat, s : Nat, queued : Nat, batch : Seq(Notice)]

OutboxTypes ==
    /\ Queue!TypeOK
    /\ saved \in Seq(Notice) /\ late \subseteq ToSet(saved)
    /\ arrivals \in Seq(Notice)
    /\ submitter \in [Submitter -> SubmitterState]
    /\ submitted \in [Notice -> 0 .. MaxSubmissions]
    /\ playing \in Cmd \cup {NoCmd}
    /\ outcome \in [Cmd -> {"none", "rendered", "failed"}]

\* Where a thread with the work w can be, for the rows there are, those of
\* them that are too late, and the submissions begun.
Works(w, rows, due, begun) ==
    /\ ToSet(w.batch) \subseteq ToSet(rows)
    /\ w.at # "idle" => w.notice \in ToSet(rows)
    /\ w.at = "check" => w.queued = 0
    /\ w.at = "mark" => w.notice \in due
    /\ w.at \in {"create", "link"}
         => /\ w.s \in 1 .. Sentences[w.notice]
            /\ w.k \in 1 .. begun[w.notice]
            /\ w.queued <= w.s
    /\ w.at = "create" => w.queued < w.s
    /\ w.at = "link" => w.s = Sentences[w.notice]

WorkInv == \A t \in Submitter : Works(submitter[t], saved, late, submitted)

Assumed == OutboxAssumption /\ StoreAssumption

LEMMA Assumptions == Assumed /\ dev \in Device /\ \A n \in Notice : Sentences[n] \in Nat
  BY OutboxAssumption, StoreAssumption DEF Assumed, OutboxAssumption

LEMMA ToSetOf ==
    ASSUME NEW S, NEW q \in Seq(S)
    PROVE  /\ ToSet(q) \subseteq S
           /\ q # <<>> => Head(q) \in ToSet(q) /\ ToSet(Tail(q)) \subseteq ToSet(q)
           /\ \A e \in S : ToSet(Append(q, e)) = ToSet(q) \cup {e}
<1>1. ToSet(q) \subseteq S
  BY DEF ToSet
<1>2. ASSUME q # <<>> PROVE Head(q) \in ToSet(q) /\ ToSet(Tail(q)) \subseteq ToSet(q)
  <2>1. /\ Len(q) \in Nat /\ Len(q) >= 1 /\ DOMAIN q = 1 .. Len(q) /\ Head(q) = q[1]
        /\ DOMAIN Tail(q) = 1 .. (Len(q) - 1)
        /\ \A i \in 1 .. (Len(q) - 1) : Tail(q)[i] = q[i + 1]
    BY <1>2, HeadTailProperties
  <2>2. Head(q) \in ToSet(q)
    BY <2>1 DEF ToSet
  <2>3. \A i \in 1 .. (Len(q) - 1) : i + 1 \in DOMAIN q
    BY <2>1
  <2>4. ToSet(Tail(q)) \subseteq ToSet(q)
    BY <2>1, <2>3 DEF ToSet
  <2> QED BY <2>2, <2>4
<1>3. ASSUME NEW e \in S PROVE ToSet(Append(q, e)) = ToSet(q) \cup {e}
  <2> DEFINE r == Append(q, e)
  <2>1. DOMAIN q = 1 .. Len(q) /\ DOMAIN r = 1 .. (Len(q) + 1) /\ Len(q) \in Nat
    OBVIOUS
  <2>2. r[Len(q) + 1] = e /\ \A i \in DOMAIN q : r[i] = q[i]
    OBVIOUS
  <2>3. \A i \in DOMAIN r : i \in DOMAIN q \/ i = Len(q) + 1
    BY <2>1
  <2>4. Len(q) + 1 \in DOMAIN r /\ DOMAIN q \subseteq DOMAIN r
    BY <2>1
  <2> HIDE DEF r
  <2>5. ToSet(r) = ToSet(q) \cup {e}
    BY <2>2, <2>3, <2>4 DEF ToSet
  <2> QED BY <2>5 DEF r
<1> QED BY <1>1, <1>2, <1>3

LEMMA EmptySet == ToSet(<<>>) = {} /\ <<>> \in Seq(Notice)
  BY DEF ToSet

LEMMA IdleIs == /\ Idle \in SubmitterState /\ Idle.at = "idle" /\ Idle.batch = <<>>
                /\ \A rows, due, begun : Works(Idle, rows, due, begun)
  BY EmptySet DEF Idle, SubmitterState, Works

LEMMA BeginIs ==
    ASSUME NEW n \in Notice, NEW q \in Seq(Notice)
    PROVE  /\ Begin(n, q) \in SubmitterState
           /\ Begin(n, q).at = "check" /\ Begin(n, q).notice = n /\ Begin(n, q).batch = q
           /\ \A rows, due, begun : n \in ToSet(rows) /\ ToSet(q) \subseteq ToSet(rows)
                => Works(Begin(n, q), rows, due, begun)
  BY DEF Begin, SubmitterState, Works

LEMMA BeginBatchIs ==
    ASSUME NEW q \in Seq(Notice)
    PROVE  /\ BeginBatch(q) \in SubmitterState
           /\ q = <<>> => BeginBatch(q) = Idle
           /\ q # <<>> => BeginBatch(q) = Begin(Head(q), Tail(q)) /\ Head(q) \in Notice /\ Tail(q) \in Seq(Notice)
           /\ \A rows, due, begun : ToSet(q) \subseteq ToSet(rows) => Works(BeginBatch(q), rows, due, begun)
<1>1. CASE q = <<>>
  BY <1>1, IdleIs DEF BeginBatch
<1>2. CASE q # <<>>
  <2>1. Head(q) \in Notice /\ Tail(q) \in Seq(Notice)
    BY <1>2, HeadTailProperties
  <2>2. Head(q) \in ToSet(q) /\ ToSet(Tail(q)) \subseteq ToSet(q)
    BY <1>2, ToSetOf
  <2>3. BeginBatch(q) = Begin(Head(q), Tail(q))
    BY <1>2 DEF BeginBatch
  <2> DEFINE n == Head(q)
             r == Tail(q)
  <2> HIDE DEF n, r
  <2>4. n \in Notice /\ r \in Seq(Notice) /\ n \in ToSet(q) /\ ToSet(r) \subseteq ToSet(q)
    BY <2>1, <2>2 DEF n, r
  <2>5. BeginBatch(q) = Begin(n, r)
    BY <2>3 DEF n, r
  <2>6. /\ BeginBatch(q) \in SubmitterState
        /\ \A rows, due, begun : n \in ToSet(rows) /\ ToSet(r) \subseteq ToSet(rows)
             => Works(BeginBatch(q), rows, due, begun)
    BY <2>4, <2>5, BeginIs
  <2> QED BY <1>2, <2>1, <2>3, <2>4, <2>6
<1> QED BY <1>1, <1>2

\* A thread stays where it can be while rows are added, run out of time, or
\* are submitted by another.
LEMMA WorksOn ==
    ASSUME NEW w, NEW rows, NEW due, NEW begun, NEW rows2, NEW due2, NEW begun2,
           Works(w, rows, due, begun), ToSet(rows) \subseteq Notice,
           ToSet(rows) \subseteq ToSet(rows2), due \subseteq due2,
           \A n \in Notice : begun[n] \in Nat /\ begun2[n] \in Nat /\ begun[n] <= begun2[n]
    PROVE  Works(w, rows2, due2, begun2)
<1>1. ASSUME w.at \in {"create", "link"} PROVE w.k \in 1 .. begun2[w.notice]
  <2>1. w.notice \in Notice /\ w.k \in 1 .. begun[w.notice]
    BY <1>1 DEF Works
  <2>2. begun[w.notice] \in Nat /\ begun2[w.notice] \in Nat /\ begun[w.notice] <= begun2[w.notice]
    BY <2>1
  <2> QED BY <2>1, <2>2
<1> QED BY <1>1 DEF Works

-----------------------------------------------------------------------------
(* What a step of the outbox does to the store.                             *)

\* The transactions that leave the links of the reminders, and that no ACK
\* is behind ...
Upkeep ==
    \/ \E c \in Cmd : CreateCommand(c, boot[dev])
    \/ \E b \in Boots : b = boot[dev] + 1 /\ ObserveDeviceBoot(dev, b)
    \/ ExpireInactiveBoots \/ Sweep
    \/ \E c \in Cmd : LeaseCommand(c, boot[dev])
    \/ CancelBeforeGeneration(dev, MaxGeneration)
    \/ \E c \in Cmd : LeaseLapse(c)
    \/ UNCHANGED storeVars

\* ... an ACK of what the device has noted ...
Acking ==
    \E c \in Cmd, v \in {"rendered", "failed"} : RecordAck(c, v, boot[dev]) /\ outcome'[c] = v

\* ... the link of a reminder to the command for its last sentence ...
Linking ==
    \E n \in ToSet(saved), k \in 1 .. MaxSubmissions :
        LET c == <<n, k, Sentences[n]>>
        IN  /\ c \in Cmd /\ LinkNotice(n, c)
            /\ adrift' = IF state[c] \in {"absent", "rendered", "done", "cancelled"}
                         THEN adrift \cup {n} ELSE adrift \ {n}

\* ... and the end of reminders that are too late.
Expiring == (\E n \in late : MarkNoticeExpired(n)) \/ \E N \in SUBSET late : ExpireReceived(N)

SomeExpired ==
    /\ \E N \in SUBSET late :
          noticeState' = [n \in Notice |-> IF n \in N THEN "expired" ELSE noticeState[n]]
    /\ UNCHANGED <<boot, rowVars, timeVars, delivery, noticeCmd>>

LEMMA ExpiringIs == ASSUME TypeOK, Expiring PROVE SomeExpired
<1>1. ASSUME NEW m \in late, MarkNoticeExpired(m) PROVE SomeExpired
  <2>1. noticeState' = [n \in Notice |-> IF n \in {m} THEN "expired" ELSE noticeState[n]]
    BY <1>1 DEF MarkNoticeExpired, TypeOK
  <2>2. {m} \in SUBSET late
    OBVIOUS
  <2> QED BY <1>1, <2>1, <2>2 DEF SomeExpired, MarkNoticeExpired
<1>2. ASSUME NEW N \in SUBSET late, ExpireReceived(N) PROVE SomeExpired
  BY <1>2 DEF ExpireReceived, SomeExpired
<1> QED BY <1>1, <1>2 DEF Expiring

StoreDoes ==
    \/ Linking
    \/ /\ Upkeep \/ Acking \/ Expiring \/ \E n \in late : DeadlineOf(n)
       /\ adrift' = adrift

Grows ==
    /\ ToSet(saved) \subseteq ToSet(saved') /\ late \subseteq late'
    /\ \A c \in Cmd : outcome[c] # "none" => outcome'[c] = outcome[c]
    /\ saved' # saved => UNCHANGED storeVars

\* Each is a transaction of the store, or leaves it alone.
LEMMA StoreDoesNext == ASSUME TypeOK, OutboxTypes, StoreDoes PROVE [Next]_vars
<1>1. dev \in Device /\ boot[dev] \in Boots \cup {0} /\ MaxGeneration \in 0 .. MaxGeneration
  BY Assumptions, StoreAssumption DEF TypeOK, StoreAssumption
<1>2. CASE Upkeep
  BY <1>1, <1>2 DEF Upkeep, Next, storeVars
<1>3. CASE Acking
  BY <1>1, <1>3 DEF Acking, Next, AckStates
<1>4. CASE Linking
  <2>1. PICK n \in ToSet(saved), k \in 1 .. MaxSubmissions :
          <<n, k, Sentences[n]>> \in Cmd /\ LinkNotice(n, <<n, k, Sentences[n]>>)
    BY <1>4 DEF Linking
  <2>2. n \in Notice
    BY ToSetOf DEF OutboxTypes
  <2> QED BY <2>1, <2>2 DEF Next
<1>5. CASE Expiring
  <2>1. late \subseteq Notice
    BY ToSetOf DEF OutboxTypes
  <2> QED BY <1>5, <2>1 DEF Expiring, Next
<1>6. ASSUME NEW n, DeadlineOf(n) PROVE [Next]_vars
  <2> DEFINE C == {c \in Active \ {Other} : c[1] = n} \ overdue
  <2>1. C \in SUBSET Cmd /\ \A c \in C : Envelope[c].ttl
    BY OutboxAssumption DEF OutboxAssumption, Active
  <2>2. overdue' = overdue \cup C /\ C # {} /\ C \subseteq Active \ overdue
    BY <1>6 DEF DeadlineOf
  <2>3. Deadline(C)
    BY <1>6, <2>1, <2>2 DEF Deadline, DeadlineOf
  <2> QED BY <2>1, <2>3 DEF Next
<1> QED BY <1>2, <1>3, <1>4, <1>5, <1>6 DEF StoreDoes

\* So it keeps the types of the tables.
LEMMA StoreTyped == TypeOK /\ OutboxTypes /\ StoreDoes => TypeOK'
  BY StoreDoesNext, NextType

-----------------------------------------------------------------------------
(* A step keeps the types and the threads where they can be.                *)

Does == StoreDoes /\ OutboxTypes' /\ WorkInv' /\ Grows

\* Only thread t moves, to the work w.
LEMMA MoveThread ==
    ASSUME OutboxTypes, WorkInv, NEW t \in Submitter, NEW w \in SubmitterState,
           submitter' = [submitter EXCEPT ![t] = w], Works(w, saved', late', submitted'),
           ToSet(saved) \subseteq ToSet(saved'), late \subseteq late',
           submitted' \in [Notice -> 0 .. MaxSubmissions],
           \A n \in Notice : submitted[n] <= submitted'[n]
    PROVE  submitter' \in [Submitter -> SubmitterState] /\ WorkInv'
<1>1. submitter \in [Submitter -> SubmitterState] /\ submitted \in [Notice -> 0 .. MaxSubmissions]
  BY DEF OutboxTypes
<1>2. ToSet(saved) \subseteq Notice
  BY ToSetOf DEF OutboxTypes
<1>3. \A n \in Notice : submitted[n] \in Nat /\ submitted'[n] \in Nat /\ submitted[n] <= submitted'[n]
  BY <1>1
<1>4. ASSUME NEW u \in Submitter PROVE Works(submitter'[u], saved', late', submitted')
  <2>1. CASE u = t
    BY <1>1, <2>1
  <2>2. CASE u # t
    <3>1. submitter'[u] = submitter[u]
      BY <1>1, <2>2
    <3>2. Works(submitter[u], saved, late, submitted)
      BY DEF WorkInv
    <3>3. Works(submitter[u], saved', late', submitted')
      BY <1>2, <1>3, <3>2, WorksOn
    <3> QED BY <3>1, <3>3
  <2> QED BY <2>1, <2>2
<1> QED BY <1>1, <1>4 DEF WorkInv

\* No thread moves.
LEMMA RestThreads ==
    ASSUME OutboxTypes, WorkInv, submitter' = submitter, submitted' = submitted,
           ToSet(saved) \subseteq ToSet(saved'), late \subseteq late'
    PROVE  WorkInv'
<1>1. ToSet(saved) \subseteq Notice
  BY ToSetOf DEF OutboxTypes
<1>2. \A n \in Notice : submitted[n] \in Nat
  BY DEF OutboxTypes
<1>3. \A n \in Notice : submitted[n] \in Nat /\ submitted'[n] \in Nat /\ submitted[n] <= submitted'[n]
  BY <1>2
<1>4. ASSUME NEW u \in Submitter PROVE Works(submitter'[u], saved', late', submitted')
  <2>1. Works(submitter[u], saved, late, submitted)
    BY DEF WorkInv
  <2>2. Works(submitter[u], saved', late', submitted')
    BY <1>1, <1>3, <2>1, WorksOn
  <2> QED BY <2>2
<1> QED BY <1>4 DEF WorkInv

\* What a step that touches no thread and no row of a reminder has to keep.
LEMMA Elsewhere ==
    ASSUME OutboxTypes, WorkInv, UNCHANGED <<noticeRows, work>>,
           arrivals' \in Seq(Notice), Queue!TypeOK', playing' \in Cmd \cup {NoCmd},
           outcome' \in [Cmd -> {"none", "rendered", "failed"}],
           \A c \in Cmd : outcome[c] # "none" => outcome'[c] = outcome[c],
           Upkeep \/ Acking \/ \E n \in late : DeadlineOf(n)
    PROVE  Does
<1>1. /\ saved' = saved /\ late' = late /\ submitter' = submitter
      /\ submitted' = submitted /\ adrift' = adrift
  BY DEF noticeRows, work
<1>2. WorkInv'
  BY <1>1, RestThreads
<1>3. OutboxTypes'
  BY <1>1 DEF OutboxTypes
<1> QED BY <1>1, <1>2, <1>3 DEF Does, StoreDoes, Grows

LEMMA PushDoes ==
    ASSUME OutboxTypes, WorkInv, NEW n \in Notice, Push(n) \/ GrowLate(n)
    PROVE  Does
<1>0. Queue!TypeOK /\ saved \in Seq(Notice) /\ arrivals \in Seq(Notice)
  BY DEF OutboxTypes
<1>1. CASE Push(n)
  <2>1. memory' = memory /\ playing' = playing /\ outcome' = outcome /\ UNCHANGED storeVars
    BY <1>1 DEF Push, deviceVars
  <2>2. arrivals' \in Seq(Notice)
    BY <1>0, <1>1 DEF Push
  <2> QED BY <1>1, <2>1, <2>2, Elsewhere DEF Push, OutboxTypes, Queue!TypeOK, Upkeep
<1>2. CASE GrowLate(n)
  <2>1. /\ saved' = saved /\ late' = late \cup {n} /\ n \in ToSet(saved)
        /\ arrivals' = arrivals /\ submitter' = submitter /\ submitted' = submitted
        /\ memory' = memory /\ playing' = playing /\ outcome' = outcome /\ adrift' = adrift
        /\ UNCHANGED storeVars
    BY <1>2 DEF GrowLate, inflow, work, deviceVars
  <2>2. WorkInv'
    BY <2>1, RestThreads
  <2>3. OutboxTypes'
    BY <1>0, <2>1 DEF OutboxTypes, Queue!TypeOK
  <2> QED BY <2>1, <2>2, <2>3 DEF Does, StoreDoes, Upkeep, Grows
<1> QED BY <1>1, <1>2

LEMMA SaveDoes ==
    ASSUME OutboxTypes, WorkInv, SaveNotice
    PROVE  Does
<1> DEFINE n == Head(arrivals)
<1>0. Queue!TypeOK /\ saved \in Seq(Notice) /\ arrivals \in Seq(Notice) /\ arrivals # <<>>
  BY DEF OutboxTypes, SaveNotice
<1>1. n \in Notice /\ arrivals' = Tail(arrivals) /\ arrivals' \in Seq(Notice)
  BY <1>0, HeadTailProperties DEF SaveNotice
<1>2. /\ late' = late /\ submitted' = submitted /\ memory' = memory /\ playing' = playing
      /\ outcome' = outcome /\ adrift' = adrift /\ UNCHANGED storeVars
  BY DEF SaveNotice, deviceVars
<1>3. CASE n \in ToSet(saved)
  <2>1. saved' = saved /\ submitter' = submitter
    BY <1>3 DEF SaveNotice
  <2>2. WorkInv'
    BY <1>2, <2>1, RestThreads
  <2>3. OutboxTypes'
    BY <1>0, <1>1, <1>2, <2>1 DEF OutboxTypes, Queue!TypeOK
  <2> QED BY <1>2, <2>1, <2>2, <2>3 DEF Does, StoreDoes, Upkeep, Grows
<1>4. CASE n \notin ToSet(saved)
  <2> DEFINE w == Begin(n, <<>>)
  <2>1. saved' = Append(saved, n) /\ submitter' = [submitter EXCEPT !["listener"] = w]
    BY <1>4 DEF SaveNotice
  <2> HIDE DEF n
  <2>2. saved' \in Seq(Notice) /\ ToSet(saved') = ToSet(saved) \cup {n}
    BY <1>0, <1>1, <2>1, ToSetOf
  <2>3. w \in SubmitterState /\ Works(w, saved', late', submitted')
    <3>1. n \in ToSet(saved') /\ ToSet(<<>>) \subseteq ToSet(saved') /\ <<>> \in Seq(Notice)
      BY <2>2, EmptySet
    <3> QED BY <1>1, <3>1, BeginIs
  <2> HIDE DEF w
  <2>4. submitter' \in [Submitter -> SubmitterState] /\ WorkInv'
    <3>1. "listener" \in Submitter
      BY DEF Submitter
    <3>2. submitted' \in [Notice -> 0 .. MaxSubmissions] /\ \A m \in Notice : submitted[m] <= submitted'[m]
      BY <1>2 DEF OutboxTypes
    <3> QED BY <1>2, <2>1, <2>2, <2>3, <3>1, <3>2, MoveThread
  <2>5. OutboxTypes'
    BY <1>0, <1>1, <1>2, <2>2, <2>4 DEF OutboxTypes, Queue!TypeOK
  <2> QED BY <1>2, <2>2, <2>4, <2>5 DEF Does, StoreDoes, Upkeep, Grows
<1> QED BY <1>3, <1>4

\* What a step that moves one thread has to keep.
LEMMA OneMoves ==
    ASSUME OutboxTypes, WorkInv, NEW t \in Submitter, NEW w \in SubmitterState,
           submitter' = [submitter EXCEPT ![t] = w], Works(w, saved, late, submitted'),
           UNCHANGED <<noticeRows, inflow, deviceVars>>, Queue!TypeOK', StoreDoes,
           submitted' \in [Notice -> 0 .. MaxSubmissions], \A n \in Notice : submitted[n] <= submitted'[n]
    PROVE  Does
<1>1. saved' = saved /\ late' = late /\ arrivals' = arrivals /\ playing' = playing /\ outcome' = outcome
  BY DEF noticeRows, inflow, deviceVars
<1>2. submitter' \in [Submitter -> SubmitterState] /\ WorkInv'
  BY <1>1, MoveThread
<1>3. OutboxTypes'
  BY <1>1, <1>2 DEF OutboxTypes
<1> QED BY <1>1, <1>2, <1>3 DEF Does, Grows

LEMMA ScanDoes ==
    ASSUME OutboxTypes, WorkInv, Scan
    PROVE  Does
<1> DEFINE w == BeginBatch(Batch)
<1>0. saved \in Seq(Notice) /\ late \subseteq ToSet(saved) /\ Queue!TypeOK
  BY DEF OutboxTypes
<1>1. Batch \in Seq(Notice) /\ ToSet(Batch) \subseteq ToSet(saved)
  BY <1>0, BatchIs
<1>2. w \in SubmitterState /\ Works(w, saved, late, submitted')
  BY <1>1, BeginBatchIs
<1>3. /\ submitter' = [submitter EXCEPT !["outbox"] = w] /\ submitted' = submitted
      /\ UNCHANGED <<noticeRows, inflow, deviceVars>> /\ memory' = memory /\ adrift' = adrift
      /\ "outbox" \in Submitter
  BY DEF Scan, Submitter
<1>4. StoreDoes
  <2> DEFINE N == {n \in late : Received(n)}
  <2>1. \A n \in Notice : Overdue(n) <=> n \in N
    BY DEF Overdue
  <2>2. late \subseteq Notice
    BY <1>0, ToSetOf
  <2>3. {n \in Notice : Overdue(n)} = N
    BY <2>1, <2>2
  <2>4. N \in SUBSET late /\ ExpireReceived(N)
    BY <2>3 DEF Scan
  <2> HIDE DEF N
  <2>5. Expiring
    BY <2>4 DEF Expiring
  <2> QED BY <1>3, <2>5 DEF StoreDoes
<1> HIDE DEF w
<1>5. Queue!TypeOK'
  BY <1>0, <1>3 DEF Queue!TypeOK
<1>6. submitted' \in [Notice -> 0 .. MaxSubmissions] /\ \A n \in Notice : submitted[n] <= submitted'[n]
  BY <1>3 DEF OutboxTypes
<1> QED BY <1>2, <1>3, <1>4, <1>5, <1>6, OneMoves

\* What a thread is at.
LEMMA WorkIs ==
    ASSUME OutboxTypes, WorkInv, NEW t \in Submitter
    PROVE  LET w == submitter[t]
           IN  /\ w \in SubmitterState /\ Works(w, saved, late, submitted)
               /\ w.at # "idle" => w.notice \in Notice /\ w.notice \in ToSet(saved)
               /\ w.s \in Nat /\ w.k \in Nat /\ w.queued \in Nat /\ w.batch \in Seq(Notice)
               /\ BeginBatch(w.batch) \in SubmitterState
               /\ \A begun : Works(BeginBatch(w.batch), saved, late, begun)
<1> DEFINE w == submitter[t]
<1>1. w \in SubmitterState /\ Works(w, saved, late, submitted) /\ ToSet(saved) \subseteq Notice
  BY ToSetOf DEF OutboxTypes, WorkInv
<1> HIDE DEF w
<1>2. w.s \in Nat /\ w.k \in Nat /\ w.queued \in Nat /\ w.batch \in Seq(Notice)
  BY <1>1 DEF SubmitterState
<1>3. ToSet(w.batch) \subseteq ToSet(saved) /\ (w.at # "idle" => w.notice \in ToSet(saved))
  BY <1>1 DEF Works
<1>4. /\ BeginBatch(w.batch) \in SubmitterState
      /\ \A begun : Works(BeginBatch(w.batch), saved, late, begun)
  BY <1>2, <1>3, BeginBatchIs
<1> QED BY <1>1, <1>2, <1>3, <1>4 DEF w

LEMMA CheckDoes ==
    ASSUME OutboxTypes, WorkInv, NEW t \in Submitter, Check(t)
    PROVE  Does
<1> DEFINE w == submitter[t]
           n == w.notice
           k == submitted[n] + 1
<1>0. /\ w \in SubmitterState /\ Works(w, saved, late, submitted) /\ n \in Notice /\ n \in ToSet(saved)
      /\ w.at = "check" /\ w.queued = 0 /\ ToSet(w.batch) \subseteq ToSet(saved)
      /\ submitted \in [Notice -> 0 .. MaxSubmissions] /\ submitter \in [Submitter -> SubmitterState]
      /\ MaxSubmissions \in Nat
  BY WorkIs, OutboxAssumption DEF Check, Works, OutboxTypes, OutboxAssumption
<1>1. /\ UNCHANGED <<noticeRows, inflow, deviceVars>> /\ memory' = memory /\ adrift' = adrift
      /\ UNCHANGED storeVars
  BY DEF Check
<1>2. Queue!TypeOK' /\ StoreDoes
  BY <1>1 DEF OutboxTypes, Queue!TypeOK, StoreDoes, Upkeep
<1>3. CASE submitted' = submitted /\ n \in late /\ submitter' = [submitter EXCEPT ![t].at = "mark"]
  <2> DEFINE v == [w EXCEPT !.at = "mark"]
  <2>1. submitter' = [submitter EXCEPT ![t] = v]
    BY <1>3
  <2>2. v \in SubmitterState /\ v.at = "mark" /\ v.notice = n /\ v.batch = w.batch
    BY <1>0 DEF SubmitterState
  <2> HIDE DEF v, w, k
  <2>3. Works(v, saved, late, submitted')
    BY <1>0, <1>3, <2>2 DEF Works
  <2>4. submitted' \in [Notice -> 0 .. MaxSubmissions] /\ \A m \in Notice : submitted[m] <= submitted'[m]
    BY <1>0, <1>3
  <2> QED BY <1>1, <1>2, <2>1, <2>2, <2>3, <2>4, OneMoves
<1>4. CASE submitted' = submitted /\ Returned(t)
  <2> DEFINE v == BeginBatch(w.batch)
  <2>1. submitter' = [submitter EXCEPT ![t] = v] /\ v \in SubmitterState /\ Works(v, saved, late, submitted')
    BY <1>4, WorkIs DEF Returned
  <2> HIDE DEF v, w, k
  <2>2. submitted' \in [Notice -> 0 .. MaxSubmissions] /\ \A m \in Notice : submitted[m] <= submitted'[m]
    BY <1>0, <1>4
  <2> QED BY <1>1, <1>2, <2>1, <2>2, OneMoves
<1>5. CASE /\ k <= MaxSubmissions /\ Sentences[n] > 0
           /\ submitter' = [submitter EXCEPT ![t].at = "create", ![t].k = k, ![t].s = 1]
           /\ submitted' = [submitted EXCEPT ![n] = k]
  <2> DEFINE v == [w EXCEPT !.at = "create", !.k = k, !.s = 1]
  <2>1. submitter' = [submitter EXCEPT ![t] = v]
    BY <1>0, <1>5
  <2>2. submitted[n] \in Nat /\ k \in Nat /\ k \in 1 .. MaxSubmissions /\ submitted[n] <= k
    BY <1>0, <1>5
  <2> HIDE DEF k
  <2>3. /\ v \in SubmitterState /\ v.at = "create" /\ v.notice = n /\ v.batch = w.batch
        /\ v.k = k /\ v.s = 1 /\ v.queued = 0
    BY <1>0, <2>2 DEF SubmitterState
  <2> HIDE DEF v, w
  <2>4. submitted' \in [Notice -> 0 .. MaxSubmissions] /\ submitted'[n] = k
    BY <1>0, <1>5, <2>2
  <2>5. \A m \in Notice : submitted[m] <= submitted'[m]
    BY <1>0, <1>5, <2>2
  <2>6. 1 \in 1 .. Sentences[n] /\ k \in 1 .. submitted'[n]
    BY <1>0, <1>5, <2>2, <2>4, Assumptions
  <2>7. Works(v, saved, late, submitted')
    BY <1>0, <2>3, <2>6 DEF Works
  <2> QED BY <1>1, <1>2, <2>1, <2>3, <2>4, <2>5, <2>7, OneMoves
<1> QED BY <1>3, <1>4, <1>5 DEF Check

LEMMA MarkDoes ==
    ASSUME TypeOK, OutboxTypes, WorkInv, NEW t \in Submitter, MarkExpired(t)
    PROVE  Does
<1> DEFINE w == submitter[t]
           v == BeginBatch(w.batch)
<1>0. w.at = "mark" /\ w.notice \in late
  BY WorkIs DEF MarkExpired, Works
<1>1. /\ UNCHANGED <<noticeRows, inflow, deviceVars>> /\ memory' = memory /\ adrift' = adrift
      /\ submitted' = submitted
  BY DEF MarkExpired
<1>2. Queue!TypeOK'
  BY <1>1 DEF OutboxTypes, Queue!TypeOK
<1>3. submitter' = [submitter EXCEPT ![t] = v] /\ v \in SubmitterState /\ Works(v, saved, late, submitted')
  BY WorkIs DEF MarkExpired, Returned
<1>5. StoreDoes
  BY <1>0, <1>1 DEF StoreDoes, Expiring, MarkExpired
<1>6. submitted' \in [Notice -> 0 .. MaxSubmissions] /\ \A m \in Notice : submitted[m] <= submitted'[m]
  BY <1>1 DEF OutboxTypes
<1> HIDE DEF v, w
<1> QED BY <1>1, <1>2, <1>3, <1>5, <1>6, OneMoves

\* The command for the sentence a thread is at.
LEMMA CurrentIs ==
    ASSUME OutboxTypes, WorkInv, NEW t \in Submitter, submitter[t].at \in {"create", "link"}
    PROVE  LET w == submitter[t]
           IN  /\ Current(t) = <<w.notice, w.k, w.s>> /\ Current(t) \in Cmd
               /\ Envelope[Current(t)].sourceType = "morrow_notice"
               /\ Envelope[Current(t)].sourceId = w.notice
               /\ w.notice \in Notice /\ w.notice \in ToSet(saved) /\ w.k \in 1 .. MaxSubmissions
               /\ w.s \in 1 .. Sentences[w.notice]
<1> DEFINE w == submitter[t]
<1>1. /\ w.notice \in Notice /\ w.notice \in ToSet(saved) /\ w.s \in 1 .. Sentences[w.notice]
      /\ w.k \in 1 .. submitted[w.notice]
  BY WorkIs DEF Works
<1>2. submitted[w.notice] \in 0 .. MaxSubmissions /\ MaxSubmissions \in Nat
  BY <1>1, OutboxAssumption DEF OutboxTypes, OutboxAssumption
<1> HIDE DEF w
<1>3. w.k \in 1 .. MaxSubmissions
  BY <1>1, <1>2
<1>4. \A n \in Notice, k \in 1 .. MaxSubmissions : \A s \in 1 .. Sentences[n] :
         /\ <<n, k, s>> \in Cmd
         /\ Envelope[<<n, k, s>>].sourceType = "morrow_notice"
         /\ Envelope[<<n, k, s>>].sourceId = n
  <2> TAKE n \in Notice, k \in 1 .. MaxSubmissions
  <2> TAKE s \in 1 .. Sentences[n]
  <2> QED BY OutboxAssumption DEF OutboxAssumption
<1>5. Current(t) = <<w.notice, w.k, w.s>>
  BY DEF Current, w
<1> QED BY <1>1, <1>3, <1>4, <1>5 DEF w

\* A thread that goes on with the reminder, and with the batch.
SameTask(v, w) == v.notice = w.notice /\ v.batch = w.batch

LEMMA AfterSentenceIs ==
    ASSUME OutboxTypes, WorkInv, NEW t \in Submitter, submitter[t].at = "create",
           NEW queued \in Nat, queued <= submitter[t].queued + 1, AfterSentence(t, queued)
    PROVE  \E v \in SubmitterState :
              /\ submitter' = [submitter EXCEPT ![t] = v] /\ Works(v, saved, late, submitted)
              /\ v = BeginBatch(submitter[t].batch) \/ SameTask(v, submitter[t])
<1> DEFINE w == submitter[t]
<1>0. /\ w \in SubmitterState /\ Works(w, saved, late, submitted) /\ w.s \in Nat /\ w.queued \in Nat
      /\ w.notice \in Notice /\ w.notice \in ToSet(saved) /\ w.s \in 1 .. Sentences[w.notice]
      /\ w.queued < w.s /\ Sentences[w.notice] \in Nat /\ w.k \in 1 .. submitted[w.notice]
      /\ ToSet(w.batch) \subseteq ToSet(saved) /\ submitter \in [Submitter -> SubmitterState]
  BY WorkIs, Assumptions DEF Works, OutboxTypes
<1>1. CASE More(t)
  <2> DEFINE s == w.s + 1
             v == [w EXCEPT !.at = "create", !.s = s, !.queued = queued]
  <2>1. submitter' = [submitter EXCEPT ![t] = v]
    BY <1>0, <1>1 DEF AfterSentence
  <2>2. w.s < Sentences[w.notice] /\ s \in Nat
    BY <1>0, <1>1 DEF More
  <2> HIDE DEF w, s
  <2>0. w \in SubmitterState
    BY <1>0
  <2>3. /\ v \in SubmitterState /\ v.at = "create" /\ v.notice = w.notice /\ v.batch = w.batch
        /\ v.k = w.k /\ v.s = s /\ v.queued = queued
    BY <2>0, <2>2 DEF SubmitterState
  <2> HIDE DEF v
  <2>4. v.s \in 1 .. Sentences[w.notice] /\ queued < v.s /\ queued <= v.s
    BY <1>0, <2>2, <2>3 DEF w, s
  <2>5. Works(v, saved, late, submitted)
    BY <1>0, <2>3, <2>4 DEF Works
  <2> QED BY <2>1, <2>3, <2>5 DEF SameTask, w
<1>2. CASE ~More(t) /\ queued > 0
  <2> DEFINE v == [w EXCEPT !.at = "link", !.queued = queued]
  <2>1. submitter' = [submitter EXCEPT ![t] = v]
    BY <1>0, <1>2 DEF AfterSentence
  <2>2. w.s = Sentences[w.notice]
    BY <1>0, <1>2 DEF More
  <2>3. queued <= w.s
    BY <1>0
  <2> HIDE DEF w
  <2>4. /\ v \in SubmitterState /\ v.at = "link" /\ v.notice = w.notice /\ v.batch = w.batch
        /\ v.k = w.k /\ v.s = w.s /\ v.queued = queued
    BY <1>0 DEF SubmitterState
  <2> HIDE DEF v
  <2>5. Works(v, saved, late, submitted)
    BY <1>0, <2>2, <2>3, <2>4 DEF Works
  <2> QED BY <2>1, <2>4, <2>5 DEF SameTask, w
<1>3. CASE ~More(t) /\ ~(queued > 0)
  <2>1. submitter' = [submitter EXCEPT ![t] = BeginBatch(w.batch)]
    BY <1>3 DEF AfterSentence, Returned
  <2> QED BY <2>1, WorkIs
<1> QED BY <1>1, <1>2, <1>3

LEMMA EnqueueDoes ==
    ASSUME TypeOK, OutboxTypes, WorkInv, NEW t \in Submitter, EnqueueSentence(t)
    PROVE  Does
<1> DEFINE e == [cmd |-> Current(t), boot |-> boot[dev]]
           w == submitter[t]
<1>0. submitter[t].at = "create" /\ w.queued \in Nat
  BY WorkIs DEF EnqueueSentence
<1>1. /\ UNCHANGED <<noticeRows, inflow, deviceVars>> /\ adrift' = adrift /\ submitted' = submitted
  BY DEF EnqueueSentence
<1>2. Current(t) \in Cmd /\ e \in Queue!Item
  BY <1>0, CurrentIs, Assumptions DEF TypeOK, Queue!Item
<1>3. Queue!TypeOK
  BY DEF OutboxTypes
<1>4. Upkeep /\ Queue!TypeOK' /\ \E q \in Nat : q <= w.queued + 1 /\ AfterSentence(t, q)
  <2>1. CASE /\ IF Duplicates(Current(t)) = {} THEN CreateCommand(Current(t), boot[dev]) ELSE UNCHANGED storeVars
             /\ Queue!Put(e)
             /\ AfterSentence(t, w.queued + IF e \in ToSet(memory') THEN 1 ELSE 0)
    <3>1. Upkeep
      BY <1>2, <2>1 DEF Upkeep
    <3>2. Queue!TypeOK'
      BY <1>2, <1>3, <2>1, PutInQueue
    <3>3. PICK d \in {0, 1} : AfterSentence(t, w.queued + d)
      <4>1. (IF e \in ToSet(memory') THEN 1 ELSE 0) \in {0, 1}
        OBVIOUS
      <4> QED BY <2>1, <4>1
    <3>4. w.queued + d \in Nat /\ w.queued + d <= w.queued + 1
      BY <1>0
    <3> QED BY <3>1, <3>2, <3>3, <3>4
  <2>2. CASE AfterSentence(t, w.queued) /\ UNCHANGED <<storeVars, memory>>
    <3>1. w.queued <= w.queued + 1
      BY <1>0
    <3>2. Queue!TypeOK'
      BY <1>3, <2>2 DEF Queue!TypeOK
    <3> QED BY <1>0, <2>2, <3>1, <3>2 DEF Upkeep
  <2> QED BY <2>1, <2>2 DEF EnqueueSentence
<1>5. PICK v \in SubmitterState :
        submitter' = [submitter EXCEPT ![t] = v] /\ Works(v, saved, late, submitted)
  BY <1>0, <1>4, AfterSentenceIs
<1>6. submitted' \in [Notice -> 0 .. MaxSubmissions] /\ \A m \in Notice : submitted[m] <= submitted'[m]
  BY <1>1 DEF OutboxTypes
<1>7. StoreDoes
  BY <1>1, <1>4 DEF StoreDoes
<1> HIDE DEF w, e
<1> QED BY <1>1, <1>4, <1>5, <1>6, <1>7, OneMoves

LEMMA LinkDoes ==
    ASSUME OutboxTypes, WorkInv, NEW t \in Submitter, Link(t)
    PROVE  Does
<1> DEFINE w == submitter[t]
           v == BeginBatch(w.batch)
           c == Current(t)
<1>0. w.at = "link" /\ w.s = Sentences[w.notice]
  BY WorkIs DEF Link, Works
<1>1. /\ UNCHANGED <<noticeRows, inflow, deviceVars>> /\ memory' = memory /\ submitted' = submitted
  BY DEF Link
<1>2. /\ c = <<w.notice, w.k, Sentences[w.notice]>> /\ c \in Cmd
      /\ w.notice \in ToSet(saved) /\ w.k \in 1 .. MaxSubmissions
  BY <1>0, CurrentIs
<1>3. Linking
  <2>1. /\ LinkNotice(w.notice, c)
        /\ adrift' = IF state[c] \in {"absent", "rendered", "done", "cancelled"}
                     THEN adrift \cup {w.notice} ELSE adrift \ {w.notice}
    BY DEF Link, LastCommand
  <2> HIDE DEF w, c
  <2> QED BY <1>2, <2>1 DEF Linking
<1>4. Queue!TypeOK'
  BY <1>1 DEF OutboxTypes, Queue!TypeOK
<1>5. submitter' = [submitter EXCEPT ![t] = v] /\ v \in SubmitterState /\ Works(v, saved, late, submitted')
  BY WorkIs DEF Link, Returned
<1>6. submitted' \in [Notice -> 0 .. MaxSubmissions] /\ \A m \in Notice : submitted[m] <= submitted'[m]
  BY <1>1 DEF OutboxTypes
<1>7. StoreDoes
  BY <1>3 DEF StoreDoes
<1> HIDE DEF v, w, c
<1> QED BY <1>1, <1>4, <1>5, <1>6, <1>7, OneMoves

LEMMA RestartDoes ==
    ASSUME OutboxTypes, WorkInv, Restart
    PROVE  Does
<1>1. /\ saved' = saved /\ late' = late /\ submitted' = submitted /\ adrift' = adrift
      /\ playing' = playing /\ outcome' = outcome /\ arrivals' = <<>> /\ memory' = <<>>
      /\ submitter' = [t \in Submitter |-> Idle]
  BY DEF Restart, noticeRows, deviceVars
<1>2. Queue!TypeOK'
  <2>1. memory' \in Seq(Queue!Item) /\ Len(memory') = 0
    BY <1>1, EmptySeq
  <2> QED BY <2>1, OutboxAssumption DEF Queue!TypeOK, OutboxAssumption
<1>3. submitter' \in [Submitter -> SubmitterState] /\ WorkInv'
  BY <1>1, IdleIs DEF WorkInv
<1>4. OutboxTypes'
  BY <1>1, <1>2, <1>3, EmptySet DEF OutboxTypes
<1>5. StoreDoes
  BY <1>1 DEF StoreDoes, Upkeep, Restart
<1> QED BY <1>1, <1>3, <1>4, <1>5 DEF Does, Grows

\* The steps that move no thread: the user's, the device's and time's.
LEMMA CancelDoes ==
    ASSUME OutboxTypes, WorkInv, CancelStore \/ CancelMemory
    PROVE  Does
<1>0. Queue!TypeOK
  BY DEF OutboxTypes
<1>1. UNCHANGED <<noticeRows, work>> /\ arrivals' = arrivals /\ playing' = playing /\ outcome' = outcome
  BY DEF CancelStore, CancelMemory, inflow, deviceVars
<1>2. Queue!TypeOK'
  <2>1. CASE CancelStore
    BY <1>0, <2>1 DEF CancelStore, Queue!TypeOK
  <2>2. CASE CancelMemory
    BY <1>0, <2>2, SpeechInQueue DEF CancelMemory
  <2> QED BY <2>1, <2>2
<1>3. Upkeep
  BY DEF Upkeep, CancelStore, CancelMemory
<1>4. arrivals \in Seq(Notice) /\ playing \in Cmd \cup {NoCmd} /\ outcome \in [Cmd -> {"none", "rendered", "failed"}]
  BY DEF OutboxTypes
<1> QED BY <1>1, <1>2, <1>3, <1>4, Elsewhere

LEMMA HelloDoes ==
    ASSUME OutboxTypes, WorkInv, NEW b \in Boots, Hello(b)
    PROVE  Does
<1>0. Queue!TypeOK
  BY DEF OutboxTypes
<1>1. UNCHANGED <<noticeRows, work>> /\ arrivals' = arrivals /\ playing' = NoCmd /\ outcome' = outcome
  BY DEF Hello, inflow
<1>2. Queue!TypeOK'
  BY <1>0, BootsInQueue DEF Hello
<1>3. Upkeep
  BY DEF Upkeep, Hello
<1>4. arrivals \in Seq(Notice) /\ outcome \in [Cmd -> {"none", "rendered", "failed"}]
  BY DEF OutboxTypes
<1> QED BY <1>1, <1>2, <1>3, <1>4, Elsewhere

LEMMA NextIsRow ==
    ASSUME TypeOK, NEW b, NEW s, NEW f, NextCommand(dev, b, s, f) # NoCmd
    PROVE  NextCommand(dev, b, s, f) \in Cmd
<1> DEFINE rows == Runnable(dev, b, s, f)
<1>1. rows \in SUBSET Cmd
  BY DEF Runnable, Row
<1>2. rows # {} /\ NextCommand(dev, b, s, f) = CHOOSE c \in rows : \A o \in rows : Precedes(c, o)
  BY DEF NextCommand
<1> HIDE DEF rows
<1>3. \E c \in rows : \A o \in rows : Precedes(c, o)
  BY <1>1, <1>2, FirstRow
<1> QED BY <1>1, <1>2, <1>3

LEMMA PollDoes ==
    ASSUME TypeOK, OutboxTypes, WorkInv, PollStep
    PROVE  Does
<1>0. /\ Queue!TypeOK /\ arrivals \in Seq(Notice) /\ playing \in Cmd \cup {NoCmd}
      /\ outcome \in [Cmd -> {"none", "rendered", "failed"}]
  BY DEF OutboxTypes
<1>1. UNCHANGED <<noticeRows, work>> /\ arrivals' = arrivals /\ outcome' = outcome
  BY DEF PollStep, PollSweep, PollStore, PollMemory, inflow, deviceVars
<1>2. CASE PollSweep
  <2>1. Upkeep /\ playing' = playing /\ Queue!TypeOK'
    BY <1>0, <1>2 DEF PollSweep, Upkeep, deviceVars, Queue!TypeOK
  <2> QED BY <1>0, <1>1, <2>1, Elsewhere
<1>3. CASE PollStore
  <2> DEFINE c == NextCommand(dev, boot[dev], TRUE, TRUE)
  <2>1. c # NoCmd /\ LeaseCommand(c, boot[dev]) /\ Queue!Discard(c) /\ playing' = c
    BY <1>3 DEF PollStore
  <2>2. c \in Cmd
    BY <2>1, NextIsRow
  <2> HIDE DEF c
  <2>3. Queue!TypeOK'
    BY <1>0, <2>1, DiscardInQueue
  <2> QED BY <1>0, <1>1, <2>1, <2>2, <2>3, Elsewhere DEF Upkeep
<1>4. CASE PollMemory
  <2> DEFINE I == Queue!Eligible(memory, boot[dev], TRUE, TRUE)
             x == memory[Queue!Best(memory, I)]
  <2>1. Queue!Get(boot[dev], TRUE, TRUE) /\ LeaseCommand(x.cmd, boot[dev]) /\ playing' = x.cmd
    BY <1>4 DEF PollMemory
  <2>2. x \in Queue!Item /\ Queue!TypeOK'
    BY <1>0, <2>1, GetFromQueue
  <2> HIDE DEF x
  <2>3. x.cmd \in Cmd
    BY <2>2 DEF Queue!Item
  <2> QED BY <1>0, <1>1, <2>1, <2>2, <2>3, Elsewhere DEF Upkeep
<1> QED BY <1>2, <1>3, <1>4 DEF PollStep

LEMMA ReportDoes ==
    ASSUME OutboxTypes, WorkInv, Report
    PROVE  Does
<1> DEFINE c == playing
           O == {"none", "rendered", "failed"}
<1>0. Queue!TypeOK /\ arrivals \in Seq(Notice) /\ c \in Cmd /\ outcome \in [Cmd -> O] /\ outcome[c] \in O
  BY DEF OutboxTypes, Report
<1>1. UNCHANGED <<noticeRows, work>> /\ arrivals' = arrivals /\ memory' = memory /\ playing' = NoCmd
  BY DEF Report, inflow
<1>2. Queue!TypeOK'
  BY <1>0, <1>1 DEF Queue!TypeOK
<1>3. PICK v \in {"rendered", "failed"} :
        /\ outcome' = [outcome EXCEPT ![c] = v]
        /\ outcome[c] # "none" => v = outcome[c]
        /\ Ack(c, v) \/ UNCHANGED storeVars
  <2>1. Reported(c) \in {"rendered", "failed"} /\ (outcome[c] # "none" => Reported(c) = outcome[c])
    BY <1>0 DEF Reported
  <2> QED BY <2>1 DEF Report
<1>4. outcome' \in [Cmd -> O] /\ outcome'[c] = v /\ \A d \in Cmd : outcome[d] # "none" => outcome'[d] = outcome[d]
  BY <1>0, <1>3
<1>5. Upkeep \/ Acking
  <2>1. CASE RecordAck(c, v, boot[dev])
    BY <1>0, <1>4, <2>1 DEF Acking
  <2>2. CASE UNCHANGED storeVars
    BY <2>2 DEF Upkeep
  <2> QED BY <1>3, <2>1, <2>2 DEF Ack
<1> HIDE DEF c
<1> QED BY <1>0, <1>1, <1>2, <1>4, <1>5, Elsewhere

LEMMA TimeDoes ==
    ASSUME OutboxTypes, WorkInv, RowTime \/ MemoryExpires
    PROVE  Does
<1>0. /\ Queue!TypeOK /\ arrivals \in Seq(Notice) /\ playing \in Cmd \cup {NoCmd}
      /\ outcome \in [Cmd -> {"none", "rendered", "failed"}]
  BY DEF OutboxTypes
<1>1. UNCHANGED <<noticeRows, work>> /\ arrivals' = arrivals /\ playing' = playing /\ outcome' = outcome
  BY DEF RowTime, MemoryExpires, inflow, deviceVars
<1>2. CASE RowTime
  <2>1. Upkeep \/ \E n \in late : DeadlineOf(n)
    BY <1>2 DEF RowTime, Upkeep, DeadlineOf
  <2>2. Queue!TypeOK'
    BY <1>0, <1>2 DEF RowTime, Queue!TypeOK
  <2> QED BY <1>0, <1>1, <2>1, <2>2, Elsewhere
<1>3. CASE MemoryExpires
  <2>1. PICK i \in DOMAIN memory : memory' = Queue!Without(memory, i)
    BY <1>3 DEF MemoryExpires
  <2>2. Queue!TypeOK'
    BY <1>0, <2>1, LossInQueue
  <2>3. Upkeep
    BY <1>3 DEF MemoryExpires, Upkeep
  <2> QED BY <1>0, <1>1, <2>2, <2>3, Elsewhere
<1> QED BY <1>2, <1>3

LEMMA StutterDoes ==
    ASSUME OutboxTypes, WorkInv, UNCHANGED outboxVars
    PROVE  Does
<1>0. /\ Queue!TypeOK /\ arrivals \in Seq(Notice) /\ playing \in Cmd \cup {NoCmd}
      /\ outcome \in [Cmd -> {"none", "rendered", "failed"}]
  BY DEF OutboxTypes
<1>1. /\ UNCHANGED <<noticeRows, work>> /\ arrivals' = arrivals /\ playing' = playing /\ outcome' = outcome
      /\ UNCHANGED storeVars /\ memory' = memory
  BY DEF outboxVars, inflow, deviceVars
<1>2. Queue!TypeOK' /\ Upkeep
  BY <1>0, <1>1 DEF Queue!TypeOK, Upkeep
<1> QED BY <1>0, <1>1, <1>2, Elsewhere

LEMMA StepDoes ==
    ASSUME TypeOK, OutboxTypes, WorkInv, [OutboxNext]_outboxVars
    PROVE  Does
  BY PushDoes, SaveDoes, ScanDoes, CheckDoes, MarkDoes, EnqueueDoes, LinkDoes, RestartDoes, CancelDoes,
     HelloDoes, PollDoes, ReportDoes, TimeDoes, StutterDoes
     DEF OutboxNext, SubmitStep

OutboxKept == TypeOK /\ OutboxTypes /\ WorkInv

LEMMA OutboxBegins == OutboxInit => OutboxKept
<1> SUFFICES ASSUME OutboxInit PROVE OutboxKept
  OBVIOUS
<1>1. TypeOK
  BY InitType DEF OutboxInit
<1>2. Queue!TypeOK
  <2>1. [cmd |-> Other, boot |-> 0] \in Queue!Item
    BY OutboxAssumption DEF OutboxAssumption, Queue!Item
  <2>2. memory \in Seq(Queue!Item) /\ Len(memory) = 1
    BY <2>1 DEF OutboxInit
  <2>3. 1 <= QueueSize
    BY OutboxAssumption DEF OutboxAssumption
  <2> QED BY <2>2, <2>3 DEF Queue!TypeOK
<1>3. submitter \in [Submitter -> SubmitterState] /\ WorkInv
  BY IdleIs DEF OutboxInit, WorkInv
<1>4. submitted \in [Notice -> 0 .. MaxSubmissions]
  BY OutboxAssumption DEF OutboxAssumption, OutboxInit
<1>5. saved \in Seq(Notice) /\ late \subseteq ToSet(saved) /\ arrivals \in Seq(Notice)
  BY EmptySet DEF OutboxInit
<1>6. playing \in Cmd \cup {NoCmd} /\ outcome \in [Cmd -> {"none", "rendered", "failed"}]
  BY DEF OutboxInit
<1> QED BY <1>1, <1>2, <1>3, <1>4, <1>5, <1>6 DEF OutboxKept, OutboxTypes

LEMMA OutboxStep == OutboxKept /\ [OutboxNext]_outboxVars => OutboxKept'
  BY StepDoes, StoreTyped DEF OutboxKept, Does

LEMMA OutboxHolds == OutboxSpec => []OutboxKept
  BY OutboxBegins, OutboxStep, PTL DEF OutboxSpec

\* The outbox, the device's polls and its ACKs touch the tables only in ways
\* of CommandStore: what is proved of the store holds of the outbox.
THEOREM OutboxUsesStore == OutboxSpec => Spec
<1>1. OutboxInit => Init
  BY DEF OutboxInit
<1>2. OutboxKept /\ [OutboxNext]_outboxVars => [Next]_vars
  BY StepDoes, StoreDoesNext DEF OutboxKept, Does
<1> QED BY <1>1, <1>2, OutboxHolds, PTL DEF OutboxSpec, Spec

\* A thread of the outbox is always at a sentence its reminder has, with
\* commands of the submission it began, and no more of them queued than it
\* has created; the tables and the memory queue hold what they can hold.
THEOREM OutboxTyped == OutboxSpec => []OutboxTypeOK
<1>1. OutboxKept => OutboxTypeOK
  <2> SUFFICES ASSUME OutboxKept PROVE OutboxTypeOK
    OBVIOUS
  <2>1. TypeOK /\ OutboxTypes /\ WorkInv
    BY DEF OutboxKept
  <2>2. ASSUME NEW t \in Submitter
        PROVE  LET w == submitter[t]
               IN  /\ ToSet(w.batch) \subseteq ToSet(saved)
                   /\ w.at # "idle" => w.notice \in ToSet(saved)
                   /\ w.at \in {"create", "link"}
                        => /\ w.s \in 1 .. Sentences[w.notice]
                           /\ w.k \in 1 .. submitted[w.notice]
                           /\ w.queued \in 0 .. w.s
    <3> DEFINE w == submitter[t]
    <3>1. w.queued \in Nat /\ w.s \in Nat /\ Works(w, saved, late, submitted)
      BY <2>1, WorkIs
    <3> HIDE DEF w
    <3>2. w.queued <= w.s => w.queued \in 0 .. w.s
      BY <3>1
    <3> QED BY <3>1, <3>2 DEF Works, w
  <2>3. ToSet(saved) \subseteq Notice
    BY <2>1, ToSetOf DEF OutboxTypes
  <2> QED BY <2>1, <2>2, <2>3 DEF OutboxTypeOK, OutboxTypes
<1> QED BY <1>1, OutboxHolds, PTL

-----------------------------------------------------------------------------
(* A thread links a reminder once at most.                                  *)

\* What keeps a thread from a second link: it has linked neither the reminder
\* it is at nor those of its batch, which are all different.
ThreadOnce(w, count) ==
    /\ Distinct(w.batch)
    /\ w.at # "idle" => count[w.notice] = 0 /\ w.notice \notin ToSet(w.batch)
    /\ \A n \in ToSet(w.batch) : count[n] = 0

\* That takes that a reminder is saved once, and that one which was linked
\* shows it from then on: the listener never begins it, and no scan picks it.
OnceInv ==
    /\ Distinct(saved)
    /\ submitter["listener"].batch = <<>>
    /\ links \in [Submitter -> [Notice -> 0 .. 1]]
    /\ \A t \in Submitter, n \in Notice : links[t][n] = 1 => n \in ToSet(saved) /\ noticeCmd[n] # NoCmd
    /\ \A t \in Submitter : ThreadOnce(submitter[t], links[t])

OnceKept == OutboxKept /\ OnceInv

LEMMA DistinctTail ==
    ASSUME NEW q \in Seq(Notice), q # <<>>, Distinct(q)
    PROVE  Distinct(Tail(q)) /\ Head(q) \notin ToSet(Tail(q))
<1>1. /\ Len(q) \in Nat /\ Len(q) >= 1 /\ DOMAIN q = 1 .. Len(q) /\ Head(q) = q[1]
      /\ DOMAIN Tail(q) = 1 .. (Len(q) - 1)
      /\ \A i \in 1 .. (Len(q) - 1) : Tail(q)[i] = q[i + 1]
  BY HeadTailProperties
<1>2. \A i \in 1 .. (Len(q) - 1) : i \in Nat /\ i + 1 \in DOMAIN q /\ i + 1 # 1
  BY <1>1
<1>3. 1 \in DOMAIN q
  BY <1>1
<1>4. \A i, j \in DOMAIN Tail(q) : Tail(q)[i] = Tail(q)[j] => i = j
  <2> TAKE i, j \in DOMAIN Tail(q)
  <2> HAVE Tail(q)[i] = Tail(q)[j]
  <2>1. i + 1 = j + 1
    BY <1>1, <1>2 DEF Distinct
  <2> QED BY <1>1, <1>2, <2>1
<1>5. \A i \in DOMAIN Tail(q) : Tail(q)[i] # Head(q)
  BY <1>1, <1>2, <1>3 DEF Distinct
<1> QED BY <1>4, <1>5 DEF Distinct, ToSet

LEMMA IdleOnce == \A count : ThreadOnce(Idle, count)
  BY IdleIs, EmptySet DEF ThreadOnce, Distinct

LEMMA BeginOnce ==
    ASSUME NEW n \in Notice, NEW q \in Seq(Notice), NEW count, Distinct(q), n \notin ToSet(q),
           count[n] = 0, \A m \in ToSet(q) : count[m] = 0
    PROVE  ThreadOnce(Begin(n, q), count)
  BY BeginIs DEF ThreadOnce

LEMMA BeginBatchOnce ==
    ASSUME NEW q \in Seq(Notice), NEW count, Distinct(q), \A m \in ToSet(q) : count[m] = 0
    PROVE  ThreadOnce(BeginBatch(q), count)
<1>1. CASE q = <<>>
  BY <1>1, BeginBatchIs, IdleOnce
<1>2. CASE q # <<>>
  <2> DEFINE n == Head(q)
             r == Tail(q)
  <2>1. Distinct(r) /\ n \notin ToSet(r) /\ n \in ToSet(q) /\ ToSet(r) \subseteq ToSet(q)
    BY <1>2, DistinctTail, ToSetOf
  <2>2. n \in Notice /\ r \in Seq(Notice) /\ BeginBatch(q) = Begin(n, r)
    BY <1>2, BeginBatchIs
  <2> HIDE DEF n, r
  <2> QED BY <2>1, <2>2, BeginOnce
<1> QED BY <1>1, <1>2

\* A linked reminder stays linked, if perhaps to another command.
LEMMA LinkStays ==
    ASSUME TypeOK, OutboxTypes, Does, NEW n \in Notice, noticeCmd[n] # NoCmd
    PROVE  noticeCmd'[n] # NoCmd
<1>1. CASE Linking
  <2>1. PICK m \in ToSet(saved), k \in 1 .. MaxSubmissions :
          <<m, k, Sentences[m]>> \in Cmd /\ LinkNotice(m, <<m, k, Sentences[m]>>)
    BY <1>1 DEF Linking
  <2>2. noticeCmd'[n] \in {noticeCmd[n], <<m, k, Sentences[m]>>}
    BY <2>1 DEF LinkNotice, TypeOK
  <2> QED BY <2>1, <2>2, StoreAssumption DEF StoreAssumption
<1>2. CASE Upkeep
  BY <1>2 DEF Upkeep, CreateCommand, ObserveDeviceBoot, GiveUp, ExpireInactiveBoots, Sweep, LeaseCommand,
              CancelBeforeGeneration, LeaseLapse, storeVars, vars, noticeVars
<1>3. CASE Acking
  BY <1>3 DEF Acking, RecordAck
<1>4. CASE Expiring
  BY <1>4, ExpiringIs DEF SomeExpired, OutboxKept
<1>5. ASSUME NEW m, DeadlineOf(m) PROVE noticeCmd'[n] # NoCmd
  BY <1>5 DEF DeadlineOf, noticeVars
<1> QED BY <1>1, <1>2, <1>3, <1>4, <1>5 DEF Does, StoreDoes

\* One thread moves, and links nothing.
LEMMA OnceMove ==
    ASSUME TypeOK, OutboxTypes, OnceInv, Does, NEW t \in Submitter, NEW w,
           submitter' = [submitter EXCEPT ![t] = w], links' = links, saved' = saved,
           t = "listener" => w.batch = <<>>, ThreadOnce(w, links[t])
    PROVE  OnceInv'
<1>1. submitter'["listener"].batch = <<>>
  BY DEF OnceInv, OutboxTypes, Submitter
<1>2. \A u \in Submitter : ThreadOnce(submitter'[u], links'[u])
  BY DEF OnceInv, OutboxTypes
<1>3. \A u \in Submitter, n \in Notice : links'[u][n] = 1 => n \in ToSet(saved') /\ noticeCmd'[n] # NoCmd
  BY LinkStays DEF OnceInv
<1> QED BY <1>1, <1>2, <1>3 DEF OnceInv

\* It goes on with its reminder, or goes on to the next of its batch.
LEMMA OnceOn ==
    ASSUME OnceKept, Does, NEW t \in Submitter, NEW w, submitter[t].at # "idle",
           submitter' = [submitter EXCEPT ![t] = w], links' = links, saved' = saved,
           w = BeginBatch(submitter[t].batch) \/ SameTask(w, submitter[t])
    PROVE  OnceInv'
<1>0. TypeOK /\ OutboxTypes /\ OnceInv /\ submitter[t].batch \in Seq(Notice)
  BY WorkIs DEF OnceKept, OutboxKept
<1>1. ThreadOnce(submitter[t], links[t]) /\ (t = "listener" => submitter[t].batch = <<>>)
  BY <1>0 DEF OnceInv
<1>2. CASE w = BeginBatch(submitter[t].batch)
  <2>1. ThreadOnce(w, links[t])
    BY <1>0, <1>1, <1>2, BeginBatchOnce DEF ThreadOnce
  <2>2. t = "listener" => w.batch = <<>>
    BY <1>0, <1>1, <1>2, BeginBatchIs, IdleIs
  <2> QED BY <1>0, <2>1, <2>2, OnceMove
<1>3. CASE SameTask(w, submitter[t])
  <2>1. ThreadOnce(w, links[t]) /\ (t = "listener" => w.batch = <<>>)
    BY <1>1, <1>3 DEF ThreadOnce, SameTask
  <2> QED BY <1>0, <2>1, OnceMove
<1> QED BY <1>2, <1>3

LEMMA OnceRest ==
    ASSUME TypeOK, OutboxTypes, OnceInv, Does, submitter' = submitter, links' = links, saved' = saved
    PROVE  OnceInv'
<1>1. \A u \in Submitter, n \in Notice : links'[u][n] = 1 => n \in ToSet(saved') /\ noticeCmd'[n] # NoCmd
  BY LinkStays DEF OnceInv
<1> QED BY <1>1 DEF OnceInv

LEMMA SaveOnce ==
    ASSUME OnceKept, Does, SaveNotice
    PROVE  OnceInv'
<1> DEFINE n == Head(arrivals)
           w == Begin(n, <<>>)
<1>0. /\ TypeOK /\ OutboxTypes /\ OnceInv /\ saved \in Seq(Notice) /\ links' = links
      /\ arrivals \in Seq(Notice) /\ arrivals # <<>> /\ UNCHANGED storeVars
  BY DEF OnceKept, OutboxKept, OutboxTypes, SaveNotice
<1>1. n \in Notice
  BY <1>0, HeadTailProperties
<1>2. CASE n \in ToSet(saved)
  BY <1>0, <1>2, OnceRest DEF SaveNotice
<1>3. CASE n \notin ToSet(saved)
  <2>1. saved' = Append(saved, n) /\ submitter' = [submitter EXCEPT !["listener"] = w]
    BY <1>3 DEF SaveNotice
  <2> HIDE DEF n
  <2>2. ToSet(saved') = ToSet(saved) \cup {n}
    BY <1>0, <1>1, <2>1, ToSetOf
  <2>3. Distinct(saved')
    <3>1. /\ Len(saved) \in Nat /\ DOMAIN saved = 1 .. Len(saved) /\ DOMAIN saved' = 1 .. (Len(saved) + 1)
          /\ \A i \in DOMAIN saved : saved'[i] = saved[i] /\ saved[i] # n
          /\ saved'[Len(saved) + 1] = n
      BY <1>0, <1>1, <1>3, <2>1 DEF ToSet
    <3>2. \A i \in DOMAIN saved' : i \in DOMAIN saved \/ i = Len(saved) + 1
      BY <3>1
    <3> QED BY <1>0, <3>1, <3>2 DEF Distinct, OnceInv
  <2>4. w.batch = <<>> /\ ThreadOnce(w, links["listener"])
    <3>1. links["listener"][n] = 0
      BY <1>0, <1>1, <1>3 DEF OnceInv, Submitter
    <3>2. <<>> \in Seq(Notice) /\ ToSet(<<>>) = {} /\ Distinct(<<>>)
      BY EmptySet DEF Distinct
    <3> QED BY <1>1, <3>1, <3>2, BeginOnce, BeginIs
  <2> HIDE DEF w
  <2>5. \A u \in Submitter : ThreadOnce(submitter'[u], links'[u])
    BY <1>0, <2>1, <2>4 DEF OnceInv, OutboxTypes
  <2>6. submitter'["listener"].batch = <<>>
    BY <1>0, <2>1, <2>4 DEF OutboxTypes, Submitter
  <2>7. \A u \in Submitter, m \in Notice : links'[u][m] = 1 => m \in ToSet(saved') /\ noticeCmd'[m] # NoCmd
    BY <1>0, <2>2, LinkStays DEF OnceInv
  <2> QED BY <1>0, <2>3, <2>5, <2>6, <2>7 DEF OnceInv
<1> QED BY <1>2, <1>3

LEMMA ScanOnce ==
    ASSUME OnceKept, Does, Scan
    PROVE  OnceInv'
<1> DEFINE w == BeginBatch(Batch)
<1>0. /\ TypeOK /\ OutboxTypes /\ OnceInv /\ saved \in Seq(Notice) /\ links' = links /\ saved' = saved
      /\ submitter' = [submitter EXCEPT !["outbox"] = w] /\ "outbox" \in Submitter
  BY DEF OnceKept, OutboxKept, OutboxTypes, Scan, noticeRows, Submitter, work
<1>1. Batch \in Seq(Notice) /\ Distinct(Batch) /\ \A n \in ToSet(Batch) : n \in ToSet(saved) /\ Unsubmitted(n)
  BY <1>0, BatchIs DEF OnceInv
<1>2. \A n \in ToSet(Batch) : links["outbox"][n] = 0
  <2>1. \A n \in ToSet(Batch) : n \in Notice /\ noticeCmd[n] = NoCmd
    BY <1>0, <1>1, ToSetOf DEF Unsubmitted
  <2> QED BY <1>0, <2>1 DEF OnceInv
<1>3. ThreadOnce(w, links["outbox"])
  BY <1>1, <1>2, BeginBatchOnce
<1> HIDE DEF w
<1> QED BY <1>0, <1>3, OnceMove

LEMMA CheckOnce ==
    ASSUME OnceKept, Does, NEW t \in Submitter, Check(t) \/ MarkExpired(t)
    PROVE  OnceInv'
<1> DEFINE w == submitter[t]
           k == submitted[w.notice] + 1
<1>0. /\ w.at # "idle" /\ links' = links /\ saved' = saved
      /\ submitter \in [Submitter -> SubmitterState] /\ w \in SubmitterState
  BY WorkIs DEF Check, MarkExpired, OnceKept, OutboxKept, OutboxTypes, noticeRows, work
<1>1. CASE submitter' = [submitter EXCEPT ![t].at = "mark"]
  <2> DEFINE v == [w EXCEPT !.at = "mark"]
  <2>1. submitter' = [submitter EXCEPT ![t] = v]
    BY <1>1
  <2>2. SameTask(v, w)
    BY <1>0 DEF SubmitterState, SameTask
  <2> HIDE DEF v
  <2> QED BY <1>0, <2>1, <2>2, OnceOn
<1>2. CASE Returned(t)
  BY <1>0, <1>2, OnceOn DEF Returned
<1>3. CASE submitter' = [submitter EXCEPT ![t].at = "create", ![t].k = k, ![t].s = 1]
  <2> DEFINE v == [w EXCEPT !.at = "create", !.k = k, !.s = 1]
  <2>1. submitter' = [submitter EXCEPT ![t] = v]
    BY <1>0, <1>3
  <2> HIDE DEF k
  <2>2. SameTask(v, w)
    BY <1>0 DEF SubmitterState, SameTask
  <2> HIDE DEF v
  <2> QED BY <1>0, <2>1, <2>2, OnceOn
<1> QED BY <1>1, <1>2, <1>3 DEF Check, MarkExpired

LEMMA EnqueueOnce ==
    ASSUME OnceKept, Does, NEW t \in Submitter, EnqueueSentence(t)
    PROVE  OnceInv'
<1> DEFINE w == submitter[t]
<1>0. /\ TypeOK /\ OutboxTypes /\ WorkInv /\ w.at = "create" /\ links' = links /\ saved' = saved
      /\ w.queued \in Nat
  BY WorkIs DEF EnqueueSentence, OnceKept, OutboxKept, noticeRows
<1>1. \E q \in Nat : q <= w.queued + 1 /\ AfterSentence(t, q)
  <2>1. \A d \in {0, 1} : w.queued + d \in Nat /\ w.queued + d <= w.queued + 1
    BY <1>0
  <2>2. w.queued <= w.queued + 1
    BY <1>0
  <2>3. \/ \E d \in {0, 1} : AfterSentence(t, w.queued + d)
        \/ AfterSentence(t, w.queued)
    BY DEF EnqueueSentence
  <2> QED BY <1>0, <2>1, <2>2, <2>3
<1>2. PICK v \in SubmitterState :
        submitter' = [submitter EXCEPT ![t] = v] /\ (v = BeginBatch(w.batch) \/ SameTask(v, w))
  BY <1>0, <1>1, AfterSentenceIs
<1> QED BY <1>0, <1>2, OnceOn

LEMMA LinkOnce ==
    ASSUME OnceKept, Does, NEW t \in Submitter, Link(t)
    PROVE  OnceInv'
<1> DEFINE w == submitter[t]
           n == w.notice
           v == BeginBatch(w.batch)
           count == links'[t]
<1>0. /\ TypeOK /\ OutboxTypes /\ WorkInv /\ OnceInv /\ w.at = "link" /\ n \in Notice /\ n \in ToSet(saved)
      /\ w.batch \in Seq(Notice) /\ saved' = saved /\ submitter' = [submitter EXCEPT ![t] = v]
      /\ submitter \in [Submitter -> SubmitterState] /\ links \in [Submitter -> [Notice -> 0 .. 1]]
  BY WorkIs DEF Link, OnceKept, OutboxKept, OutboxTypes, noticeRows, Returned, OnceInv
<1>1. ThreadOnce(w, links[t]) /\ (t = "listener" => w.batch = <<>>)
  BY <1>0 DEF OnceInv
<1>2. links' = [links EXCEPT ![t][n] = @ + 1] /\ noticeCmd'[n] = Current(t) /\ Current(t) \in Cmd
  BY <1>0, CurrentIs DEF Link, LinkNotice, LastCommand, TypeOK
<1> HIDE DEF w, n
<1>3. links[t][n] = 0 /\ n \notin ToSet(w.batch)
  BY <1>0, <1>1 DEF ThreadOnce, n
<1>4. count = [links[t] EXCEPT ![n] = 1] /\ links' = [links EXCEPT ![t] = count]
  BY <1>0, <1>2, <1>3
<1>5. links' \in [Submitter -> [Notice -> 0 .. 1]]
  BY <1>0, <1>4
<1>6. ThreadOnce(v, count)
  <2>1. \A m \in ToSet(w.batch) : m \in Notice /\ count[m] = 0
    BY <1>0, <1>1, <1>3, <1>4, ToSetOf DEF ThreadOnce
  <2> HIDE DEF count
  <2> QED BY <1>0, <1>1, <2>1, BeginBatchOnce DEF ThreadOnce
<1>7. t = "listener" => v.batch = <<>>
  BY <1>0, <1>1, BeginBatchIs, IdleIs
<1> HIDE DEF v, count
<1>8. \A u \in Submitter : ThreadOnce(submitter'[u], links'[u])
  <2> TAKE u \in Submitter
  <2>1. CASE u = t
    BY <1>0, <1>4, <1>6, <2>1
  <2>2. CASE u # t
    <3>1. submitter'[u] = submitter[u] /\ links'[u] = links[u]
      BY <1>0, <1>4, <2>2
    <3> QED BY <1>0, <3>1 DEF OnceInv
  <2> QED BY <2>1, <2>2
<1>9. submitter'["listener"].batch = <<>>
  BY <1>0, <1>7 DEF OnceInv, Submitter
<1>10. \A u \in Submitter, m \in Notice : links'[u][m] = 1 => m \in ToSet(saved') /\ noticeCmd'[m] # NoCmd
  <2> TAKE u \in Submitter, m \in Notice
  <2>1. CASE m = n
    BY <1>0, <1>2, <2>1, StoreAssumption DEF StoreAssumption
  <2>2. CASE m # n
    <3>1. links'[u][m] = links[u][m]
      BY <1>0, <1>4, <2>2
    <3> QED BY <1>0, <3>1, LinkStays DEF OnceInv
  <2> QED BY <2>1, <2>2
<1> QED BY <1>0, <1>5, <1>8, <1>9, <1>10 DEF OnceInv

LEMMA RestartOnce ==
    ASSUME OnceKept, Does, Restart
    PROVE  OnceInv'
<1>0. /\ TypeOK /\ OutboxTypes /\ OnceInv /\ links' = links /\ saved' = saved
      /\ submitter' = [t \in Submitter |-> Idle]
  BY DEF OnceKept, OutboxKept, Restart, noticeRows
<1>1. \A u \in Submitter, n \in Notice : links'[u][n] = 1 => n \in ToSet(saved') /\ noticeCmd'[n] # NoCmd
  BY <1>0, LinkStays DEF OnceInv
<1> QED BY <1>0, <1>1, IdleOnce, IdleIs DEF OnceInv, Submitter

LEMMA StepOnce ==
    ASSUME OnceKept, [OutboxNext]_outboxVars
    PROVE  OnceInv'
<1>0. Does /\ TypeOK /\ OutboxTypes /\ OnceInv
  BY StepDoes DEF OnceKept, OutboxKept
<1>1. CASE submitter' = submitter /\ links' = links /\ saved' = saved
  BY <1>0, <1>1, OnceRest
<1>2. ASSUME NEW n \in Notice, Push(n) \/ GrowLate(n) PROVE OnceInv'
  BY <1>1, <1>2 DEF Push, GrowLate, noticeRows, work
<1>3. CASE CancelStore \/ CancelMemory \/ Report \/ RowTime \/ MemoryExpires \/ PollStep
  BY <1>1, <1>3 DEF CancelStore, CancelMemory, Report, RowTime, MemoryExpires, PollStep, PollSweep,
                    PollStore, PollMemory, noticeRows, work
<1>4. ASSUME NEW b \in Boots, Hello(b) PROVE OnceInv'
  BY <1>1, <1>4 DEF Hello, noticeRows, work
<1>5. CASE UNCHANGED outboxVars
  BY <1>1, <1>5 DEF outboxVars, noticeRows, work
<1> QED BY <1>0, <1>2, <1>3, <1>4, <1>5, SaveOnce, ScanOnce, CheckOnce, EnqueueOnce, LinkOnce, RestartOnce
        DEF OutboxNext, SubmitStep

LEMMA OnceBegins == OutboxInit => OnceInv
<1> SUFFICES ASSUME OutboxInit PROVE OnceInv
  OBVIOUS
<1>1. submitter = [t \in Submitter |-> Idle] /\ links = [t \in Submitter |-> [n \in Notice |-> 0]] /\ saved = <<>>
  BY DEF OutboxInit
<1>2. Distinct(saved)
  BY <1>1 DEF Distinct
<1> QED BY <1>1, <1>2, IdleOnce, IdleIs DEF OnceInv, Submitter

LEMMA OnceHolds == OutboxSpec => []OnceKept
<1>1. OutboxInit => OnceKept
  BY OnceBegins, OutboxBegins DEF OnceKept
<1>2. OnceKept /\ [OutboxNext]_outboxVars => OnceKept'
  BY StepOnce, OutboxStep DEF OnceKept
<1> QED BY <1>1, <1>2, PTL DEF OutboxSpec

\* Neither the listener nor the outbox ever links a reminder twice, so it is
\* linked twice at most, whatever restarts, repeated pushes and failing
\* INSERTs come between.
THEOREM LinkedOnce == OutboxSpec => []LinkedOnceByEach
<1>1. OnceKept => LinkedOnceByEach
  <2> SUFFICES ASSUME OnceKept, NEW t \in Submitter, NEW n \in Notice PROVE links[t][n] <= 1
    BY DEF LinkedOnceByEach
  <2>1. links[t][n] \in 0 .. 1
    BY DEF OnceKept, OnceInv
  <2> QED BY <2>1
<1> QED BY <1>1, OnceHolds, PTL

-----------------------------------------------------------------------------
(* What the transactions do to one reminder and to one row.                 *)

\* A transaction that is not an ACK ends an open reminder only as expired,
\* failed or cancelled, and as expired only with its command.
LEMMA UpkeepNotices ==
    ASSUME TypeOK, Upkeep, NEW n \in Notice
    PROVE  /\ noticeCmd' = noticeCmd
           /\ \/ noticeState'[n] = noticeState[n]
              \/ /\ noticeState[n] \notin Terminal /\ noticeCmd[n] \in Cmd
                 /\ noticeState'[n] \in {"expired", "failed", "cancelled"}
                 /\ noticeState'[n] = "expired" => state'[noticeCmd[n]] = "expired"
<1> DEFINE P == /\ noticeCmd' = noticeCmd
                /\ \/ noticeState'[n] = noticeState[n]
                   \/ /\ noticeState[n] \notin Terminal /\ noticeCmd[n] \in Cmd
                      /\ noticeState'[n] \in {"expired", "failed", "cancelled"}
                      /\ noticeState'[n] = "expired" => state'[noticeCmd[n]] = "expired"
<1>1. CASE UNCHANGED noticeVars
  BY <1>1 DEF noticeVars
<1>2. CASE Sweep
  BY <1>2 DEF Sweep, Settled
<1>3. ASSUME NEW c \in Cmd, LeaseCommand(c, boot[dev]) PROVE P
  <2>1. \A d \in Cmd : ExpireDue[d] = "expired" => state'[d] = "expired"
    <3> TAKE d \in Cmd
    <3> HAVE ExpireDue[d] = "expired"
    <3>1. ExpireDue \in [Cmd -> CommandState \cup {"absent"}]
      BY SweepType
    <3>2. d # c \/ Refused(c, boot[dev])
      BY DEF Refused, Terminal
    <3>3. CASE Refused(c, boot[dev])
      BY <1>3, <3>1, <3>3 DEF LeaseCommand, Mark
    <3>4. CASE ~Refused(c, boot[dev]) /\ d # c
      BY <1>3, <3>1, <3>4 DEF LeaseCommand, Mark
    <3> QED BY <3>2, <3>3, <3>4
  <2>2. noticeState' = Settled(ExpireDue, {"expired"}) /\ noticeCmd' = noticeCmd
    BY <1>3 DEF LeaseCommand
  <2> QED BY <2>1, <2>2 DEF Settled
<1>4. CASE CancelBeforeGeneration(dev, MaxGeneration)
  BY <1>4 DEF CancelBeforeGeneration, NoticesCancelled, Row, Terminal
<1>5. Upkeep => \/ UNCHANGED noticeVars \/ Sweep \/ CancelBeforeGeneration(dev, MaxGeneration)
                \/ \E c \in Cmd : LeaseCommand(c, boot[dev])
  BY DEF Upkeep, CreateCommand, ObserveDeviceBoot, GiveUp, ExpireInactiveBoots, LeaseLapse, storeVars, vars
<1> QED BY <1>1, <1>2, <1>3, <1>4, <1>5

\* It changes a row only while nothing has ended it, and when it cancels one
\* it cancels the open reminders that are linked to it.
LEMMA UpkeepRow ==
    ASSUME TypeOK, Upkeep, NEW c \in Cmd
    PROVE  \/ state'[c] = state[c]
           \/ state[c] = "absent" /\ state'[c] = "queued"
           \/ state[c] \in Live /\ state'[c] \in {"leased", "failed", "expired"}
           \/ /\ state[c] \in Live /\ state'[c] = "cancelled"
              /\ \A n \in Notice : noticeCmd[n] = c /\ noticeState[n] \notin Terminal
                                   => noticeState'[n] = "cancelled"
<1> DEFINE P == \/ state'[c] = state[c]
                \/ state[c] = "absent" /\ state'[c] = "queued"
                \/ state[c] \in Live /\ state'[c] \in {"leased", "failed", "expired"}
                \/ /\ state[c] \in Live /\ state'[c] = "cancelled"
                   /\ \A n \in Notice : noticeCmd[n] = c /\ noticeState[n] \notin Terminal
                                        => noticeState'[n] = "cancelled"
<1>0. \/ ExpireDue[c] = state[c] \/ (state[c] \in Live /\ ExpireDue[c] = "expired")
  BY DEF ExpireDue, Mark, Due, Active
<1>1. ASSUME NEW C \in SUBSET Active, GiveUp(C, "expired") PROVE P
  BY <1>1 DEF GiveUp, Mark, Active
<1>2. ASSUME NEW d \in Cmd, CreateCommand(d, boot[dev]) PROVE P
  BY <1>2 DEF CreateCommand, TypeOK
<1>3. CASE Sweep
  BY <1>0, <1>3 DEF Sweep, FailExhausted, Mark, Exhausted, Live
<1>4. ASSUME NEW d \in Cmd, LeaseCommand(d, boot[dev]) PROVE P
  <2>1. ExpireDue \in [Cmd -> CommandState \cup {"absent"}]
    BY SweepType
  <2>2. CASE Refused(d, boot[dev])
    BY <1>0, <1>4, <2>1, <2>2 DEF LeaseCommand, Mark
  <2>3. CASE ~Refused(d, boot[dev])
    <3>1. state'[c] = ExpireDue[c] \/ (c = d /\ state'[c] \in {"leased", "failed"})
      BY <1>4, <2>1, <2>3 DEF LeaseCommand, Mark
    <3>2. ExpireDue[d] \in Live
      BY <2>1, <2>3 DEF Refused, CommandState
    <3>3. c = d => state[c] \in Live
      BY <1>0, <3>2 DEF Live
    <3> QED BY <1>0, <3>1, <3>3
  <2> QED BY <2>2, <2>3
<1>5. CASE CancelBeforeGeneration(dev, MaxGeneration)
  <2> DEFINE older == {d \in Row : Envelope[d].device = dev /\ Envelope[d].generation < MaxGeneration}
             gone  == {d \in older \cap Active : Envelope[d].type = "speak"}
  <2>1. state' = Mark(state, gone, "cancelled") /\ noticeState' = NoticesCancelled({d \in older : state'[d] = "cancelled"})
    BY <1>5 DEF CancelBeforeGeneration
  <2>2. CASE c \notin gone
    BY <2>1, <2>2 DEF Mark
  <2>3. CASE c \in gone
    <3>1. state'[c] = "cancelled" /\ c \in older /\ state[c] \in Live
      BY <2>1, <2>3 DEF Mark, Active
    <3>2. \A n \in Notice : noticeState[n] \notin Terminal => noticeState[n] \in {"received", "queued", "leased"}
      BY DEF TypeOK
    <3> HIDE DEF older, gone
    <3>3. \A n \in Notice : noticeCmd[n] = c /\ noticeState[n] \notin Terminal => noticeState'[n] = "cancelled"
      BY <2>1, <3>1, <3>2 DEF NoticesCancelled
    <3> QED BY <3>1, <3>3
  <2> QED BY <2>2, <2>3
<1>6. CASE ExpireInactiveBoots
  <2>1. PICK C \in SUBSET Active : GiveUp(C, "expired")
    BY <1>6 DEF ExpireInactiveBoots
  <2> QED BY <1>1, <2>1
<1>7. ASSUME NEW b, ObserveDeviceBoot(dev, b) PROVE P
  <2>1. PICK C \in SUBSET Active : GiveUp(C, "expired")
    BY <1>7 DEF ObserveDeviceBoot
  <2> QED BY <1>1, <2>1
<1>8. CASE UNCHANGED rowVars
  BY <1>8 DEF rowVars
<1>9. (\E d \in Cmd : LeaseLapse(d)) \/ UNCHANGED storeVars => UNCHANGED rowVars
  BY DEF LeaseLapse, storeVars, vars
<1> QED BY <1>1, <1>2, <1>3, <1>4, <1>5, <1>6, <1>7, <1>8, <1>9 DEF Upkeep

\* An ACK of the device changes the row it names, and the reminders linked to
\* it with the row.
LEMMA AckRow ==
    ASSUME TypeOK, NEW c \in Cmd, NEW v \in {"rendered", "failed"}, RecordAck(c, v, boot[dev])
    PROVE  /\ noticeCmd' = noticeCmd /\ boot' = boot /\ bound' = bound
           /\ overdue' \subseteq overdue
           /\ \A d \in Cmd : state'[d] = state[d]
                             \/ (d = c /\ state[d] \notin Terminal /\ state'[d] = v)
           /\ \A n \in Notice : \/ noticeState'[n] = noticeState[n]
                                \/ noticeCmd[n] = c /\ noticeState'[n] = v
           /\ state'[c] # state[c] => \A n \in Notice : noticeCmd[n] = c => noticeState'[n] = v
<1> DEFINE advance == AckCanAdvance(state[c], v)
<1>0. v # "deferred" /\ NoticeStateOf(v) = v
  BY DEF NoticeStateOf
<1>1. /\ state' = [state EXCEPT ![c] = IF advance THEN v ELSE @]
      /\ noticeState' = [n \in Notice |-> IF advance /\ noticeCmd[n] = c THEN v ELSE noticeState[n]]
      /\ noticeCmd' = noticeCmd /\ boot' = boot /\ bound' = bound /\ overdue' \subseteq overdue
  BY <1>0 DEF RecordAck, Clocks
<1>2. advance /\ state[c] \in Terminal => v = state[c]
  BY DEF AckCanAdvance
<1> HIDE DEF advance
<1>3. state \in [Cmd -> CommandState \cup {"absent"}]
  BY DEF TypeOK
<1> QED BY <1>1, <1>2, <1>3

-----------------------------------------------------------------------------
(* A reminder counts as delivered only when it has been heard.              *)

\* The submissions of n whose last sentence the device has spoken.
Spoken(n) == {k \in 1 .. MaxSubmissions : /\ <<n, k, Sentences[n]>> \in Cmd
                                          /\ outcome[<<n, k, Sentences[n]>>] = "rendered"}

\* A reminder is only ever linked to the command for its last sentence.
HeardInv ==
    \A n \in Notice :
        /\ noticeCmd[n] # NoCmd => \E k \in 1 .. MaxSubmissions : noticeCmd[n] = <<n, k, Sentences[n]>>
        /\ noticeState[n] = "rendered" => Spoken(n) # {}

LEMMA StepHeard ==
    ASSUME TypeOK, OutboxTypes, HeardInv, Does
    PROVE  HeardInv'
<1> DEFINE Linked(n) == noticeCmd'[n] # NoCmd
                          => \E k \in 1 .. MaxSubmissions : noticeCmd'[n] = <<n, k, Sentences[n]>>
<1>0. /\ \A c \in Cmd : outcome[c] = "rendered" => outcome'[c] = "rendered"
      /\ \A n \in Notice : Spoken(n) \subseteq Spoken(n)'
  <2>1. \A c \in Cmd : outcome[c] = "rendered" => outcome'[c] = "rendered"
    BY DEF Does, Grows
  <2> QED BY <2>1 DEF Spoken
<1>1. ASSUME NEW n \in Notice, noticeCmd'[n] = noticeCmd[n],
             noticeState'[n] = noticeState[n] \/ noticeState'[n] # "rendered"
      PROVE  Linked(n) /\ (noticeState'[n] = "rendered" => Spoken(n)' # {})
  BY <1>0, <1>1 DEF HeardInv
<1>2. CASE Linking
  <2>1. PICK m \in ToSet(saved), k \in 1 .. MaxSubmissions :
          <<m, k, Sentences[m]>> \in Cmd /\ LinkNotice(m, <<m, k, Sentences[m]>>)
    BY <1>2 DEF Linking
  <2>2. /\ noticeCmd' = [noticeCmd EXCEPT ![m] = <<m, k, Sentences[m]>>]
        /\ noticeState' = [noticeState EXCEPT ![m] = "queued"]
        /\ DOMAIN noticeCmd = Notice /\ DOMAIN noticeState = Notice
    BY <2>1 DEF LinkNotice, TypeOK
  <2>3. ASSUME NEW n \in Notice PROVE Linked(n) /\ (noticeState'[n] = "rendered" => Spoken(n)' # {})
    <3>1. CASE n = m
      BY <2>1, <2>2, <3>1
    <3>2. CASE n # m
      BY <1>1, <2>2, <3>2
    <3> QED BY <3>1, <3>2
  <2> QED BY <2>3 DEF HeardInv
<1>3. CASE Upkeep
  <2>1. ASSUME NEW n \in Notice PROVE Linked(n) /\ (noticeState'[n] = "rendered" => Spoken(n)' # {})
    BY <1>1, <1>3, UpkeepNotices
  <2> QED BY <2>1 DEF HeardInv
<1>4. CASE Acking
  <2>1. PICK c \in Cmd, v \in {"rendered", "failed"} : RecordAck(c, v, boot[dev]) /\ outcome'[c] = v
    BY <1>4 DEF Acking
  <2>2. ASSUME NEW n \in Notice PROVE Linked(n) /\ (noticeState'[n] = "rendered" => Spoken(n)' # {})
    <3>1. noticeCmd' = noticeCmd /\ (noticeState'[n] = noticeState[n] \/ (noticeCmd[n] = c /\ noticeState'[n] = v))
      BY <2>1, AckRow
    <3>2. CASE noticeState'[n] = noticeState[n] \/ noticeState'[n] # "rendered"
      BY <1>1, <3>1, <3>2
    <3>3. CASE noticeCmd[n] = c /\ v = "rendered"
      <4>1. PICK k \in 1 .. MaxSubmissions : c = <<n, k, Sentences[n]>>
        BY <3>3, StoreAssumption DEF HeardInv, StoreAssumption
      <4>2. k \in Spoken(n)'
        BY <2>1, <3>3, <4>1 DEF Spoken
      <4> QED BY <3>1, <3>3, <4>1, <4>2
    <3> QED BY <3>1, <3>2, <3>3
  <2> QED BY <2>2 DEF HeardInv
<1>5. CASE Expiring
  <2>1. ASSUME NEW n \in Notice PROVE Linked(n) /\ (noticeState'[n] = "rendered" => Spoken(n)' # {})
    BY <1>1, <1>5, ExpiringIs DEF SomeExpired, OutboxKept
  <2> QED BY <2>1 DEF HeardInv
<1>6. ASSUME NEW m, DeadlineOf(m) PROVE HeardInv'
  <2>1. ASSUME NEW n \in Notice PROVE Linked(n) /\ (noticeState'[n] = "rendered" => Spoken(n)' # {})
    BY <1>1, <1>6 DEF DeadlineOf, noticeVars
  <2> QED BY <2>1 DEF HeardInv
<1> QED BY <1>2, <1>3, <1>4, <1>5, <1>6 DEF Does, StoreDoes

LEMMA HeardHolds == OutboxSpec => []HeardInv
<1>1. OutboxInit => HeardInv
  BY DEF OutboxInit, Init, HeardInv
<1>2. OutboxKept /\ HeardInv /\ [OutboxNext]_outboxVars => HeardInv'
  BY StepDoes, StepHeard DEF OutboxKept
<1> QED BY <1>1, <1>2, OutboxHolds, PTL DEF OutboxSpec

\* A reminder is reported rendered only when the device has spoken the last
\* sentence of one of its submissions to its end.
THEOREM RenderedIsHeard == OutboxSpec => []RenderedMeansHeard
<1>1. OutboxKept /\ HeardInv => RenderedMeansHeard
  <2> SUFFICES ASSUME OutboxKept, HeardInv, NEW n \in ToSet(saved), noticeState[n] = "rendered"
               PROVE  Heard(n, Sentences[n]) > 0
    BY DEF RenderedMeansHeard
  <2> DEFINE S == Spoken(n)
  <2>1. n \in Notice
    BY ToSetOf DEF OutboxKept, OutboxTypes
  <2>2. S # {} /\ S \subseteq 1 .. MaxSubmissions
    BY <2>1 DEF HeardInv, Spoken
  <2>3. IsFiniteSet(1 .. MaxSubmissions)
    BY OutboxAssumption, FS_Interval DEF OutboxAssumption
  <2>4. Heard(n, Sentences[n]) = Cardinality(S)
    BY DEF Heard, Spoken
  <2> HIDE DEF S
  <2>5. IsFiniteSet(S) /\ Cardinality(S) \in Nat /\ Cardinality(S) # 0
    BY <2>2, <2>3, FS_Subset, FS_CardinalityType, FS_EmptySet
  <2> QED BY <2>4, <2>5
<1> QED BY <1>1, HeardHolds, OutboxHolds, PTL

-----------------------------------------------------------------------------
(* A reminder is given up as expired only when it is too late, or for the   *)
(* restart of its device.                                                   *)

\* A row runs out of time with its reminder, and one that is given up for a
\* boot is of an earlier one than the device's.
LateInv ==
    /\ \A c \in overdue : c[1] \in late
    /\ \A c \in Cmd : bound[c] <= boot[dev]
    /\ \A c \in Cmd : state[c] = "expired" => c[1] \in late \/ bound[c] < boot[dev]
    /\ \A n \in Notice :
          noticeState[n] = "expired" => n \in late \/ (noticeCmd[n] \in Cmd /\ state[noticeCmd[n]] = "expired")

LEMMA BootNumbers ==
    ASSUME TypeOK, NEW c \in Cmd
    PROVE  bound[c] \in Nat /\ boot[dev] \in Nat
<1>1. Device = {dev}
  BY OutboxAssumption DEF OutboxAssumption
<1>2. \A b \in Boots : b \in Nat
  BY StoreAssumption DEF StoreAssumption
<1>3. bound[c] \in Boots \cup {0} /\ boot[dev] \in Boots \cup {0}
  BY <1>1 DEF TypeOK
<1> QED BY <1>2, <1>3

\* A row that expires is overdue or of an earlier boot, and the boots grow.
LEMMA UpkeepBoots ==
    ASSUME TypeOK, Upkeep, \A c \in Cmd : bound[c] <= boot[dev], NEW c \in Cmd
    PROVE  /\ overdue' \subseteq overdue
           /\ bound'[c] <= boot'[dev]
           /\ state'[c] = "expired" => \/ state[c] # "expired" /\ c \in overdue
                                       \/ bound'[c] < boot'[dev]
                                       \/ state[c] = "expired" /\ bound[c] >= boot[dev]
<1> DEFINE P == /\ overdue' \subseteq overdue
                /\ bound'[c] <= boot'[dev]
                /\ state'[c] = "expired" => \/ state[c] # "expired" /\ c \in overdue
                                            \/ bound'[c] < boot'[dev]
                                            \/ state[c] = "expired" /\ bound[c] >= boot[dev]
<1>0. /\ bound[c] \in Nat /\ boot[dev] \in Nat /\ bound[c] <= boot[dev] /\ Envelope[c].device = dev
      /\ dev \in Device /\ \A b \in Boots : b \in Nat /\ b # 0
  <2>1. Envelope[c].device \in Device
    BY StoreAssumption DEF StoreAssumption, CommandEnvelope
  <2>2. Device = {dev}
    BY OutboxAssumption DEF OutboxAssumption
  <2>3. \A b \in Boots : b \in Nat /\ b # 0
    BY StoreAssumption DEF StoreAssumption
  <2> QED BY <2>1, <2>2, <2>3, BootNumbers
<1>1. ASSUME boot' = boot, bound'[c] = bound[c], overdue' \subseteq overdue,
             state'[c] = "expired" => state[c] = "expired" \/ c \in overdue \/ bound[c] < boot[dev]
      PROVE  P
  BY <1>0, <1>1
<1>2. ExpireDue[c] = "expired" => state[c] = "expired" \/ c \in overdue
  BY DEF ExpireDue, Mark, Due
<1>3. ASSUME NEW d \in Cmd, CreateCommand(d, boot[dev]) PROVE P
  <2>1. boot' = boot /\ overdue' = overdue /\ (state'[c] = "expired" => state[c] = "expired")
    BY <1>3 DEF CreateCommand, timeVars, TypeOK
  <2>2. CASE c # d
    <3>1. bound'[c] = bound[c]
      BY <1>3, <2>2 DEF CreateCommand, TypeOK
    <3> QED BY <1>1, <2>1, <3>1
  <2>3. CASE c = d
    <3>1. bound'[c] = boot[dev] /\ state'[c] = "queued"
      BY <1>0, <1>3, <2>3 DEF CreateCommand, TypeOK
    <3> QED BY <1>0, <2>1, <3>1
  <2> QED BY <2>2, <2>3
<1>4. ASSUME NEW b \in Boots, b = boot[dev] + 1, ObserveDeviceBoot(dev, b) PROVE P
  <2> DEFINE gone == {d \in Active : Envelope[d].device = dev /\ bound[d] # 0 /\ bound[d] # b}
  <2>1. boot'[dev] = boot[dev] + 1 /\ overdue' \subseteq overdue
    BY <1>0, <1>4 DEF ObserveDeviceBoot, TypeOK, GiveUp, Clocks
  <2>2. bound'[c] = bound[c] \/ (bound'[c] = b /\ c \in Active)
    BY <1>4 DEF ObserveDeviceBoot
  <2>3. state' = Mark(state, gone, "expired")
    BY <1>4 DEF ObserveDeviceBoot, GiveUp
  <2>4. CASE bound'[c] = bound[c]
    BY <1>0, <2>1, <2>4
  <2>5. CASE bound'[c] = b /\ bound'[c] # bound[c] /\ c \in Active
    <3>1. bound[c] = 0
      BY <1>4, <2>5 DEF ObserveDeviceBoot
    <3>2. state'[c] = state[c] /\ state[c] # "expired"
      BY <2>3, <2>5, <3>1 DEF Mark, Active, Live
    <3> QED BY <1>0, <1>4, <2>1, <2>5, <3>2
  <2> QED BY <2>2, <2>4, <2>5
<1>5. CASE ExpireInactiveBoots
  <2> DEFINE gone == {d \in Active : /\ bound[d] # 0 /\ boot[Envelope[d].device] # 0
                                     /\ bound[d] # boot[Envelope[d].device]}
  <2>1. boot' = boot /\ bound' = bound /\ overdue' \subseteq overdue /\ state' = Mark(state, gone, "expired")
    BY <1>5 DEF ExpireInactiveBoots, GiveUp, Clocks
  <2>2. state'[c] = "expired" => state[c] = "expired" \/ bound[c] < boot[dev]
    BY <1>0, <2>1 DEF Mark
  <2> QED BY <1>1, <2>1, <2>2
<1>6. CASE Sweep
  <2>1. boot' = boot /\ bound' = bound /\ overdue' \subseteq overdue /\ state' = FailExhausted
    BY <1>6 DEF Sweep, Clocks
  <2>2. state'[c] = "expired" => ExpireDue[c] = "expired"
    BY <2>1 DEF FailExhausted, Mark
  <2> QED BY <1>1, <1>2, <2>1, <2>2
<1>7. ASSUME NEW d \in Cmd, LeaseCommand(d, boot[dev]) PROVE P
  <2>1. boot' = boot /\ overdue' \subseteq overdue
    BY <1>7 DEF LeaseCommand, Clocks
  <2>2. state'[c] = "expired" => ExpireDue[c] = "expired"
    <3>1. ExpireDue \in [Cmd -> CommandState \cup {"absent"}]
      BY SweepType
    <3> QED BY <1>7, <3>1 DEF LeaseCommand, Mark
  <2>3. bound'[c] = bound[c] \/ (bound[c] = 0 /\ bound'[c] = boot[dev] /\ state'[c] = "leased")
    <3>1. ExpireDue \in [Cmd -> CommandState \cup {"absent"}] /\ bound \in [Cmd -> Boots \cup {0}]
      BY SweepType DEF TypeOK
    <3> QED BY <1>7, <3>1 DEF LeaseCommand
  <2>4. CASE bound'[c] = bound[c]
    BY <1>1, <1>2, <2>1, <2>2, <2>4
  <2>5. CASE bound'[c] = boot[dev] /\ state'[c] = "leased"
    BY <1>0, <2>1, <2>5
  <2> QED BY <2>3, <2>4, <2>5
<1>8. CASE CancelBeforeGeneration(dev, MaxGeneration)
  <2>1. boot' = boot /\ bound' = bound /\ overdue' \subseteq overdue
    BY <1>8 DEF CancelBeforeGeneration, Clocks
  <2>2. state'[c] = "expired" => state[c] = "expired"
    BY <1>8 DEF CancelBeforeGeneration, Mark
  <2> QED BY <1>1, <2>1, <2>2
<1>9. ASSUME NEW d \in Cmd, LeaseLapse(d) PROVE P
  BY <1>1, <1>9 DEF LeaseLapse, rowVars
<1>10. CASE UNCHANGED storeVars
  BY <1>1, <1>10 DEF storeVars, vars, rowVars, timeVars
<1> QED BY <1>3, <1>4, <1>5, <1>6, <1>7, <1>8, <1>9, <1>10 DEF Upkeep

LEMMA StepLate ==
    ASSUME TypeOK, OutboxTypes, LateInv, Does
    PROVE  LateInv'
<1> DEFINE RowLate(c)  == state'[c] = "expired" => c[1] \in late' \/ bound'[c] < boot'[dev]
           Excused(n) == noticeState'[n] = "expired"
                           => n \in late' \/ (noticeCmd'[n] \in Cmd /\ state'[noticeCmd'[n]] = "expired")
<1>0. late \subseteq late'
  BY DEF Does, Grows
<1>1. /\ \A c \in overdue : c[1] \in late
      /\ \A c \in Cmd : bound[c] <= boot[dev]
      /\ \A c \in Cmd : state[c] = "expired" => c[1] \in late \/ bound[c] < boot[dev]
      /\ \A n \in Notice : noticeState[n] = "expired"
           => n \in late \/ (noticeCmd[n] \in Cmd /\ state[noticeCmd[n]] = "expired")
  BY DEF LateInv
\* A transaction that leaves the rows.
<1>2. ASSUME boot' = boot, bound' = bound, state' = state, overdue' = overdue
      PROVE  (\A c \in overdue' : c[1] \in late') /\ (\A c \in Cmd : bound'[c] <= boot'[dev] /\ RowLate(c))
  BY <1>0, <1>1, <1>2
<1>3. CASE Linking
  <2>1. PICK m \in ToSet(saved), k \in 1 .. MaxSubmissions :
          <<m, k, Sentences[m]>> \in Cmd /\ LinkNotice(m, <<m, k, Sentences[m]>>)
    BY <1>3 DEF Linking
  <2>2. /\ boot' = boot /\ bound' = bound /\ state' = state /\ overdue' = overdue
        /\ noticeCmd' = [noticeCmd EXCEPT ![m] = <<m, k, Sentences[m]>>]
        /\ noticeState' = [noticeState EXCEPT ![m] = "queued"]
        /\ DOMAIN noticeCmd = Notice /\ DOMAIN noticeState = Notice
    BY <2>1 DEF LinkNotice, TypeOK, rowVars, timeVars
  <2>3. ASSUME NEW n \in Notice PROVE Excused(n)
    <3>1. CASE n = m
      BY <2>2, <3>1
    <3>2. CASE n # m
      BY <1>0, <1>1, <2>2, <3>2
    <3> QED BY <3>1, <3>2
  <2> QED BY <1>2, <2>2, <2>3 DEF LateInv
<1>4. CASE Upkeep
  <2>1. ASSUME NEW c \in Cmd PROVE overdue' \subseteq overdue /\ bound'[c] <= boot'[dev] /\ RowLate(c)
    <3>1. /\ overdue' \subseteq overdue /\ bound'[c] <= boot'[dev]
          /\ state'[c] = "expired" => \/ state[c] # "expired" /\ c \in overdue
                                      \/ bound'[c] < boot'[dev]
                                      \/ state[c] = "expired" /\ bound[c] >= boot[dev]
      BY <1>1, <1>4, UpkeepBoots
    <3>2. bound[c] \in Nat /\ boot[dev] \in Nat
      BY BootNumbers
    <3> QED BY <1>0, <1>1, <3>1, <3>2
  <2>2. ASSUME NEW n \in Notice PROVE Excused(n)
    <3>1. /\ noticeCmd' = noticeCmd
          /\ \/ noticeState'[n] = noticeState[n]
             \/ noticeCmd[n] \in Cmd /\ (noticeState'[n] = "expired" => state'[noticeCmd[n]] = "expired")
      BY <1>4, UpkeepNotices
    <3>2. \A c \in Cmd : state[c] = "expired" => state'[c] = "expired"
      BY <1>4, UpkeepRow DEF Live
    <3> QED BY <1>0, <1>1, <3>1, <3>2
  <2>3. \A c \in overdue' : c[1] \in late'
    <3>1. overdue \subseteq Cmd /\ overdue' \subseteq overdue
      <4>1. Other \in Cmd
        BY OutboxAssumption DEF OutboxAssumption
      <4> QED BY <2>1, <4>1 DEF TypeOK
    <3> QED BY <1>0, <1>1, <3>1
  <2> QED BY <2>1, <2>2, <2>3 DEF LateInv
<1>5. CASE Acking
  <2>1. PICK c \in Cmd, v \in {"rendered", "failed"} : RecordAck(c, v, boot[dev])
    BY <1>5 DEF Acking
  <2>2. /\ noticeCmd' = noticeCmd /\ boot' = boot /\ bound' = bound /\ overdue' \subseteq overdue
        /\ \A d \in Cmd : state'[d] = state[d] \/ (d = c /\ state[d] \notin Terminal /\ state'[d] = v)
        /\ \A n \in Notice : noticeState'[n] = noticeState[n] \/ (noticeCmd[n] = c /\ noticeState'[n] = v)
    BY <2>1, AckRow
  <2>3. v # "expired" /\ "expired" \in Terminal
    BY DEF Terminal
  <2>4. \A d \in Cmd : state'[d] = "expired" <=> state[d] = "expired"
    BY <2>2, <2>3
  <2>5. ASSUME NEW n \in Notice PROVE Excused(n)
    BY <1>0, <1>1, <2>2, <2>3, <2>4
  <2>6. \A d \in Cmd : bound'[d] <= boot'[dev] /\ RowLate(d)
    BY <1>0, <1>1, <2>2, <2>4
  <2> QED BY <1>0, <1>1, <2>2, <2>5, <2>6 DEF LateInv
<1>6. CASE Expiring
  <2>1. /\ boot' = boot /\ bound' = bound /\ state' = state /\ overdue' = overdue /\ noticeCmd' = noticeCmd
        /\ \A n \in Notice : noticeState'[n] = noticeState[n] \/ n \in late
    BY <1>6, ExpiringIs DEF SomeExpired, OutboxKept, rowVars, timeVars
  <2>2. ASSUME NEW n \in Notice PROVE Excused(n)
    BY <1>0, <1>1, <2>1
  <2> QED BY <1>2, <2>1, <2>2 DEF LateInv
<1>7. ASSUME NEW m \in late, DeadlineOf(m) PROVE LateInv'
  <2>1. /\ boot' = boot /\ bound' = bound /\ state' = state
        /\ noticeCmd' = noticeCmd /\ noticeState' = noticeState
        /\ \A c \in overdue' : c \in overdue \/ c[1] = m
    BY <1>7 DEF DeadlineOf, rowVars, noticeVars
  <2>2. ASSUME NEW n \in Notice PROVE Excused(n)
    BY <1>0, <1>1, <2>1
  <2>3. \A c \in Cmd : bound'[c] <= boot'[dev] /\ RowLate(c)
    BY <1>0, <1>1, <2>1
  <2>4. \A c \in overdue' : c[1] \in late'
    BY <1>0, <1>1, <1>7, <2>1
  <2> QED BY <2>2, <2>3, <2>4 DEF LateInv
<1> QED BY <1>3, <1>4, <1>5, <1>6, <1>7 DEF Does, StoreDoes

\* A reminder is given up as expired only when its own time has run out or
\* when the device has restarted since its command was bound to it; the
\* restart of the server, a failing INSERT or a cancellation never expires it.
THEOREM ExpiredIsLate == OutboxSpec => []ExpiredMeansLate
<1>1. OutboxInit => LateInv
  <2> SUFFICES ASSUME OutboxInit PROVE LateInv
    OBVIOUS
  <2>1. dev \in Device
    BY Assumptions
  <2> QED BY <2>1 DEF OutboxInit, Init, LateInv
<1>2. OutboxKept /\ LateInv /\ [OutboxNext]_outboxVars => LateInv'
  BY StepDoes, StepLate DEF OutboxKept
<1>3. OutboxKept /\ LateInv /\ HeardInv => ExpiredMeansLate
  <2> SUFFICES ASSUME OutboxKept, LateInv, HeardInv, NEW n \in ToSet(saved), noticeState[n] = "expired", n \notin late
               PROVE  noticeCmd[n] # NoCmd /\ bound[noticeCmd[n]] # boot[dev]
    BY DEF ExpiredMeansLate
  <2> DEFINE c == noticeCmd[n]
  <2>1. n \in Notice
    BY ToSetOf DEF OutboxKept, OutboxTypes
  <2>2. c \in Cmd /\ state[c] = "expired"
    BY <2>1 DEF LateInv
  <2>3. c # NoCmd
    BY <2>2, StoreAssumption DEF StoreAssumption
  <2>4. c[1] = n
    BY <2>1, <2>3 DEF HeardInv
  <2>5. bound[c] < boot[dev]
    BY <2>2, <2>4 DEF LateInv
  <2>6. bound[c] \in Nat /\ boot[dev] \in Nat
    BY <2>2, BootNumbers DEF OutboxKept
  <2> QED BY <2>3, <2>5, <2>6
<1> QED BY <1>1, <1>2, <1>3, HeardHolds, OutboxHolds, PTL DEF OutboxSpec

-----------------------------------------------------------------------------
(* No reminder is lost sight of.                                            *)

\* A reminder that has no row yet is as the table's default has it, so that
\* it is kept from the moment it is saved.
KeptInv ==
    /\ \A n \in Notice \ ToSet(saved) : noticeState[n] = "received" /\ noticeCmd[n] = NoCmd
    /\ ReminderKept

\* What ReminderKept says of one reminder.
InSight(n) ==
    \/ noticeState[n] \in Terminal
    \/ noticeState[n] = "received" /\ noticeCmd[n] = NoCmd
    \/ /\ noticeState[n] # "received" /\ noticeCmd[n] \in Cmd
       /\ state[noticeCmd[n]] \in Live \cup {"failed", "expired"}

LEMMA StepKept ==
    ASSUME TypeOK, OutboxTypes, KeptInv, Does
    PROVE  KeptInv'
<1> DEFINE Fresh(n) == noticeState[n] = "received" /\ noticeCmd[n] = NoCmd
<1>0. /\ ToSet(saved) \subseteq ToSet(saved') /\ (saved' # saved => UNCHANGED storeVars)
      /\ \A n \in Notice \ ToSet(saved) : Fresh(n)
      /\ \A n \in ToSet(saved) \ adrift : InSight(n)
      /\ ToSet(saved) \subseteq Notice /\ NoCmd \notin Cmd
  BY ToSetOf, StoreAssumption DEF Does, Grows, KeptInv, ReminderKept, InSight, OutboxTypes, StoreAssumption
\* It is enough to look at the reminders one by one.
<1>1. ASSUME \A n \in Notice \ ToSet(saved) : Fresh(n)',
             \A n \in ToSet(saved) \ adrift' : InSight(n)'
      PROVE  KeptInv'
  <2>1. \A n \in Notice \ ToSet(saved)' : Fresh(n)'
    BY <1>0, <1>1
  <2>2. ToSet(saved') \subseteq Notice
    <3>1. saved' \in Seq(Notice)
      BY DEF Does, OutboxTypes
    <3> QED BY <3>1, ToSetOf
  <2>3. \A n \in ToSet(saved)' \ adrift' : InSight(n)'
    <3> TAKE n \in ToSet(saved)' \ adrift'
    <3>1. CASE n \in ToSet(saved)
      BY <1>1, <3>1
    <3>2. CASE n \notin ToSet(saved)
      <4>1. Fresh(n)'
        BY <1>1, <2>2, <3>2
      <4> QED BY <4>1 DEF InSight
    <3> QED BY <3>1, <3>2
  <2> QED BY <2>1, <2>3 DEF KeptInv, ReminderKept, InSight
<1>2. CASE Linking
  <2>1. PICK m \in ToSet(saved), k \in 1 .. MaxSubmissions :
          LET c == <<m, k, Sentences[m]>>
          IN  /\ c \in Cmd /\ LinkNotice(m, c)
              /\ adrift' = IF state[c] \in {"absent", "rendered", "done", "cancelled"}
                           THEN adrift \cup {m} ELSE adrift \ {m}
    BY <1>2 DEF Linking
  <2> DEFINE c == <<m, k, Sentences[m]>>
  <2>2. c \in Cmd /\ state' = state /\ noticeCmd' = [noticeCmd EXCEPT ![m] = c]
        /\ noticeState' = [noticeState EXCEPT ![m] = "queued"]
        /\ DOMAIN noticeCmd = Notice /\ DOMAIN noticeState = Notice
        /\ adrift' = IF state[c] \in {"absent", "rendered", "done", "cancelled"}
                     THEN adrift \cup {m} ELSE adrift \ {m}
    BY <2>1 DEF LinkNotice, TypeOK, rowVars
  <2>3. state[c] \in CommandState \cup {"absent"}
    BY <2>2 DEF TypeOK
  <2> HIDE DEF c
  <2>4. ASSUME NEW n \in ToSet(saved) \ adrift' PROVE InSight(n)'
    <3>1. CASE n = m
      <4>1. noticeState'[n] = "queued" /\ noticeCmd'[n] = c
        BY <1>0, <2>2, <3>1
      <4>2. state[c] \in Live \cup {"failed", "expired"}
        BY <2>2, <2>3, <3>1 DEF CommandState, Terminal
      <4> QED BY <2>2, <4>1, <4>2 DEF InSight
    <3>2. CASE n # m
      <4>1. noticeState'[n] = noticeState[n] /\ noticeCmd'[n] = noticeCmd[n] /\ n \notin adrift
        BY <2>2, <3>2
      <4> QED BY <1>0, <2>2, <4>1 DEF InSight
    <3> QED BY <3>1, <3>2
  <2>5. \A n \in Notice \ ToSet(saved) : Fresh(n)'
    BY <1>0, <2>2
  <2> QED BY <1>1, <2>4, <2>5
<1>3. CASE Upkeep /\ adrift' = adrift
  <2>1. ASSUME NEW n \in Notice
        PROVE  /\ noticeCmd'[n] = noticeCmd[n]
               /\ \/ noticeState'[n] = noticeState[n]
                  \/ noticeCmd[n] \in Cmd /\ noticeState'[n] \in {"expired", "failed", "cancelled"}
    BY <1>3, UpkeepNotices
  <2>2. ASSUME NEW n \in ToSet(saved) \ adrift' PROVE InSight(n)'
    <3>1. InSight(n) /\ n \in Notice /\ noticeCmd'[n] = noticeCmd[n]
      BY <1>0, <1>3, <2>1
    <3>2. CASE noticeState'[n] # noticeState[n]
      BY <2>1, <3>1, <3>2 DEF InSight, Terminal
    <3>3. CASE noticeState'[n] = noticeState[n] /\ ~(noticeCmd[n] \in Cmd)
      BY <3>1, <3>3 DEF InSight
    <3>4. CASE noticeState'[n] = noticeState[n] /\ noticeCmd[n] \in Cmd
      <4> DEFINE c == noticeCmd[n]
      <4>1. CASE noticeState[n] \in Terminal
        BY <3>4, <4>1 DEF InSight
      <4>2. CASE noticeState[n] \notin Terminal
        <5>1. c \in Cmd /\ noticeState[n] # "received" /\ state[c] \in Live \cup {"failed", "expired"}
          BY <1>0, <3>1, <3>4, <4>2 DEF InSight
        <5>2. \/ state'[c] = state[c]
              \/ state'[c] \in {"queued", "leased", "failed", "expired"}
              \/ state'[c] = "cancelled" /\ noticeState'[n] = "cancelled"
          BY <1>3, <3>1, <4>2, <5>1, UpkeepRow
        <5>3. state'[c] \in Live \cup {"failed", "expired"}
          BY <3>4, <4>2, <5>1, <5>2 DEF Live, Terminal
        <5> QED BY <3>1, <3>4, <5>1, <5>3 DEF InSight
      <4> QED BY <4>1, <4>2
    <3> QED BY <3>2, <3>3, <3>4
  <2>3. \A n \in Notice \ ToSet(saved) : Fresh(n)'
    BY <1>0, <2>1
  <2> QED BY <1>1, <2>2, <2>3
<1>4. CASE Acking /\ adrift' = adrift
  <2>1. PICK c \in Cmd, v \in {"rendered", "failed"} : RecordAck(c, v, boot[dev])
    BY <1>4 DEF Acking
  <2>2. /\ noticeCmd' = noticeCmd
        /\ \A d \in Cmd : state'[d] = state[d] \/ (d = c /\ state'[d] = v)
        /\ \A n \in Notice : noticeState'[n] = noticeState[n] \/ (noticeCmd[n] = c /\ noticeState'[n] = v)
        /\ state'[c] # state[c] => \A n \in Notice : noticeCmd[n] = c => noticeState'[n] = v
        /\ v \in Terminal
    BY <2>1, AckRow DEF Terminal
  <2>3. ASSUME NEW n \in ToSet(saved) \ adrift' PROVE InSight(n)'
    <3>1. InSight(n) /\ n \in Notice
      BY <1>0, <1>4
    <3>2. CASE noticeState'[n] = v
      BY <2>2, <3>2 DEF InSight
    <3>3. CASE noticeState'[n] # v
      <4>1. /\ noticeState'[n] = noticeState[n] /\ noticeCmd'[n] = noticeCmd[n]
            /\ noticeCmd[n] \in Cmd => state'[noticeCmd[n]] = state[noticeCmd[n]]
        BY <2>2, <3>1, <3>3
      <4> QED BY <3>1, <4>1 DEF InSight
    <3> QED BY <3>2, <3>3
  <2>4. \A n \in Notice \ ToSet(saved) : Fresh(n)'
    BY <1>0, <2>2
  <2> QED BY <1>1, <2>3, <2>4
<1>5. CASE Expiring /\ adrift' = adrift
  <2>1. /\ state' = state /\ noticeCmd' = noticeCmd
        /\ \A n \in Notice : noticeState'[n] = noticeState[n] \/ (n \in ToSet(saved) /\ noticeState'[n] = "expired")
    BY <1>5, ExpiringIs DEF SomeExpired, OutboxKept, rowVars, OutboxTypes
  <2>2. ASSUME NEW n \in ToSet(saved) \ adrift' PROVE InSight(n)'
    BY <1>0, <1>5, <2>1 DEF InSight, Terminal
  <2>3. \A n \in Notice \ ToSet(saved) : Fresh(n)'
    BY <1>0, <2>1
  <2> QED BY <1>1, <2>2, <2>3
<1>6. ASSUME NEW m \in late, DeadlineOf(m), adrift' = adrift PROVE KeptInv'
  <2>1. state' = state /\ noticeCmd' = noticeCmd /\ noticeState' = noticeState
    BY <1>6 DEF DeadlineOf, rowVars, noticeVars
  <2>2. ASSUME NEW n \in ToSet(saved) \ adrift' PROVE InSight(n)'
    BY <1>0, <1>6, <2>1 DEF InSight
  <2>3. \A n \in Notice \ ToSet(saved) : Fresh(n)'
    BY <1>0, <2>1
  <2> QED BY <1>1, <2>2, <2>3
<1> QED BY <1>2, <1>3, <1>4, <1>5, <1>6 DEF Does, StoreDoes

\* A saved reminder has ended, waits to be submitted, or is linked to a
\* command on its way or to one whose failure the next sweep carries over,
\* unless its last link came too late, after that command had ended.
THEOREM ReminderIsKept == OutboxSpec => []ReminderKept
<1>1. OutboxInit => KeptInv
  BY EmptySet DEF OutboxInit, Init, KeptInv, ReminderKept
<1>2. OutboxKept /\ KeptInv /\ [OutboxNext]_outboxVars => KeptInv'
  BY StepDoes, StepKept DEF OutboxKept
<1>3. KeptInv => ReminderKept
  BY DEF KeptInv
<1> QED BY <1>1, <1>2, <1>3, OutboxHolds, PTL DEF OutboxSpec
=============================================================================
