------------------------- MODULE CommandStoreProofs -------------------------
(***************************************************************************)
(* Proofs about the durable command queue, for every set of devices,       *)
(* commands, deliveries and reminders and every max_attempts.              *)
(***************************************************************************)
EXTENDS CommandStore, FiniteSetTheorems, WellFoundedInduction, TLAPS

DeliveryState == {"absent", "submitted", "delivered", "failed", "expired", "cancelled"}
NoticeStates  == {"received", "queued", "leased"} \cup Terminal

-----------------------------------------------------------------------------
(* What the helpers return.                                                *)

\* A verdict is a delivery state, whichever one an empty delivery gets.
LEMMA VerdictType ==
    ASSUME NEW st, NEW x, NEW e \in DeliveryState
    PROVE  Verdict(st, x, e) \in DeliveryState
  BY DEF Verdict, DeliveryState

\* Refreshing keeps the deliveries table well typed.
LEMMA RefreshedType ==
    ASSUME NEW st, NEW X, NEW e \in DeliveryState, delivery \in [Delivery -> DeliveryState]
    PROVE  Refreshed(st, X, e) \in [Delivery -> DeliveryState]
  BY VerdictType DEF Refreshed

\* Marking rows keeps the state column well typed.
LEMMA MarkType ==
    ASSUME NEW st \in [Cmd -> CommandState \cup {"absent"}], NEW C, NEW s \in CommandState
    PROVE  Mark(st, C, s) \in [Cmd -> CommandState \cup {"absent"}]
  BY DEF Mark

\* So do the sweeps, and settling keeps the reminders well typed.
LEMMA SweepType ==
    ASSUME TypeOK
    PROVE  /\ ExpireDue \in [Cmd -> CommandState \cup {"absent"}]
           /\ FailExhausted \in [Cmd -> CommandState \cup {"absent"}]
  BY MarkType DEF ExpireDue, FailExhausted, TypeOK, CommandState, Terminal

LEMMA SettledType ==
    ASSUME TypeOK, NEW st, NEW V \in SUBSET Terminal
    PROVE  Settled(st, V) \in [Notice -> NoticeStates]
  BY DEF Settled, TypeOK, NoticeStates

LEMMA NoticesCancelledType ==
    ASSUME TypeOK, NEW C
    PROVE  NoticesCancelled(C) \in [Notice -> NoticeStates]
  BY DEF NoticesCancelled, TypeOK, NoticeStates, Terminal

-----------------------------------------------------------------------------
(* Type correctness.                                                       *)

\* The writes of a reminder's state that look at no command.
OutboxWrites ==
    \/ \E n \in Notice : MarkNoticeExpired(n)
    \/ \E N \in SUBSET Notice : ExpireReceived(N)

\* Each leaves all the rest of the store alone.
LEMMA OutboxLeavesRows ==
    OutboxWrites => UNCHANGED <<boot, state, attempt, bound, seq, overdue, lapsed, delivery, noticeCmd>>
  BY DEF OutboxWrites, MarkNoticeExpired, ExpireReceived, rowVars, timeVars

LEMMA InitType == Init => TypeOK
  BY StoreAssumption DEF StoreAssumption, Init, TypeOK

\* Every transaction, and the passing of time, keeps the tables well typed.
LEMMA NextType == TypeOK /\ [Next]_vars => TypeOK'
<1> SUFFICES ASSUME TypeOK, [Next]_vars PROVE TypeOK'
  OBVIOUS
<1> USE StoreAssumption DEF StoreAssumption
<1> DEFINE S == [Cmd -> CommandState \cup {"absent"}]
<1>0. /\ delivery \in [Delivery -> DeliveryState]
      /\ \A s \in {"expired", "failed", "cancelled"} : s \in CommandState
      /\ {"expired"} \in SUBSET Terminal /\ {"expired", "failed"} \in SUBSET Terminal
      /\ "submitted" \in DeliveryState /\ "cancelled" \in DeliveryState
  BY DEF TypeOK, DeliveryState, CommandState, Terminal
<1>give. ASSUME NEW C, NEW s \in {"expired", "cancelled"}, GiveUp(C, s)
         PROVE  /\ state' \in S
                /\ delivery' \in [Delivery -> DeliveryState]
                /\ overdue' \subseteq Cmd /\ lapsed' \subseteq Cmd
                /\ UNCHANGED <<attempt, seq, noticeState, noticeCmd>>
  <2>1. state' \in S
    BY <1>give, <1>0, MarkType DEF GiveUp, TypeOK
  <2>2. delivery' \in [Delivery -> DeliveryState]
    BY <1>give, <1>0, RefreshedType DEF GiveUp
  <2>3. overdue' \subseteq Cmd /\ lapsed' \subseteq Cmd
    BY <1>give DEF GiveUp, Clocks, TypeOK
  <2> QED BY <1>give, <2>1, <2>2, <2>3 DEF GiveUp, noticeVars
<1>1. ASSUME NEW c \in Cmd, NEW b \in Boots \cup {0}, CreateCommand(c, b) PROVE TypeOK'
  <2>1. Cardinality(Row) + 1 \in Nat
    BY FS_Subset, FS_CardinalityType DEF Row
  <2>2. Envelope[c].device \in Device
    BY DEF CommandEnvelope
  <2> QED BY <1>1, <2>1, <2>2 DEF CreateCommand, TypeOK, noticeVars, timeVars, CommandState, Live
<1>2. ASSUME NEW x \in Delivery, CreateDelivery(x) PROVE TypeOK'
  BY <1>2 DEF CreateDelivery, TypeOK, noticeVars, timeVars, rowVars
<1>3. ASSUME NEW x \in Delivery, CancelDelivery(x) PROVE TypeOK'
  <2>1. state' \in S
    BY <1>3, <1>0, MarkType DEF CancelDelivery, TypeOK
  <2>2. delivery' \in [Delivery -> DeliveryState]
    BY <1>3, <1>0, RefreshedType DEF CancelDelivery
  <2> QED BY <1>3, <2>1, <2>2 DEF CancelDelivery, Clocks, TypeOK, DeliveryState, noticeVars
<1>4. ASSUME NEW d \in Device, NEW b \in Boots, ObserveDeviceBoot(d, b) PROVE TypeOK'
  <2>1. /\ boot' \in [Device -> Boots \cup {0}]
        /\ bound' \in [Cmd -> Boots \cup {0}]
    BY <1>4 DEF ObserveDeviceBoot, TypeOK
  <2>2. PICK C : GiveUp(C, "expired")
    BY <1>4 DEF ObserveDeviceBoot
  <2> QED BY <2>1, <2>2, <1>give DEF TypeOK, DeliveryState
<1>5. CASE ExpireInactiveBoots
  <2>1. PICK C : GiveUp(C, "expired")
    BY <1>5 DEF ExpireInactiveBoots
  <2> QED BY <1>5, <2>1, <1>give DEF ExpireInactiveBoots, TypeOK, DeliveryState
<1>6. ASSUME NEW C \in SUBSET Dialogue, ExpireStaleDialogue(C) PROVE TypeOK'
  BY <1>6, <1>give DEF ExpireStaleDialogue, TypeOK, DeliveryState
<1>7. CASE Sweep \/ \E x \in Delivery : GetDelivery(x)
  <2>1. state' \in S
    BY <1>7, SweepType DEF Sweep, GetDelivery
  <2>2. delivery' \in [Delivery -> DeliveryState]
    <3>1. \A X : Refreshed(state', X, "submitted") \in [Delivery -> DeliveryState]
      BY <1>0, RefreshedType
    <3> QED BY <1>7, <3>1 DEF Sweep, GetDelivery
  <2>3. noticeState' \in [Notice -> NoticeStates]
    <3>1. Settled(state', {"expired", "failed"}) \in [Notice -> NoticeStates]
      BY <1>0, SettledType
    <3> QED BY <1>7, <3>1 DEF Sweep, GetDelivery
  <2> QED BY <1>7, <2>1, <2>2, <2>3 DEF Sweep, GetDelivery, Clocks, TypeOK, DeliveryState, NoticeStates
<1>8. ASSUME NEW c \in Cmd, NEW b \in Boots \cup {0}, LeaseCommand(c, b) PROVE TypeOK'
  <2>1. state' \in S
    <3>1. [ExpireDue EXCEPT ![c] = "leased"] \in S
      BY SweepType DEF CommandState, Live
    <3>2. \A C : Mark(ExpireDue, C, "failed") \in S
      BY <1>0, SweepType, MarkType
    <3> QED BY <1>8, <3>1, <3>2 DEF LeaseCommand
  <2>2. delivery' \in [Delivery -> DeliveryState]
    BY <1>8, <1>0, RefreshedType DEF LeaseCommand
  <2>3. noticeState' \in [Notice -> NoticeStates]
    BY <1>8, <1>0, SettledType DEF LeaseCommand
  <2>4. attempt' \in [Cmd -> Nat] /\ bound' \in [Cmd -> Boots \cup {0}]
    BY <1>8 DEF LeaseCommand, TypeOK
  <2> QED BY <1>8, <2>1, <2>2, <2>3, <2>4 DEF LeaseCommand, Clocks, TypeOK, DeliveryState, NoticeStates
<1>9. ASSUME NEW c \in Cmd, NEW a \in AckStates, NEW b \in Boots \cup {0}, RecordAck(c, a, b)
      PROVE  TypeOK'
  <2>1. state' \in S
    BY <1>9 DEF RecordAck, TypeOK, AckStates, CommandState, Live, Terminal
  <2>2. delivery' \in [Delivery -> DeliveryState]
    BY <1>9, <1>0, RefreshedType DEF RecordAck
  <2>3. noticeState' \in [Notice -> NoticeStates]
    <3>1. a # "deferred" => NoticeStateOf(a) \in NoticeStates
      BY DEF NoticeStateOf, AckStates, NoticeStates, Terminal
    <3> QED BY <1>9, <3>1 DEF RecordAck, TypeOK, NoticeStates
  <2>4. attempt' \in [Cmd -> Nat]
    <3>1. \A n \in Nat : Refund(n) \in Nat
      BY DEF Refund
    <3> QED BY <1>9, <3>1 DEF RecordAck, TypeOK
  <2> QED BY <1>9, <2>1, <2>2, <2>3, <2>4 DEF RecordAck, Clocks, TypeOK, DeliveryState, NoticeStates
<1>10. ASSUME NEW t, NEW s, CancelBySource(t, s) PROVE TypeOK'
  <2>1. state' \in S
    BY <1>10, <1>0, MarkType DEF CancelBySource, TypeOK
  <2>2. noticeState' \in [Notice -> NoticeStates]
    BY <1>10, NoticesCancelledType DEF CancelBySource
  <2> QED BY <1>10, <2>1, <2>2 DEF CancelBySource, Clocks, TypeOK, NoticeStates
<1>11. ASSUME NEW d \in Device, NEW g, CancelBeforeGeneration(d, g) PROVE TypeOK'
  <2>1. state' \in S
    BY <1>11, <1>0, MarkType DEF CancelBeforeGeneration, TypeOK
  <2>2. delivery' \in [Delivery -> DeliveryState]
    BY <1>11, <1>0, RefreshedType DEF CancelBeforeGeneration
  <2>3. noticeState' \in [Notice -> NoticeStates]
    BY <1>11, NoticesCancelledType DEF CancelBeforeGeneration
  <2> QED BY <1>11, <2>1, <2>2, <2>3 DEF CancelBeforeGeneration, Clocks, TypeOK, DeliveryState, NoticeStates
<1>12. ASSUME NEW n \in Notice, NEW c \in Cmd, LinkNotice(n, c) PROVE TypeOK'
  BY <1>12 DEF LinkNotice, TypeOK, rowVars, timeVars
<1>13. ASSUME NEW C \in SUBSET Cmd, Deadline(C) PROVE TypeOK'
  BY <1>13 DEF Deadline, TypeOK, rowVars, noticeVars
<1>14. CASE UNCHANGED vars
  BY <1>14 DEF vars, rowVars, timeVars, noticeVars, TypeOK
<1>15. ASSUME OutboxWrites PROVE TypeOK'
  <2>1. /\ noticeState' \in [Notice -> NoticeStates]
        /\ UNCHANGED <<boot, rowVars, timeVars, delivery, noticeCmd>>
    BY <1>15 DEF OutboxWrites, MarkNoticeExpired, ExpireReceived, TypeOK, NoticeStates, Terminal
  <2> QED BY <2>1 DEF TypeOK, NoticeStates, rowVars, timeVars
<1>16. ASSUME NEW c \in Cmd, LeaseLapse(c) PROVE TypeOK'
  BY <1>16 DEF LeaseLapse, TypeOK, rowVars, noticeVars
<1> QED
  BY <1>1, <1>2, <1>3, <1>4, <1>5, <1>6, <1>7, <1>8, <1>9, <1>10, <1>11, <1>12, <1>13, <1>14, <1>15, <1>16
     DEF Next, OutboxWrites

\* The tables of the command queue always hold the values their columns take.
THEOREM TypeCorrect == Spec => []TypeOK
  BY InitType, NextType, PTL DEF Spec

-----------------------------------------------------------------------------
(* A finished command stays finished.                                      *)

\* No transaction changes the state of a finished row or deletes a row.
LEMMA StepIsFinal ==
    ASSUME TypeOK, [Next]_vars, NEW c \in Cmd
    PROVE  /\ state[c] \in Terminal => state'[c] = state[c]
           /\ state[c] # "absent" => state'[c] # "absent"
<1> DEFINE P == /\ state[c] \in Terminal => state'[c] = state[c]
                /\ state[c] # "absent" => state'[c] # "absent"
<1> USE DEF Active, Live, Terminal
<1>1. /\ state[c] \in Terminal => ExpireDue[c] = state[c] /\ FailExhausted[c] = state[c]
      /\ state[c] # "absent" => ExpireDue[c] # "absent" /\ FailExhausted[c] # "absent"
  BY DEF ExpireDue, FailExhausted, Mark, Due, Exhausted
<1>2. ASSUME NEW C \in SUBSET Active, NEW s \in {"expired", "cancelled"}, state' = Mark(state, C, s)
      PROVE  P
  BY <1>2 DEF Mark
<1>3. ASSUME NEW o \in Cmd, NEW b \in Boots \cup {0}, CreateCommand(o, b) PROVE P
  BY <1>3 DEF CreateCommand, TypeOK
<1>4. ASSUME NEW x \in Delivery, CreateDelivery(x) PROVE P
  BY <1>4 DEF CreateDelivery, rowVars
<1>5. ASSUME NEW x \in Delivery, CancelDelivery(x) PROVE P
  BY <1>5, <1>2 DEF CancelDelivery
<1>6. CASE Sweep \/ \E x \in Delivery : GetDelivery(x)
  BY <1>6, <1>1 DEF Sweep, GetDelivery
<1>7. ASSUME NEW d \in Device, NEW b \in Boots, ObserveDeviceBoot(d, b) PROVE P
  BY <1>7, <1>2 DEF ObserveDeviceBoot, GiveUp
<1>8. CASE ExpireInactiveBoots
  BY <1>8, <1>2 DEF ExpireInactiveBoots, GiveUp
<1>9. ASSUME NEW C \in SUBSET Dialogue, ExpireStaleDialogue(C) PROVE P
  BY <1>9, <1>2 DEF ExpireStaleDialogue, GiveUp, Dialogue
<1>10. ASSUME NEW o \in Cmd, NEW b \in Boots \cup {0}, LeaseCommand(o, b) PROVE P
  <2>1. ExpireDue \in [Cmd -> CommandState \cup {"absent"}]
    BY SweepType
  <2>2. CASE Refused(o, b)
    BY <1>10, <1>1, <2>2 DEF LeaseCommand, Mark
  <2>3. CASE ~Refused(o, b)
    BY <1>10, <1>1, <2>1, <2>3 DEF LeaseCommand, Mark, Refused
  <2> QED BY <2>2, <2>3
<1>11. ASSUME NEW o \in Cmd, NEW a \in AckStates, NEW b \in Boots \cup {0}, RecordAck(o, a, b) PROVE P
  BY <1>11 DEF RecordAck, AckCanAdvance, AckStates, TypeOK
<1>12. ASSUME NEW t, NEW s, CancelBySource(t, s) PROVE P
  BY <1>12 DEF CancelBySource, Mark
<1>13. ASSUME NEW d \in Device, NEW g, CancelBeforeGeneration(d, g) PROVE P
  BY <1>13, <1>2 DEF CancelBeforeGeneration
<1>14. ASSUME NEW n \in Notice, NEW o \in Cmd, LinkNotice(n, o) PROVE P
  BY <1>14 DEF LinkNotice, rowVars
<1>15. ASSUME NEW C \in SUBSET Cmd, Deadline(C) PROVE P
  BY <1>15 DEF Deadline, rowVars
<1>16. CASE UNCHANGED vars
  BY <1>16 DEF vars, rowVars
<1>17. ASSUME NEW o \in Cmd, LeaseLapse(o) PROVE P
  BY <1>17 DEF LeaseLapse, rowVars
<1>18. CASE OutboxWrites
  BY <1>18, OutboxLeavesRows
<1> QED BY <1>3, <1>4, <1>5, <1>6, <1>7, <1>8, <1>9, <1>10, <1>11, <1>12, <1>13, <1>14, <1>15, <1>16,
            <1>17, <1>18 DEF Next, OutboxWrites

\* No lease, late ACK, sweep or cancellation ever changes a finished command.
THEOREM OutcomeIsFinal == Spec => TerminalIsFinal
<1>1. TypeOK /\ [Next]_vars
        => [\A c \in Cmd : /\ state[c] \in Terminal => state'[c] = state[c]
                           /\ state[c] # "absent" => state'[c] # "absent"]_vars
  BY StepIsFinal
<1> QED BY <1>1, TypeCorrect, PTL DEF Spec, TerminalIsFinal

-----------------------------------------------------------------------------
(* The attempts of a command.                                              *)

\* The budget is inductive once a command that has no row yet is known to
\* start from no attempt.
BudgetInv ==
    /\ AttemptBudget
    /\ \A c \in Cmd : state[c] = "absent" => attempt[c] = 0

LEMMA StepKeepsBudget == TypeOK /\ BudgetInv /\ [Next]_vars => BudgetInv'
<1> SUFFICES ASSUME TypeOK, BudgetInv, [Next]_vars, NEW c \in Cmd
             PROVE  /\ attempt'[c] <= MaxAttempts
                    /\ state'[c] = "absent" => attempt'[c] = 0
                    /\ state'[c] = "queued" => attempt'[c] < MaxAttempts
                    /\ state'[c] = "leased" => attempt'[c] > 0
  BY DEF BudgetInv, AttemptBudget
<1> DEFINE P == /\ attempt'[c] <= MaxAttempts
                /\ state'[c] = "absent" => attempt'[c] = 0
                /\ state'[c] = "queued" => attempt'[c] < MaxAttempts
                /\ state'[c] = "leased" => attempt'[c] > 0
<1> USE StoreAssumption DEF StoreAssumption
<1>0. /\ attempt[c] \in Nat /\ attempt[c] <= MaxAttempts
      /\ state[c] = "queued" => attempt[c] < MaxAttempts
      /\ state[c] = "leased" => attempt[c] > 0
      /\ state[c] = "absent" => attempt[c] = 0
      /\ state'[c] = "absent" => state[c] = "absent"
  BY StepIsFinal DEF BudgetInv, AttemptBudget, TypeOK
<1>1. ASSUME attempt' = attempt, state'[c] \in {"queued", "leased"} => state'[c] = state[c] PROVE P
  BY <1>0, <1>1
<1>2. ASSUME NEW o \in Cmd, NEW b \in Boots \cup {0}, CreateCommand(o, b) PROVE P
  <2>1. c = o => state[c] = "absent" /\ state'[c] = "queued"
    BY <1>2 DEF CreateCommand, TypeOK
  <2>2. c # o => state'[c] = state[c]
    BY <1>2 DEF CreateCommand, TypeOK
  <2>3. attempt'[c] = attempt[c]
    BY <1>2 DEF CreateCommand
  <2> QED BY <1>0, <2>1, <2>2, <2>3
<1>3. ASSUME NEW x \in Delivery, CreateDelivery(x) PROVE P
  BY <1>1, <1>3 DEF CreateDelivery, rowVars
<1>4. ASSUME NEW x \in Delivery, CancelDelivery(x) PROVE P
  BY <1>1, <1>4 DEF CancelDelivery, Mark
<1>5. CASE Sweep \/ \E x \in Delivery : GetDelivery(x)
  BY <1>1, <1>5 DEF Sweep, GetDelivery, FailExhausted, ExpireDue, Mark
<1>6. ASSUME NEW d \in Device, NEW b \in Boots, ObserveDeviceBoot(d, b) PROVE P
  BY <1>1, <1>6 DEF ObserveDeviceBoot, GiveUp, Mark
<1>7. CASE ExpireInactiveBoots
  BY <1>1, <1>7 DEF ExpireInactiveBoots, GiveUp, Mark
<1>8. ASSUME NEW C \in SUBSET Dialogue, ExpireStaleDialogue(C) PROVE P
  BY <1>1, <1>8 DEF ExpireStaleDialogue, GiveUp, Mark
<1>9. ASSUME NEW o \in Cmd, NEW b \in Boots \cup {0}, LeaseCommand(o, b) PROVE P
  <2>1. CASE c = o /\ ~Refused(o, b) /\ attempt[o] < MaxAttempts
    <3>1. state'[c] = "leased" /\ attempt'[c] = attempt[c] + 1
      BY <1>9, <2>1, SweepType DEF LeaseCommand, TypeOK
    <3> QED BY <1>0, <2>1, <3>1
  <2>2. CASE ~(c = o /\ ~Refused(o, b) /\ attempt[o] < MaxAttempts)
    <3>1. attempt'[c] = attempt[c]
      BY <1>9, <2>2 DEF LeaseCommand, TypeOK
    <3>2. state'[c] \in {"queued", "leased"} => state'[c] = state[c]
      BY <1>9, <2>2, SweepType DEF LeaseCommand, Mark, ExpireDue
    <3> QED BY <1>0, <3>1, <3>2
  <2> QED BY <2>1, <2>2
<1>10. ASSUME NEW o \in Cmd, NEW a \in AckStates, NEW b \in Boots \cup {0}, RecordAck(o, a, b) PROVE P
  <2>1. CASE c # o
    BY <1>0, <1>10, <2>1 DEF RecordAck, TypeOK
  <2>2. CASE c = o /\ a = "deferred" /\ state[o] \notin Terminal
    <3>1. state'[c] = "queued" /\ attempt'[c] = Refund(attempt[c])
      BY <1>10, <2>2 DEF RecordAck, TypeOK
    <3>2. Refund(attempt[c]) \in Nat /\ Refund(attempt[c]) < MaxAttempts
      BY <1>0 DEF Refund
    <3> QED BY <1>0, <3>1, <3>2
  <2>3. CASE c = o /\ ~(a = "deferred" /\ state[o] \notin Terminal)
    <3>1. attempt'[c] = attempt[c]
      BY <1>10, <2>3 DEF RecordAck, TypeOK
    <3>2. state'[c] \in {"queued", "leased"} => state'[c] = state[c]
      BY <1>10, <2>3 DEF RecordAck, TypeOK, AckStates
    <3> QED BY <1>0, <3>1, <3>2
  <2> QED BY <2>1, <2>2, <2>3
<1>11. ASSUME NEW t, NEW s, CancelBySource(t, s) PROVE P
  BY <1>1, <1>11 DEF CancelBySource, Mark
<1>12. ASSUME NEW d \in Device, NEW g, CancelBeforeGeneration(d, g) PROVE P
  BY <1>1, <1>12 DEF CancelBeforeGeneration, Mark
<1>13. ASSUME NEW n \in Notice, NEW o \in Cmd, LinkNotice(n, o) PROVE P
  BY <1>1, <1>13 DEF LinkNotice, rowVars
<1>14. ASSUME NEW C \in SUBSET Cmd, Deadline(C) PROVE P
  BY <1>1, <1>14 DEF Deadline, rowVars
<1>15. CASE UNCHANGED vars
  BY <1>1, <1>15 DEF vars, rowVars
<1>16. ASSUME NEW o \in Cmd, LeaseLapse(o) PROVE P
  BY <1>1, <1>16 DEF LeaseLapse, rowVars
<1>17. CASE OutboxWrites
  BY <1>1, <1>17, OutboxLeavesRows
<1> QED BY <1>2, <1>3, <1>4, <1>5, <1>6, <1>7, <1>8, <1>9, <1>10, <1>11, <1>12, <1>13, <1>14, <1>15, <1>16,
            <1>17 DEF Next, OutboxWrites

\* Whatever mixture of leases and refunds, a queued command can be leased.
THEOREM BudgetKept == Spec => []AttemptBudget
<1>1. Init => BudgetInv
  BY StoreAssumption DEF StoreAssumption, Init, BudgetInv, AttemptBudget
<1>2. BudgetInv => AttemptBudget
  BY DEF BudgetInv
<1> QED BY <1>1, <1>2, StepKeepsBudget, TypeCorrect, PTL DEF Spec

-----------------------------------------------------------------------------
(* Reminders and the command they are linked to.                           *)

\* What a linked reminder has become is what its command has, but for an
\* expiry; and no reminder is linked that still counts as received.
NoticeInv ==
    \A n \in Notice :
        /\ noticeCmd[n] \in Cmd /\ noticeState[n] \in Terminal \ {"expired"}
              => state[noticeCmd[n]] = noticeState[n]
        /\ noticeCmd[n] \in Cmd => noticeState[n] # "received"

\* How a linked reminder becomes expired.
ExpiresWithCommand(n) ==
    noticeCmd[n] \in Cmd /\ noticeState[n] # "expired" /\ noticeState'[n] = "expired"
        => MarkNoticeExpired(n) \/ state'[noticeCmd[n]] = "expired"

\* A reminder is closed only by a transaction that reads, or writes, the same
\* outcome in its command's row, and that row then never changes again; or it
\* is expired by server.py.
LEMMA StepKeepsNotices ==
    ASSUME TypeOK, NoticeInv, [Next]_vars, NEW n \in Notice
    PROVE  /\ noticeCmd'[n] \in Cmd /\ noticeState'[n] \in Terminal \ {"expired"}
                 => state'[noticeCmd'[n]] = noticeState'[n]
           /\ noticeCmd'[n] \in Cmd => noticeState'[n] # "received"
           /\ ExpiresWithCommand(n)
<1> DEFINE Follows == noticeCmd[n] \in Cmd /\ noticeState'[n] \in Terminal => state'[noticeCmd[n]] = noticeState'[n]
           P == /\ noticeCmd'[n] \in Cmd /\ noticeState'[n] \in Terminal \ {"expired"}
                      => state'[noticeCmd'[n]] = noticeState'[n]
                /\ noticeCmd'[n] \in Cmd => noticeState'[n] # "received"
                /\ ExpiresWithCommand(n)
<1>0. /\ noticeCmd[n] \in Cmd /\ noticeState[n] \in Terminal \ {"expired"} => state'[noticeCmd[n]] = noticeState[n]
      /\ noticeCmd[n] \in Cmd => noticeState[n] # "received"
  BY StepIsFinal DEF NoticeInv
<1>a. ASSUME noticeState'[n] = noticeState[n], noticeCmd'[n] = noticeCmd[n] PROVE P
  BY <1>0, <1>a DEF ExpiresWithCommand
<1>b. ASSUME noticeCmd'[n] = noticeCmd[n], noticeState'[n] # "received", Follows PROVE P
  BY <1>b DEF ExpiresWithCommand, Terminal
<1>1. ASSUME UNCHANGED noticeVars PROVE P
  BY <1>a, <1>1 DEF noticeVars
<1>2. ASSUME noticeCmd' = noticeCmd, NEW C, noticeState' = NoticesCancelled(C),
             \A c \in C : state'[c] = "cancelled"
      PROVE  P
  <2>1. CASE noticeState'[n] = noticeState[n]
    BY <1>a, <1>2, <2>1
  <2>2. CASE noticeState'[n] # noticeState[n]
    BY <1>b, <1>2, <2>2 DEF NoticesCancelled
  <2> QED BY <2>1, <2>2
<1>3. CASE Sweep \/ \E x \in Delivery : GetDelivery(x)
  <2>1. noticeCmd' = noticeCmd /\ noticeState' = Settled(state', {"expired", "failed"})
    BY <1>3 DEF Sweep, GetDelivery
  <2>2. CASE noticeState'[n] = noticeState[n]
    BY <1>a, <2>1, <2>2
  <2>3. CASE noticeState'[n] # noticeState[n]
    BY <1>b, <2>1, <2>3 DEF Settled
  <2> QED BY <2>2, <2>3
<1>4. ASSUME NEW o \in Cmd, NEW b \in Boots \cup {0}, LeaseCommand(o, b) PROVE P
  <2>1. noticeCmd' = noticeCmd /\ noticeState' = Settled(ExpireDue, {"expired"})
    BY <1>4 DEF LeaseCommand
  <2>2. ASSUME NEW c \in Cmd, ExpireDue[c] = "expired" PROVE state'[c] = "expired"
    <3>1. ExpireDue \in [Cmd -> CommandState \cup {"absent"}]
      BY SweepType
    <3>2. c = o => Refused(o, b)
      BY <2>2 DEF Refused, Terminal
    <3> QED BY <1>4, <2>2, <3>1, <3>2 DEF LeaseCommand, Mark
  <2>3. CASE noticeState'[n] = noticeState[n]
    BY <1>a, <2>1, <2>3
  <2>4. CASE noticeState'[n] # noticeState[n]
    BY <1>b, <2>1, <2>2, <2>4 DEF Settled
  <2> QED BY <2>3, <2>4
<1>5. ASSUME NEW o \in Cmd, NEW a \in AckStates, NEW b \in Boots \cup {0}, RecordAck(o, a, b) PROVE P
  <2>1. noticeCmd' = noticeCmd
    BY <1>5 DEF RecordAck
  <2>2. CASE noticeCmd[n] = o /\ a # "deferred" /\ AckCanAdvance(state[o], a)
    <3>1. noticeState'[n] = NoticeStateOf(a) /\ state'[o] = a
      BY <1>5, <2>2 DEF RecordAck, TypeOK
    <3>2. NoticeStateOf(a) # "received" /\ (NoticeStateOf(a) \in Terminal => NoticeStateOf(a) = a)
      BY <2>2 DEF NoticeStateOf, Terminal, AckStates
    <3> QED BY <1>b, <2>1, <2>2, <3>1, <3>2
  <2>3. CASE ~(noticeCmd[n] = o /\ a # "deferred" /\ AckCanAdvance(state[o], a))
    <3>1. noticeState'[n] = noticeState[n]
      BY <1>5, <2>3 DEF RecordAck
    <3> QED BY <1>a, <2>1, <3>1
  <2> QED BY <2>2, <2>3
<1>6. ASSUME NEW t, NEW s, CancelBySource(t, s) PROVE P
  BY <1>2, <1>6 DEF CancelBySource
<1>7. ASSUME NEW d \in Device, NEW g, CancelBeforeGeneration(d, g) PROVE P
  BY <1>2, <1>7 DEF CancelBeforeGeneration
<1>8. ASSUME NEW m \in Notice, NEW o \in Cmd, LinkNotice(m, o) PROVE P
  <2>1. n = m => noticeState'[n] = "queued"
    BY <1>8 DEF LinkNotice, TypeOK
  <2>2. n # m => noticeState'[n] = noticeState[n] /\ noticeCmd'[n] = noticeCmd[n]
    BY <1>8 DEF LinkNotice, TypeOK
  <2> QED BY <1>a, <2>1, <2>2 DEF Terminal, ExpiresWithCommand
<1>9. ASSUME NEW C, NEW s, GiveUp(C, s) PROVE P
  BY <1>1, <1>9 DEF GiveUp, noticeVars
<1>10. ASSUME \/ \E c \in Cmd, b \in Boots \cup {0} : CreateCommand(c, b)
              \/ \E x \in Delivery : CreateDelivery(x) \/ CancelDelivery(x)
              \/ \E C \in SUBSET Cmd : Deadline(C)
              \/ \E c \in Cmd : LeaseLapse(c)
              \/ UNCHANGED vars
       PROVE  P
  BY <1>1, <1>10 DEF CreateCommand, CreateDelivery, CancelDelivery, Deadline, LeaseLapse, vars
<1>11. ASSUME \/ \E d \in Device, b \in Boots : ObserveDeviceBoot(d, b)
              \/ ExpireInactiveBoots
              \/ \E C \in SUBSET Dialogue : ExpireStaleDialogue(C)
       PROVE  P
  BY <1>9, <1>11 DEF ObserveDeviceBoot, ExpireInactiveBoots, ExpireStaleDialogue
<1>12. ASSUME NEW m \in Notice, MarkNoticeExpired(m) PROVE P
  <2>1. noticeCmd' = noticeCmd /\ noticeState'[n] = IF n = m THEN "expired" ELSE noticeState[n]
    BY <1>12 DEF MarkNoticeExpired, TypeOK
  <2>2. CASE n = m
    BY <1>12, <2>1, <2>2 DEF ExpiresWithCommand
  <2>3. CASE n # m
    BY <1>a, <2>1, <2>3
  <2> QED BY <2>2, <2>3
<1>13. ASSUME NEW N \in SUBSET Notice, ExpireReceived(N) PROVE P
  <2>1. /\ noticeCmd' = noticeCmd
        /\ n \in N => noticeState[n] = "received" /\ noticeState'[n] = "expired"
        /\ n \notin N => noticeState'[n] = noticeState[n]
    BY <1>13 DEF ExpireReceived
  <2>2. CASE n \in N
    BY <1>0, <2>1, <2>2 DEF ExpiresWithCommand
  <2>3. CASE n \notin N
    BY <1>a, <2>1, <2>3
  <2> QED BY <2>2, <2>3
<1> QED BY <1>3, <1>4, <1>5, <1>6, <1>7, <1>8, <1>10, <1>11, <1>12, <1>13 DEF Next

\* A reminder linked to a command is never reported closed with an outcome the
\* command has not had, but as expired by server.py's own look at its deadline.
THEOREM NoticesFollow == Spec => NoticeNeverAhead
<1> DEFINE Closed == \A n \in Notice :
                        noticeCmd[n] \in Cmd /\ noticeState[n] \in Terminal \ {"expired"}
                            => state[noticeCmd[n]] = noticeState[n]
           Expires == \A n \in Notice :
                        noticeCmd[n] \in Cmd /\ noticeState[n] # "expired" /\ noticeState'[n] = "expired"
                            => MarkNoticeExpired(n) \/ state'[noticeCmd[n]] = "expired"
<1>1. Init => NoticeInv
  BY StoreAssumption DEF StoreAssumption, Init, NoticeInv
<1>2. TypeOK /\ NoticeInv /\ [Next]_vars => NoticeInv' /\ [Expires]_vars
  <2> SUFFICES ASSUME TypeOK, NoticeInv, [Next]_vars PROVE NoticeInv' /\ Expires
    OBVIOUS
  <2> QED BY StepKeepsNotices DEF NoticeInv, ExpiresWithCommand
<1>3. NoticeInv => Closed
  BY DEF NoticeInv
<1>4. Spec => []Closed /\ [][Expires]_vars
  <2> HIDE DEF Closed, Expires
  <2> QED BY <1>1, <1>2, <1>3, TypeCorrect, PTL DEF Spec
<1> QED BY <1>4 DEF NoticeNeverAhead

-----------------------------------------------------------------------------
(* Deliveries and the commands they are made of.                           *)

\* Inductively: a delivery's row is there before its commands are, and its
\* state is the verdict on them whenever that verdict is one to report.
Reportable == {"failed", "expired", "delivered"}
DeliveryInv ==
    /\ DeliveryReportsOutcome
    /\ \A c \in Cmd : state[c] # "absent" /\ Envelope[c].delivery \in Delivery
                      => delivery[Envelope[c].delivery] # "absent"

\* A change of rows that cannot change a reportable verdict on delivery x:
\* every row it touches was live and is left without one of the outcomes a
\* verdict reports.
Calm(st, st2, x) ==
    \A c \in Cmd : Envelope[c].delivery = x =>
        \/ st2[c] = st[c]
        \/ /\ st[c] \notin Terminal
           /\ st2[c] \notin {"rendered", "done", "failed", "expired", "absent"}

LEMMA CalmVerdict ==
    ASSUME NEW st, NEW st2, NEW x, Calm(st, st2, x),
           Verdict(st2, x, "submitted") \in Reportable
    PROVE  Verdict(st, x, "submitted") = Verdict(st2, x, "submitted")
<1> DEFINE Of    == {d \in Cmd : Envelope[d].delivery = x}
           Seen  == {st[c] : c \in Of} \ {"absent"}
           Seen2 == {st2[c] : c \in Of} \ {"absent"}
<1>1. \A c \in Of : \/ st2[c] = st[c]
                    \/ /\ st[c] \notin {"rendered", "done", "failed", "expired", "cancelled"}
                       /\ st2[c] \notin {"rendered", "done", "failed", "expired", "absent"}
  BY DEF Calm, Terminal
<1>2. CASE "failed" \in Seen2
  <2>1. "failed" \in Seen
    BY <1>1, <1>2
  <2> QED BY <1>2, <2>1 DEF Verdict
<1>3. CASE "failed" \notin Seen2 /\ "expired" \in Seen2
  <2>1. "expired" \in Seen /\ "failed" \notin Seen
    BY <1>1, <1>3
  <2> QED BY <1>3, <2>1 DEF Verdict
<1>4. CASE "failed" \notin Seen2 /\ "expired" \notin Seen2
  <2>1. Seen2 # {} /\ Seen2 \subseteq {"rendered", "done"}
    BY <1>4 DEF Verdict, Reportable
  <2>2. \A c \in Of : st2[c] = st[c]
    BY <1>1, <2>1
  <2>3. Seen = Seen2
    BY <2>2
  <2> QED BY <2>3 DEF Verdict
<1> QED BY <1>2, <1>3, <1>4

\* A refresh records the verdict of the deliveries it covers; it is enough
\* that the change of the rows is calm for the others.
LEMMA RefreshKeepsInv ==
    ASSUME TypeOK, DeliveryInv, NEW X, NEW e \in {"submitted", "cancelled"},
           delivery' = Refreshed(state', X, e),
           \A x \in Delivery : x \in X \/ Calm(state, state', x),
           \A c \in Cmd : state[c] = "absent" => state'[c] = "absent"
    PROVE  DeliveryInv'
<1>0. e \in DeliveryState /\ e # "absent"
  BY DEF DeliveryState
<1>1. ASSUME NEW x \in Delivery PROVE delivery'[x] = "absent" <=> delivery[x] = "absent"
  <2>1. Verdict(state', x, e) # "absent"
    BY <1>0 DEF Verdict
  <2> QED BY <2>1 DEF Refreshed
<1>2. ASSUME NEW x \in Delivery, delivery'[x] # "absent", Verdict(state', x, "submitted") \in Reportable
      PROVE  delivery'[x] = Verdict(state', x, "submitted")
  <2>1. CASE x \in X
    <3>1. Verdict(state', x, e) = Verdict(state', x, "submitted")
      BY <1>2 DEF Verdict, Reportable
    <3> QED BY <1>1, <1>2, <2>1, <3>1 DEF Refreshed
  <2>2. CASE x \notin X
    <3>1. Verdict(state, x, "submitted") = Verdict(state', x, "submitted")
      BY <1>2, <2>2, CalmVerdict
    <3>2. delivery[x] = Verdict(state, x, "submitted")
      BY <1>1, <1>2, <3>1 DEF DeliveryInv, DeliveryReportsOutcome, Reportable
    <3> QED BY <2>2, <3>1, <3>2 DEF Refreshed
  <2> QED BY <2>1, <2>2
<1>3. ASSUME NEW c \in Cmd, state'[c] # "absent", Envelope[c].delivery \in Delivery
      PROVE  delivery'[Envelope[c].delivery] # "absent"
  BY <1>1, <1>3 DEF DeliveryInv
<1> QED BY <1>2, <1>3 DEF DeliveryInv, DeliveryReportsOutcome, Reportable

\* The same for a transaction that refreshes no delivery.
LEMMA CalmKeepsInv ==
    ASSUME TypeOK, DeliveryInv, delivery' = delivery,
           \A x \in Delivery : Calm(state, state', x),
           \A c \in Cmd : state[c] = "absent" => state'[c] = "absent"
    PROVE  DeliveryInv'
<1>1. delivery' = Refreshed(state', {}, "submitted")
  BY DEF Refreshed, TypeOK
<1> QED BY <1>1, RefreshKeepsInv

LEMMA StepKeepsDeliveries == TypeOK /\ DeliveryInv /\ [Next]_vars => DeliveryInv'
<1> SUFFICES ASSUME TypeOK, DeliveryInv, [Next]_vars PROVE DeliveryInv'
  OBVIOUS
<1> USE DEF Active, Live, Terminal
<1>1. ASSUME state' = state, delivery' = delivery PROVE DeliveryInv'
  BY <1>1, CalmKeepsInv DEF Calm
<1>2. ASSUME NEW C \in SUBSET Active, NEW s \in {"expired", "cancelled"}, NEW X,
             NEW e \in {"submitted", "cancelled"},
             state' = Mark(state, C, s), delivery' = Refreshed(state', X, e), DeliveriesOf(C) \subseteq X
      PROVE  DeliveryInv'
  <2>1. ASSUME NEW x \in Delivery, x \notin X PROVE Calm(state, state', x)
    BY <1>2, <2>1 DEF Mark, DeliveriesOf, Calm
  <2>2. \A c \in Cmd : state[c] = "absent" => state'[c] = "absent"
    BY <1>2 DEF Mark
  <2> QED BY <1>2, <2>1, <2>2, RefreshKeepsInv
<1>3. ASSUME NEW C \in SUBSET Active, GiveUp(C, "expired") PROVE DeliveryInv'
  <2>1. state' = Mark(state, C, "expired") /\ delivery' = Refreshed(state', DeliveriesOf(C), "submitted")
    BY <1>3 DEF GiveUp
  <2> QED BY <1>2, <2>1
<1>4. ASSUME NEW o \in Cmd, NEW b \in Boots \cup {0}, CreateCommand(o, b) PROVE DeliveryInv'
  <2>1. ASSUME NEW c \in Cmd PROVE state'[c] = IF c = o THEN "queued" ELSE state[c]
    BY <1>4 DEF CreateCommand, TypeOK
  <2>2. \A x \in Delivery : Calm(state, state', x)
    BY <1>4, <2>1 DEF Calm, CreateCommand
  <2>3. ASSUME NEW x \in Delivery, delivery[x] # "absent", Verdict(state', x, "submitted") \in Reportable
        PROVE  delivery[x] = Verdict(state', x, "submitted")
    BY <2>2, <2>3, CalmVerdict DEF DeliveryInv, DeliveryReportsOutcome, Reportable
  <2>4. ASSUME NEW c \in Cmd, state'[c] # "absent", Envelope[c].delivery \in Delivery
        PROVE  delivery[Envelope[c].delivery] # "absent"
    BY <1>4, <2>1, <2>4 DEF CreateCommand, DeliveryInv
  <2>5. delivery' = delivery
    BY <1>4 DEF CreateCommand
  <2> QED BY <2>3, <2>4, <2>5 DEF DeliveryInv, DeliveryReportsOutcome, Reportable
<1>5. ASSUME NEW y \in Delivery, CreateDelivery(y) PROVE DeliveryInv'
  <2>1. state' = state /\ delivery[y] = "absent" /\ delivery' = [delivery EXCEPT ![y] = "submitted"]
    BY <1>5 DEF CreateDelivery, rowVars
  <2>2. \A c \in Cmd : Envelope[c].delivery = y => state[c] = "absent"
    BY <2>1 DEF DeliveryInv
  <2>3. Verdict(state, y, "submitted") = "submitted"
    BY <2>2 DEF Verdict
  <2>4. ASSUME NEW x \in Delivery, delivery'[x] # "absent", Verdict(state', x, "submitted") \in Reportable
        PROVE  delivery'[x] = Verdict(state', x, "submitted")
    <3>1. x # y
      BY <2>1, <2>3, <2>4 DEF Reportable
    <3>2. delivery'[x] = delivery[x]
      BY <2>1, <3>1 DEF TypeOK
    <3> QED BY <2>1, <2>4, <3>2 DEF DeliveryInv, DeliveryReportsOutcome, Reportable
  <2>5. ASSUME NEW c \in Cmd, state'[c] # "absent", Envelope[c].delivery \in Delivery
        PROVE  delivery'[Envelope[c].delivery] # "absent"
    BY <2>1, <2>5 DEF DeliveryInv, TypeOK
  <2> QED BY <2>4, <2>5 DEF DeliveryInv, DeliveryReportsOutcome, Reportable
<1>6. ASSUME NEW x \in Delivery, CancelDelivery(x) PROVE DeliveryInv'
  <2> DEFINE C == {c \in Active : Envelope[c].delivery = x}
  <2>1. /\ state' = Mark(state, C, "cancelled") /\ delivery' = Refreshed(state', {x}, "cancelled")
        /\ DeliveriesOf(C) \subseteq {x} /\ C \subseteq Active
    BY <1>6 DEF CancelDelivery, DeliveriesOf
  <2> HIDE DEF C
  <2> QED BY <1>2, <2>1
<1>7. ASSUME NEW X, DeliveriesOf(Due \cup Exhausted) \subseteq X,
             state' = FailExhausted, delivery' = Refreshed(state', X, "submitted")
      PROVE  DeliveryInv'
  <2>1. ASSUME NEW c \in Cmd PROVE /\ c \notin Due \cup Exhausted => state'[c] = state[c]
                                   /\ state[c] = "absent" => state'[c] = "absent"
    BY <1>7 DEF FailExhausted, ExpireDue, Exhausted, Due, Mark
  <2>2. ASSUME NEW x \in Delivery, x \notin X PROVE Calm(state, state', x)
    BY <1>7, <2>1, <2>2 DEF DeliveriesOf, Calm
  <2> QED BY <1>7, <2>1, <2>2, RefreshKeepsInv
<1>8. CASE Sweep \/ \E x \in Delivery : GetDelivery(x)
  <2>1. CASE Sweep
    BY <1>7, <2>1 DEF Sweep
  <2>2. ASSUME NEW x \in Delivery, GetDelivery(x) PROVE DeliveryInv'
    BY <1>7, <2>2 DEF GetDelivery
  <2> QED BY <1>8, <2>1, <2>2
<1>9. ASSUME NEW d \in Device, NEW b \in Boots, ObserveDeviceBoot(d, b) PROVE DeliveryInv'
  <2>1. PICK C \in SUBSET Active : GiveUp(C, "expired")
    BY <1>9 DEF ObserveDeviceBoot
  <2> QED BY <1>3, <2>1
<1>10. CASE ExpireInactiveBoots
  <2>1. PICK C \in SUBSET Active : GiveUp(C, "expired")
    BY <1>10 DEF ExpireInactiveBoots
  <2> QED BY <1>3, <2>1
<1>11. ASSUME NEW C \in SUBSET Dialogue, ExpireStaleDialogue(C) PROVE DeliveryInv'
  BY <1>3, <1>11 DEF ExpireStaleDialogue, Dialogue
<1>12. ASSUME NEW o \in Cmd, NEW b \in Boots \cup {0}, LeaseCommand(o, b) PROVE DeliveryInv'
  <2> DEFINE leased  == ~Refused(o, b) /\ attempt[o] < MaxAttempts
             failing == IF ~Refused(o, b) /\ attempt[o] >= MaxAttempts THEN {o} ELSE {}
             X       == DeliveriesOf(Due \cup failing)
  <2>1. /\ delivery' = Refreshed(state', X, "submitted")
        /\ leased => state' = [ExpireDue EXCEPT ![o] = "leased"]
        /\ ~leased => state' = Mark(ExpireDue, failing, "failed")
    BY <1>12 DEF LeaseCommand
  <2>2. /\ ExpireDue \in [Cmd -> CommandState \cup {"absent"}]
        /\ \A c \in Cmd : c \notin Due => ExpireDue[c] = state[c]
        /\ \A c \in Cmd : state[c] = "absent" => ExpireDue[c] = "absent"
    BY SweepType DEF ExpireDue, Mark, Due
  <2>3. ASSUME NEW x \in Delivery, x \notin X PROVE Calm(state, state', x)
    <3>1. ASSUME NEW c \in Cmd, Envelope[c].delivery = x PROVE c \notin Due \cup failing
      BY <2>3, <3>1 DEF DeliveriesOf
    <3>2. CASE leased
      <4>1. state[o] \notin Terminal \/ o \in Due
        BY <2>2, <3>2 DEF Refused
      <4> QED BY <2>1, <2>2, <3>1, <3>2, <4>1 DEF Calm
    <3>3. CASE ~leased
      <4>1. \A c \in Cmd : Envelope[c].delivery = x => state'[c] = state[c]
        BY <2>1, <2>2, <3>1, <3>3 DEF Mark
      <4> QED BY <4>1 DEF Calm
    <3> QED BY <3>2, <3>3
  <2>4. ASSUME NEW c \in Cmd, state[c] = "absent" PROVE state'[c] = "absent"
    <3>1. ExpireDue[c] = "absent" /\ (c = o => Refused(o, b))
      BY <2>2, <2>4 DEF Refused
    <3> QED BY <2>1, <2>2, <3>1 DEF Mark
  <2> HIDE DEF X
  <2> QED BY <2>1, <2>3, <2>4, RefreshKeepsInv
<1>13. ASSUME NEW o \in Cmd, NEW a \in AckStates, NEW b \in Boots \cup {0}, RecordAck(o, a, b)
       PROVE  DeliveryInv'
  <2>1. delivery' = Refreshed(state', DeliveriesOf({o}), "submitted")
    BY <1>13 DEF RecordAck
  <2>2. ASSUME NEW c \in Cmd PROVE /\ c # o => state'[c] = state[c]
                                   /\ state[c] = "absent" => state'[c] = "absent"
    BY <1>13 DEF RecordAck, TypeOK
  <2>3. ASSUME NEW x \in Delivery, x \notin DeliveriesOf({o}) PROVE Calm(state, state', x)
    BY <2>2, <2>3 DEF DeliveriesOf, Calm
  <2> QED BY <2>1, <2>2, <2>3, RefreshKeepsInv
<1>14. ASSUME NEW t, NEW s, CancelBySource(t, s) PROVE DeliveryInv'
  <2>1. ASSUME NEW c \in Cmd PROVE \/ state'[c] = state[c]
                                   \/ state[c] = "queued" /\ state'[c] = "cancelled"
    BY <1>14 DEF CancelBySource, Mark
  <2>2. delivery' = delivery
    BY <1>14 DEF CancelBySource
  <2> QED BY <2>1, <2>2, CalmKeepsInv DEF Calm
<1>15. ASSUME NEW d \in Device, NEW g, CancelBeforeGeneration(d, g) PROVE DeliveryInv'
  <2>1. PICK C \in SUBSET Active : /\ state' = Mark(state, C, "cancelled")
                                   /\ delivery' = Refreshed(state', DeliveriesOf(C), "cancelled")
    BY <1>15 DEF CancelBeforeGeneration
  <2> QED BY <1>2, <2>1
<1>16. ASSUME NEW n \in Notice, NEW o \in Cmd, LinkNotice(n, o) PROVE DeliveryInv'
  BY <1>1, <1>16 DEF LinkNotice, rowVars
<1>17. ASSUME NEW C \in SUBSET Cmd, Deadline(C) PROVE DeliveryInv'
  BY <1>1, <1>17 DEF Deadline, rowVars
<1>18. CASE UNCHANGED vars
  BY <1>1, <1>18 DEF vars, rowVars
<1>19. ASSUME NEW o \in Cmd, LeaseLapse(o) PROVE DeliveryInv'
  BY <1>1, <1>19 DEF LeaseLapse, rowVars
<1>20. CASE OutboxWrites
  BY <1>1, <1>20, OutboxLeavesRows
<1> QED BY <1>4, <1>5, <1>6, <1>8, <1>9, <1>10, <1>11, <1>12, <1>13, <1>14, <1>15, <1>16, <1>17, <1>18,
            <1>19, <1>20 DEF Next, OutboxWrites

\* What deliveries.state reports is what has become of the delivery's commands.
THEOREM OutcomeReported == Spec => []DeliveryReportsOutcome
<1>1. Init => DeliveryInv
  <2> SUFFICES ASSUME Init PROVE DeliveryInv
    OBVIOUS
  <2> QED BY DEF Init, DeliveryInv, DeliveryReportsOutcome
<1>2. DeliveryInv => DeliveryReportsOutcome
  BY DEF DeliveryInv
<1> QED BY <1>1, <1>2, StepKeepsDeliveries, TypeCorrect, PTL DEF Spec

-----------------------------------------------------------------------------
(* The SELECT of lease_next_command finds a row when there is one.          *)

\* The least number of a set of numbers: the induction of this section.
LEMMA LeastOf ==
    ASSUME NEW T \in SUBSET Nat, T # {}
    PROVE  \E n \in T : \A m \in T : n <= m
<1> DEFINE R == {p \in Nat \X Nat : p[1] < p[2]}
<1>1. IsWellFoundedOn(R, Nat)
  <2> SUFFICES ASSUME NEW f \in [Nat -> Nat], \A n \in Nat : <<f[n + 1], f[n]>> \in R PROVE FALSE
    BY DEF IsWellFoundedOn
  <2>1. IsWellFoundedOn(OpToRel(<, Nat), Nat)
    BY NatLessThanWellFounded
  <2>2. \A n \in Nat : <<f[n + 1], f[n]>> \in OpToRel(<, Nat)
    BY DEF OpToRel
  <2> QED BY <2>1, <2>2 DEF IsWellFoundedOn
<1>2. PICK x \in T : \A y \in T : ~(<<y, x>> \in R)
  <2> HIDE DEF R
  <2> QED BY <1>1, WFMin
<1>3. \A y \in T : x <= y
  <2> TAKE y \in T
  <2>1. x \in Nat /\ y \in Nat
    OBVIOUS
  <2>2. ~(<<y, x>> \in R)
    BY <1>2
  <2>3. ~(y < x)
    BY <2>1, <2>2
  <2> QED BY <2>1, <2>3
<1> QED BY <1>3

\* Of the members of a finite set one has the highest value.
LEMMA HighestOf ==
    ASSUME NEW S, IsFiniteSet(S), S # {}, NEW f, \A x \in S : f[x] \in Nat
    PROVE  \E x \in S : \A y \in S : f[y] <= f[x]
<1> DEFINE Topped(U) == \E x \in U : \A y \in U : f[y] <= f[x]
           T == {n \in Nat : \E U \in SUBSET S : U # {} /\ Cardinality(U) = n /\ ~Topped(U)}
<1>0. \A U \in SUBSET S : IsFiniteSet(U) /\ Cardinality(U) \in Nat
  BY FS_Subset, FS_CardinalityType
<1> SUFFICES ASSUME ~Topped(S) PROVE FALSE
  OBVIOUS
<1>1. T \in SUBSET Nat /\ T # {}
  <2>1. S \in SUBSET S
    OBVIOUS
  <2> QED BY <1>0, <2>1
<1>2. PICK n \in T : \A m \in T : n <= m
  <2> HIDE DEF T
  <2> QED BY <1>1, LeastOf
<1>3. PICK U \in SUBSET S : U # {} /\ Cardinality(U) = n /\ ~Topped(U)
  BY <1>2
<1>4. PICK x : x \in U
  BY <1>3
<1> DEFINE V == U \ {x}
<1>5. Cardinality(V) = n - 1 /\ V \in SUBSET S /\ n \in Nat /\ n - 1 \in Nat
  <2>1. IsFiniteSet(U) /\ Cardinality(U) = n /\ V \in SUBSET S /\ n \in Nat /\ Cardinality(V) \in Nat
    BY <1>0, <1>3
  <2>2. Cardinality(V) = Cardinality(U) - 1
    BY <1>4, <2>1, FS_RemoveElement
  <2> QED BY <2>1, <2>2
<1>6. V = {} \/ Topped(V)
  <2>1. n - 1 \notin T
    <3> HIDE DEF T
    <3>1. n - 1 \in T => n <= n - 1
      BY <1>2
    <3> QED BY <1>5, <3>1
  <2> HIDE DEF Topped, V
  <2> QED BY <1>5, <2>1
<1>7. CASE V = {}
  <2>1. \A y \in U : y = x /\ f[y] \in Nat
    BY <1>7
  <2>2. Topped(U)
    BY <1>4, <2>1
  <2> QED BY <1>3, <2>2
<1>8. CASE Topped(V)
  <2>1. PICK v \in V : \A y \in V : f[y] <= f[v]
    BY <1>8
  <2>2. f[x] \in Nat /\ f[v] \in Nat /\ \A y \in U : f[y] \in Nat
    BY <1>4, <2>1
  <2>3. \A y \in U : y = x \/ f[y] <= f[v]
    BY <2>1
  <2>4. CASE f[x] <= f[v]
    <3>1. \A y \in U : f[y] <= f[v]
      BY <2>3, <2>4
    <3> QED BY <1>3, <3>1
  <2>5. CASE ~(f[x] <= f[v])
    <3>1. \A y \in U : f[y] <= f[x]
      BY <2>2, <2>3, <2>5
    <3> QED BY <1>3, <1>4, <3>1
  <2> QED BY <2>4, <2>5
<1> QED BY <1>6, <1>7, <1>8

\* ORDER BY safety_class DESC, priority DESC, queue_seq ASC has a first row.
LEMMA FirstRow ==
    ASSUME TypeOK, NEW rows \in SUBSET Cmd, rows # {}
    PROVE  \E c \in rows : \A o \in rows : Precedes(c, o)
<1> DEFINE safety   == [c \in Cmd |-> SafetyOrder[Envelope[c].safety]]
           priority == [c \in Cmd |-> Envelope[c].priority]
<1>0. \A c \in Cmd : safety[c] \in Nat /\ priority[c] \in Nat /\ seq[c] \in Nat
  <2>1. \A c \in Cmd : Envelope[c] \in CommandEnvelope
    BY StoreAssumption DEF StoreAssumption
  <2>2. \A c \in Cmd : Envelope[c].safety \in {"normal", "local_stop"} /\ Envelope[c].priority \in Nat
    BY <2>1 DEF CommandEnvelope
  <2> QED BY <2>2 DEF SafetyOrder, TypeOK
<1>1. \A U \in SUBSET rows : IsFiniteSet(U)
  <2>1. \A U \in SUBSET rows : U \subseteq Cmd
    OBVIOUS
  <2> QED BY <2>1, StoreAssumption, FS_Subset DEF StoreAssumption
<1>2. \A c, d \in Cmd : Precedes(c, d) <=>
        safety[c] > safety[d] \/ (safety[c] = safety[d] /\
           (priority[c] > priority[d] \/ (priority[c] = priority[d] /\ seq[c] <= seq[d])))
  BY DEF Precedes
<1> HIDE DEF safety, priority
<1>3. PICK s \in rows : \A y \in rows : safety[y] <= safety[s]
  BY <1>0, <1>1, HighestOf
<1> DEFINE P == {c \in rows : safety[c] = safety[s]}
<1>4. PICK p \in P : \A y \in P : priority[y] <= priority[p]
  <2>1. P \in SUBSET rows /\ P # {} /\ \A x \in P : priority[x] \in Nat
    BY <1>0
  <2> HIDE DEF P
  <2> QED BY <1>1, <2>1, HighestOf
<1> DEFINE Q == {c \in P : priority[c] = priority[p]}
<1>5. PICK c \in Q : \A y \in Q : seq[c] <= seq[y]
  <2> DEFINE T == {seq[y] : y \in Q}
  <2>1. T \in SUBSET Nat /\ T # {}
    BY <1>0, <1>4
  <2>2. \E n \in T : \A m \in T : n <= m
    <3> HIDE DEF T
    <3> QED BY <2>1, LeastOf
  <2> QED BY <2>2
<1>6. c \in rows /\ safety[c] = safety[s] /\ priority[c] = priority[p]
  BY <1>5
<1>7. ASSUME NEW o \in rows PROVE Precedes(c, o)
  <2>1. /\ safety[o] \in Nat /\ safety[c] \in Nat /\ priority[o] \in Nat /\ priority[c] \in Nat
        /\ safety[o] <= safety[c]
    BY <1>0, <1>3, <1>6
  <2>2. CASE safety[o] # safety[c]
    BY <1>2, <1>6, <2>1, <2>2
  <2>3. CASE safety[o] = safety[c] /\ priority[o] # priority[c]
    <3>1. o \in P
      BY <1>6, <2>3
    <3>2. priority[o] <= priority[c]
      BY <1>4, <1>6, <3>1
    <3> QED BY <1>2, <1>6, <2>1, <2>3, <3>2
  <2>4. CASE safety[o] = safety[c] /\ priority[o] = priority[c]
    <3>1. o \in Q
      BY <1>6, <2>4
    <3>2. seq[c] <= seq[o]
      BY <1>5, <3>1
    <3> QED BY <1>2, <1>6, <2>4, <3>2
  <2> QED BY <2>2, <2>3, <2>4
<1> QED BY <1>6, <1>7
=============================================================================
