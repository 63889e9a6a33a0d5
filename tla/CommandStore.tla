---------------------------- MODULE CommandStore ----------------------------
(***************************************************************************)
(* The durable command queue of the stack-chan server                      *)
(* (stack-chan-server/src/command_store.py on database.py).                *)
(*                                                                         *)
(* Database.connect holds one process-wide lock for the whole `with` block *)
(* and commits at its end, so every method of CommandStore is one atomic   *)
(* transaction, and one action here.  lease_next_command runs two of them, *)
(* and is two actions: Sweep, which ends in the SELECT that picks a row    *)
(* (NextCommand), and the LeaseCommand of that row.                        *)
(*                                                                         *)
(* Time is what the SQL conditions tell apart: a row whose expires_at has  *)
(* passed is in `overdue', and a leased row whose lease_expires_at has     *)
(* passed is in `lapsed'.  The append-only logs command_acks and           *)
(* command_attempts, which no transaction reads back, are left out, and    *)
(* devices.speech_generation, which no transaction of the queue reads, is  *)
(* left to the turn coordinator that keeps it.                             *)
(***************************************************************************)
EXTENDS Naturals, FiniteSets

CONSTANTS
    Device,         \* device_id values
    Cmd,            \* cmd_id values
    Delivery,       \* delivery_id values
    NoDelivery,     \* the empty delivery_id
    Notice,         \* notice_id values of morrow_notices
    NoCmd,          \* a notice with no command_id
    Boots,          \* the nonzero boot ids the devices draw
    Envelope,       \* the CommandEnvelope a producer builds for each cmd_id
    MaxAttempts,    \* max_attempts of create_command (3 in the code)
    MaxGeneration   \* bound on the speech generations a run fences with

Terminal == {"rendered", "done", "failed", "cancelled", "expired"}

Live == {"queued", "leased", "received", "running"}

CommandState == Live \cup Terminal

CommandEnvelope ==
    [device : Device, delivery : Delivery \cup {NoDelivery}, type : STRING,
     safety : {"normal", "local_stop"}, priority : Nat, sourceType : STRING,
     sourceId : STRING, segment : Nat, generation : Nat, ttl : BOOLEAN]

ASSUME StoreAssumption ==
    /\ IsFiniteSet(Cmd)
    /\ Boots \subseteq Nat \ {0}
    /\ MaxAttempts \in Nat \ {0}
    /\ MaxGeneration \in Nat
    /\ NoDelivery \notin Delivery
    /\ NoCmd \notin Cmd
    /\ Envelope \in [Cmd -> CommandEnvelope]

VARIABLES
    boot,           \* devices.current_boot_id, 0 before the first hello
    state,          \* commands.state, "absent" when there is no row
    attempt,        \* commands.attempt
    bound,          \* commands.boot_id, 0 when not bound to a boot
    seq,            \* commands.queue_seq, 0 when there is no row
    overdue,        \* rows whose expires_at has passed
    lapsed,         \* leased rows whose lease_expires_at has passed
    delivery,       \* deliveries.state, "absent" when there is no row
    noticeState,    \* morrow_notices.state
    noticeCmd       \* morrow_notices.command_id

rowVars    == <<state, attempt, bound, seq>>
timeVars   == <<overdue, lapsed>>
noticeVars == <<noticeState, noticeCmd>>
vars == <<boot, rowVars, timeVars, delivery, noticeVars>>

Row    == {c \in Cmd : state[c] # "absent"}
Active == {c \in Cmd : state[c] \in Live}

-----------------------------------------------------------------------------
(* Helpers shared by the transactions.  The operators named Slip... are not *)
(* the code: each is the operator below it as a plausible mistake would     *)
(* have it, kept to show that the properties tell the two apart.            *)

\* UPDATE commands SET state=s over the rows of C.
Mark(st, C, s) == [c \in Cmd |-> IF c \in C THEN s ELSE st[c]]

\* The nonempty delivery ids of the rows of C.
DeliveriesOf(C) == {Envelope[c].delivery : c \in C} \cap Delivery

\* The verdict _refresh_delivery_state computes from the rows of delivery x;
\* whenEmpty is its answer for a delivery without rows.
Verdict(st, x, whenEmpty) ==
    LET seen == {st[c] : c \in {d \in Cmd : Envelope[d].delivery = x}} \ {"absent"}
    IN  CASE seen = {}                        -> whenEmpty
          [] seen # {} /\ seen \subseteq {"rendered", "done"} -> "delivered"
          [] "failed" \in seen                -> "failed"
          [] "expired" \in seen /\ "failed" \notin seen -> "expired"
          [] seen = {"cancelled"}             -> "cancelled"
          [] OTHER                            -> "submitted"

\* The deliveries table after the deliveries of X are refreshed.
Refreshed(st, X, whenEmpty) ==
    [x \in Delivery |-> IF x \in X /\ delivery[x] # "absent"
                        THEN Verdict(st, x, whenEmpty) ELSE delivery[x]]

\* _expire_due_locked: the rows past expires_at, whatever their device.
Due == Active \cap overdue
ExpireDue == Mark(state, Due, "expired")

\* _fail_exhausted_leases_locked, which runs after _expire_due_locked.
Exhausted ==
    {c \in Cmd : ExpireDue[c] = "leased" /\ c \in lapsed /\ attempt[c] >= MaxAttempts}
FailExhausted == Mark(ExpireDue, Exhausted, "failed")

\* A sweep that settles only the notices of the rows it gives up itself.
SlipSettled(st, verdicts) ==
    [n \in Notice |->
        IF /\ noticeState[n] \notin Terminal /\ noticeCmd[n] \in Due \cup Exhausted
           /\ st[noticeCmd[n]] \in verdicts
        THEN st[noticeCmd[n]] ELSE noticeState[n]]

\* The notices those two settle: an open notice linked to a row that stands
\* at one of the verdicts, whichever transaction put it there.
Settled(st, verdicts) ==
    [n \in Notice |->
        IF noticeState[n] \notin Terminal /\ noticeCmd[n] \in Cmd /\ st[noticeCmd[n]] \in verdicts
        THEN st[noticeCmd[n]] ELSE noticeState[n]]

\* A cancellation that leaves the notices a device may be speaking already.
SlipNoticesCancelled(C) ==
    [n \in Notice |-> IF noticeState[n] = "received" /\ noticeCmd[n] \in C
                      THEN "cancelled" ELSE noticeState[n]]

\* The notices cancelled along with the rows of C.
NoticesCancelled(C) ==
    [n \in Notice |-> IF noticeState[n] \in {"received", "queued", "leased"} /\ noticeCmd[n] \in C
                      THEN "cancelled" ELSE noticeState[n]]

\* The clocks after a transaction that leased the rows of W anew.  Only a
\* leased row has a lease to lapse, and only a live one a deadline.
Clocks(W) ==
    /\ overdue' = {c \in overdue : state'[c] \in Live}
    /\ lapsed' = {c \in lapsed \ W : state'[c] = "leased"}

\* A boot change that forgets the deliveries.
SlipGiveUp(C, s) ==
    /\ state' = Mark(state, C, s)
    /\ UNCHANGED <<attempt, seq, delivery, noticeVars>>
    /\ Clocks({})

\* What the transactions that only give up the rows of C change: their state
\* becomes s and the deliveries of those rows are refreshed.
GiveUp(C, s) ==
    /\ state' = Mark(state, C, s)
    /\ delivery' = Refreshed(state', DeliveriesOf(C), "submitted")
    /\ UNCHANGED <<attempt, seq, noticeVars>>
    /\ Clocks({})

\* STATE_RANK, and _ack_can_advance.
StateRank == [s \in CommandState |->
    CASE s = "queued" -> 0 [] s = "leased" -> 1 [] s = "received" -> 2
      [] s = "running" -> 3 [] OTHER -> 4]
SlipAckCanAdvance(current, incoming) == StateRank[incoming] >= StateRank[current]
AckCanAdvance(current, incoming) ==
    IF current \in Terminal THEN incoming = current ELSE StateRank[incoming] >= StateRank[current]

\* The state record_ack gives a linked notice, and the attempt it refunds.
SlipNoticeStateOf(a) == IF a = "received" THEN "queued" ELSE a
NoticeStateOf(a) ==
    CASE a = "received" -> "queued" [] a = "running" -> "leased" [] OTHER -> a
SlipRefund(n) == n
Refund(n) == IF n > 0 THEN n - 1 ELSE 0

\* idx_commands_source_segment: the rows that make an INSERT of c IGNOREd.
Duplicates(c) ==
    {d \in Row : \/ d = c
                 \/ /\ Envelope[c].sourceType # "" /\ Envelope[c].sourceId # ""
                    /\ Envelope[d].sourceType = Envelope[c].sourceType
                    /\ Envelope[d].sourceId = Envelope[c].sourceId
                    /\ Envelope[d].segment = Envelope[c].segment
                    /\ Envelope[d].type = Envelope[c].type}

-----------------------------------------------------------------------------
Init ==
    /\ boot = [d \in Device |-> 0]
    /\ state = [c \in Cmd |-> "absent"]
    /\ attempt = [c \in Cmd |-> 0]
    /\ bound = [c \in Cmd |-> 0]
    /\ seq = [c \in Cmd |-> 0]
    /\ overdue = {} /\ lapsed = {}
    /\ delivery = [x \in Delivery |-> "absent"]
    /\ noticeState = [n \in Notice |-> "received"]
    /\ noticeCmd = [n \in Notice |-> NoCmd]

\* create_command with the boot_id b of the envelope.  b is 0 for the
\* coordinator's envelopes, bound here to the boot the device has now, and
\* for from_legacy envelopes it is the boot read by an earlier transaction.
\* A delivery's row is inserted before the commands that name it.
CreateCommand(c, b) ==
    /\ state[c] = "absent"
    /\ Envelope[c].delivery \in Delivery => delivery[Envelope[c].delivery] # "absent"
    /\ Duplicates(c) = {}
    /\ state' = [state EXCEPT ![c] = "queued"]
    /\ bound' = [bound EXCEPT ![c] = IF b = 0 THEN boot[Envelope[c].device] ELSE b]
    /\ seq' = [seq EXCEPT ![c] = Cardinality(Row) + 1]
    /\ UNCHANGED <<boot, attempt, timeVars, delivery, noticeVars>>

\* create_delivery.
CreateDelivery(x) ==
    /\ delivery[x] = "absent"
    /\ delivery' = [delivery EXCEPT ![x] = "submitted"]
    /\ UNCHANGED <<boot, rowVars, timeVars, noticeVars>>

\* observe_device_boot: b becomes the device's boot.  The first boot ever seen
\* binds the device's unbound rows, any other leaves them unbound; the rows
\* of other boots expire.
ObserveDeviceBoot(d, b) ==
    LET unbound == {c \in Active : Envelope[c].device = d /\ bound[c] = 0 /\ boot[d] = 0}
        gone    == {c \in Active : Envelope[c].device = d /\ bound[c] # 0 /\ bound[c] # b}
    IN  /\ boot' = [boot EXCEPT ![d] = b]
        /\ bound' = [c \in Cmd |-> IF c \in unbound THEN b ELSE bound[c]]
        /\ GiveUp(gone, "expired")

\* expire_inactive_boot_commands, over every device.
ExpireInactiveBoots ==
    LET gone == {c \in Active : /\ bound[c] # 0 /\ boot[Envelope[c].device] # 0
                                /\ bound[c] # boot[Envelope[c].device]}
    IN  /\ GiveUp(gone, "expired")
        /\ UNCHANGED <<boot, bound>>

\* expire_stale_dialogue_commands when the dialogue rows of C, of one device
\* or of all, are those untouched for STALE_DIALOGUE_SECONDS.
Dialogue == {c \in Active : Envelope[c].sourceType = "dialogue"}
ExpireStaleDialogue(C) ==
    /\ C \subseteq Dialogue
    /\ GiveUp(C, "expired")
    /\ UNCHANGED <<boot, bound>>

\* _expire_due_locked and _fail_exhausted_leases_locked: the first half of
\* lease_next_command.
Sweep ==
    /\ state' = FailExhausted
    /\ delivery' = Refreshed(state', DeliveriesOf(Due \cup Exhausted), "submitted")
    /\ noticeState' = Settled(state', {"expired", "failed"})
    /\ UNCHANGED <<boot, attempt, bound, seq, noticeCmd>>
    /\ Clocks({})

\* get_delivery does the same, and refreshes the delivery it was asked for.
GetDelivery(x) ==
    /\ state' = FailExhausted
    /\ delivery' = Refreshed(state', DeliveriesOf(Due \cup Exhausted) \cup {x}, "submitted")
    /\ noticeState' = Settled(state', {"expired", "failed"})
    /\ UNCHANGED <<boot, attempt, bound, seq, noticeCmd>>
    /\ Clocks({})

\* lease_command for a poll of boot b (0 when the request names none).
Refused(c, b) ==
    \/ ExpireDue[c] = "absent"
    \/ bound[c] # 0 /\ b # 0 /\ bound[c] # b
    \/ ExpireDue[c] \in Terminal
LeaseCommand(c, b) ==
    LET refused == Refused(c, b)
        spent   == ~refused /\ attempt[c] >= MaxAttempts
        leased  == ~refused /\ attempt[c] < MaxAttempts
        failing == IF spent THEN {c} ELSE {}
    IN  /\ state' = IF leased THEN [ExpireDue EXCEPT ![c] = "leased"]
                    ELSE Mark(ExpireDue, failing, "failed")
        /\ delivery' = Refreshed(state', DeliveriesOf(Due \cup failing), "submitted")
        /\ noticeState' = Settled(ExpireDue, {"expired"})
        /\ attempt' = IF leased THEN [attempt EXCEPT ![c] = @ + 1] ELSE attempt
        /\ bound' = IF leased /\ bound[c] = 0 THEN [bound EXCEPT ![c] = b] ELSE bound
        /\ UNCHANGED <<boot, seq, noticeCmd>>
        /\ Clocks(IF leased THEN {c} ELSE {})

\* record_ack of a row for an ack of state a sent by boot b.
AckIgnored(c, b) == bound[c] # 0 /\ b # 0 /\ bound[c] # b
RecordAck(c, a, b) ==
    LET deferred == a = "deferred" /\ state[c] \notin Terminal
        advance  == a # "deferred" /\ AckCanAdvance(state[c], a)
    IN  /\ state[c] # "absent"
        /\ ~AckIgnored(c, b)
        /\ state' = [state EXCEPT ![c] = IF deferred THEN "queued" ELSE IF advance THEN a ELSE @]
        /\ attempt' = [attempt EXCEPT ![c] = IF deferred THEN Refund(@) ELSE @]
        /\ noticeState' = [n \in Notice |-> IF advance /\ noticeCmd[n] = c
                                            THEN NoticeStateOf(a) ELSE noticeState[n]]
        /\ delivery' = Refreshed(state', DeliveriesOf({c}), "submitted")
        /\ Clocks({})
        /\ UNCHANGED <<boot, bound, seq, noticeCmd>>

\* cancel_delivery.
CancelDelivery(x) ==
    LET gone == {c \in Active : Envelope[c].delivery = x}
    IN  /\ state' = Mark(state, gone, "cancelled")
        /\ delivery' = Refreshed(state', {x}, "cancelled")
        /\ UNCHANGED <<boot, attempt, bound, seq, noticeVars>>
        /\ Clocks({})

\* cancel_pending_by_source: only rows no device has yet, and no refresh.
OfSource(t, s) == {c \in Row : Envelope[c].sourceType = t /\ Envelope[c].sourceId = s}
SlipCancelBySource(t, s) ==
    LET gone == {c \in OfSource(t, s) : state[c] = "queued"}
    IN  /\ state' = Mark(state, gone, "cancelled")
        /\ noticeState' = NoticesCancelled(OfSource(t, s))
        /\ UNCHANGED <<boot, attempt, bound, seq, delivery, noticeCmd>>
        /\ Clocks({})
CancelBySource(t, s) ==
    LET gone == {c \in OfSource(t, s) : state[c] = "queued"}
    IN  /\ state' = Mark(state, gone, "cancelled")
        /\ noticeState' = NoticesCancelled({c \in OfSource(t, s) : state'[c] = "cancelled"})
        /\ UNCHANGED <<boot, attempt, bound, seq, delivery, noticeCmd>>
        /\ Clocks({})

\* cancel_pending_before_generation: the device's older speech, whatever a
\* device has done with it.
CancelBeforeGeneration(d, g) ==
    LET older == {c \in Row : Envelope[c].device = d /\ Envelope[c].generation < g}
        gone  == {c \in older \cap Active : Envelope[c].type = "speak"}
    IN  /\ state' = Mark(state, gone, "cancelled")
        /\ delivery' = Refreshed(state', DeliveriesOf(gone), "cancelled")
        /\ noticeState' = NoticesCancelled({c \in older : state'[c] = "cancelled"})
        /\ UNCHANGED <<boot, attempt, bound, seq, noticeCmd>>
        /\ Clocks({})

\* The last UPDATE of submit_morrow_notice_text, in a transaction of its own
\* after its speak commands were created.  It asks neither what state the
\* reminder is in by then, nor whether the row of c was inserted: the INSERT
\* may have been ignored as a duplicate, or have failed.
LinkNotice(n, c) ==
    /\ Envelope[c].sourceType = "morrow_notice" /\ Envelope[c].sourceId = n
    /\ noticeCmd' = [noticeCmd EXCEPT ![n] = c]
    /\ noticeState' = [noticeState EXCEPT ![n] = "queued"]
    /\ UNCHANGED <<boot, rowVars, timeVars, delivery>>

\* The other two writes server.py makes to a reminder's state.
\* mark_morrow_notice_state(..., "expired") asks nothing: the reminder was
\* read, and found too late, in an earlier transaction.
MarkNoticeExpired(n) ==
    /\ noticeState' = [noticeState EXCEPT ![n] = "expired"]
    /\ UNCHANGED <<boot, rowVars, timeVars, delivery, noticeCmd>>

\* The outbox loop expires the reminders of N that are too late, of those
\* nobody has submitted.
ExpireReceived(N) ==
    /\ N \subseteq {n \in Notice : noticeState[n] = "received"}
    /\ noticeState' = [n \in Notice |-> IF n \in N THEN "expired" ELSE noticeState[n]]
    /\ UNCHANGED <<boot, rowVars, timeVars, delivery, noticeCmd>>

\* Time passes: the TTL of the rows of C runs out, a lease runs out.
Deadline(C) ==
    /\ C # {} /\ C \subseteq {c \in Active \ overdue : Envelope[c].ttl}
    /\ overdue' = overdue \cup C
    /\ UNCHANGED <<boot, rowVars, lapsed, delivery, noticeVars>>
LeaseLapse(c) ==
    /\ state[c] = "leased" /\ c \notin lapsed
    /\ lapsed' = lapsed \cup {c}
    /\ UNCHANGED <<boot, rowVars, overdue, delivery, noticeVars>>

-----------------------------------------------------------------------------
(* The SELECT of lease_next_command, on the tables Sweep leaves behind.    *)

\* safety_class is TEXT: `DESC' puts "normal" before "local_stop".
SafetyOrder == [normal |-> 1, local_stop |-> 0]

SlipRunnable(d, b, allowSpeak, allowFindOwner) ==
    {c \in Row \ overdue :
        /\ Envelope[c].device = d
        /\ b = 0 \/ bound[c] \in {0, b}
        /\ state[c] = "queued"
        /\ allowSpeak \/ Envelope[c].type # "speak"
        /\ allowFindOwner \/ Envelope[c].type \notin {"find_owner", "locate_owner"}
        /\ attempt[c] < MaxAttempts}
Runnable(d, b, allowSpeak, allowFindOwner) ==
    {c \in Row \ overdue :
        /\ Envelope[c].device = d
        /\ b = 0 \/ bound[c] \in {0, b}
        /\ state[c] = "queued" \/ (state[c] = "leased" /\ c \in lapsed)
        /\ allowSpeak \/ Envelope[c].type # "speak"
        /\ allowFindOwner \/ Envelope[c].type \notin {"find_owner", "locate_owner"}
        /\ attempt[c] < MaxAttempts}

\* ORDER BY safety_class DESC, priority DESC, queue_seq ASC.
Precedes(c, d) ==
    LET s == SafetyOrder[Envelope[c].safety]  t == SafetyOrder[Envelope[d].safety]
        p == Envelope[c].priority             q == Envelope[d].priority
    IN  s > t \/ (s = t /\ (p > q \/ (p = q /\ seq[c] <= seq[d])))

NextCommand(d, b, allowSpeak, allowFindOwner) ==
    LET rows == Runnable(d, b, allowSpeak, allowFindOwner)
    IN  IF rows = {} THEN NoCmd
        ELSE CHOOSE c \in rows : \A o \in rows : Precedes(c, o)

-----------------------------------------------------------------------------
AckStates == {"received", "running", "rendered", "done", "failed", "cancelled", "expired", "deferred"}
Sources == {<<Envelope[c].sourceType, Envelope[c].sourceId>> : c \in Cmd}

Next ==
    \/ \E c \in Cmd, b \in Boots \cup {0} : CreateCommand(c, b)
    \/ \E x \in Delivery : CreateDelivery(x) \/ CancelDelivery(x) \/ GetDelivery(x)
    \/ \E d \in Device, b \in Boots : ObserveDeviceBoot(d, b)
    \/ ExpireInactiveBoots
    \/ \E C \in SUBSET Dialogue : ExpireStaleDialogue(C)
    \/ Sweep
    \/ \E c \in Cmd, b \in Boots \cup {0} : LeaseCommand(c, b)
    \/ \E c \in Cmd, a \in AckStates, b \in Boots \cup {0} : RecordAck(c, a, b)
    \/ \E s \in Sources : CancelBySource(s[1], s[2])
    \/ \E d \in Device, g \in 0 .. MaxGeneration : CancelBeforeGeneration(d, g)
    \/ \E n \in Notice, c \in Cmd : LinkNotice(n, c)
    \/ \E n \in Notice : MarkNoticeExpired(n)
    \/ \E N \in SUBSET Notice : ExpireReceived(N)
    \/ \E C \in SUBSET Cmd : Deadline(C)
    \/ \E c \in Cmd : LeaseLapse(c)

Spec == Init /\ [][Next]_vars

\* A device polls for as long as it runs (run_command_http_loop), and every
\* poll that finds no command or picks one runs the sweep first.
FairSpec == Spec /\ WF_vars(Sweep)

-----------------------------------------------------------------------------
(* Properties.                                                             *)

\* The tables hold the values their columns can take; a row that does not
\* exist has no attempt, no boot and no lease.
TypeOK ==
    /\ boot \in [Device -> Boots \cup {0}]
    /\ state \in [Cmd -> CommandState \cup {"absent"}]
    /\ attempt \in [Cmd -> Nat]
    /\ bound \in [Cmd -> Boots \cup {0}]
    /\ seq \in [Cmd -> Nat]
    /\ overdue \subseteq Cmd /\ lapsed \subseteq Cmd
    /\ delivery \in [Delivery -> {"absent", "submitted", "delivered", "failed", "expired", "cancelled"}]
    /\ noticeState \in [Notice -> {"received", "queued", "leased"} \cup Terminal]
    /\ noticeCmd \in [Notice -> Cmd \cup {NoCmd}]

\* A command's outcome is final: no late or replayed ACK, lease, sweep or
\* cancellation turns a finished row into anything else, and a row never
\* disappears.
TerminalIsFinal ==
    [][\A c \in Cmd : /\ state[c] \in Terminal => state'[c] = state[c]
                      /\ state[c] # "absent" => state'[c] # "absent"]_vars

\* A queued row always has an attempt left (lease_next_command neither leases
\* nor fails a queued row without one, so it would be stranded), a leased row
\* has used at least one, and none uses more than max_attempts, however often
\* `deferred' ACKs refund one.
AttemptBudget ==
    \A c \in Cmd : /\ attempt[c] <= MaxAttempts
                   /\ state[c] = "queued" => attempt[c] < MaxAttempts
                   /\ state[c] = "leased" => attempt[c] > 0

\* What deliveries.state reports is what happened to its commands: whenever
\* the rows of a delivery add up to failed, expired or delivered, some
\* transaction has recorded that verdict.  (cancel_pending_by_source does not
\* refresh, so `cancelled' may lag.)
DeliveryReportsOutcome ==
    \A x \in Delivery :
        LET verdict == Verdict(state, x, "submitted")
        IN  delivery[x] # "absent" /\ verdict \in {"failed", "expired", "delivered"}
            => delivery[x] = verdict

\* A reminder linked to a speak command is spoken, failed or cancelled only as
\* that command is: it is never reported so while the command is on its way or
\* has ended otherwise.  It becomes expired only with its command too, but for
\* server.py's own verdict (mark_morrow_notice_state), which looks at no
\* command; the outbox's sweep of received reminders hits none that is linked.
NoticeNeverAhead ==
    /\ [](\A n \in Notice :
            noticeCmd[n] \in Cmd /\ noticeState[n] \in Terminal \ {"expired"}
                => state[noticeCmd[n]] = noticeState[n])
    /\ [][\A n \in Notice :
            noticeCmd[n] \in Cmd /\ noticeState[n] # "expired" /\ noticeState'[n] = "expired"
                => MarkNoticeExpired(n) \/ state'[noticeCmd[n]] = "expired"]_vars

\* A reminder whose command failed or expired does not stay open, even when
\* the transaction that gave the command up (a boot change, lease_command at
\* the last attempt, the stale-dialogue sweep) does not touch the reminders.
NoticeEventuallySettles ==
    \A n \in Notice :
        (noticeCmd[n] \in Cmd /\ state[noticeCmd[n]] \in {"failed", "expired"})
            ~> noticeState[n] \in Terminal
=============================================================================
