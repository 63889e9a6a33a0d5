------------------------- MODULE DeviceCommandQueue -------------------------
(***************************************************************************)
(* The in-memory command queue of one device: class DeviceCommandQueue of  *)
(* stack-chan-server/src/server.py.  Every method holds the condition      *)
(* variable's lock, so each is one action.                                 *)
(*                                                                         *)
(* An item is a cmd_id with the boot_id its producer stamped on it; the    *)
(* rest of the command does not change and is Meta[cmd].  Items are kept   *)
(* in the order they were put, so the position stands for `seq'.  Every    *)
(* reader and put drops the items whose time has run out before it looks,  *)
(* so running out and being dropped is one action, Expire.                 *)
(***************************************************************************)
EXTENDS Naturals, FiniteSets, SequencesExt

CONSTANTS
    QCmd,           \* cmd_id values
    QBoots,         \* boot ids an item can be stamped with, 0 included
    Meta,           \* what put and get read of each command
    MaxSize         \* max_size (COMMAND_QUEUE_MAX_SIZE, 24, in the server)

\* priority is the larger of the command's own and its type's default;
\* coalesceKey falls back on the type for the types that coalesce by type.
CommandMeta ==
    [type : STRING, priority : Nat, coalesceKey : STRING, discardable : BOOLEAN,
     interrupt : BOOLEAN, generation : Nat]

ASSUME QueueAssumption ==
    /\ MaxSize \in Nat \ {0}
    /\ Meta \in [QCmd -> CommandMeta]

VARIABLE items      \* the queued items, oldest first

Item == [cmd : QCmd, boot : QBoots]

Priority(e) == Meta[e.cmd].priority

\* What is left of q when only the items at the positions of I stay, and when
\* the one at i goes.
Nth(I, k) == CHOOSE i \in I : Cardinality({j \in I : j < i}) = k - 1
Kept(q, I) == [k \in 1 .. Cardinality(I) |-> q[Nth(I, k)]]
Without(q, i) == Kept(q, DOMAIN q \ {i})

-----------------------------------------------------------------------------
(* put.  The operators named Slip... are plausible mistakes, not the code.  *)

\* An interrupting command clears what does not outrank it, and discardable
\* items whatever their priority.
Preempted(q, e) ==
    IF ~Meta[e.cmd].interrupt THEN q
    ELSE Kept(q, {i \in DOMAIN q : Priority(q[i]) > Priority(e) /\ ~Meta[q[i].cmd].discardable})

\* A command replaces the items of its coalesce key that do not outrank it.
SlipCoalesced(q, e) ==
    Kept(q, {i \in DOMAIN q : \/ Meta[q[i].cmd].coalesceKey # Meta[e.cmd].coalesceKey
                              \/ Priority(q[i]) >= Priority(e)})
Coalesced(q, e) ==
    IF Meta[e.cmd].coalesceKey = "" THEN q
    ELSE Kept(q, {i \in DOMAIN q : \/ Meta[q[i].cmd].coalesceKey # Meta[e.cmd].coalesceKey
                                   \/ Priority(q[i]) > Priority(e)})

\* _find_drop_index_locked: the item a full queue gives up for e, if any: the
\* lowest and oldest discardable one that does not outrank e, or else the
\* lowest and oldest of any kind.
SlipOutranked(q, e) == DOMAIN q
Outranked(q, e) == {i \in DOMAIN q : Priority(q[i]) <= Priority(e)}
LowestOldest(q, I) ==
    CHOOSE i \in I : \A j \in I : \/ Priority(q[i]) < Priority(q[j])
                                  \/ Priority(q[i]) = Priority(q[j]) /\ i <= j
DropIndex(q, e) ==
    LET discardable == {i \in Outranked(q, e) : Meta[q[i].cmd].discardable}
    IN  LowestOldest(q, IF discardable # {} THEN discardable ELSE Outranked(q, e))

\* The queue when put reaches its `while' loop; at most one item has to go.
Thinned(q, e) == Coalesced(Preempted(q, e), e)
AfterPut(q, e) ==
    LET t == Thinned(q, e)
    IN  IF Len(t) < MaxSize THEN Append(t, e)
        ELSE IF Outranked(t, e) # {} THEN Append(Without(t, DropIndex(t, e)), e)
        ELSE t

-----------------------------------------------------------------------------
(* get and the discards.                                                   *)

SlipEligible(q, b, allowSpeak, allowFindOwner) ==
    {i \in DOMAIN q : /\ allowSpeak \/ Meta[q[i].cmd].type # "speak"
                      /\ allowFindOwner \/ Meta[q[i].cmd].type \notin {"find_owner", "locate_owner"}}
Eligible(q, b, allowSpeak, allowFindOwner) ==
    {i \in DOMAIN q : /\ b = 0 \/ q[i].boot \in {0, b}
                      /\ allowSpeak \/ Meta[q[i].cmd].type # "speak"
                      /\ allowFindOwner \/ Meta[q[i].cmd].type \notin {"find_owner", "locate_owner"}}

\* The highest priority, and the oldest of those.
Best(q, I) ==
    CHOOSE i \in I : \A j \in I : \/ Priority(q[i]) > Priority(q[j])
                                  \/ Priority(q[i]) = Priority(q[j]) /\ i <= j

AfterDiscard(q, c) ==
    LET at == {i \in DOMAIN q : q[i].cmd = c}
    IN  IF at = {} THEN q ELSE Without(q, CHOOSE i \in at : \A j \in at : i <= j)

OtherBootsDiscarded(q, b) == Kept(q, {i \in DOMAIN q : q[i].boot \in {0, b}})

OldSpeechDiscarded(q, g) ==
    Kept(q, {i \in DOMAIN q : ~(Meta[q[i].cmd].type = "speak" /\ Meta[q[i].cmd].generation < g)})

-----------------------------------------------------------------------------
Init == items = <<>>

Put(e) == items' = AfterPut(items, e)

\* get, when it returns: item i leaves the queue.
Get(b, allowSpeak, allowFindOwner) ==
    LET I == Eligible(items, b, allowSpeak, allowFindOwner)
    IN  I # {} /\ items' = Without(items, Best(items, I))

Discard(c) == items' = AfterDiscard(items, c)
DiscardOtherBoots(b) == items' = OtherBootsDiscarded(items, b)
DiscardSpeechBefore(g) == items' = OldSpeechDiscarded(items, g)
Expire == \E i \in DOMAIN items : items' = Without(items, i)

Queued == {items[i].cmd : i \in DOMAIN items}

\* A producer puts a command once.
Next ==
    \/ \E e \in Item : e.cmd \notin Queued /\ Put(e)
    \/ \E b \in QBoots, s, f \in BOOLEAN : Get(b, s, f)
    \/ \E c \in QCmd : Discard(c)
    \/ \E b \in QBoots \ {0} : DiscardOtherBoots(b)
    \/ \E g \in {Meta[c].generation : c \in QCmd} : DiscardSpeechBefore(g)
    \/ Expire

vars == items
Spec == Init /\ [][Next]_vars

-----------------------------------------------------------------------------
(* Properties.                                                             *)

\* The queue never holds more than max_size items, each of them an item.
TypeOK == items \in Seq(Item) /\ Len(items) <= MaxSize

\* Of two queued commands with one coalesce key the later one never ranks as
\* high as the earlier: a later command of the same rank or more has replaced
\* it, so the device cannot be told an outdated face, pose or state last.
NewestOfKeyWins ==
    \A i, j \in DOMAIN items :
        i < j /\ Meta[items[i].cmd].coalesceKey = Meta[items[j].cmd].coalesceKey
              /\ Meta[items[i].cmd].coalesceKey # ""
        => Priority(items[i]) > Priority(items[j])

\* put takes effect entirely or not at all: a command that is refused has
\* cost no other command its place, and an accepted one costs a command that
\* outranks it its place only by interrupting a discardable one.
Lost(e) == {i \in DOMAIN items : \A j \in DOMAIN items' : items'[j] # items[i]}
PutCostsNothingHigher ==
    [][\A e \in Item : e.cmd \notin Queued /\ Put(e) =>
          IF e \in ToSet(items')
          THEN \A i \in Lost(e) : \/ Priority(items[i]) <= Priority(e)
                                  \/ Meta[e.cmd].interrupt /\ Meta[items[i].cmd].discardable
          ELSE items' = items]_vars
=============================================================================
