---------------------------- MODULE SpeechFence ----------------------------
(***************************************************************************)
(* What the turn coordinator of morrow_coordinator.py promises of speech,  *)
(* without its threads, its queue or the link to Morrow.                   *)
(*                                                                         *)
(* A device has a generation, which a request for it takes once.  A        *)
(* request of the device's generation may take the pen, of which there is  *)
(* one, and claims with it so many rows of speech, or the end of its reply *)
(* after which it says nothing more.  A fence takes back what requests of  *)
(* an older generation have said; all that can still come of them is what  *)
(* was claimed before.                                                     *)
(***************************************************************************)
EXTENDS Naturals

CONSTANTS Request, NoRequest, Device, Web, DeviceOf, MaxBatch

VARIABLES
    generation,     \* of each device
    fence,          \* per device: the newest generation fenced
    born,           \* per request: its generation
    phase,          \* per request: "new", "asked" or "closed"
    rows,           \* per request: how many rows were written
    live,           \* per request: those of them not taken back
    replyEnd,       \* per request: "none", "live" or "cancelled"
    pen             \* whose it is, and the rows claimed; 0 claims the reply end

fenceVars == <<generation, fence, born, phase, rows, live, replyEnd, pen>>

Pen(r, n) == [of |-> r, left |-> n]
Nobody == Pen(NoRequest, 0)

Init ==
    /\ generation = [d \in Device |-> 0] /\ fence = [d \in Device |-> 0]
    /\ born = [r \in Request |-> 0] /\ phase = [r \in Request |-> "new"]
    /\ rows = [r \in Request |-> 0] /\ live = [r \in Request |-> {}]
    /\ replyEnd = [r \in Request |-> "none"] /\ pen = Nobody

Speaks(r) == DeviceOf[r] # Web /\ born[r] = generation[DeviceOf[r]]

Ask(r) ==
    /\ phase[r] = "new"
    /\ phase' = [phase EXCEPT ![r] = "asked"]
    /\ born' = [born EXCEPT ![r] = generation[DeviceOf[r]]]
    /\ UNCHANGED <<generation, fence, rows, live, replyEnd, pen>>

\* Generations only grow.
MoveOn ==
    /\ generation' \in [Device -> Nat]
    /\ \A d \in Device : generation'[d] >= generation[d]
    /\ UNCHANGED <<fence, born, phase, rows, live, replyEnd, pen>>

\* A fence may come late, behind one for a newer generation.
Fence(d, g) ==
    LET Old(r) == DeviceOf[r] = d /\ born[r] < g
    IN  /\ g <= generation[d]
        /\ fence' = [fence EXCEPT ![d] = IF g > @ THEN g ELSE @]
        /\ live' = [r \in Request |-> IF Old(r) THEN {} ELSE live[r]]
        /\ replyEnd' = [r \in Request |-> IF Old(r) /\ replyEnd[r] = "live" THEN "cancelled"
                                          ELSE replyEnd[r]]
        /\ UNCHANGED <<generation, born, phase, rows, pen>>

TakePen(r, n) ==
    /\ phase[r] = "asked" /\ Speaks(r) /\ pen = Nobody
    /\ pen' = Pen(r, n)
    /\ UNCHANGED <<generation, fence, born, phase, rows, live, replyEnd>>

Write(r) ==
    /\ pen.of = r /\ pen.left > 0
    /\ rows' = [rows EXCEPT ![r] = @ + 1]
    /\ live' = [live EXCEPT ![r] = @ \cup {rows[r] + 1}]
    /\ pen' = IF pen.left > 1 THEN Pen(r, pen.left - 1) ELSE Nobody
    /\ UNCHANGED <<generation, fence, born, phase, replyEnd>>

End(r) ==
    /\ phase[r] = "asked" /\ pen = Pen(r, 0)
    /\ replyEnd' = [replyEnd EXCEPT ![r] = "live"]
    /\ phase' = [phase EXCEPT ![r] = "closed"]
    /\ pen' = Nobody
    /\ UNCHANGED <<generation, fence, born, rows, live>>

\* Only a reply that the device is not to hear goes without an end.
Close(r) ==
    /\ phase[r] = "asked" /\ ~Speaks(r) /\ pen.of # r
    /\ phase' = [phase EXCEPT ![r] = "closed"]
    /\ UNCHANGED <<generation, fence, born, rows, live, replyEnd, pen>>

Next ==
    \/ MoveOn
    \/ \E d \in Device \ {Web} : \E g \in 0 .. generation[d] : Fence(d, g)
    \/ \E r \in Request : \/ Ask(r) \/ Write(r) \/ End(r) \/ Close(r)
                          \/ \E n \in 0 .. MaxBatch : TakePen(r, n)

Spec == Init /\ [][Next]_fenceVars
=============================================================================
