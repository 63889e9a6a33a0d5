--------------------------- MODULE CommandPromise ---------------------------
(***************************************************************************)
(* What the delivery of commands promises the producers, without its       *)
(* tables, queues, polls and ACKs.                                         *)
(*                                                                         *)
(* A command is accepted once, for one boot the device has had or for any. *)
(* The device runs an accepted command at most once in each boot, and one  *)
(* meant for a boot in no other; it may still run one that was given up.   *)
(* Each command has one outcome at most, for good, and success only if the *)
(* device ran it.  Several may be settled at once.                         *)
(***************************************************************************)
EXTENDS Naturals

CONSTANTS Cmd, Boots

VARIABLES
    row,        \* per command: "absent", "open", or its outcome
    stamp,      \* per command: the boot it is meant for, 0 for any
    now,        \* the boot of the device
    runs        \* per command and boot: how often it was run

promiseVars == <<row, stamp, now, runs>>

Success == {"rendered", "done"}
Outcome == Success \cup {"failed", "cancelled", "expired"}
Ran(c) == \E b \in Boots : runs[c][b] > 0

Init ==
    /\ row = [c \in Cmd |-> "absent"] /\ stamp = [c \in Cmd |-> 0]
    /\ now = 1 /\ runs = [c \in Cmd |-> [b \in Boots |-> 0]]

Accept(c, b) ==
    /\ row[c] = "absent"
    /\ row' = [row EXCEPT ![c] = "open"]
    /\ stamp' = [stamp EXCEPT ![c] = b]
    /\ UNCHANGED <<now, runs>>

Run(c) ==
    /\ row[c] # "absent" /\ stamp[c] \in {0, now}
    /\ runs[c][now] = 0
    /\ runs' = [runs EXCEPT ![c][now] = 1]
    /\ UNCHANGED <<row, stamp, now>>

Settle ==
    /\ row' \in [Cmd -> {"absent", "open"} \cup Outcome]
    /\ \A c \in Cmd : row'[c] # row[c] => /\ row[c] = "open" /\ row'[c] \in Outcome
                                          /\ row'[c] \in Success => Ran(c)
    /\ UNCHANGED <<stamp, now, runs>>

Restart ==
    /\ now' = now + 1 /\ now' \in Boots
    /\ UNCHANGED <<row, stamp, runs>>

Next ==
    \/ \E c \in Cmd : Run(c) \/ \E b \in 0 .. now : Accept(c, b)
    \/ Settle \/ Restart

Spec == Init /\ [][Next]_promiseVars
=============================================================================
