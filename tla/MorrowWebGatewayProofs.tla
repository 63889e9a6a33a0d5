------------------------ MODULE MorrowWebGatewayProofs ------------------------
(***************************************************************************)
(* Theorems of MorrowWebGateway, for any number of threads, messages,      *)
(* switches, resets and faults: switches exclude each other and are        *)
(* visible, pages and devices share a session, and a saved message was     *)
(* saved in the life of the session it was asked in.                       *)
(***************************************************************************)
EXTENDS MorrowWebGateway, SequenceTheorems, TLAPS

SwitchAt == {"flag", "script", "create", "begin", "wait", "switch", "connect", "adopt", "mark",
             "clear", "release"}
ResetAt == {"wait", "reset", "mark"}
OpRecord == [at : SwitchAt \cup ResetAt \cup {"idle"}, job : {"", "switch", "reset"}, new : Nat]

\* A thread is where its job brings it.
Placed(r) ==
    \/ r.at = "idle" /\ r.job = ""
    \/ r.at \in SwitchAt /\ r.job = "switch"
    \/ r.at \in ResetAt /\ r.job = "reset"
OpInv ==
    /\ op \in [Thread -> OpRecord] /\ created \in Nat
    /\ \A t \in Thread : Placed(op[t])

\* A switch holds the lock from its first step to its last, and the flag is up
\* between the two steps that raise and lower it.
LockInv ==
    \A t \in Thread : op[t].job = "switch" =>
        modeLock = t /\ (op[t].at \notin {"flag", "release"} => switching = TRUE)

Inside == {"wait", "switch", "connect", "reset"}

\* The transition belongs to the thread that is inside it.
TransitionInv ==
    \A t \in Thread : op[t].at \in Inside => transition = t

\* A switch past the move of the client has moved it to the session it made.
SessionInv ==
    /\ \A t \in Thread : op[t].at \in {"connect", "adopt"} => client = op[t].new
    /\ OneSession

OperationInv == OpInv /\ LockInv /\ TransitionInv /\ SessionInv

-----------------------------------------------------------------------------
(* What a step of a thread does to op.                                     *)

\* Only t moves, to where its job may bring it.
MovesTo(t, r) == r \in OpRecord /\ Placed(r) /\ op' = [op EXCEPT ![t] = r]

\* At another place of the same job.
Onward(t, at) == [at |-> at, job |-> op[t].job, new |-> op[t].new]

\* A move to another place of the same job.
LEMMA GoesOn ==
    ASSUME OpInv, NEW t \in Thread, NEW at \in SwitchAt \cup ResetAt, Goes(t, at),
           \/ op[t].job = "switch" /\ at \in SwitchAt
           \/ op[t].job = "reset" /\ at \in ResetAt
    PROVE  MovesTo(t, Onward(t, at))
<1>1. op[t] \in OpRecord
    BY DEF OpInv
<1>2. at # "idle"
    BY DEF SwitchAt, ResetAt
<1>3. op' = [op EXCEPT ![t] = [op[t] EXCEPT !.at = at]]
    BY <1>2 DEF Goes
<1>4. [op[t] EXCEPT !.at = at] = Onward(t, at)
    <2>1. PICK A, J : op[t] \in [at : A, job : J, new : Nat]
        BY <1>1 DEF OpRecord
    <2> QED
        BY <2>1 DEF Onward
<1>5. Onward(t, at) \in OpRecord /\ Placed(Onward(t, at))
    BY <1>1 DEF Onward, OpRecord, Placed
<1> QED
    BY <1>3, <1>4, <1>5 DEF MovesTo

\* A move to the end of the job.
LEMMA GoesHome ==
    ASSUME NEW t \in Thread, Goes(t, "idle")
    PROVE  MovesTo(t, Free)
<1>1. op' = [op EXCEPT ![t] = Free]
    BY DEF Goes
<1>2. Free \in OpRecord /\ Placed(Free)
    BY DEF Free, OpRecord, Placed
<1> QED
    BY <1>1, <1>2 DEF MovesTo

\* A move keeps OpInv, and the places of the other threads.
LEMMA OpMoves ==
    ASSUME OpInv, NEW t \in Thread, NEW r, MovesTo(t, r), created' \in Nat
    PROVE  /\ OpInv'
           /\ op'[t] = r
           /\ \A u \in Thread : u # t => op'[u] = op[u]
BY DEF MovesTo, OpInv

\* The job of a thread, from where it is.
LEMMA JobOf ==
    ASSUME OpInv, NEW t \in Thread
    PROVE  /\ op[t].at \in SwitchAt \ ResetAt => op[t].job = "switch"
           /\ op[t].at = "reset" => op[t].job = "reset"
           /\ op[t].at \in SwitchAt \cup ResetAt => op[t].job \in {"switch", "reset"}
           /\ op[t].job = "switch" => op[t].at \in SwitchAt
           /\ op[t].job = "reset" => op[t].at \in ResetAt
           /\ op[t].at = "idle" => op[t].job = ""
BY DEF OpInv, Placed, SwitchAt, ResetAt

-----------------------------------------------------------------------------
(* Moves that leave a part of the invariant alone.                         *)

\* The lock and the flag are left, by a thread that does not begin or end its
\* switch with them.
LEMMA LockLeft ==
    ASSUME LockInv, OpInv, NEW t \in Thread, NEW r, MovesTo(t, r), created' \in Nat,
           UNCHANGED <<modeLock, switching>>,
           r.job = "switch" => op[t].job = "switch",
           r.job = "switch" /\ r.at \notin {"flag", "release"} => op[t].at \notin {"flag", "release"}
    PROVE  LockInv'
BY OpMoves DEF LockInv

\* So is the transition, by a thread that does not come into it.
LEMMA TransitionLeft ==
    ASSUME TransitionInv, OpInv, NEW t \in Thread, NEW r, MovesTo(t, r), created' \in Nat,
           UNCHANGED transition, r.at \in Inside => op[t].at \in Inside
    PROVE  TransitionInv'
BY OpMoves DEF TransitionInv

\* It is ended by the thread inside it.
LEMMA TransitionEnded ==
    ASSUME TransitionInv, OpInv, NEW t \in Thread, NEW r, MovesTo(t, r), created' \in Nat,
           op[t].at \in Inside, r.at \notin Inside
    PROVE  TransitionInv'
BY OpMoves DEF TransitionInv

\* The sessions are left, by a thread that is not between the two.
LEMMA SessionsLeft ==
    ASSUME SessionInv, OpInv, NEW t \in Thread, NEW r, MovesTo(t, r), created' \in Nat,
           UNCHANGED <<defaultSession, client, halfway>>,
           op[t].at \notin {"connect", "adopt"}, r.at \notin {"connect", "adopt"}
    PROVE  SessionInv'
<1>1. /\ op'[t] = r /\ \A u \in Thread : u # t => op'[u] = op[u]
    BY OpMoves
<1>2. \A u \in Thread : op'[u].at \in {"connect", "adopt"} => client' = op'[u].new
    BY <1>1 DEF SessionInv
<1>3. OneSession'
    BY <1>1 DEF SessionInv, OneSession
<1> QED
    BY <1>2, <1>3 DEF SessionInv

-----------------------------------------------------------------------------
(* A step keeps the invariant, one lemma for each step of a thread.        *)

\* The first step of a switch: nobody else is at one.
LEMMA SwitchLockKeeps ==
    ASSUME GatewayAssumption, OperationInv, NEW t \in Thread, SwitchLock(t)
    PROVE  OperationInv'
<1> DEFINE r == [at |-> "flag", job |-> "switch", new |-> 0]
<1>1. MovesTo(t, r) /\ created' \in Nat
    BY DEF SwitchLock, MovesTo, OpRecord, Placed, SwitchAt, OperationInv, OpInv
<1>2. /\ OpInv' /\ op'[t] = r /\ \A u \in Thread : u # t => op'[u] = op[u]
    BY <1>1, OpMoves DEF OperationInv
<1>3. \A u \in Thread : op[u].job # "switch"
    BY DEF OperationInv, LockInv, SwitchLock, LockFree, GatewayAssumption
<1>4. LockInv'
    BY <1>2, <1>3 DEF LockInv, SwitchLock
<1>5. TransitionInv'
    BY <1>1, TransitionLeft DEF OperationInv, SwitchLock, coordVars, Inside
<1>6. SessionInv'
    BY <1>1, SessionsLeft DEF OperationInv, SwitchLock, coordVars, sharedVars
<1> QED
    BY <1>2, <1>4, <1>5, <1>6 DEF OperationInv

\* The flag goes up.
LEMMA SwitchFlagKeeps ==
    ASSUME OperationInv, NEW t \in Thread, SwitchFlag(t)
    PROVE  OperationInv'
<1> DEFINE r == Onward(t, "script")
<1>1. op[t].at = "flag" /\ op[t].job = "switch"
    BY JobOf DEF SwitchFlag, OperationInv, SwitchAt, ResetAt
<1>2. MovesTo(t, r) /\ created' \in Nat
    BY <1>1, GoesOn DEF SwitchFlag, OperationInv, OpInv, SwitchAt
<1>3. /\ OpInv' /\ op'[t] = r /\ \A u \in Thread : u # t => op'[u] = op[u]
    BY <1>2, OpMoves DEF OperationInv
<1>4. LockInv'
    BY <1>1, <1>3 DEF OperationInv, LockInv, SwitchFlag
<1>5. r.at = "script"
    BY DEF Onward
<1>6. TransitionInv'
    BY <1>2, <1>5, TransitionLeft DEF OperationInv, SwitchFlag, coordVars, Inside
<1>7. SessionInv'
    BY <1>1, <1>2, <1>5, SessionsLeft DEF OperationInv, SwitchFlag, coordVars, sharedVars
<1> QED
    BY <1>3, <1>4, <1>6, <1>7 DEF OperationInv

\* A switch goes on from before the transition, or after it, to a place outside.
LEMMA SwitchGoesOn ==
    ASSUME OperationInv, NEW t \in Thread, NEW at \in SwitchAt \ {"flag", "release"},
           NEW r, MovesTo(t, r), r.at = at, r.job = "switch", created' \in Nat,
           op[t].job = "switch", op[t].at \notin {"flag", "release", "connect", "adopt"},
           at \notin Inside, at \notin {"connect", "adopt"},
           UNCHANGED <<modeLock, switching, defaultSession, client, halfway>>,
           UNCHANGED transition \/ op[t].at \in Inside
    PROVE  OperationInv'
<1>1. OpInv'
    BY OpMoves DEF OperationInv
<1>2. LockInv'
    BY LockLeft DEF OperationInv
<1>3. TransitionInv'
    BY TransitionLeft, TransitionEnded DEF OperationInv
<1>4. SessionInv'
    BY SessionsLeft DEF OperationInv
<1> QED
    BY <1>1, <1>2, <1>3, <1>4 DEF OperationInv

\* The script that restarts the agent succeeds or fails.
LEMMA RunScriptKeeps ==
    ASSUME OperationInv, NEW t \in Thread, RunScript(t)
    PROVE  OperationInv'
<1>1. op[t].at = "script" /\ op[t].job = "switch"
    BY JobOf DEF RunScript, OperationInv, SwitchAt, ResetAt
<1>2. PICK at \in {"create", "clear"} : Goes(t, at)
    BY DEF RunScript
<1>3. MovesTo(t, Onward(t, at)) /\ created' \in Nat
    BY <1>1, <1>2, GoesOn DEF RunScript, OperationInv, OpInv, SwitchAt
<1>4. Onward(t, at).at = at /\ Onward(t, at).job = "switch"
    BY <1>1 DEF Onward
<1> QED
    BY <1>1, <1>3, <1>4, SwitchGoesOn DEF RunScript, coordVars, sharedVars, SwitchAt, Inside

\* The new session is made, or is not.
LEMMA CreateSessionKeeps ==
    ASSUME OperationInv, NEW t \in Thread, CreateSession(t)
    PROVE  OperationInv'
<1>1. op[t].at = "create" /\ op[t].job = "switch"
    BY JobOf DEF CreateSession, OperationInv, SwitchAt, ResetAt
<1> DEFINE r == [at |-> "begin", job |-> "switch", new |-> created + 1]
<1>2. CASE created' = created + 1 /\ op' = [op EXCEPT ![t] = r]
    <2>1. created + 1 \in Nat
        BY DEF OperationInv, OpInv
    <2>2. MovesTo(t, r) /\ created' \in Nat
        BY <1>2, <2>1 DEF MovesTo, OpRecord, Placed, SwitchAt
    <2> QED
        BY <1>1, <2>2, SwitchGoesOn DEF CreateSession, coordVars, sharedVars, SwitchAt, Inside
<1>3. CASE UNCHANGED created /\ Goes(t, "clear")
    <2>1. MovesTo(t, Onward(t, "clear")) /\ created' \in Nat
        BY <1>1, <1>3, GoesOn DEF OperationInv, OpInv, SwitchAt
    <2>2. Onward(t, "clear").at = "clear" /\ Onward(t, "clear").job = "switch"
        BY <1>1 DEF Onward
    <2> QED
        BY <1>1, <2>1, <2>2, SwitchGoesOn DEF CreateSession, coordVars, sharedVars, SwitchAt, Inside
<1> QED
    BY <1>2, <1>3 DEF CreateSession

\* The client's new session becomes the pages'.
LEMMA AdoptKeeps ==
    ASSUME OperationInv, NEW t \in Thread, Adopt(t)
    PROVE  OperationInv'
<1> DEFINE r == Onward(t, "mark")
<1>1. op[t].at = "adopt" /\ op[t].job = "switch"
    BY JobOf DEF Adopt, OperationInv, SwitchAt, ResetAt
<1>2. MovesTo(t, r) /\ created' \in Nat
    BY <1>1, GoesOn DEF Adopt, OperationInv, OpInv, SwitchAt
<1>3. r.at = "mark" /\ r.job = "switch"
    BY <1>1 DEF Onward
<1>4. /\ OpInv' /\ op'[t] = r /\ \A u \in Thread : u # t => op'[u] = op[u]
    BY <1>2, OpMoves DEF OperationInv
<1>5. LockInv'
    BY <1>1, <1>2, <1>3, LockLeft DEF OperationInv, Adopt
<1>6. TransitionInv'
    BY <1>2, <1>3, TransitionLeft DEF OperationInv, Adopt, Inside
<1>7. defaultSession' = client'
    BY <1>1 DEF OperationInv, SessionInv, Adopt, Adopted
<1>8. SessionInv'
    BY <1>3, <1>4, <1>7 DEF OperationInv, SessionInv, OneSession, Adopt
<1> QED
    BY <1>4, <1>5, <1>6, <1>8 DEF OperationInv

\* A reset goes on, or is over.
LEMMA ResetGoesOn ==
    ASSUME OperationInv, NEW t \in Thread, NEW r, MovesTo(t, r), created' \in Nat,
           op[t].job = "reset", r.job # "switch", r.at \notin {"connect", "adopt"},
           op[t].at \notin {"connect", "adopt"},
           UNCHANGED <<modeLock, switching, defaultSession, client, halfway>>,
           \/ UNCHANGED transition /\ (r.at \in Inside => op[t].at \in Inside)
           \/ op[t].at \in Inside /\ r.at \notin Inside
    PROVE  OperationInv'
<1>1. OpInv'
    BY OpMoves DEF OperationInv
<1>2. LockInv'
    BY LockLeft DEF OperationInv
<1>3. TransitionInv'
    BY TransitionLeft, TransitionEnded DEF OperationInv
<1>4. SessionInv'
    BY SessionsLeft DEF OperationInv
<1> QED
    BY <1>1, <1>2, <1>3, <1>4 DEF OperationInv

\* The revision goes up.
LEMMA MarkKeeps ==
    ASSUME OperationInv, NEW t \in Thread, Mark(t)
    PROVE  OperationInv'
<1>1. op[t].at = "mark" /\ op[t].job \in {"switch", "reset"} /\ created' \in Nat
    BY JobOf DEF Mark, OperationInv, OpInv, SwitchAt, ResetAt
<1>2. CASE op[t].job = "switch"
    <2>1. MovesTo(t, Onward(t, "clear"))
        BY <1>1, <1>2, GoesOn DEF Mark, OperationInv, SwitchAt
    <2>2. Onward(t, "clear").at = "clear" /\ Onward(t, "clear").job = "switch"
        BY <1>2 DEF Onward
    <2> QED
        BY <1>1, <1>2, <2>1, <2>2, SwitchGoesOn DEF Mark, coordVars, SwitchAt, Inside
<1>3. CASE op[t].job = "reset"
    <2>1. MovesTo(t, Free)
        BY <1>1, <1>3, GoesHome DEF Mark
    <2> QED
        BY <1>1, <1>3, <2>1, ResetGoesOn DEF Mark, coordVars, Free, Inside
<1> QED
    BY <1>1, <1>2, <1>3

\* The flag goes down, then the lock is free.
LEMMA SwitchFinallyKeeps ==
    ASSUME OperationInv, NEW t \in Thread, SwitchFinally(t)
    PROVE  OperationInv'
<1>1. op[t].at \in {"clear", "release"} /\ op[t].job = "switch" /\ created' \in Nat
    BY JobOf DEF SwitchFinally, SwitchEnds, OperationInv, OpInv, SwitchAt, ResetAt
<1> DEFINE r == IF op[t].at = "clear" THEN Onward(t, "release") ELSE Free
<1>2. /\ op[t].at = "clear" => r.at = "release" /\ r.job = "switch"
      /\ op[t].at = "release" => r.at = "idle" /\ r.job = ""
    BY <1>1 DEF Onward, Free
<1>3. MovesTo(t, r)
    <2>1. CASE op[t].at = "clear"
        BY <1>1, <2>1, GoesOn DEF SwitchFinally, SwitchEnds, OperationInv, SwitchAt
    <2>2. CASE op[t].at = "release"
        BY <1>1, <2>2, GoesHome DEF SwitchFinally, SwitchEnds
    <2> QED
        BY <1>1, <2>1, <2>2
<1> HIDE DEF r
<1>4. /\ OpInv' /\ op'[t] = r /\ \A u \in Thread : u # t => op'[u] = op[u]
    BY <1>1, <1>3, OpMoves DEF OperationInv
<1>5. \A u \in Thread : u # t => op[u].job # "switch"
    BY <1>1 DEF OperationInv, LockInv
<1>6. LockInv'
    <2>1. ASSUME NEW u \in Thread, op'[u].job = "switch"
          PROVE  u = t /\ r.at = "release" /\ op[t].at = "clear"
        BY <1>1, <1>2, <1>4, <1>5, <2>1
    <2>2. op[t].at = "clear" => UNCHANGED modeLock
        BY DEF SwitchFinally, SwitchEnds
    <2>3. modeLock = t
        BY <1>1 DEF OperationInv, LockInv
    <2> QED
        BY <1>4, <2>1, <2>2, <2>3 DEF LockInv
<1>7. TransitionInv'
    BY <1>1, <1>2, <1>3, TransitionLeft DEF OperationInv, SwitchFinally, coordVars, Inside
<1>8. SessionInv'
    BY <1>1, <1>2, <1>3, SessionsLeft DEF OperationInv, SwitchFinally, coordVars, sharedVars
<1> QED
    BY <1>4, <1>6, <1>7, <1>8 DEF OperationInv

\* A transition begins, unless there is one.
LEMMA BeginTransitionKeeps ==
    ASSUME GatewayAssumption, OperationInv, NEW t \in Thread, BeginTransition(t)
    PROVE  OperationInv'
<1>1. \/ op[t].at = "begin" /\ op[t].job = "switch"
      \/ op[t].at = "idle" /\ op[t].job = ""
    BY JobOf DEF BeginTransition, OperationInv, SwitchAt, ResetAt
<1>2. /\ created' \in Nat
      /\ UNCHANGED <<modeLock, switching, defaultSession, client, halfway>>
    BY DEF BeginTransition, OperationInv, OpInv, sharedVars
<1>3. CASE transition # None
    <2>1. CASE op[t].at = "begin"
        <3>1. MovesTo(t, Onward(t, "clear"))
            BY <1>1, <1>3, <2>1, GoesOn DEF BeginTransition, OperationInv, SwitchAt
        <3>2. Onward(t, "clear").at = "clear" /\ Onward(t, "clear").job = "switch"
            BY <1>1, <2>1 DEF Onward
        <3> QED
            BY <1>1, <1>2, <1>3, <2>1, <3>1, <3>2, SwitchGoesOn DEF BeginTransition, SwitchAt, Inside
    <2>2. CASE op[t].at = "idle"
        <3>1. MovesTo(t, Free)
            BY <1>3, <2>2, GoesHome DEF BeginTransition
        <3>2. OpInv'
            BY <1>2, <3>1, OpMoves DEF OperationInv
        <3>3. LockInv'
            BY <1>2, <3>1, LockLeft DEF OperationInv, Free
        <3>4. TransitionInv'
            BY <1>2, <1>3, <3>1, TransitionLeft DEF OperationInv, BeginTransition, Free, Inside
        <3>5. SessionInv'
            BY <1>2, <2>2, <3>1, SessionsLeft DEF OperationInv, Free
        <3> QED
            BY <3>2, <3>3, <3>4, <3>5 DEF OperationInv
    <2> QED
        BY <1>1, <2>1, <2>2
<1>4. CASE transition = None
    <2> DEFINE job == IF op[t].at = "begin" THEN "switch" ELSE "reset"
               r == [at |-> "wait", job |-> job, new |-> op[t].new]
    <2>1. MovesTo(t, r)
        <3>1. op[t] \in OpRecord
            BY DEF OperationInv, OpInv
        <3>2. r \in OpRecord /\ Placed(r)
            BY <3>1 DEF OpRecord, Placed, SwitchAt, ResetAt
        <3>3. op' = [op EXCEPT ![t] = r]
            BY <1>4 DEF BeginTransition
        <3> QED
            BY <3>2, <3>3 DEF MovesTo
    <2>2. /\ OpInv' /\ op'[t] = r /\ \A u \in Thread : u # t => op'[u] = op[u]
        BY <1>2, <2>1, OpMoves DEF OperationInv
    <2>3. LockInv'
        BY <1>1, <1>2, <2>1, LockLeft DEF OperationInv
    <2>4. TransitionInv'
        BY <1>4, <2>2 DEF OperationInv, TransitionInv, BeginTransition, GatewayAssumption
    <2>5. SessionInv'
        BY <1>1, <1>2, <2>1, SessionsLeft DEF OperationInv
    <2> QED
        BY <2>2, <2>3, <2>4, <2>5 DEF OperationInv
<1> QED
    BY <1>3, <1>4

\* Where a transition that fails leaves its thread.
GivenUp(t) == IF op[t].job = "switch" THEN Onward(t, "clear") ELSE Free

\* A transition that fails brings a switch to its `finally', a reset to its end.
LEMMA GivesUpMoves ==
    ASSUME OperationInv, NEW t \in Thread, GivesUp(t), op[t].at \in Inside
    PROVE  /\ MovesTo(t, GivenUp(t))
           /\ op[t].job = "switch" => GivenUp(t).at = "clear" /\ GivenUp(t).job = "switch"
           /\ op[t].job # "switch" => GivenUp(t).at = "idle" /\ GivenUp(t).job = ""
<1>1. CASE op[t].job = "switch"
    <2>1. MovesTo(t, Onward(t, "clear"))
        BY <1>1, GoesOn DEF GivesUp, OperationInv, SwitchAt
    <2> QED
        BY <1>1, <2>1 DEF GivenUp, Onward
<1>2. CASE op[t].job # "switch"
    <2>1. MovesTo(t, Free)
        BY <1>2, GoesHome DEF GivesUp
    <2> QED
        BY <1>2, <2>1 DEF GivenUp, Free
<1> QED
    BY <1>1, <1>2

\* A transition fails before the client has moved.
LEMMA GivesUpKeeps ==
    ASSUME OperationInv, NEW t \in Thread, GivesUp(t), op[t].at \in Inside \ {"connect"},
           created' \in Nat, UNCHANGED <<modeLock, switching, defaultSession, client, halfway>>
    PROVE  OperationInv'
<1> DEFINE r == GivenUp(t)
<1>1. /\ MovesTo(t, r)
      /\ op[t].job = "switch" => r.at = "clear" /\ r.job = "switch"
      /\ op[t].job # "switch" => r.at = "idle" /\ r.job = ""
    BY GivesUpMoves
<1>2. op[t].job \in {"switch", "reset"}
    BY JobOf DEF OperationInv, Inside, SwitchAt, ResetAt
<1> HIDE DEF r
<1>3. CASE op[t].job = "switch"
    BY <1>1, <1>3, SwitchGoesOn DEF SwitchAt, Inside
<1>4. CASE op[t].job = "reset"
    BY <1>1, <1>4, ResetGoesOn DEF Inside
<1> QED
    BY <1>2, <1>3, <1>4

\* The transition waits, and goes on or fails.
LEMMA AwaitNoTurnKeeps ==
    ASSUME OperationInv, NEW t \in Thread, AwaitNoTurn(t)
    PROVE  OperationInv'
<1>1. /\ op[t].at = "wait" /\ created' \in Nat
      /\ UNCHANGED <<modeLock, switching, defaultSession, client, halfway>>
    BY DEF AwaitNoTurn, OperationInv, OpInv, sharedVars
<1>2. op[t].job \in {"switch", "reset"}
    BY <1>1, JobOf DEF OperationInv, SwitchAt
<1>3. CASE Goes(t, op[t].job) /\ UNCHANGED transition
    <2> DEFINE r == Onward(t, op[t].job)
    <2>1. MovesTo(t, r)
        BY <1>2, <1>3, GoesOn DEF OperationInv, SwitchAt, ResetAt
    <2>2. r.at = op[t].job /\ r.job = op[t].job
        BY DEF Onward
    <2>3. OpInv'
        BY <1>1, <2>1, OpMoves DEF OperationInv
    <2>4. LockInv'
        BY <1>1, <2>1, <2>2, LockLeft DEF OperationInv
    <2>5. TransitionInv'
        BY <1>1, <1>3, <2>1, TransitionLeft DEF OperationInv, Inside
    <2>6. SessionInv'
        BY <1>1, <1>2, <2>1, <2>2, SessionsLeft DEF OperationInv
    <2> QED
        BY <2>3, <2>4, <2>5, <2>6 DEF OperationInv
<1>4. CASE GivesUp(t)
    BY <1>1, <1>4, GivesUpKeeps DEF Inside
<1> QED
    BY <1>3, <1>4 DEF AwaitNoTurn

\* The client moves: no other switch is between the two sessions.
LEMMA MoveKeeps ==
    ASSUME OperationInv, NEW t \in Thread, Move(t)
    PROVE  OperationInv'
<1> DEFINE r == Onward(t, "connect")
<1>1. op[t].at = "switch" /\ op[t].job = "switch" /\ created' \in Nat
    BY JobOf DEF Move, OperationInv, OpInv, SwitchAt, ResetAt
<1>2. MovesTo(t, r)
    BY <1>1, GoesOn DEF Move, OperationInv, SwitchAt
<1>3. r.at = "connect" /\ r.job = "switch" /\ r.new = op[t].new
    BY <1>1 DEF Onward
<1>4. /\ OpInv' /\ op'[t] = r /\ \A u \in Thread : u # t => op'[u] = op[u]
    BY <1>1, <1>2, OpMoves DEF OperationInv
<1>5. LockInv'
    BY <1>1, <1>2, <1>3, LockLeft DEF OperationInv, Move
<1>6. TransitionInv'
    BY <1>1, <1>2, TransitionLeft DEF OperationInv, Move, Inside
<1>7. \A u \in Thread : u # t => op'[u].at \notin {"connect", "adopt"}
    <2>1. \A u \in Thread : u # t => op[u].job # "switch"
        BY <1>1 DEF OperationInv, LockInv
    <2>2. \A u \in Thread : op[u].at \in {"connect", "adopt"} => op[u].job = "switch"
        BY JobOf DEF OperationInv, SwitchAt, ResetAt
    <2> QED
        BY <1>4, <2>1, <2>2
<1>8. SessionInv'
    BY <1>3, <1>4, <1>7 DEF SessionInv, OneSession, Move
<1> QED
    BY <1>4, <1>5, <1>6, <1>8 DEF OperationInv

\* The client connects, or is left in the new session.
LEMMA ConnectedKeeps ==
    ASSUME OperationInv, NEW t \in Thread, Connected(t)
    PROVE  OperationInv'
<1>1. /\ op[t].at = "connect" /\ op[t].job = "switch" /\ created' \in Nat
      /\ UNCHANGED <<modeLock, switching, defaultSession, client>>
    BY JobOf DEF Connected, OperationInv, OpInv, SwitchAt, ResetAt, sharedVars
<1>2. CASE Goes(t, "adopt") /\ UNCHANGED halfway
    <2> DEFINE r == Onward(t, "adopt")
    <2>1. MovesTo(t, r)
        BY <1>1, <1>2, GoesOn DEF OperationInv, SwitchAt
    <2>2. r.at = "adopt" /\ r.job = "switch" /\ r.new = op[t].new
        BY <1>1 DEF Onward
    <2>3. /\ OpInv' /\ op'[t] = r /\ \A u \in Thread : u # t => op'[u] = op[u]
        BY <1>1, <2>1, OpMoves DEF OperationInv
    <2>4. LockInv'
        BY <1>1, <2>1, <2>2, LockLeft DEF OperationInv
    <2>5. TransitionInv'
        BY <1>1, <2>1, <2>2, TransitionEnded DEF OperationInv, Inside
    <2>6. SessionInv'
        BY <1>1, <1>2, <2>2, <2>3 DEF OperationInv, SessionInv, OneSession
    <2> QED
        BY <2>3, <2>4, <2>5, <2>6 DEF OperationInv
<1>3. CASE GivesUp(t) /\ halfway' = TRUE
    <2> DEFINE r == GivenUp(t)
    <2>1. MovesTo(t, r) /\ r.at = "clear" /\ r.job = "switch"
        BY <1>1, <1>3, GivesUpMoves DEF Inside
    <2> HIDE DEF r
    <2>2. /\ OpInv' /\ op'[t] = r /\ \A u \in Thread : u # t => op'[u] = op[u]
        BY <1>1, <2>1, OpMoves DEF OperationInv
    <2>3. LockInv'
        BY <1>1, <2>1, LockLeft DEF OperationInv
    <2>4. TransitionInv'
        BY <1>1, <2>1, TransitionEnded DEF OperationInv, Inside
    <2>5. SessionInv'
        BY <1>1, <1>3, <2>1, <2>2 DEF OperationInv, SessionInv, OneSession
    <2> QED
        BY <2>2, <2>3, <2>4, <2>5 DEF OperationInv
<1> QED
    BY <1>2, <1>3 DEF Connected

\* The agent clears the session, or the reset fails.
LEMMA AgentClearsKeeps ==
    ASSUME OperationInv, NEW t \in Thread, AgentClears(t) \/ ResetFails(t)
    PROVE  OperationInv'
<1>1. /\ op[t].at = "reset" /\ op[t].job = "reset" /\ created' \in Nat
      /\ UNCHANGED <<modeLock, switching, defaultSession, client, halfway>>
    BY JobOf DEF AgentClears, ResetFails, OperationInv, OpInv, sharedVars
<1>2. CASE Goes(t, "mark")
    <2>1. MovesTo(t, Onward(t, "mark"))
        BY <1>1, <1>2, GoesOn DEF OperationInv, ResetAt
    <2>2. Onward(t, "mark").at = "mark" /\ Onward(t, "mark").job = "reset"
        BY <1>1 DEF Onward
    <2> QED
        BY <1>1, <2>1, <2>2, ResetGoesOn DEF Inside
<1>3. CASE GivesUp(t)
    BY <1>1, <1>3, GivesUpKeeps DEF Inside
<1> QED
    BY <1>2, <1>3 DEF AgentClears, ResetFails

-----------------------------------------------------------------------------
(* The invariant, and what it says.                                        *)

\* A step of a thread.
LEMMA OpStepKeeps ==
    ASSUME GatewayAssumption, OperationInv, NEW t \in Thread,
           SwitchLock(t) \/ OpStep(t) \/ BeginTransition(t)
    PROVE  OperationInv'
BY SwitchLockKeeps, SwitchFlagKeeps, RunScriptKeeps, CreateSessionKeeps, AdoptKeeps, MarkKeeps,
   SwitchFinallyKeeps, BeginTransitionKeeps, AwaitNoTurnKeeps, MoveKeeps, ConnectedKeeps,
   AgentClearsKeeps DEF OpStep

\* What the turns, the worker, the agent and the page leave alone.
Operations == <<opVars, sharedVars, client, halfway, transition>>

\* No step of theirs writes one of those.
LEMMA OthersLeave ==
    ASSUME \/ \E m \in Turn : SendCheck(m) \/ SubmitCheck(m) \/ TurnStep(m) \/ AgentEnds(m)
           \/ Take \/ PageStep \/ UNCHANGED vars
    PROVE  UNCHANGED Operations
BY DEF SendCheck, SubmitCheck, TurnStep, AgentEnds, SubmitPut, Activate, StartTurn, TurnEnds, Take,
       PageStep, PageReadsStatus, PageLoads, PageLabels, OnlyTurn, OnlyPage, Operations, opVars,
       sharedVars, coordVars, agentVars, vars

\* The invariant speaks of nothing else.
LEMMA OperationsLeft ==
    ASSUME OperationInv, UNCHANGED Operations
    PROVE  OperationInv'
BY DEF OperationInv, OpInv, LockInv, TransitionInv, SessionInv, OneSession, Operations, opVars, sharedVars

\* The inductive invariant of the switches and resets.
THEOREM OperationsInvariant == Spec => []OperationInv
<1>1. Init => OperationInv
    <2> SUFFICES ASSUME Init
                 PROVE  OperationInv
        OBVIOUS
    <2>1. Free \in OpRecord /\ Placed(Free) /\ Free.at = "idle" /\ Free.job = ""
        BY DEF Free, OpRecord, Placed
    <2>2. op = [t \in Thread |-> Free] /\ created = 0 /\ defaultSession = client
        BY DEF Init
    <2>3. OpInv
        BY <2>1, <2>2 DEF OpInv
    <2>4. LockInv /\ TransitionInv
        BY <2>1, <2>2 DEF LockInv, TransitionInv, Inside
    <2>5. SessionInv
        BY <2>1, <2>2 DEF SessionInv, OneSession
    <2> QED
        BY <2>3, <2>4, <2>5 DEF OperationInv
<1>2. OperationInv /\ [Next]_vars => OperationInv'
    <2> SUFFICES ASSUME OperationInv, [Next]_vars
                 PROVE  OperationInv'
        OBVIOUS
    <2>1. CASE \E t \in Thread : SwitchLock(t) \/ OpStep(t) \/ BeginTransition(t)
        BY <2>1, GatewayAssumption, OpStepKeeps
    <2>2. CASE \/ \E m \in Turn : SendCheck(m) \/ SubmitCheck(m) \/ TurnStep(m) \/ AgentEnds(m)
               \/ Take \/ PageStep \/ UNCHANGED vars
        BY <2>2, OthersLeave, OperationsLeft
    <2> QED
        BY <2>1, <2>2 DEF Next
<1> QED
    BY <1>1, <1>2, PTL DEF Spec

\* While a switch is at work the flag is up and the lock is its own.
THEOREM SwitchesAreVisible == Spec => []SwitchingIsVisible
<1>1. OperationInv => SwitchingIsVisible
    BY DEF OperationInv, LockInv, SwitchingIsVisible
<1> QED
    BY <1>1, OperationsInvariant, PTL

\* Pages and devices share a session, but between the two steps of a switch.
THEOREM SessionsAgree == Spec => []OneSession
<1>1. OperationInv => OneSession
    BY DEF OperationInv, SessionInv
<1> QED
    BY <1>1, OperationsInvariant, PTL

-----------------------------------------------------------------------------
(* Turns.  One that is on its way when a transition begins is overtaken by  *)
(* its source's generation, which is what the worker looks at.              *)

Pending == {"checked", "queued", "taken", "drained"}
TurnAt == Pending \cup {"none", "sent", "refused", "run", "saved", "failed"}
TurnRecord == [at : TurnAt, gen : Nat, home : BOOLEAN, missed : BOOLEAN]

TurnTyped ==
    /\ turn \in [Turn -> TurnRecord]
    /\ generation \in [{"web", "device"} -> Nat] /\ generation["device"] > 0
    /\ \A m \in Turn : turn[m].gen <= generation[Source[m]]

\* A turn no transition has missed is overtaken by its source's generation.
Overtaken(m) == turn[m].missed \/ turn[m].gen < generation[Source[m]]

\* No turn on its way survives the session it was asked in, or a transition.
LifeInv ==
    \A m \in Turn :
        \/ turn[m].at \in Pending /\ (turn[m].home = FALSE \/ transition # None)
        \/ turn[m].at = "run" /\ turn[m].home = FALSE
        => Overtaken(m)

QueueInv ==
    /\ requests \in Seq(Turn)
    /\ \A i \in 1 .. Len(requests) : turn[requests[i]].at = "queued"
    /\ \A i, j \in 1 .. Len(requests) : requests[i] = requests[j] => i = j

TurnInv == TurnTyped /\ LifeInv /\ SavedWhereAsked
AskedInv == TurnInv /\ QueueInv

\* What TurnGoes does to turn.
LEMMA TurnMoves ==
    ASSUME TurnTyped, NEW m \in Turn, NEW at \in TurnAt, TurnGoes(m, at)
    PROVE  /\ turn' \in [Turn -> TurnRecord]
           /\ turn'[m].at = at /\ turn'[m].gen = turn[m].gen /\ turn'[m].home = turn[m].home
           /\ turn'[m].missed = turn[m].missed
           /\ \A u \in Turn : u # m => turn'[u] = turn[u]
<1>1. turn[m] \in TurnRecord
    BY DEF TurnTyped
<1>2. [turn[m] EXCEPT !.at = at]
        = [at |-> at, gen |-> turn[m].gen, home |-> turn[m].home, missed |-> turn[m].missed]
    <2>1. PICK A : turn[m] \in [at : A, gen : Nat, home : BOOLEAN, missed : BOOLEAN]
        BY <1>1 DEF TurnRecord
    <2> QED
        BY <2>1
<1>3. turn' = [turn EXCEPT ![m] =
                 [at |-> at, gen |-> turn[m].gen, home |-> turn[m].home, missed |-> turn[m].missed]]
    BY <1>2 DEF TurnGoes
<1>4. [at |-> at, gen |-> turn[m].gen, home |-> turn[m].home, missed |-> turn[m].missed] \in TurnRecord
    BY <1>1 DEF TurnRecord
<1> QED
    BY <1>3, <1>4 DEF TurnTyped

\* A turn goes on its way, or ends.
LEMMA TurnGoesOn ==
    ASSUME TurnInv, NEW m \in Turn, NEW at \in TurnAt, TurnGoes(m, at),
           UNCHANGED <<generation, transition>>,
           at \in Pending \cup {"run"} => turn[m].at \in Pending,
           at = "saved" /\ ~turn[m].missed => turn[m].home
    PROVE  TurnInv'
<1>1. /\ turn' \in [Turn -> TurnRecord]
      /\ turn'[m].at = at /\ turn'[m].gen = turn[m].gen /\ turn'[m].home = turn[m].home
      /\ turn'[m].missed = turn[m].missed
      /\ \A u \in Turn : u # m => turn'[u] = turn[u]
    BY TurnMoves DEF TurnInv
<1>2. TurnTyped'
    BY <1>1 DEF TurnInv, TurnTyped
<1>3. LifeInv'
    <2> SUFFICES ASSUME NEW u \in Turn,
                        \/ turn'[u].at \in Pending /\ (turn'[u].home = FALSE \/ transition' # None)
                        \/ turn'[u].at = "run" /\ turn'[u].home = FALSE
                 PROVE  Overtaken(u)'
        BY DEF LifeInv
    <2>1. CASE u = m
        BY <1>1, <2>1 DEF TurnInv, LifeInv, Overtaken
    <2>2. CASE u # m
        BY <1>1, <2>2 DEF TurnInv, LifeInv, Overtaken
    <2> QED
        BY <2>1, <2>2
<1>4. SavedWhereAsked'
    BY <1>1 DEF TurnInv, SavedWhereAsked
<1> QED
    BY <1>2, <1>3, <1>4 DEF TurnInv

\* A turn is asked, with the generation its source has.
LEMMA SubmitCheckKeeps ==
    ASSUME GatewayAssumption, TurnInv, NEW m \in Turn, SubmitCheck(m)
    PROVE  TurnInv'
<1> DEFINE r == [at |-> IF transition # None THEN "refused" ELSE "checked",
                 gen |-> generation[Source[m]], home |-> TRUE, missed |-> FALSE]
<1>1. UNCHANGED <<generation, transition>>
    BY DEF SubmitCheck, coordVars
<1>2. generation[Source[m]] \in Nat
    BY DEF TurnInv, TurnTyped, GatewayAssumption
<1>3. r \in TurnRecord
    BY <1>2 DEF TurnRecord, TurnAt, Pending
<1>4. /\ turn' \in [Turn -> TurnRecord] /\ turn'[m] = r
      /\ \A u \in Turn : u # m => turn'[u] = turn[u]
    BY <1>3 DEF SubmitCheck, TurnInv, TurnTyped
<1>5. TurnTyped'
    BY <1>1, <1>2, <1>4 DEF TurnInv, TurnTyped
<1>6. LifeInv'
    BY <1>1, <1>4 DEF TurnInv, LifeInv, Overtaken, Pending
<1>7. SavedWhereAsked'
    BY <1>4 DEF TurnInv, SavedWhereAsked
<1> QED
    BY <1>5, <1>6, <1>7 DEF TurnInv

\* A transition begins: the turns on their way are overtaken, or missed.
LEMMA BeginTransitionOvertakes ==
    ASSUME GatewayAssumption, TurnInv, NEW t \in Thread, BeginTransition(t)
    PROVE  TurnInv'
<1>1. CASE transition # None
    <2>1. UNCHANGED <<turn, generation, transition>>
        BY <1>1 DEF BeginTransition
    <2> QED
        BY <2>1 DEF TurnInv, TurnTyped, LifeInv, Overtaken, SavedWhereAsked
<1>2. CASE transition = None
    <2>1. /\ turn' = [m \in Turn |-> IF Missed(m) THEN [turn[m] EXCEPT !.missed = TRUE] ELSE turn[m]]
          /\ generation' = [s \in DOMAIN generation |-> generation[s] + IF s \in Ended THEN 1 ELSE 0]
        BY <1>2 DEF BeginTransition
    <2>2. generation' \in [{"web", "device"} -> Nat]
        BY <2>1 DEF TurnInv, TurnTyped
    <2>3. ASSUME NEW m \in Turn
          PROVE  /\ turn'[m] \in TurnRecord /\ turn'[m].at = turn[m].at /\ turn'[m].gen = turn[m].gen
                 /\ turn'[m].home = turn[m].home /\ turn'[m].missed = (turn[m].missed \/ Missed(m))
        <3>1. turn[m] \in TurnRecord
            BY DEF TurnInv, TurnTyped
        <3>2. [turn[m] EXCEPT !.missed = TRUE]
                = [at |-> turn[m].at, gen |-> turn[m].gen, home |-> turn[m].home, missed |-> TRUE]
            <4>1. PICK A, M : turn[m] \in [at : A, gen : Nat, home : BOOLEAN, missed : M]
                BY <3>1 DEF TurnRecord
            <4>2. ASSUME NEW h
                  PROVE  [turn[m] EXCEPT !.missed = h]
                           = [at |-> turn[m].at, gen |-> turn[m].gen, home |-> turn[m].home, missed |-> h]
                BY <4>1
            <4> QED
                BY <4>2, Zenon
        <3>3. CASE Missed(m)
            BY <2>1, <3>1, <3>2, <3>3 DEF TurnRecord
        <3>4. CASE ~Missed(m)
            BY <2>1, <3>1, <3>4 DEF TurnRecord
        <3> QED
            BY <3>3, <3>4
    <2>4. ASSUME NEW m \in Turn
          PROVE  /\ turn[m].gen \in Nat /\ turn[m].gen <= generation[Source[m]]
                 /\ Source[m] \in {"web", "device"}
                 /\ generation[Source[m]] \in Nat /\ generation'[Source[m]] \in Nat
                 /\ generation'[Source[m]] >= generation[Source[m]]
                 /\ Source[m] \in Ended => generation'[Source[m]] > generation[Source[m]]
        BY <2>1 DEF TurnInv, TurnTyped, TurnRecord, GatewayAssumption
    <2>5. TurnTyped'
        <3>1. turn' \in [Turn -> TurnRecord]
            <4>1. turn' = [m \in Turn |-> turn'[m]]
                BY <2>1
            <4> QED
                BY <2>3, <4>1
        <3>2. generation'["device"] > 0
            <4>1. generation["device"] \in Nat /\ generation["device"] > 0
                BY DEF TurnInv, TurnTyped
            <4>2. "device" \in DOMAIN generation /\ "device" \in Ended
                BY DEF TurnInv, TurnTyped, Ended
            <4>3. generation'["device"] = generation["device"] + 1
                BY <2>1, <4>2
            <4> QED
                BY <4>1, <4>3
        <3>3. \A m \in Turn : turn'[m].gen <= generation'[Source[m]]
            BY <2>3, <2>4
        <3> QED
            BY <2>2, <3>1, <3>2, <3>3 DEF TurnTyped
    <2>6. LifeInv'
        <3> SUFFICES ASSUME NEW m \in Turn, turn[m].at \in Pending \cup {"run"},
                            turn[m].at = "run" => turn[m].home = FALSE
                     PROVE  turn'[m].missed \/ turn'[m].gen < generation'[Source[m]]
            BY <2>3 DEF LifeInv, Overtaken, Pending
        <3>1. CASE Source[m] \in Ended
            BY <2>3, <2>4, <3>1
        <3>2. CASE Source[m] \notin Ended /\ turn[m].at \in Pending
            <4>1. turn[m].at = "checked"
                BY <2>4, <3>2 DEF Ended, Pending
            <4> QED
                BY <2>3, <3>2, <4>1 DEF Missed
        <3>3. CASE turn[m].at = "run" /\ turn[m].home = FALSE
            <4>1. Overtaken(m)
                BY <3>3 DEF TurnInv, LifeInv
            <4>2. CASE turn[m].missed
                BY <2>3, <4>2
            <4>3. CASE turn[m].gen < generation[Source[m]]
                <5>1. turn[m].gen < generation'[Source[m]]
                    BY <2>4, <4>3
                <5> QED
                    BY <2>3, <5>1
            <4> QED
                BY <4>1, <4>2, <4>3 DEF Overtaken
        <3> QED
            BY <3>1, <3>2, <3>3
    <2>7. SavedWhereAsked'
        BY <2>3 DEF TurnInv, SavedWhereAsked
    <2> QED
        BY <2>5, <2>6, <2>7 DEF TurnInv
<1> QED
    BY <1>1, <1>2

\* A session ends inside a transition: what was on its way is overtaken already.
LEMMA SessionEndsKeeps ==
    ASSUME TurnInv, transition # None, SessionEnds, UNCHANGED generation
    PROVE  TurnInv'
<1>1. ASSUME NEW m \in Turn
      PROVE  /\ turn'[m] \in TurnRecord /\ turn'[m].at = turn[m].at /\ turn'[m].gen = turn[m].gen
             /\ turn'[m].missed = turn[m].missed
             /\ turn[m].at \notin Pending => turn'[m] = turn[m]
    <2>1. turn[m] \in TurnRecord
        BY DEF TurnInv, TurnTyped
    <2>2. [turn[m] EXCEPT !.home = FALSE]
            = [at |-> turn[m].at, gen |-> turn[m].gen, home |-> FALSE, missed |-> turn[m].missed]
        <3>1. PICK A, H : turn[m] \in [at : A, gen : Nat, home : H, missed : BOOLEAN]
            BY <2>1 DEF TurnRecord
        <3>2. ASSUME NEW h
              PROVE  [turn[m] EXCEPT !.home = h]
                       = [at |-> turn[m].at, gen |-> turn[m].gen, home |-> h, missed |-> turn[m].missed]
            BY <3>1
        <3> QED
            BY <3>2, Zenon
    <2>3. turn'[m] = IF turn[m].at \in Pending
                     THEN [at |-> turn[m].at, gen |-> turn[m].gen, home |-> FALSE, missed |-> turn[m].missed]
                     ELSE turn[m]
        BY <2>2 DEF SessionEnds, Pending
    <2> QED
        BY <2>1, <2>3 DEF TurnRecord
<1>2. TurnTyped'
    <2>1. turn' \in [Turn -> TurnRecord]
        <3>1. turn' = [m \in Turn |-> turn'[m]]
            BY DEF SessionEnds
        <3> QED
            BY <1>1, <3>1
    <2> QED
        BY <1>1, <2>1 DEF TurnInv, TurnTyped
<1>3. LifeInv'
    BY <1>1 DEF TurnInv, LifeInv, Overtaken
<1>4. SavedWhereAsked'
    BY <1>1 DEF TurnInv, SavedWhereAsked, Pending
<1> QED
    BY <1>2, <1>3, <1>4 DEF TurnInv

\* The steps of the threads that change nothing a turn is judged by.
LEMMA TurnsLeft ==
    ASSUME TurnInv, UNCHANGED <<turn, generation>>, transition' \in {transition, None}
    PROVE  TurnInv'
BY DEF TurnInv, TurnTyped, LifeInv, Overtaken, SavedWhereAsked

\* Only a transition's beginning and a session's end touch what a turn is judged by.
LEMMA OpStepKeepsTurns ==
    ASSUME GatewayAssumption, OperationInv, TurnInv, NEW t \in Thread,
           SwitchLock(t) \/ OpStep(t) \/ BeginTransition(t)
    PROVE  TurnInv'
<1>1. CASE SwitchLock(t) \/ SwitchFlag(t) \/ RunScript(t) \/ CreateSession(t) \/ Adopt(t) \/ Mark(t)
           \/ SwitchFinally(t) \/ AwaitNoTurn(t) \/ Connected(t) \/ ResetFails(t)
    BY <1>1, TurnsLeft DEF SwitchLock, SwitchFlag, RunScript, CreateSession, Adopt, Mark, SwitchFinally,
       AwaitNoTurn, Connected, ResetFails, GivesUp, coordVars
<1>2. CASE BeginTransition(t)
    BY <1>2, BeginTransitionOvertakes
<1>3. CASE Move(t) \/ AgentClears(t)
    <2>1. SessionEnds /\ UNCHANGED generation /\ op[t].at \in Inside
        BY <1>3 DEF Move, AgentClears, Inside
    <2>2. transition # None
        BY <2>1 DEF OperationInv, TransitionInv, GatewayAssumption
    <2> QED
        BY <2>1, <2>2, SessionEndsKeeps
<1> QED
    BY <1>1, <1>2, <1>3 DEF OpStep

\* A turn's own steps.
LEMMA TurnStepKeeps ==
    ASSUME GatewayAssumption, TurnInv, NEW m \in Turn,
           SendCheck(m) \/ SubmitCheck(m) \/ TurnStep(m) \/ AgentEnds(m)
    PROVE  TurnInv'
<1>1. CASE SendCheck(m)
    <2>1. PICK at \in {"refused", "sent"} : TurnGoes(m, at)
        BY <1>1 DEF SendCheck
    <2> QED
        BY <1>1, <2>1, TurnGoesOn DEF SendCheck, coordVars, TurnAt, Pending
<1>2. CASE SubmitCheck(m)
    BY <1>2, SubmitCheckKeeps
<1>3. CASE SubmitPut(m)
    BY <1>3, TurnGoesOn DEF SubmitPut, TurnAt, Pending
<1>4. CASE Activate(m)
    BY <1>4, TurnGoesOn DEF Activate, TurnAt, Pending
<1>5. CASE StartTurn(m)
    BY <1>5, TurnGoesOn DEF StartTurn, coordVars, TurnAt, Pending
<1>6. CASE TurnEnds(m)
    <2>1. UNCHANGED <<generation, transition>>
        BY <1>6 DEF TurnEnds
    <2>2. CASE TurnGoes(m, "failed")
        BY <2>1, <2>2, TurnGoesOn DEF TurnAt, Pending
    <2>3. CASE ~Stale(m) /\ TurnGoes(m, "saved")
        <3>1. ~turn[m].missed => turn[m].home
            <4>1. turn[m].at = "run" /\ turn[m].gen = generation[Source[m]]
                BY <1>6, <2>3 DEF TurnEnds, Stale
            <4>2. turn[m] \in TurnRecord
                BY DEF TurnInv, TurnTyped
            <4>3. turn[m].gen \in Nat /\ turn[m].home \in BOOLEAN
                BY <4>2 DEF TurnRecord
            <4>4. ~turn[m].missed => ~Overtaken(m)
                BY <4>1, <4>3 DEF Overtaken
            <4>5. turn[m].home = FALSE => Overtaken(m)
                BY <4>1 DEF TurnInv, LifeInv
            <4> QED
                BY <4>3, <4>4, <4>5
        <3> QED
            BY <2>1, <2>3, <3>1, TurnGoesOn DEF TurnAt, Pending
    <2> QED
        BY <1>6, <2>2, <2>3 DEF TurnEnds
<1>7. CASE AgentEnds(m)
    BY <1>7, TurnsLeft DEF AgentEnds, coordVars
<1> QED
    BY <1>1, <1>2, <1>3, <1>4, <1>5, <1>6, <1>7 DEF TurnStep

\* The worker takes a request: it is one that is queued.
LEMMA TakeKeeps ==
    ASSUME AskedInv, Take
    PROVE  AskedInv'
<1> DEFINE m == Head(requests)
<1>1. requests \in Seq(Turn) /\ requests # <<>>
    BY DEF AskedInv, QueueInv, Take
<1>2. /\ m \in Turn /\ m = requests[1] /\ Len(requests) \in Nat \ {0}
      /\ Tail(requests) \in Seq(Turn) /\ Len(Tail(requests)) = Len(requests) - 1
      /\ \A i \in 1 .. Len(Tail(requests)) : Tail(requests)[i] = requests[i + 1]
    BY <1>1, HeadTailProperties, EmptySeq, LenProperties
<1>3. turn[m].at = "queued"
    BY <1>2 DEF AskedInv, QueueInv
<1>4. PICK at \in {"failed", "taken"} : TurnGoes(m, at)
    BY DEF Take
<1> HIDE DEF m
<1>5. TurnInv'
    <2>1. UNCHANGED <<generation, transition>>
        BY DEF Take
    <2> QED
        BY <1>2, <1>3, <1>4, <2>1, TurnGoesOn DEF AskedInv, TurnAt, Pending
<1>6. QueueInv'
    <2>1. requests' = Tail(requests)
        BY DEF Take
    <2>2. \A u \in Turn : u # m => turn'[u] = turn[u]
        BY <1>4 DEF TurnGoes, AskedInv, TurnInv, TurnTyped
    <2>3. \A i \in 1 .. Len(requests') :
              /\ i + 1 \in 1 .. Len(requests) /\ i + 1 # 1
              /\ requests'[i] = requests[i + 1] /\ requests'[i] \in Turn
        BY <1>1, <1>2, <2>1
    <2>4. \A i \in 1 .. Len(requests') : requests'[i] # m /\ turn[requests'[i]].at = "queued"
        <3>1. 1 \in 1 .. Len(requests)
            BY <1>2
        <3> QED
            BY <1>2, <2>3, <3>1 DEF AskedInv, QueueInv
    <2>5. \A i, j \in 1 .. Len(requests') : requests'[i] = requests'[j] => i = j
        BY <1>2, <2>1, <2>3 DEF AskedInv, QueueInv
    <2> QED
        BY <1>2, <2>1, <2>2, <2>3, <2>4, <2>5 DEF QueueInv
<1> QED
    BY <1>5, <1>6 DEF AskedInv

\* A request is put last; it was not in the queue.
LEMMA SubmitPutQueues ==
    ASSUME AskedInv, NEW m \in Turn, SubmitPut(m)
    PROVE  QueueInv'
<1>1. /\ requests \in Seq(Turn) /\ Len(requests) \in Nat /\ requests' = Append(requests, m)
      /\ \A i \in 1 .. Len(requests) : requests[i] \in Turn
    BY LenProperties, ElementOfSeq DEF AskedInv, QueueInv, SubmitPut
<1>2. /\ requests' \in Seq(Turn) /\ Len(requests') = Len(requests) + 1
      /\ requests'[Len(requests) + 1] = m
      /\ \A i \in 1 .. Len(requests) : requests'[i] = requests[i]
    BY <1>1, AppendProperties
<1>3. turn'[m].at = "queued" /\ \A u \in Turn : u # m => turn'[u] = turn[u]
    BY TurnMoves DEF SubmitPut, AskedInv, TurnInv, TurnAt, Pending
<1>4. \A i \in 1 .. Len(requests) : requests[i] # m
    BY DEF AskedInv, QueueInv, SubmitPut
<1>5. \A i \in 1 .. Len(requests') : i \in 1 .. Len(requests) \/ i = Len(requests) + 1
    BY <1>1, <1>2
<1>6. \A i \in 1 .. Len(requests') : turn'[requests'[i]].at = "queued"
    BY <1>1, <1>2, <1>3, <1>5 DEF AskedInv, QueueInv
<1>7. \A i, j \in 1 .. Len(requests') : requests'[i] = requests'[j] => i = j
    BY <1>2, <1>4, <1>5 DEF AskedInv, QueueInv
<1> QED
    BY <1>2, <1>6, <1>7 DEF QueueInv

\* No other step touches the queue, or a turn in it.
LEMMA QueueLeft ==
    ASSUME QueueInv, UNCHANGED requests,
           \A u \in Turn : turn[u].at = "queued" => turn'[u].at = "queued"
    PROVE  QueueInv'
<1>1. \A i \in 1 .. Len(requests) : requests[i] \in Turn
    BY ElementOfSeq DEF QueueInv
<1> QED
    BY <1>1 DEF QueueInv

\* So a turn that is not in the queue may change.
LEMMA OneTurnLeavesQueue ==
    ASSUME AskedInv, UNCHANGED requests, NEW m \in Turn, turn[m].at # "queued",
           \A u \in Turn : u # m => turn'[u] = turn[u]
    PROVE  QueueInv'
BY QueueLeft DEF AskedInv

\* Of a turn's steps one puts it in the queue; the others find it elsewhere.
LEMMA TurnStepQueues ==
    ASSUME AskedInv, NEW m \in Turn, SendCheck(m) \/ SubmitCheck(m) \/ TurnStep(m) \/ AgentEnds(m)
    PROVE  QueueInv'
<1>1. CASE SubmitPut(m)
    BY <1>1, SubmitPutQueues
<1>2. CASE SendCheck(m) \/ SubmitCheck(m) \/ Activate(m) \/ StartTurn(m) \/ TurnEnds(m)
    <2>1. turn[m].at # "queued" /\ UNCHANGED requests
        BY <1>2 DEF SendCheck, SubmitCheck, Activate, StartTurn, TurnEnds, coordVars
    <2>2. PICK r : turn' = [turn EXCEPT ![m] = r]
        BY <1>2 DEF SendCheck, SubmitCheck, Activate, StartTurn, TurnEnds, TurnGoes
    <2>3. \A u \in Turn : u # m => turn'[u] = turn[u]
        BY <2>2 DEF AskedInv, TurnInv, TurnTyped
    <2> QED
        BY <2>1, <2>3, OneTurnLeavesQueue
<1>3. CASE AgentEnds(m)
    BY <1>3, QueueLeft DEF AgentEnds, coordVars, AskedInv
<1> QED
    BY <1>1, <1>2, <1>3 DEF TurnStep

\* The threads' steps do not take turns out of the queue.
LEMMA OpStepQueues ==
    ASSUME AskedInv, NEW t \in Thread, SwitchLock(t) \/ OpStep(t) \/ BeginTransition(t)
    PROVE  QueueInv'
<1>1. UNCHANGED requests
    BY DEF OpStep, SwitchLock, SwitchFlag, RunScript, CreateSession, Adopt, Mark, SwitchFinally,
       BeginTransition, AwaitNoTurn, Move, Connected, AgentClears, ResetFails, coordVars
<1>2. UNCHANGED turn \/ SessionEnds \/ \A u \in Turn : turn'[u].at = turn[u].at
    <2>1. CASE BeginTransition(t)
        <3>1. \A u \in Turn : turn[u] \in TurnRecord
            BY DEF AskedInv, TurnInv, TurnTyped
        <3> QED
            BY <2>1, <3>1 DEF BeginTransition, TurnRecord
    <2> QED
        BY <2>1 DEF OpStep, SwitchLock, SwitchFlag, RunScript, CreateSession, Adopt, Mark, SwitchFinally,
           AwaitNoTurn, Move, Connected, AgentClears, ResetFails
<1>3. CASE UNCHANGED turn
    BY <1>1, <1>3, QueueLeft DEF AskedInv
<1>4. CASE SessionEnds
    <2>1. ASSUME NEW u \in Turn
          PROVE  turn'[u].at = turn[u].at
        <3>1. turn[u] \in TurnRecord
            BY DEF AskedInv, TurnInv, TurnTyped
        <3> QED
            BY <1>4, <3>1 DEF SessionEnds, TurnRecord
    <2> QED
        BY <1>1, <2>1, QueueLeft DEF AskedInv
<1>5. CASE \A u \in Turn : turn'[u].at = turn[u].at
    BY <1>1, <1>5, QueueLeft DEF AskedInv
<1> QED
    BY <1>2, <1>3, <1>4, <1>5

\* The inductive invariant of the turns, on top of that of the operations.
THEOREM TurnsInvariant == Spec => []AskedInv
<1>1. ASSUME Init
      PROVE  AskedInv
    <2>1. /\ turn = [m \in Turn |-> [at |-> "none", gen |-> 0, home |-> TRUE, missed |-> FALSE]]
          /\ generation \in [{"web", "device"} -> {0, 1}] /\ generation["device"] = 1
          /\ requests = <<>>
        BY <1>1 DEF Init
    <2>2. TurnTyped
        BY <2>1, GatewayAssumption DEF TurnTyped, TurnRecord, TurnAt
    <2>3. LifeInv /\ SavedWhereAsked
        BY <2>1 DEF LifeInv, SavedWhereAsked, Pending
    <2>4. QueueInv
        BY <2>1 DEF QueueInv
    <2> QED
        BY <2>2, <2>3, <2>4 DEF AskedInv, TurnInv
<1>2. ASSUME AskedInv, OperationInv, [Next]_vars
      PROVE  AskedInv'
    <2>1. CASE \E t \in Thread : SwitchLock(t) \/ OpStep(t) \/ BeginTransition(t)
        BY <1>2, <2>1, GatewayAssumption, OpStepKeepsTurns, OpStepQueues DEF AskedInv
    <2>2. CASE \E m \in Turn : SendCheck(m) \/ SubmitCheck(m) \/ TurnStep(m) \/ AgentEnds(m)
        BY <1>2, <2>2, GatewayAssumption, TurnStepKeeps, TurnStepQueues DEF AskedInv
    <2>3. CASE Take
        BY <1>2, <2>3, TakeKeeps
    <2>4. CASE PageStep \/ UNCHANGED vars
        <3>1. UNCHANGED <<turn, generation, transition, requests>>
            BY <2>4 DEF PageStep, PageReadsStatus, PageLoads, PageLabels, OnlyPage, coordVars, vars
        <3> QED
            BY <1>2, <3>1, TurnsLeft, QueueLeft DEF AskedInv
    <2> QED
        BY <1>2, <2>1, <2>2, <2>3, <2>4 DEF Next
<1> QED
    BY <1>1, <1>2, OperationsInvariant, PTL DEF Spec

\* A saved message that no transition has missed was saved in the life of the
\* session it was asked in.
THEOREM SavedInItsSession == Spec => []SavedWhereAsked
<1>1. AskedInv => SavedWhereAsked
    BY DEF AskedInv, TurnInv
<1> QED
    BY <1>1, TurnsInvariant, PTL
=============================================================================
