--------------------------- MODULE MorrowWebGateway ---------------------------
(***************************************************************************)
(* The gateway of the chat page, class MorrowWebGateway of                 *)
(* stack-chan-server/src/morrow_web.py, with what it uses: its routes in   *)
(* server.py, the shared session of the turn coordinator, the event with   *)
(* which a device resets that session, and the page's own polling.         *)
(*                                                                         *)
(* The session all clients talk to is named in two places: the agent's     *)
(* client has the one it is connected to, the gateway the default_session  *)
(* it tells the pages.  A mode switch restarts the agent and moves both to *)
(* a new session; a reset clears the one in use.                           *)
(*                                                                         *)
(* Of the coordinator, which has a module of its own, this one keeps the   *)
(* queue, the generations and the transition flag.  A turn's text is the   *)
(* turn.  Turns come from the page ("web") or from a device.               *)
(***************************************************************************)
EXTENDS Naturals, Sequences, FiniteSets

CONSTANTS
    Turn,           \* the messages sent to the agent
    Source,         \* "web" or "device", for each turn
    Thread,         \* HTTP threads that switch the mode or reset the session
    MaxSession,     \* bound on the sessions created by switches
    MaxResets,      \* bound on the resets
    MaxFaults,      \* bound on the failures of the agent and of requests to it
    None

ASSUME GatewayAssumption ==
    /\ Source \in [Turn -> {"web", "device"}]
    /\ {MaxSession, MaxResets, MaxFaults} \subseteq Nat
    /\ None \notin Turn \cup Thread

VARIABLES
    modeLock,       \* the holder of _mode_lock
    switching,      \* _switching
    defaultSession, \* default_session
    revision,       \* _session_revision
    op,             \* per thread: how far its switch or reset is, and the session it made
    created,        \* sessions created so far, the last one's number
    client,         \* the session of the agent's client
    halfway,        \* a switch failed after the client had moved
    transition,     \* the thread that has set _shared_transition
    generation,     \* _generations, 0 for a source the coordinator does not know
    requests,       \* _queue
    active,         \* _active
    turn,           \* per turn: where it is, its generation, if it reached the agent in the
                    \* life of the session it was asked in, and if a transition missed it
    running,        \* the turns the agent works on
    contents,       \* the history of each session
    page,           \* the page: what it shows and how far its poll is
    budget          \* resets and faults that may still happen

opVars == <<modeLock, switching, op, created>>
sharedVars == <<defaultSession, revision>>
coordVars == <<client, halfway, transition, generation, requests, active>>
agentVars == <<running, contents>>
vars == <<opVars, sharedVars, coordVars, agentVars, turn, page, budget>>

Session == 0 .. MaxSession

Free == [at |-> "idle", job |-> "", new |-> 0]

Init ==
    /\ modeLock = None /\ switching = FALSE
    /\ defaultSession = 0 /\ revision = 0
    /\ op = [t \in Thread |-> Free]
    /\ created = 0
    /\ client = 0 /\ halfway = FALSE
    /\ transition = None
    /\ generation \in [{"web", "device"} -> {0, 1}] /\ generation["device"] = 1
    /\ requests = <<>> /\ active = None
    /\ turn = [m \in Turn |-> [at |-> "none", gen |-> 0, home |-> TRUE, missed |-> FALSE]]
    /\ running = {}
    /\ contents = [s \in Session |-> {}]
    /\ page = [at |-> "idle", session |-> 0, shown |-> {}, revision |-> 0]
    /\ budget = [resets |-> MaxResets, faults |-> MaxFaults]

Goes(t, at) == op' = [op EXCEPT ![t] = IF at = "idle" THEN Free ELSE [@ EXCEPT !.at = at]]
TurnGoes(m, at) == turn' = [turn EXCEPT ![m].at = at]

\* Something fails, once less.
Fault == budget.faults > 0 /\ budget' = [budget EXCEPT !.faults = @ - 1]
NoFault == UNCHANGED budget

Stale(m) == turn[m].gen # generation[Source[m]]

-----------------------------------------------------------------------------
(* switch_mode up to the transition: the lock, the flag, the script that    *)
(* restarts the agent, the agent's status, a new session.                   *)

LockFree == modeLock = None

SwitchLock(t) ==
    /\ op[t].at = "idle" /\ created < MaxSession
    /\ LockFree /\ modeLock' = t
    /\ op' = [op EXCEPT ![t] = [at |-> "flag", job |-> "switch", new |-> 0]]
    /\ UNCHANGED <<switching, created, sharedVars, coordVars, agentVars, turn, page, budget>>

SwitchFlag(t) ==
    /\ op[t].at = "flag" /\ switching' = TRUE /\ Goes(t, "script")
    /\ UNCHANGED <<modeLock, created, sharedVars, coordVars, agentVars, turn, page, budget>>

\* start_morrow.sh ends the agent's process and starts another; whatever fails,
\* the agent may be gone already.  Unfinished turns go with it.
RunScript(t) ==
    /\ op[t].at = "script"
    /\ \/ running' = {} /\ Goes(t, "create") /\ NoFault
       \/ running' \in {running, {}} /\ Goes(t, "clear") /\ Fault
    /\ UNCHANGED <<modeLock, switching, created, sharedVars, coordVars, contents, turn, page>>

\* The status must name the mode's configuration; _create_session.
CreateSession(t) ==
    /\ op[t].at = "create"
    /\ \/ /\ created' = created + 1
          /\ op' = [op EXCEPT ![t] = [at |-> "begin", job |-> "switch", new |-> created + 1]]
          /\ NoFault
       \/ UNCHANGED created /\ Goes(t, "clear") /\ Fault
    /\ UNCHANGED <<modeLock, switching, sharedVars, coordVars, agentVars, turn, page>>

\* The last steps of a switch: default_session and the revision, then, in any
\* case, the flag and the lock.
\* Slip: the session of the status that was read before is kept.
SlipAdopted(t) == defaultSession
Adopted(t) == op[t].new
Adopt(t) ==
    /\ op[t].at = "adopt"
    /\ defaultSession' = Adopted(t) /\ halfway' = FALSE
    /\ Goes(t, "mark")
    /\ UNCHANGED <<modeLock, switching, created, revision, client, transition, generation,
                   requests, active, agentVars, turn, page, budget>>

\* mark_shared_session_changed, after a switch or a reset that succeeded.
Mark(t) ==
    /\ op[t].at = "mark"
    /\ revision' = revision + 1
    /\ Goes(t, IF op[t].job = "switch" THEN "clear" ELSE "idle")
    /\ UNCHANGED <<modeLock, switching, created, defaultSession, coordVars, agentVars, turn, page, budget>>

\* Slip: the lock is released before the flag is cleared.
SlipSwitchEnds(t) ==
    \/ /\ op[t].at = "clear" /\ modeLock' = None /\ Goes(t, "release") /\ UNCHANGED switching
    \/ /\ op[t].at = "release" /\ switching' = FALSE /\ Goes(t, "idle") /\ UNCHANGED modeLock

SwitchEnds(t) ==
    \/ /\ op[t].at = "clear" /\ switching' = FALSE /\ Goes(t, "release") /\ UNCHANGED modeLock
    \/ /\ op[t].at = "release" /\ modeLock' = None /\ Goes(t, "idle") /\ UNCHANGED switching

SwitchFinally(t) ==
    /\ SwitchEnds(t)
    /\ UNCHANGED <<created, sharedVars, coordVars, agentVars, turn, page, budget>>

-----------------------------------------------------------------------------
(* The coordinator's transition, for a switch or a reset.  create_session   *)
(* of the page and the reset_session event of a device run the same reset.  *)

\* The generations a transition ends: the devices', and that of the page when
\* the coordinator knows it or has a request of it.
SlipEnded == {}
Ended ==
    {"device"} \cup {s \in {"web"} : generation[s] > 0 \/ \E m \in Turn :
                        Source[m] = s /\ turn[m].at \in {"queued", "taken", "drained", "run"}}

\* A turn between the two blocks of submit is not pending yet, and is missed
\* unless its source is known otherwise.
Missed(m) == turn[m].at = "checked" /\ Source[m] \notin Ended

BeginTransition(t) ==
    /\ \/ op[t].at = "begin" /\ budget' = budget
       \/ op[t].at = "idle" /\ budget.resets > 0 /\ budget' = [budget EXCEPT !.resets = @ - 1]
    /\ LET job == IF op[t].at = "begin" THEN "switch" ELSE "reset"
       IN  IF transition # None
           THEN /\ Goes(t, IF job = "switch" THEN "clear" ELSE "idle")
                /\ UNCHANGED <<transition, generation, turn>>
           ELSE /\ transition' = t
                /\ generation' = [s \in DOMAIN generation |-> generation[s] + IF s \in Ended THEN 1 ELSE 0]
                /\ turn' = [m \in Turn |-> IF Missed(m) THEN [turn[m] EXCEPT !.missed = TRUE] ELSE turn[m]]
                /\ op' = [op EXCEPT ![t] = [at |-> "wait", job |-> job, new |-> op[t].new]]
    /\ UNCHANGED <<modeLock, switching, created, sharedVars, client, halfway, requests, active,
                   agentVars, page>>

\* The transition ends, and fails: a reset is over, a switch has its `finally' left.
GivesUp(t) ==
    /\ transition' = None
    /\ Goes(t, IF op[t].job = "switch" THEN "clear" ELSE "idle")
    /\ Fault

\* It waits until no turn is active, but not for ever.
AwaitNoTurn(t) ==
    /\ op[t].at = "wait"
    /\ \/ active = None /\ Goes(t, op[t].job) /\ NoFault /\ UNCHANGED transition
       \/ GivesUp(t)
    /\ UNCHANGED <<modeLock, switching, created, sharedVars, client, halfway, generation, requests,
                   active, agentVars, turn, page>>

\* What has been asked and has not reached the agent is of a session that is over.
SessionEnds ==
    turn' = [m \in Turn |-> IF turn[m].at \in {"checked", "queued", "taken", "drained"}
                            THEN [turn[m] EXCEPT !.home = FALSE] ELSE turn[m]]

\* switch_session: the client is the new session's from here on, connected or not.
Move(t) ==
    /\ op[t].at = "switch"
    /\ client' = op[t].new /\ SessionEnds
    /\ Goes(t, "connect")
    /\ UNCHANGED <<modeLock, switching, created, sharedVars, halfway, transition, generation, requests,
                   active, agentVars, page, budget>>

Connected(t) ==
    /\ op[t].at = "connect"
    /\ \/ Goes(t, "adopt") /\ transition' = None /\ NoFault /\ UNCHANGED halfway
       \/ GivesUp(t) /\ halfway' = TRUE
    /\ UNCHANGED <<modeLock, switching, created, sharedVars, client, generation, requests, active,
                   agentVars, turn, page>>

\* The agent clears the session, which it refuses while it works on a turn; the
\* answer may be lost.
AgentClears(t) ==
    /\ op[t].at = "reset" /\ running = {}
    /\ contents' = [contents EXCEPT ![client] = {}] /\ SessionEnds
    /\ \/ Goes(t, "mark") /\ transition' = None /\ NoFault
       \/ GivesUp(t)
    /\ UNCHANGED <<modeLock, switching, created, sharedVars, client, halfway, generation, requests,
                   active, running, page>>

ResetFails(t) ==
    /\ op[t].at = "reset" /\ GivesUp(t)
    /\ UNCHANGED <<modeLock, switching, created, sharedVars, client, halfway, generation, requests,
                   active, agentVars, turn, page>>

OpStep(t) ==
    \/ SwitchFlag(t) \/ RunScript(t) \/ CreateSession(t) \/ Adopt(t) \/ Mark(t) \/ SwitchFinally(t)
    \/ op[t].at # "idle" /\ BeginTransition(t)
    \/ AwaitNoTurn(t) \/ Move(t) \/ Connected(t) \/ AgentClears(t) \/ ResetFails(t)

-----------------------------------------------------------------------------
(* A turn.  send_message looks at the flag, submit at the transition; the   *)
(* session the turn is for is no part of either.                            *)

OnlyTurn == UNCHANGED <<opVars, sharedVars, page>>

SendCheck(m) ==
    /\ turn[m].at = "none" /\ Source[m] = "web"
    /\ TurnGoes(m, IF switching THEN "refused" ELSE "sent")
    /\ OnlyTurn /\ UNCHANGED <<coordVars, agentVars, budget>>

SubmitCheck(m) ==
    /\ turn[m].at = IF Source[m] = "web" THEN "sent" ELSE "none"
    /\ turn' = [turn EXCEPT ![m] = [at |-> IF transition # None THEN "refused" ELSE "checked",
                                    gen |-> generation[Source[m]], home |-> TRUE,
                                    missed |-> FALSE]]
    /\ OnlyTurn /\ UNCHANGED <<coordVars, agentVars, budget>>

SubmitPut(m) ==
    /\ turn[m].at = "checked"
    /\ TurnGoes(m, "queued") /\ requests' = Append(requests, m)
    /\ OnlyTurn
    /\ UNCHANGED <<client, halfway, transition, generation, active, agentVars, budget>>

\* The worker: a request that is stale when taken is given up; the others become
\* active and go to the agent, in whatever session the client has by then.
Take ==
    /\ active = None /\ requests # <<>> /\ \A m \in Turn : turn[m].at # "taken"
    /\ TurnGoes(Head(requests), IF Stale(Head(requests)) THEN "failed" ELSE "taken")
    /\ requests' = Tail(requests)
    /\ OnlyTurn /\ UNCHANGED <<client, halfway, transition, generation, active, agentVars, budget>>

Activate(m) ==
    /\ turn[m].at = "taken" /\ active' = m /\ TurnGoes(m, "drained")
    /\ OnlyTurn /\ UNCHANGED <<client, halfway, transition, generation, requests, agentVars, budget>>

StartTurn(m) ==
    /\ turn[m].at = "drained"
    /\ TurnGoes(m, "run")
    /\ running' = {m}
    /\ contents' = [contents EXCEPT ![client] = @ \cup {m}]
    /\ OnlyTurn /\ UNCHANGED <<coordVars, budget>>

\* The agent has saved the turn, or has given it up.
AgentEnds(m) ==
    /\ m \in running /\ running' = {}
    /\ OnlyTurn /\ UNCHANGED <<coordVars, contents, turn, budget>>

\* The worker leaves the turn: it is stale, the agent has ended it or is gone.
TurnEnds(m) ==
    /\ turn[m].at = "run"
    /\ \/ Stale(m) /\ TurnGoes(m, "failed") /\ NoFault
       \/ ~Stale(m) /\ m \notin running /\ TurnGoes(m, "saved") /\ NoFault
       \/ TurnGoes(m, "failed") /\ Fault
    /\ active' = None
    /\ OnlyTurn /\ UNCHANGED <<client, halfway, transition, generation, requests, agentVars>>

TurnStep(m) ==
    \/ turn[m].at = "sent" /\ SubmitCheck(m)
    \/ SubmitPut(m)
    \/ Activate(m) \/ StartTurn(m) \/ TurnEnds(m)

-----------------------------------------------------------------------------
(* syncSharedSession of the page, every second: /web/api/status, then the   *)
(* history.  The page remembers the revision before it has the history; the *)
(* history is of one default_session, the id that comes with it may be of   *)
(* another.                                                                 *)

OnlyPage == UNCHANGED <<opVars, sharedVars, coordVars, agentVars, turn>>

\* Slip: the history is fetched only when the status has changed.
SlipFetches == revision # page.revision \/ defaultSession # page.session
Fetches == TRUE

PageReadsStatus ==
    /\ page.at = "idle"
    /\ \/ /\ ~switching
          /\ page' = [page EXCEPT !.at = IF Fetches THEN "load" ELSE "idle", !.revision = revision]
          /\ NoFault
       \/ UNCHANGED page /\ Fault
    /\ OnlyPage

PageLoads ==
    /\ page.at = "load"
    /\ \/ page' = [page EXCEPT !.at = "label", !.shown = contents[defaultSession]] /\ NoFault
       \/ page' = [page EXCEPT !.at = "idle"] /\ Fault
    /\ OnlyPage

PageLabels ==
    /\ page.at = "label"
    /\ page' = [page EXCEPT !.at = "idle", !.session = defaultSession]
    /\ OnlyPage /\ UNCHANGED budget

PageStep == PageReadsStatus \/ PageLoads \/ PageLabels

-----------------------------------------------------------------------------
Next ==
    \/ \E t \in Thread : \/ SwitchLock(t) \/ OpStep(t)
                         \/ op[t].at = "idle" /\ BeginTransition(t)
    \/ \E m \in Turn : \/ SendCheck(m) \/ SubmitCheck(m) \/ TurnStep(m) \/ AgentEnds(m)
    \/ Take
    \/ PageStep

Spec == Init /\ [][Next]_vars

\* Every thread that has begun goes on, as all its waits are bounded; the agent
\* ends its turns; the page polls.
FairSpec ==
    /\ Spec
    /\ \A t \in Thread : WF_vars(OpStep(t))
    /\ \A m \in Turn : WF_vars(TurnStep(m)) /\ WF_vars(AgentEnds(m))
    /\ WF_vars(Take) /\ WF_vars(PageStep)

-----------------------------------------------------------------------------
(* Properties.                                                             *)

\* While a switch is at work the pages are told so and their messages refused:
\* no other switch that ends takes the flag away from it.
SwitchingIsVisible ==
    \A t \in Thread :
        op[t].job = "switch" /\ op[t].at \in {"script", "create", "begin", "wait", "switch", "connect",
                                              "adopt", "mark"}
            => switching /\ modeLock = t

\* The pages and the devices are in one session: default_session and the
\* client's differ only while a switch is between the two, or since one failed there.
OneSession ==
    defaultSession # client =>
        halfway \/ \E t \in Thread : op[t].at \in {"connect", "adopt"}

\* A message answered as saved was saved in the life of the session in which it
\* was asked: a reset or switch meanwhile ends it.  The one exception is a message
\* that is between the two blocks of submit when a transition begins which knows
\* its source neither by a generation nor by a pending request.
SavedWhereAsked ==
    \A m \in Turn : turn[m].at = "saved" /\ ~turn[m].missed => turn[m].home

\* When all is quiet the page comes to show the history of the session in use,
\* whichever polls failed or met a switch before.
PageCatchesUp ==
    <>[](page.session = defaultSession /\ page.shown = contents[defaultSession])
=============================================================================
