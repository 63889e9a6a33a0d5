---------------------------- MODULE MorrowClient ----------------------------
(***************************************************************************)
(* The client of the Morrow agent, class MorrowClient of                   *)
(* stack-chan-server/src/morrow_client.py: one reconnecting WebSocket to   *)
(* one session, a flag that says the session's snapshot has been seen, and *)
(* a bounded queue of events for the thread that runs the turns.  At the   *)
(* other end is the agent, which is not part of the repository: its half   *)
(* says no more than the client relies on.                                 *)
(*                                                                         *)
(* A frame or message is its type and `of', whom it is about.  Only        *)
(* turn_rejected carries that on the wire (as request_id): for the text of *)
(* a turn and its end, `of' is a record of the model that no code reads.   *)
(* Notices, which go to a queue of their own, are left out.                *)
(***************************************************************************)
EXTENDS Naturals, Sequences

CONSTANTS
    Request,        \* request_id values of turns
    NoRequest,
    Resetter,       \* the request_id values of reset_session
    EventQueueSize, \* event_queue_size (256 in the server)
    MaxTexts,       \* bound on the pieces of text of one turn
    MaxDrops,       \* bound on the connections that are lost
    MaxSession      \* bound on the sessions the client is switched to

ASSUME ClientAssumption ==
    /\ NoRequest \notin Request /\ Request \cap Resetter = {}
    /\ EventQueueSize \in Nat \ {0}
    /\ {MaxTexts, MaxDrops, MaxSession} \subseteq Nat

VARIABLES
    session,        \* the session the client is to be connected to
    link,           \* the reader thread: "down", "up", or "closing" in its `finally'
    linked,         \* the session its WebSocket is connected to
    ready,          \* _connected and _ready
    turnId,         \* _morrow_turn_id, from the last snapshot
    events,         \* client.events, oldest first
    drops,          \* connections lost so far
    uplink,         \* frames on their way to the agent
    downlink,       \* messages on their way to the client
    running,        \* the agent: the turn each session runs
    texts           \* the agent: pieces of text that turn has produced

socketVars == <<link, linked, drops, uplink, downlink>>
agentVars  == <<running, texts>>
clientVars == <<session, ready, turnId, events, socketVars, agentVars>>

Frame   == [type : {"start_turn", "cancel_turn", "reset_session"}, of : Request \cup Resetter]
Message == [type : {"snapshot", "text", "turn_saved", "turn_rejected", "error", "disconnected"},
            of : Request \cup Resetter \cup {NoRequest}]

ClientInit ==
    /\ session = 1 /\ link = "down" /\ linked = 1
    /\ ready = FALSE /\ turnId = NoRequest /\ events = <<>> /\ drops = 0
    /\ uplink = <<>> /\ downlink = <<>>
    /\ running = [s \in 1 .. MaxSession + 1 |-> NoRequest]
    /\ texts = 0

\* events.put_nowait, which drops what a full queue has no room for.
Offered(m) == IF Len(events) < EventQueueSize THEN Append(events, m) ELSE events

-----------------------------------------------------------------------------
(* _send, on the thread of whoever calls it.  Once the reader has seen the  *)
(* connection end, a send raises or goes nowhere until the flags say so.    *)

Sends(f) ==
    /\ ready
    /\ uplink' = IF link = "up" THEN Append(uplink, f) ELSE uplink
    /\ UNCHANGED <<session, link, linked, ready, turnId, events, drops, downlink, agentVars>>

SendRaises == (~ready \/ link # "up") /\ UNCHANGED clientVars

StartTurn(r) == Sends([type |-> "start_turn", of |-> r])
ResetSession(q) == Sends([type |-> "reset_session", of |-> q])

\* cancel_turn knows only the turn that the last snapshot told.
CancelTurn ==
    \/ turnId = NoRequest /\ UNCHANGED clientVars
    \/ turnId # NoRequest /\ Sends([type |-> "cancel_turn", of |-> turnId])
CancelTurnRaises == turnId # NoRequest /\ SendRaises

\* switch_session, up to its wait for the new session's snapshot.
SwitchSession ==
    /\ session' = session + 1
    /\ ready' = FALSE
    /\ UNCHANGED <<turnId, events, socketVars, agentVars>>

-----------------------------------------------------------------------------
(* The reader thread, _connection_loop and _read_connection.               *)

Connect ==
    /\ link = "down"
    /\ link' = "up" /\ linked' = session
    /\ uplink' = <<>>
    /\ downlink' = <<[type |-> "snapshot", of |-> running[session]]>>
    /\ UNCHANGED <<session, ready, turnId, events, drops, agentVars>>

ConnectFails ==
    /\ link = "down" /\ drops < MaxDrops
    /\ drops' = drops + 1
    /\ events' = Offered([type |-> "disconnected", of |-> NoRequest])
    /\ UNCHANGED <<session, link, linked, ready, turnId, uplink, downlink, agentVars>>

Receive ==
    /\ link = "up" /\ linked = session /\ downlink # <<>>
    /\ downlink' = Tail(downlink)
    /\ events' = Offered(Head(downlink))
    /\ IF Head(downlink).type = "snapshot"
       THEN turnId' = Head(downlink).of /\ ready' = TRUE
       ELSE UNCHANGED <<turnId, ready>>
    /\ UNCHANGED <<session, link, linked, drops, uplink, agentVars>>

\* The socket fails, or it was closed by switch_session.
Disconnect ==
    /\ link = "up"
    /\ \/ linked # session /\ UNCHANGED drops
       \/ linked = session /\ drops < MaxDrops /\ drops' = drops + 1
    /\ link' = "closing"
    /\ events' = Offered([type |-> "disconnected", of |-> NoRequest])
    /\ uplink' = <<>> /\ downlink' = <<>>
    /\ UNCHANGED <<session, linked, ready, turnId, agentVars>>

Retire ==
    /\ link = "closing"
    /\ link' = "down"
    /\ ready' = FALSE /\ turnId' = NoRequest
    /\ UNCHANGED <<session, linked, events, drops, uplink, downlink, agentVars>>

Reader == Connect \/ ConnectFails \/ Receive \/ Disconnect \/ Retire

-----------------------------------------------------------------------------
(* The agent: one turn at a time per session, whether or not anybody is     *)
(* connected to it.                                                         *)

\* What the session s has to say reaches those who are connected to it.
Tells(s, m) ==
    downlink' = IF link = "up" /\ linked = s THEN Append(downlink, m) ELSE downlink

AgentTakes ==
    LET f == Head(uplink)  busy == running[linked] # NoRequest
    IN  /\ link = "up" /\ uplink # <<>>
        /\ uplink' = Tail(uplink)
        /\ CASE f.type = "start_turn" /\ ~busy ->
                    /\ running' = [running EXCEPT ![linked] = f.of]
                    /\ texts' = 0
                    /\ UNCHANGED downlink
             [] f.type = "reset_session" /\ ~busy ->
                    Tells(linked, [type |-> "snapshot", of |-> NoRequest]) /\ UNCHANGED agentVars
             [] f.type # "cancel_turn" /\ busy ->
                    Tells(linked, [type |-> "turn_rejected", of |-> f.of]) /\ UNCHANGED agentVars
             [] f.type = "cancel_turn" /\ running[linked] = f.of ->
                    /\ \E t \in {"turn_saved", "error"} : Tells(linked, [type |-> t, of |-> f.of])
                    /\ running' = [running EXCEPT ![linked] = NoRequest]
                    /\ UNCHANGED texts
             [] OTHER -> UNCHANGED <<downlink, agentVars>>
        /\ UNCHANGED <<session, link, linked, ready, turnId, events, drops>>

AgentTells(s) ==
    /\ running[s] # NoRequest
    /\ \/ /\ texts < MaxTexts /\ texts' = texts + 1
          /\ Tells(s, [type |-> "text", of |-> running[s]])
          /\ UNCHANGED running
       \/ /\ \E t \in {"turn_saved", "error"} : Tells(s, [type |-> t, of |-> running[s]])
          /\ running' = [running EXCEPT ![s] = NoRequest]
          /\ UNCHANGED texts
    /\ UNCHANGED <<session, link, linked, ready, turnId, events, drops, uplink>>

Agent == AgentTakes \/ \E s \in DOMAIN running : AgentTells(s)

ClientTypeOK ==
    /\ link \in {"down", "up", "closing"} /\ ready \in BOOLEAN
    /\ session \in DOMAIN running /\ linked \in DOMAIN running
    /\ turnId \in Request \cup {NoRequest}
    /\ events \in Seq(Message) /\ Len(events) <= EventQueueSize
    /\ uplink \in Seq(Frame) /\ downlink \in Seq(Message)
    /\ running \in [1 .. MaxSession + 1 -> Request \cup {NoRequest}]
    /\ texts \in 0 .. MaxTexts /\ drops \in 0 .. MaxDrops
=============================================================================
