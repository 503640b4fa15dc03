------------------------------ MODULE Realtime ------------------------------
(***************************************************************************)
(* Events on their way from a publisher through Redis to the browsers of   *)
(* one account (realtime/event_bus.py, realtime/manager.py,                *)
(* api/routes/realtime.py).  Every API process listens to one Redis        *)
(* channel and serves the sockets that happen to be connected to it.  The  *)
(* events of the outbox carry an event_id and come up to MaxAttempts       *)
(* times, which is what module Outbox is proved to guarantee               *)
(* (CopiesWithinAttempts and its TypeOK); the others are published once,   *)
(* as part of a request or task, and carry none.                           *)
(* A key realtime:processed:<id> outlives every retry of its event, so its *)
(* expiry after a day is left out.                                         *)
(* An operator marked "wrong" is the one after it with a plausible slip:   *)
(* it is never used, and shows that some property notices the slip.        *)
(***************************************************************************)
EXTENDS Naturals, Sequences, FiniteSets

CONSTANTS
    Marked, Plain,      \* events with and without an event_id
    Processes,          \* uvicorn workers
    Sockets,
    NoEvent,
    MaxAttempts,        \* of an outbox event
    MaxUpsets           \* bound on faults

ASSUME RealtimeAssumption ==
    /\ Marked \cap Plain = {} /\ NoEvent \notin Marked \cup Plain
    /\ IsFiniteSet(Sockets)
    /\ MaxAttempts \in Nat \ {0} /\ MaxUpsets \in Nat

Events == Marked \cup Plain

VARIABLES
    given,          \* how often Redis got an event
    inbox,          \* what Redis sent a process and it has not read
    subscribed,     \* processes whose subscription stands
    seen,           \* the realtime:processed keys
    connections,    \* manager.connections of the account in each process
    alive,          \* sockets whose browser is there
    listener,
    received,       \* how often a browser that is there got an event
    upsets          \* faults so far

socketVars == <<connections, alive>>
vars == <<given, inbox, subscribed, seen, socketVars, listener,
          received, upsets>>

Times(e) == IF e \in Marked THEN MaxAttempts ELSE 1

\* The loop of broadcast.  size: that of the set when the loop began, 0 once
\* that set was thrown away; moved: a socket came or went meanwhile; done:
\* sockets it was sent to; stale: those of them whose send raised.
Listener == [event : Events \cup {NoEvent}, size : 0..Cardinality(Sockets),
             moved : BOOLEAN, done : SUBSET Sockets, stale : SUBSET Sockets]
Idle == [event |-> NoEvent, size |-> 0, moved |-> FALSE, done |-> {}, stale |-> {}]

TypeOK ==
    /\ given \in [Events -> 0..MaxAttempts]
    /\ seen \subseteq Marked
    /\ inbox \in [Processes -> Seq(Events)]
    /\ subscribed \subseteq Processes
    /\ connections \in [Processes -> SUBSET Sockets] /\ alive \subseteq Sockets
    /\ \A p, q \in Processes : p = q \/ connections[p] \cap connections[q] = {}
    /\ listener \in [Processes -> Listener]
    /\ \A p \in Processes : listener[p].event = NoEvent => listener[p] = Idle
    /\ received \in [Sockets -> [Events -> Nat]]
    /\ upsets \in 0..MaxUpsets

Init ==
    /\ given = [e \in Events |-> 0]
    /\ seen = {} /\ alive = {}
    /\ inbox = [p \in Processes |-> <<>>]
    /\ subscribed = Processes       \* lifespan starts the listener first
    /\ connections = [p \in Processes |-> {}]
    /\ listener = [p \in Processes |-> Idle]
    /\ received = [s \in Sockets |-> [e \in Events |-> 0]]
    /\ upsets = 0

Upset == upsets < MaxUpsets /\ upsets' = upsets + 1

-----------------------------------------------------------------------------
(* Publishing *)

\* publish_event: Redis keeps nothing for a process that is not subscribed.
Publish(e) ==
    /\ given[e] < Times(e) /\ given' = [given EXCEPT ![e] = @ + 1]
    /\ inbox' = [p \in Processes |-> IF p \in subscribed THEN Append(inbox[p], e)
                                                         ELSE inbox[p]]
    /\ UNCHANGED <<subscribed, seen, socketVars, listener, received, upsets>>

-----------------------------------------------------------------------------
(* listen_for_events *)

Subscribe(p) ==
    /\ p \notin subscribed /\ inbox[p] = <<>> /\ listener[p] = Idle
    /\ subscribed' = subscribed \cup {p}
    /\ UNCHANGED <<given, inbox, seen, socketVars, listener, received, upsets>>

\* wrong: SET without NX always answers OK
AlwaysFresh(e) == TRUE
Fresh(e) == e \in Plain \/ e \notin seen

Begin(p, e) ==
    listener' = [listener EXCEPT ![p] =
                   [Idle EXCEPT !.event = e, !.size = Cardinality(connections[p])]]

Take(p) ==
    LET e == Head(inbox[p]) IN
    /\ listener[p] = Idle /\ inbox[p] # <<>>
    /\ inbox' = [inbox EXCEPT ![p] = Tail(@)]
    /\ seen' = seen \cup ({e} \cap Marked)
    /\ IF Fresh(e) /\ connections[p] # {} THEN Begin(p, e) ELSE UNCHANGED listener
    /\ UNCHANGED <<given, subscribed, socketVars, received, upsets>>

\* The SET raises, before or after Redis has done it: the message is skipped.
TakeFails(p) ==
    /\ listener[p] = Idle /\ inbox[p] # <<>> /\ Head(inbox[p]) \in Marked
    /\ inbox' = [inbox EXCEPT ![p] = Tail(@)]
    /\ seen' \in {seen, seen \cup {Head(inbox[p])}}
    /\ Upset
    /\ UNCHANGED <<given, subscribed, socketVars, listener, received>>

\* The connection to Redis breaks: what was under way is lost.
Disconnected(p) ==
    /\ p \in subscribed /\ subscribed' = subscribed \ {p}
    /\ \E n \in 0..Len(inbox[p]) : inbox' = [inbox EXCEPT ![p] = SubSeq(@, 1, n)]
    /\ Upset
    /\ UNCHANGED <<given, seen, socketVars, listener, received>>

-----------------------------------------------------------------------------
(* ConnectionManager.broadcast *)

\* The set is iterated while coroutines of other sockets run at each await.
Intact(p) == Cardinality(connections[p]) = listener[p].size

\* wrong: one socket's exception ends the loop
GiveUp(p, s) == [listener EXCEPT ![p] = Idle]
Stale(p, s) == [listener EXCEPT ![p].done = @ \cup {s}, ![p].stale = @ \cup {s}]

Sent(p, s) ==
    /\ listener' = [listener EXCEPT ![p].done = @ \cup {s}]
    /\ received' = IF s \notin alive THEN received
                   ELSE [received EXCEPT ![s][listener[p].event] = @ + 1]

\* Writing to a browser that is gone may raise, or vanish in a buffer.
Send(p, s) ==
    /\ listener[p].event # NoEvent /\ Intact(p)
    /\ s \in connections[p] \ listener[p].done
    /\ \/ Sent(p, s)
       \/ s \notin alive /\ listener' = Stale(p, s) /\ UNCHANGED received
    /\ UNCHANGED <<given, inbox, subscribed, seen, socketVars, upsets>>

\* wrong: the list of stale sockets outlives its broadcast
KeepsStale(p) == [listener EXCEPT ![p] = [Idle EXCEPT !.stale = listener[p].stale]]
Over(p) == [listener EXCEPT ![p] = Idle]

\* "Set changed size during iteration": the rest of the sockets miss the event.
Abort(p) ==
    /\ listener[p].event # NoEvent /\ ~Intact(p)
    /\ listener' = Over(p)
    /\ UNCHANGED <<given, inbox, subscribed, seen, socketVars,
                   received, upsets>>

\* A set that changed and has its old size again may hide some of its sockets.
Finish(p) ==
    /\ listener[p].event # NoEvent /\ Intact(p)
    /\ connections[p] \subseteq listener[p].done \/ listener[p].moved
    /\ connections' = [connections EXCEPT ![p] = @ \ listener[p].stale]
    /\ listener' = Over(p)
    /\ UNCHANGED <<given, inbox, subscribed, seen, alive, received, upsets>>

-----------------------------------------------------------------------------
(* Sockets.  One that is gone from everywhere stands for the next new one. *)

\* A set that got empty is taken out of the dictionary.
Members(p, S) ==
    /\ connections' = [connections EXCEPT ![p] = S]
    /\ listener' = IF listener[p].event = NoEvent THEN listener
                   ELSE [listener EXCEPT ![p].moved = TRUE,
                                         ![p].size = IF S = {} THEN 0 ELSE @]

Connect(p, s) ==
    /\ s \notin alive
    /\ \A q \in Processes : s \notin connections[q] \cup listener[q].done
    /\ alive' = alive \cup {s}
    /\ Members(p, connections[p] \cup {s})
    /\ UNCHANGED <<given, inbox, subscribed, seen, received, upsets>>

Forget(S) == [s \in Sockets |-> IF s \in S THEN [e \in Events |-> 0] ELSE received[s]]

Leave(s) ==
    /\ s \in alive /\ alive' = alive \ {s}
    /\ received' = Forget({s})
    /\ UNCHANGED <<given, inbox, subscribed, seen, connections, listener,
                   upsets>>

\* receive_text raises WebSocketDisconnect.
Disconnect(p, s) ==
    /\ s \in connections[p] \ alive
    /\ Members(p, connections[p] \ {s})
    /\ UNCHANGED <<given, inbox, subscribed, seen, alive, received, upsets>>

\* The process dies with its sockets; a new one takes its place.
Crash(p) ==
    /\ inbox' = [inbox EXCEPT ![p] = <<>>] /\ subscribed' = subscribed \ {p}
    /\ connections' = [connections EXCEPT ![p] = {}]
    /\ alive' = alive \ connections[p]
    /\ listener' = [listener EXCEPT ![p] = Idle]
    /\ received' = Forget(connections[p])
    /\ Upset
    /\ UNCHANGED <<given, seen>>

-----------------------------------------------------------------------------
Listen(p) == \/ Subscribe(p) \/ Take(p) \/ Abort(p) \/ Finish(p)
             \/ \E s \in Sockets : Send(p, s)

Next ==
    \/ \E e \in Events : Publish(e)
    \/ \E p \in Processes :
         \/ Listen(p) \/ TakeFails(p) \/ Disconnected(p) \/ Crash(p)
         \/ \E s \in Sockets : Connect(p, s) \/ Disconnect(p, s)
    \/ \E s \in Sockets : Leave(s)

Spec == Init /\ [][Next]_vars

\* The listener is a task of the event loop, which runs what is ready.
FairSpec == Spec /\ \A p \in Processes : WF_vars(Listen(p))

-----------------------------------------------------------------------------
(* Properties *)

\* However often the outbox delivers an event again, no browser gets it twice,
\* through reconnections and failures of Redis too.
AtMostOncePerSocket == \A s \in Sockets, e \in Events : received[s][e] <= 1

\* An event without id that Redis handed to a process reaches every browser
\* connected to it, dead sockets among the others notwithstanding, unless the
\* browser goes, or the process lost Redis or had sockets come and go during a
\* broadcast.
PlainReachesAll ==
    \A e \in Plain, p \in Processes, s \in Sockets :
        (s \in connections[p] \cap alive /\ e \in {inbox[p][i] : i \in DOMAIN inbox[p]})
            ~> (\/ received[s][e] > 0 \/ s \notin alive
                \/ p \notin subscribed \/ listener[p].moved)

\* "Realtime duplicate events are suppressed using event IDs in Redis": what a
\* listener throws away, Redis had got more than once.
SuppressedIsDuplicate ==
    [][\A p \in Processes :
          (Take(p) /\ Head(inbox[p]) \in seen) => given[Head(inbox[p])] > 1]_vars
=============================================================================
