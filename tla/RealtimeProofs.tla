--------------------------- MODULE RealtimeProofs ---------------------------
(***************************************************************************)
(* What holds of Realtime for any number of events, processes, sockets,    *)
(* attempts and faults.                                                    *)
(***************************************************************************)
EXTENDS Realtime, FiniteSetTheorems, TLAPS

(* The inductive invariant *)

Waiting(p, e) == \E i \in 1..Len(inbox[p]) : inbox[p][i] = e

\* Only an event that was seen is sent to anybody.
SeenFirst ==
    \A e \in Marked :
        /\ \A p \in Processes : listener[p].event = e => e \in seen
        /\ \A s \in Sockets : received[s][e] > 0 => e \in seen

\* An event without id passes each process once.
PlainOnce ==
    \A e \in Plain :
        /\ \A p \in Processes :
             /\ Waiting(p, e) \/ listener[p].event = e => given[e] > 0
             /\ listener[p].event = e => ~Waiting(p, e)
             /\ \A i, j \in 1..Len(inbox[p]) :
                  inbox[p][i] = e /\ inbox[p][j] = e => i = j
        /\ \A s \in Sockets : received[s][e] > 0 => given[e] > 0

\* A socket has not got what its process has not sent it yet.
NotYet ==
    \A p \in Processes : \A s \in connections[p] : \A e \in Events :
        \/ e \in Plain /\ Waiting(p, e)
        \/ listener[p].event = e /\ s \notin listener[p].done
        => received[s][e] = 0

NobodyNothing == \A s \in Sockets \ alive : \A e \in Events : received[s][e] = 0

IInv == /\ TypeOK /\ SeenFirst /\ PlainOnce /\ NotYet /\ NobodyNothing
        /\ AtMostOncePerSocket

-----------------------------------------------------------------------------
LEMMA IdleType == Idle \in Listener /\ Idle.event = NoEvent /\ Idle.done = {}
<1>1. Cardinality(Sockets) \in Nat
  BY FS_CardinalityType, RealtimeAssumption
<1> QED BY <1>1 DEF Idle, Listener

LEMMA SizeType ==
  ASSUME NEW S \in SUBSET Sockets
  PROVE  Cardinality(S) \in 0..Cardinality(Sockets)
  BY FS_CardinalityType, FS_Subset, RealtimeAssumption

LEMMA PublishStep ==
  ASSUME IInv, NEW e \in Events, Publish(e)
  PROVE  IInv'
<1>t. /\ given \in [Events -> 0..MaxAttempts] /\ inbox \in [Processes -> Seq(Events)]
      /\ received \in [Sockets -> [Events -> Nat]]
      /\ connections \in [Processes -> SUBSET Sockets]
  BY DEF IInv, TypeOK
<1>1. /\ given[e] < Times(e) /\ given' = [given EXCEPT ![e] = @ + 1]
      /\ \A p \in Processes : inbox'[p] \in {inbox[p], Append(inbox[p], e)}
      /\ inbox' = [p \in Processes |-> IF p \in subscribed THEN Append(inbox[p], e)
                                                           ELSE inbox[p]]
      /\ UNCHANGED <<subscribed, seen, connections, alive, listener, received, upsets>>
  BY DEF Publish, socketVars
<1>2. TypeOK'
  <2>1. given' \in [Events -> 0..MaxAttempts]
    BY <1>t, <1>1, RealtimeAssumption DEF Times
  <2>2. inbox' \in [Processes -> Seq(Events)]
    BY <1>t, <1>1
  <2> QED BY <2>1, <2>2, <1>1 DEF IInv, TypeOK
<1>3. SeenFirst' /\ NobodyNothing' /\ AtMostOncePerSocket'
  BY <1>1 DEF IInv, SeenFirst, NobodyNothing, AtMostOncePerSocket
<1>4. ASSUME NEW f \in Events, NEW p \in Processes
      PROVE  /\ given[f] > 0 => given'[f] > 0
             /\ Waiting(p, f)' => Waiting(p, f) \/ (f = e /\ given'[f] > 0)
             /\ f # e => (Waiting(p, f)' <=> Waiting(p, f))
    BY <1>1, <1>t DEF Waiting
<1>5. e \in Plain => /\ given[e] = 0
                     /\ \A p \in Processes : ~Waiting(p, e) /\ listener[p].event # e
                     /\ \A s \in Sockets : received[s][e] = 0
  BY <1>1, <1>t, RealtimeAssumption DEF IInv, PlainOnce, Times
<1>6. PlainOnce'
  <2> SUFFICES ASSUME NEW f \in Plain
               PROVE  /\ \A p \in Processes :
                           /\ Waiting(p, f)' \/ listener[p].event = f => given'[f] > 0
                           /\ listener[p].event = f => ~Waiting(p, f)'
                           /\ \A i, j \in 1..Len(inbox'[p]) :
                                inbox'[p][i] = f /\ inbox'[p][j] = f => i = j
                      /\ \A s \in Sockets : received[s][f] > 0 => given'[f] > 0
    BY <1>1 DEF PlainOnce, Waiting
  <2>1. CASE f = e
    <3>1. \A p \in Processes : \A i \in 1..Len(inbox[p]) : inbox[p][i] # e
      BY <1>5, <2>1 DEF Waiting
    <3>2. \A p \in Processes : \A i, j \in 1..Len(inbox'[p]) :
             inbox'[p][i] = f /\ inbox'[p][j] = f => i = j
      BY <1>1, <1>t, <2>1, <3>1
    <3>3. given'[f] > 0
      BY <1>1, <1>t, <2>1
    <3> QED BY <3>2, <3>3, <1>5, <2>1
  <2>2. CASE f # e
    <3>1. ASSUME NEW p \in Processes, NEW i \in 1..Len(inbox'[p]), inbox'[p][i] = f
          PROVE  i \in 1..Len(inbox[p]) /\ inbox[p][i] = f
      BY <1>1, <1>t, <2>2, <3>1
    <3>2. \A p \in Processes : \A i, j \in 1..Len(inbox'[p]) :
             inbox'[p][i] = f /\ inbox'[p][j] = f => i = j
      BY <3>1 DEF IInv, PlainOnce
    <3>3. f \in Events
      BY DEF Events
    <3>4. \A p \in Processes : Waiting(p, f)' <=> Waiting(p, f)
      BY <3>3, <1>4, <2>2
    <3>5. given[f] > 0 => given'[f] > 0
      BY <1>1, <1>t, <2>2
    <3> QED BY <3>2, <3>4, <3>5 DEF IInv, PlainOnce
  <2> QED BY <2>1, <2>2
<1>7. NotYet'
  <2> SUFFICES ASSUME NEW p \in Processes, NEW s \in connections[p], NEW f \in Events,
                      \/ f \in Plain /\ Waiting(p, f)'
                      \/ listener[p].event = f /\ s \notin listener[p].done
               PROVE  received[s][f] = 0
    BY <1>1 DEF NotYet, Waiting
  <2>1. s \in Sockets
    BY <1>t
  <2> QED BY <2>1, <1>4, <1>5 DEF IInv, NotYet
<1> QED BY <1>2, <1>3, <1>6, <1>7 DEF IInv

\* A step that reads, loses or keeps messages, and changes nothing else that the
\* invariant rests on.
Suffix(p) == \E k \in Nat : /\ Len(inbox'[p]) <= Len(inbox[p])
                            /\ \A i \in 1..Len(inbox'[p]) :
                                 /\ i + k \in 1..Len(inbox[p])
                                 /\ inbox'[p][i] = inbox[p][i + k]

LEMMA Shorter ==
  ASSUME IInv, NEW p \in Processes, Suffix(p), NEW e
  PROVE  /\ Waiting(p, e)' => Waiting(p, e)
         /\ e \in Plain => \A i, j \in 1..Len(inbox'[p]) :
                             inbox'[p][i] = e /\ inbox'[p][j] = e => i = j
<1>1. PICK k \in Nat : \A i \in 1..Len(inbox'[p]) :
                         /\ i + k \in 1..Len(inbox[p])
                         /\ inbox'[p][i] = inbox[p][i + k]
  BY DEF Suffix
<1>2. Waiting(p, e)' => Waiting(p, e)
  BY <1>1 DEF Waiting
<1>3. ASSUME e \in Plain, NEW i \in 1..Len(inbox'[p]), NEW j \in 1..Len(inbox'[p]),
             inbox'[p][i] = e, inbox'[p][j] = e
      PROVE  i = j
  <2>0. /\ i + k \in 1..Len(inbox[p]) /\ inbox[p][i + k] = e
        /\ j + k \in 1..Len(inbox[p]) /\ inbox[p][j + k] = e
    BY <1>1, <1>3
  <2>1. i + k = j + k
    BY <2>0, <1>3 DEF IInv, PlainOnce
  <2>2. inbox[p] \in Seq(Events) /\ (i \in Nat /\ j \in Nat)
    BY <1>3 DEF IInv, TypeOK
  <2> QED BY <2>1, <2>2
<1> QED BY <1>2, <1>3

LEMMA ShorterInboxes ==
  ASSUME IInv, \A p \in Processes : Suffix(p) \/ inbox'[p] = inbox[p]
  PROVE  /\ \A p \in Processes, e \in Events : Waiting(p, e)' => Waiting(p, e)
         /\ \A e \in Plain : \A p \in Processes : \A i, j \in 1..Len(inbox'[p]) :
              inbox'[p][i] = e /\ inbox'[p][j] = e => i = j
<1>1. \A p \in Processes, e \in Events : Waiting(p, e)' => Waiting(p, e)
  BY Shorter DEF Waiting
<1>2. ASSUME NEW e \in Plain, NEW p \in Processes
      PROVE  \A i, j \in 1..Len(inbox'[p]) :
               inbox'[p][i] = e /\ inbox'[p][j] = e => i = j
  <2>1. CASE Suffix(p)
    BY <2>1, Shorter
  <2>2. CASE inbox'[p] = inbox[p]
    BY <2>2 DEF IInv, PlainOnce
  <2> QED BY <2>1, <2>2
<1> QED BY <1>1, <1>2

\* The socket's side: what the listeners do, sockets come and go, and Redis loses.
LEMMA QuietStep ==
  ASSUME IInv, TypeOK', UNCHANGED given, seen \subseteq seen',
         \A p \in Processes : Suffix(p) \/ inbox'[p] = inbox[p],
         \A p \in Processes :
            \/ listener'[p].event = NoEvent
            \/ /\ listener'[p].event = listener[p].event
               /\ listener[p].done \subseteq listener'[p].done,
         \A p \in Processes : \A s \in connections'[p] :
            s \in connections[p] \/ s \notin alive,
         \A s \in Sockets : \/ \A e \in Events : received'[s][e] = 0
                            \/ /\ received'[s] = received[s]
                               /\ s \in alive => s \in alive'
  PROVE  IInv'
<1>e. NoEvent \notin Events /\ Plain \subseteq Events /\ Marked \subseteq Events
  BY RealtimeAssumption DEF Events
<1>r. received \in [Sockets -> [Events -> Nat]]
      /\ connections' \in [Processes -> SUBSET Sockets]
  BY DEF IInv, TypeOK
<1>1. \A p \in Processes, e \in Events : Waiting(p, e)' => Waiting(p, e)
  BY ShorterInboxes
<1>2. \A s \in Sockets, e \in Events : received'[s][e] > 0 => received[s][e] > 0
  BY <1>r
<1>3. SeenFirst'
  BY <1>2, <1>e DEF IInv, SeenFirst
<1>4. PlainOnce'
  <2>1. \A e \in Plain : \A p \in Processes : \A i, j \in 1..Len(inbox'[p]) :
          inbox'[p][i] = e /\ inbox'[p][j] = e => i = j
    BY ShorterInboxes
  <2>2. \A e \in Plain : \A p \in Processes :
          /\ Waiting(p, e)' \/ listener'[p].event = e => given'[e] > 0
          /\ listener'[p].event = e => ~Waiting(p, e)'
    BY <1>1, <1>e DEF IInv, PlainOnce
  <2> QED BY <2>1, <2>2, <1>2, <1>e DEF IInv, PlainOnce
<1>5. NotYet'
  <2> SUFFICES ASSUME NEW p \in Processes, NEW s \in connections'[p], NEW e \in Events,
                      \/ e \in Plain /\ Waiting(p, e)'
                      \/ listener'[p].event = e /\ s \notin listener'[p].done
               PROVE  received'[s][e] = 0
    BY DEF NotYet, Waiting
  <2>1. \/ e \in Plain /\ Waiting(p, e)
        \/ listener[p].event = e /\ s \notin listener[p].done
    BY <1>1, <1>e
  <2>2. s \in Sockets /\ (s \in connections[p] \/ s \notin alive)
    BY <1>r
  <2>3. received[s][e] = 0
    BY <2>1, <2>2 DEF IInv, NotYet, NobodyNothing
  <2> QED BY <2>2, <2>3
<1>6. NobodyNothing' /\ AtMostOncePerSocket'
  BY <1>r DEF IInv, NobodyNothing, AtMostOncePerSocket
<1> QED BY <1>3, <1>4, <1>5, <1>6 DEF IInv

-----------------------------------------------------------------------------
(* The listener *)

LEMMA TailSuffix ==
  ASSUME IInv, NEW p \in Processes, inbox[p] # <<>>,
         inbox' = [inbox EXCEPT ![p] = Tail(@)]
  PROVE  /\ inbox' \in [Processes -> Seq(Events)]
         /\ \A q \in Processes : Suffix(q) \/ inbox'[q] = inbox[q]
         /\ \E e \in Events : /\ e = Head(inbox[p]) /\ Waiting(p, e)
                              /\ e \in Plain => ~Waiting(p, e)'
<1>1. inbox \in [Processes -> Seq(Events)] /\ inbox[p] \in Seq(Events)
  BY DEF IInv, TypeOK
<1>2. /\ Len(inbox'[p]) = Len(inbox[p]) - 1 /\ Len(inbox[p]) \in Nat \ {0}
      /\ \A i \in 1..Len(inbox'[p]) : inbox'[p][i] = inbox[p][i + 1]
      /\ Head(inbox[p]) = inbox[p][1]
      /\ inbox'[p] \in Seq(Events)
  BY <1>1
<1>3. Suffix(p)
  <2>1. \A i \in 1..Len(inbox'[p]) : i + 1 \in 1..Len(inbox[p])
    BY <1>2
  <2>2. Len(inbox'[p]) <= Len(inbox[p]) /\ 1 \in Nat
    BY <1>2
  <2>3. \A i \in 1..Len(inbox'[p]) : /\ i + 1 \in 1..Len(inbox[p])
                                     /\ inbox'[p][i] = inbox[p][i + 1]
    BY <1>2, <2>1
  <2> QED BY <2>2, <2>3 DEF Suffix
<1>4. PICK e \in Events : e = inbox[p][1]
  BY <1>1, <1>2
<1>5. Waiting(p, e)
  BY <1>2, <1>4 DEF Waiting
<1>6. e \in Plain => ~Waiting(p, e)'
  <2> SUFFICES ASSUME e \in Plain, NEW i \in 1..Len(inbox'[p]), inbox'[p][i] = e
               PROVE  FALSE
    BY DEF Waiting
  <2>1. /\ inbox[p][i + 1] = e /\ i + 1 \in 1..Len(inbox[p]) /\ i + 1 # 1
        /\ 1 \in 1..Len(inbox[p])
    BY <1>2
  <2> QED BY <2>1, <1>4 DEF IInv, PlainOnce
<1> QED BY <1>1, <1>2, <1>3, <1>4, <1>5, <1>6

LEMMA TakeStep ==
  ASSUME IInv, NEW p \in Processes, Take(p)
  PROVE  IInv'
<1>0. /\ inbox' \in [Processes -> Seq(Events)]
      /\ \A q \in Processes : Suffix(q) \/ inbox'[q] = inbox[q]
      /\ \E e \in Events : /\ e = Head(inbox[p]) /\ Waiting(p, e)
                           /\ e \in Plain => ~Waiting(p, e)'
  BY TailSuffix DEF Take
<1>1. PICK e \in Events : /\ e = Head(inbox[p]) /\ Waiting(p, e)
                          /\ e \in Plain => ~Waiting(p, e)'
  BY <1>0
<1>2. /\ listener[p] = Idle /\ seen' = seen \cup ({e} \cap Marked)
      /\ UNCHANGED <<given, subscribed, connections, alive, received, upsets>>
  BY <1>1 DEF Take, socketVars
<1>t. /\ listener \in [Processes -> Listener]
      /\ received \in [Sockets -> [Events -> Nat]]
      /\ connections \in [Processes -> SUBSET Sockets]
  BY DEF IInv, TypeOK
<1>3. CASE listener' = listener
  <2>1. TypeOK'
    BY <1>0, <1>2, <1>3 DEF IInv, TypeOK
  <2> QED BY <1>0, <1>2, <1>3, <2>1, QuietStep
<1>4. CASE Fresh(e) /\ Begin(p, e)
  <2> DEFINE me == [Idle EXCEPT !.event = e, !.size = Cardinality(connections[p])]
  <2>1. /\ me \in Listener /\ me.event = e /\ me.done = {}
    BY <1>1, <1>t, IdleType, SizeType DEF Listener
  <2>2. listener' = [listener EXCEPT ![p] = me]
    BY <1>4 DEF Begin
  <2> HIDE DEF me
  <2>3. /\ listener'[p] = me
        /\ \A q \in Processes : q # p => listener'[q] = listener[q]
    BY <1>t, <2>2
  <2>4. TypeOK'
    <3>1. e # NoEvent
      BY <1>1, RealtimeAssumption DEF Events
    <3> QED BY <1>0, <1>2, <1>t, <2>1, <2>2, <3>1 DEF IInv, TypeOK
  <2>5. \A s \in Sockets : e \in Marked => received[s][e] = 0
    <3>1. e \in Marked => e \notin seen
      BY <1>4, RealtimeAssumption DEF Fresh
    <3>2. \A s \in Sockets : received[s][e] \in Nat
      BY <1>1, <1>t
    <3> QED BY <3>1, <3>2 DEF IInv, SeenFirst
  <2>6. \A q \in Processes, f \in Events : Waiting(q, f)' => Waiting(q, f)
    BY <1>0, ShorterInboxes
  <2>7. SeenFirst'
    BY <1>2, <2>1, <2>3 DEF IInv, SeenFirst
  <2>8. PlainOnce'
    <3>1. \A f \in Plain : \A q \in Processes : \A i, j \in 1..Len(inbox'[q]) :
            inbox'[q][i] = f /\ inbox'[q][j] = f => i = j
      BY <1>0, ShorterInboxes
    <3>2. Plain \subseteq Events
      BY DEF Events
    <3>3. ASSUME NEW f \in Plain, NEW q \in Processes
          PROVE  /\ Waiting(q, f)' \/ listener'[q].event = f => given[f] > 0
                 /\ listener'[q].event = f => ~Waiting(q, f)'
      <4>1. CASE q # p
        BY <4>1, <2>3, <2>6, <3>2 DEF IInv, PlainOnce
      <4>2. CASE q = p
        <5>1. listener'[q].event = f => f = e
          BY <4>2, <2>1, <2>3
        <5>2. Waiting(q, f)' \/ f = e => Waiting(q, f)
          BY <4>2, <2>6, <3>2, <1>1
        <5>3. f = e => ~Waiting(q, f)'
          BY <4>2, <1>1
        <5> QED BY <5>1, <5>2, <5>3 DEF IInv, PlainOnce
      <4> QED BY <4>1, <4>2
    <3> QED BY <3>1, <3>3, <1>2 DEF IInv, PlainOnce
  <2>9. NotYet'
    <3> SUFFICES ASSUME NEW q \in Processes, NEW s \in connections[q], NEW f \in Events,
                        \/ f \in Plain /\ Waiting(q, f)'
                        \/ listener'[q].event = f /\ s \notin listener'[q].done
                 PROVE  received[s][f] = 0
      BY <1>2 DEF NotYet, Waiting
    <3>1. s \in Sockets
      BY <1>t
    <3>2. CASE f \in Plain /\ Waiting(q, f)'
      BY <2>6, <3>2 DEF IInv, NotYet
    <3>3. CASE listener'[q].event = f /\ s \notin listener'[q].done /\ q # p
      BY <2>3, <3>3 DEF IInv, NotYet
    <3>4. CASE listener'[q].event = f /\ q = p
      <4>1. f = e
        BY <3>4, <2>1, <2>3
      <4>2. CASE e \in Marked
        BY <4>1, <4>2, <2>5, <3>1
      <4>3. CASE e \in Plain
        BY <4>1, <4>3, <3>4, <1>1 DEF IInv, NotYet
      <4> QED BY <4>2, <4>3, <1>1 DEF Events
    <3> QED BY <3>2, <3>3, <3>4
  <2>10. NobodyNothing' /\ AtMostOncePerSocket'
    BY <1>2 DEF IInv, NobodyNothing, AtMostOncePerSocket
  <2> QED BY <2>4, <2>7, <2>8, <2>9, <2>10 DEF IInv
<1> QED BY <1>1, <1>3, <1>4 DEF Take

LEMMA TakeFailsStep ==
  ASSUME IInv, NEW p \in Processes, TakeFails(p)
  PROVE  IInv'
<1>1. /\ inbox' \in [Processes -> Seq(Events)]
      /\ \A q \in Processes : Suffix(q) \/ inbox'[q] = inbox[q]
  BY TailSuffix DEF TakeFails
<1>2. /\ UNCHANGED <<given, subscribed, connections, alive, listener, received>>
      /\ seen \subseteq seen' /\ seen' \subseteq Marked
      /\ upsets' \in 0..MaxUpsets
  BY RealtimeAssumption DEF TakeFails, Upset, socketVars, IInv, TypeOK
<1>3. TypeOK'
  BY <1>1, <1>2 DEF IInv, TypeOK
<1> QED BY <1>1, <1>2, <1>3, QuietStep

LEMMA DisconnectedStep ==
  ASSUME IInv, NEW p \in Processes, Disconnected(p)
  PROVE  IInv'
<1>1. PICK n \in 0..Len(inbox[p]) :
        inbox' = [inbox EXCEPT ![p] = SubSeq(@, 1, n)]
  BY DEF Disconnected
<1>2. /\ UNCHANGED <<given, connections, alive, listener, received, seen>>
      /\ subscribed' \subseteq Processes
      /\ upsets' \in 0..MaxUpsets
  BY RealtimeAssumption DEF Disconnected, Upset, socketVars, IInv, TypeOK
<1>3. /\ inbox' \in [Processes -> Seq(Events)]
      /\ \A q \in Processes : Suffix(q) \/ inbox'[q] = inbox[q]
  <2>1. inbox \in [Processes -> Seq(Events)] /\ inbox[p] \in Seq(Events)
    BY DEF IInv, TypeOK
  <2>2. /\ inbox'[p] \in Seq(Events) /\ Len(inbox'[p]) = n
        /\ \A i \in 1..n : inbox'[p][i] = inbox[p][i]
    BY <1>1, <2>1
  <2>3. Suffix(p)
    <3>1. \A i \in 1..n : i + 0 \in 1..Len(inbox[p]) /\ inbox'[p][i] = inbox[p][i + 0]
      BY <2>1, <2>2
    <3> QED BY <3>1, <2>1, <2>2 DEF Suffix
  <2> QED BY <1>1, <2>1, <2>2, <2>3
<1>4. TypeOK'
  BY <1>2, <1>3 DEF IInv, TypeOK
<1> QED BY <1>2, <1>3, <1>4, QuietStep

-----------------------------------------------------------------------------
(* The broadcast *)

LEMMA SendStep ==
  ASSUME IInv, NEW p \in Processes, NEW s \in Sockets, Send(p, s)
  PROVE  IInv'
<1>t. /\ listener \in [Processes -> Listener] /\ listener[p] \in Listener
      /\ received \in [Sockets -> [Events -> Nat]]
      /\ connections \in [Processes -> SUBSET Sockets]
  BY DEF IInv, TypeOK
<1>1. /\ listener[p].event # NoEvent /\ s \in connections[p] \ listener[p].done
      /\ UNCHANGED <<given, inbox, subscribed, seen, connections, alive, upsets>>
      /\ Sent(p, s) \/ (s \notin alive /\ listener' = Stale(p, s) /\ UNCHANGED received)
  BY DEF Send, socketVars
<1>2. PICK e \in Events : e = listener[p].event
  BY <1>t, <1>1 DEF Listener
<1>3. /\ listener' \in [Processes -> Listener]
      /\ listener'[p].event = e /\ listener'[p].done = listener[p].done \cup {s}
      /\ \A q \in Processes : q # p => listener'[q] = listener[q]
  <2> DEFINE sent == [listener[p] EXCEPT !.done = @ \cup {s}]
             stale == [sent EXCEPT !.stale = @ \cup {s}]
  <2>1. /\ sent \in Listener /\ sent.event = e
        /\ sent.done = listener[p].done \cup {s}
        /\ stale \in Listener /\ stale.event = e
        /\ stale.done = listener[p].done \cup {s}
    BY <1>t, <1>2 DEF Listener
  <2>2. \/ listener' = [listener EXCEPT ![p] = sent]
        \/ listener' = [listener EXCEPT ![p] = stale]
    BY <1>t, <1>1 DEF Sent, Stale
  <2> HIDE DEF sent, stale
  <2> QED BY <1>t, <2>1, <2>2
<1>4. received' \in [Sockets -> [Events -> Nat]]
  <2>1. received' = received \/ received' = [received EXCEPT ![s][e] = @ + 1]
    BY <1>1, <1>2 DEF Sent
  <2> QED BY <1>t, <2>1
<1>5. TypeOK'
  BY <1>1, <1>2, <1>3, <1>4, RealtimeAssumption DEF IInv, TypeOK, Events
<1>6. CASE received' = received
  BY <1>1, <1>2, <1>3, <1>5, <1>6, QuietStep
<1>7. CASE s \in alive /\ received' = [received EXCEPT ![s][e] = @ + 1]
  <2>1. received[s][e] = 0 /\ received'[s][e] = 1
    BY <1>t, <1>1, <1>2, <1>7 DEF IInv, NotYet
  <2>2. \A z \in Sockets, f \in Events :
          z # s \/ f # e => received'[z][f] = received[z][f]
    BY <1>t, <1>7
  <2>3. SeenFirst'
    BY <1>1, <1>2, <1>3, <2>2 DEF IInv, SeenFirst, Events
  <2>4. PlainOnce'
    <3>1. e \in Plain => given[e] > 0
      BY <1>2 DEF IInv, PlainOnce
    <3>2. \A q \in Processes : listener'[q].event = listener[q].event
      BY <1>2, <1>3
    <3>3. \A z \in Sockets, f \in Plain : received'[z][f] > 0 => given[f] > 0
      BY <3>1, <2>2 DEF IInv, PlainOnce, Events
    <3> QED BY <3>2, <3>3, <1>1 DEF IInv, PlainOnce, Waiting
  <2>5. NotYet'
    <3> SUFFICES ASSUME NEW q \in Processes, NEW z \in connections[q], NEW f \in Events,
                        \/ f \in Plain /\ Waiting(q, f)
                        \/ listener'[q].event = f /\ z \notin listener'[q].done
                 PROVE  received'[z][f] = 0
      BY <1>1 DEF NotYet, Waiting
    <3>1. z \in Sockets
      BY <1>t
    <3>2. CASE z = s
      <4>1. q = p
        BY <3>2, <1>1 DEF IInv, TypeOK
      <4>2. f # e
        BY <4>1, <3>2, <1>2, <1>3 DEF IInv, PlainOnce
      <4> QED BY <4>1, <4>2, <3>1, <1>2, <1>3, <2>2 DEF IInv, NotYet
    <3>3. CASE z # s
      BY <3>3, <3>1, <1>2, <1>3, <2>2 DEF IInv, NotYet
    <3> QED BY <3>2, <3>3
  <2>6. NobodyNothing'
    BY <1>1, <1>7, <2>2 DEF IInv, NobodyNothing
  <2>7. AtMostOncePerSocket'
    <3> SUFFICES ASSUME NEW z \in Sockets, NEW f \in Events
                 PROVE  received'[z][f] <= 1
      BY DEF AtMostOncePerSocket
    <3>1. CASE z = s /\ f = e
      BY <3>1, <2>1
    <3>2. CASE z # s \/ f # e
      BY <3>2, <2>2 DEF IInv, AtMostOncePerSocket
    <3> QED BY <3>1, <3>2
  <2> QED BY <1>5, <2>3, <2>4, <2>5, <2>6, <2>7 DEF IInv
<1> QED BY <1>1, <1>2, <1>6, <1>7 DEF Sent

LEMMA EndOfBroadcastStep ==
  ASSUME IInv, NEW p \in Processes, Abort(p) \/ Finish(p)
  PROVE  IInv'
<1>1. /\ UNCHANGED <<given, inbox, subscribed, seen, alive, received, upsets>>
      /\ connections' = connections
         \/ connections' = [connections EXCEPT ![p] = @ \ listener[p].stale]
      /\ listener' = [listener EXCEPT ![p] = Idle]
  BY DEF Abort, Finish, Over, socketVars
<1>2. /\ connections' \in [Processes -> SUBSET Sockets]
      /\ \A q \in Processes : connections'[q] \subseteq connections[q]
  BY <1>1 DEF IInv, TypeOK
<1>3. \A q, r \in Processes : q = r \/ connections'[q] \cap connections'[r] = {}
  BY <1>2 DEF IInv, TypeOK
<1>4. /\ listener' \in [Processes -> Listener] /\ listener'[p] = Idle
      /\ \A q \in Processes : q # p => listener'[q] = listener[q]
  BY <1>1, IdleType DEF IInv, TypeOK
<1>5. TypeOK'
  BY <1>1, <1>2, <1>3, <1>4 DEF IInv, TypeOK
<1> QED BY <1>1, <1>2, <1>4, <1>5, IdleType, QuietStep

-----------------------------------------------------------------------------
(* Sockets and processes *)

LEMMA MembersType ==
  ASSUME IInv, NEW p \in Processes, NEW S \in SUBSET Sockets, Members(p, S)
  PROVE  /\ connections' = [connections EXCEPT ![p] = S]
         /\ connections' \in [Processes -> SUBSET Sockets]
         /\ listener' \in [Processes -> Listener]
         /\ \A q \in Processes : /\ listener'[q].event = listener[q].event
                                 /\ listener'[q].done = listener[q].done
                                 /\ listener[q] = Idle => listener'[q] = Idle
<1>1. /\ listener \in [Processes -> Listener] /\ listener[p] \in Listener
      /\ connections \in [Processes -> SUBSET Sockets]
      /\ Cardinality(Sockets) \in Nat
  BY FS_CardinalityType, RealtimeAssumption DEF IInv, TypeOK
<1>2. CASE listener' = listener
  BY <1>1, <1>2 DEF Members
<1>3. CASE /\ listener[p].event # NoEvent
           /\ listener' = [listener EXCEPT ![p].moved = TRUE,
                                           ![p].size = IF S = {} THEN 0 ELSE @]
  <2> DEFINE size == IF S = {} THEN 0 ELSE listener[p].size
             me == [listener[p] EXCEPT !.moved = TRUE, !.size = size]
  <2>0. size \in 0..Cardinality(Sockets)
    BY <1>1 DEF Listener
  <2>1. /\ listener' = [listener EXCEPT ![p] = me]
        /\ me \in Listener /\ me.event = listener[p].event
        /\ me.done = listener[p].done
    <3>1. listener' = [listener EXCEPT ![p] = me]
      BY <1>1, <1>3
    <3> HIDE DEF size
    <3> QED BY <1>1, <2>0, <3>1 DEF Listener
  <2> HIDE DEF me
  <2>2. listener[p] # Idle
    BY <1>3, IdleType
  <2> QED BY <1>1, <1>3, <2>1, <2>2 DEF Members
<1> QED BY <1>2, <1>3 DEF Members

LEMMA ConnectStep ==
  ASSUME IInv, NEW p \in Processes, NEW s \in Sockets, Connect(p, s) \/ Disconnect(p, s)
  PROVE  IInv'
<1> DEFINE S == IF s \in connections[p] THEN connections[p] \ {s}
                ELSE connections[p] \cup {s}
<1>c. connections \in [Processes -> SUBSET Sockets]
  BY DEF IInv, TypeOK
<1>1. /\ Members(p, S) /\ s \notin alive
      /\ s \in connections[p] \/ \A q \in Processes : s \notin connections[q]
      /\ UNCHANGED <<given, inbox, subscribed, seen, received, upsets>>
      /\ alive \subseteq alive' /\ alive' \subseteq Sockets
  BY DEF Connect, Disconnect, IInv, TypeOK
<1>2. S \in SUBSET Sockets
  BY <1>c
<1>3. \A q \in Processes : q # p =>
         S \cap connections[q] = {} /\ connections[q] \cap S = {}
  BY <1>1 DEF IInv, TypeOK
<1>4. S \ connections[p] \subseteq {s}
  OBVIOUS
<1> HIDE DEF S
<1>5. /\ connections' = [connections EXCEPT ![p] = S]
      /\ connections' \in [Processes -> SUBSET Sockets]
      /\ listener' \in [Processes -> Listener]
      /\ \A q \in Processes : /\ listener'[q].event = listener[q].event
                              /\ listener'[q].done = listener[q].done
                              /\ listener[q] = Idle => listener'[q] = Idle
  BY <1>1, <1>2, MembersType
<1>6. \A q, r \in Processes : q = r \/ connections'[q] \cap connections'[r] = {}
  BY <1>c, <1>3, <1>5 DEF IInv, TypeOK
<1>7. \A q \in Processes : \A z \in connections'[q] :
         z \in connections[q] \/ z \notin alive
  BY <1>c, <1>1, <1>4, <1>5
<1>8. TypeOK'
  BY <1>1, <1>5, <1>6 DEF IInv, TypeOK
<1> QED BY <1>1, <1>5, <1>7, <1>8, QuietStep

LEMMA LeaveStep ==
  ASSUME IInv, NEW s \in Sockets, Leave(s)
  PROVE  IInv'
<1>1. /\ UNCHANGED <<given, inbox, subscribed, seen, connections, listener, upsets>>
      /\ alive' = alive \ {s} /\ received' = Forget({s})
  BY DEF Leave
<1>2. received' \in [Sockets -> [Events -> Nat]]
  BY <1>1 DEF IInv, TypeOK, Forget
<1>3. TypeOK'
  BY <1>1, <1>2 DEF IInv, TypeOK
<1>4. \A z \in Sockets : \/ \A e \in Events : received'[z][e] = 0
                         \/ received'[z] = received[z] /\ (z \in alive => z \in alive')
  BY <1>1 DEF Forget
<1> QED BY <1>1, <1>3, <1>4, QuietStep

LEMMA CrashStep ==
  ASSUME IInv, NEW p \in Processes, Crash(p)
  PROVE  IInv'
<1>1. /\ UNCHANGED <<given, seen>>
      /\ inbox' = [inbox EXCEPT ![p] = <<>>] /\ subscribed' = subscribed \ {p}
      /\ connections' = [connections EXCEPT ![p] = {}]
      /\ alive' = alive \ connections[p]
      /\ listener' = [listener EXCEPT ![p] = Idle]
      /\ received' = Forget(connections[p])
      /\ upsets' \in 0..MaxUpsets
  BY RealtimeAssumption DEF Crash, Upset, IInv, TypeOK
<1>2. received' \in [Sockets -> [Events -> Nat]]
  BY <1>1 DEF IInv, TypeOK, Forget
<1>3. /\ inbox' \in [Processes -> Seq(Events)]
      /\ \A q \in Processes : Suffix(q) \/ inbox'[q] = inbox[q]
  <2>1. inbox \in [Processes -> Seq(Events)] /\ inbox[p] \in Seq(Events)
    BY DEF IInv, TypeOK
  <2>2. inbox'[p] = <<>> /\ Len(inbox'[p]) = 0 /\ Len(inbox'[p]) <= Len(inbox[p])
    BY <1>1, <2>1
  <2>3. Suffix(p)
    BY <2>2 DEF Suffix
  <2> QED BY <1>1, <2>1, <2>2, <2>3
<1>4. /\ listener' \in [Processes -> Listener] /\ listener'[p] = Idle
      /\ \A q \in Processes : q # p => listener'[q] = listener[q]
  BY <1>1, IdleType DEF IInv, TypeOK
<1>5. /\ connections' \in [Processes -> SUBSET Sockets]
      /\ \A q \in Processes : connections'[q] \subseteq connections[q]
  BY <1>1 DEF IInv, TypeOK
<1>6. \A q, r \in Processes : q = r \/ connections'[q] \cap connections'[r] = {}
  BY <1>5 DEF IInv, TypeOK
<1>7. TypeOK'
  BY <1>1, <1>2, <1>3, <1>4, <1>5, <1>6 DEF IInv, TypeOK
<1>8. \A z \in Sockets : \/ \A e \in Events : received'[z][e] = 0
                         \/ received'[z] = received[z] /\ (z \in alive => z \in alive')
  BY <1>1 DEF Forget
<1> QED BY <1>1, <1>3, <1>4, <1>5, <1>7, <1>8, IdleType, QuietStep

-----------------------------------------------------------------------------
(* The theorems *)

LEMMA InitIInv == Init => IInv
<1> SUFFICES ASSUME Init PROVE IInv
  OBVIOUS
<1>1. TypeOK
  BY IdleType, RealtimeAssumption DEF Init, TypeOK
<1>2. \A p \in Processes : /\ listener[p].event = NoEvent /\ connections[p] = {}
                           /\ inbox[p] = <<>> /\ \A e : ~Waiting(p, e)
  BY IdleType DEF Init, Waiting
<1>3. SeenFirst /\ PlainOnce /\ NotYet /\ NobodyNothing /\ AtMostOncePerSocket
  BY <1>2, RealtimeAssumption
  DEF Init, SeenFirst, PlainOnce, NotYet, NobodyNothing, AtMostOncePerSocket, Events
<1> QED BY <1>1, <1>3 DEF IInv

LEMMA NextIInv == IInv /\ [Next]_vars => IInv'
<1> SUFFICES ASSUME IInv, [Next]_vars PROVE IInv'
  OBVIOUS
<1>1. ASSUME NEW p \in Processes, Subscribe(p) PROVE IInv'
  <2>1. /\ UNCHANGED <<given, inbox, seen, connections, alive, listener, received, upsets>>
        /\ subscribed' \subseteq Processes
    BY <1>1 DEF Subscribe, socketVars, IInv, TypeOK
  <2>2. TypeOK'
    BY <2>1 DEF IInv, TypeOK
  <2> QED BY <2>1, <2>2, QuietStep
<1>2. CASE UNCHANGED vars
  <2>1. TypeOK'
    BY <1>2 DEF vars, socketVars, IInv, TypeOK
  <2> QED BY <1>2, <2>1, QuietStep DEF vars, socketVars
<1> QED BY <1>1, <1>2, PublishStep, TakeStep, TakeFailsStep, DisconnectedStep,
           SendStep, EndOfBroadcastStep, ConnectStep, LeaveStep, CrashStep
        DEF Next, Listen

LEMMA IInvHolds == Spec => []IInv
  BY InitIInv, NextIInv, PTL DEF Spec

\* Connections, inboxes and listeners keep their types: a socket belongs to one
\* process, and a broadcast that is over leaves nothing behind.
THEOREM TypeCorrect == Spec => []TypeOK
<1>1. IInv => TypeOK
  BY DEF IInv
<1> QED BY <1>1, IInvHolds, PTL

\* The key in Redis and the connection sets: no browser gets an event twice, for
\* any number of processes, deliveries, reconnections and faults.
THEOREM NoEventTwice == Spec => []AtMostOncePerSocket
<1>1. IInv => AtMostOncePerSocket
  BY DEF IInv
<1> QED BY <1>1, IInvHolds, PTL
=============================================================================
