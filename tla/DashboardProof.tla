--------------------------- MODULE DashboardProof ---------------------------
(***************************************************************************)
(* The safety of the dashboard for any number of clients and tasks and any *)
(* sizes of the channels.                                                  *)
(***************************************************************************)
EXTENDS Dashboard, TLAPS

-----------------------------------------------------------------------------
(* Sequences.                                                              *)

LEMMA SeqMonotone ==
    ASSUME NEW S, NEW T, S \subseteq T, NEW s \in Seq(S) PROVE s \in Seq(T)
OBVIOUS

(* A non-blocking send keeps a channel within its buffer.                  *)
LEMMA PushType ==
    ASSUME NEW S, NEW q \in Seq(S), NEW x \in S, NEW b \in Nat, Len(q) <= b
    PROVE  Push(q, x, b) \in Seq(S) /\ Len(Push(q, x, b)) <= b
BY DEF Push

LEMMA TailType ==
    ASSUME NEW S, NEW q \in Seq(S), q # <<>>
    PROVE  Head(q) \in S /\ Tail(q) \in Seq(S) /\ Len(Tail(q)) = Len(q) - 1
OBVIOUS

LEMMA AppendType ==
    ASSUME NEW S, NEW q \in Seq(S), NEW x \in S
    PROVE  Append(q, x) \in Seq(S) /\ Len(Append(q, x)) = Len(q) + 1 /\ Append(q, x) # <<>>
<1>1. Append(q, x) \in Seq(S) /\ Len(Append(q, x)) = Len(q) + 1 /\ Len(q) \in Nat
  OBVIOUS
<1>2. ASSUME Append(q, x) = <<>> PROVE FALSE
  <2>1. Len(<<>>) = 0
    OBVIOUS
  <2> QED
    BY <1>1, <1>2, <2>1
<1> QED
  BY <1>1, <1>2

(* Forgetting the oldest event keeps the recent ones within their bound.   *)
LEMMA RollType ==
    ASSUME NEW S, NEW q \in Seq(S), NEW x \in S, NEW b \in Nat \ {0}, Len(q) <= b,
           NEW r, r = IF Len(Append(q, x)) > b THEN Tail(Append(q, x)) ELSE Append(q, x)
    PROVE  r \in Seq(S) /\ Len(r) <= b
<1>1. Len(q) \in Nat
  OBVIOUS
<1>2. Append(q, x) \in Seq(S) /\ Len(Append(q, x)) = Len(q) + 1 /\ Append(q, x) # <<>>
  BY AppendType
<1>3. Tail(Append(q, x)) \in Seq(S) /\ Len(Tail(Append(q, x))) = Len(Append(q, x)) - 1
  BY <1>2, TailType
<1> QED
  BY <1>1, <1>2, <1>3

(* An item that is new to a channel goes in once or is dropped.            *)
LEMMA PushOnce ==
    ASSUME NEW S, NEW q \in Seq(S), NEW x \in S, NEW b, NoRepeats(q), x \notin Items(q)
    PROVE  Items(Push(q, x, b)) \subseteq Items(q) \cup {x} /\ NoRepeats(Push(q, x, b))
BY DEF Push, Items, NoRepeats

(* The item that is taken out is not in what is left.                      *)
LEMMA TailOnce ==
    ASSUME NEW S, NEW q \in Seq(S), q # <<>>, NoRepeats(q)
    PROVE  /\ Head(q) \in Items(q) /\ Head(q) \notin Items(Tail(q))
           /\ Items(Tail(q)) \subseteq Items(q) /\ NoRepeats(Tail(q))
BY DEF Items, NoRepeats

LEMMA ItemsType ==
    ASSUME NEW S, NEW q \in Seq(S) PROVE Items(q) \subseteq S
BY DEF Items

-----------------------------------------------------------------------------
(* Types.                                                                  *)

LEMMA InitTypes == Init => TypeOK
<1> SUFFICES ASSUME Init PROVE TypeOK
  OBVIOUS
<1>1. EventTypes
  BY DashboardAssumption DEF Init, EventTypes
<1>2. UpdateTypes
  BY DashboardAssumption DEF Init, UpdateTypes, Nothing
<1>3. ServerTypes
  BY DEF Init, ServerTypes, Ended
<1> QED
  BY <1>1, <1>2, <1>3 DEF TypeOK

LEMMA EventTypesStep ==
    ASSUME TypeOK, [Next]_vars PROVE EventTypes'
<1> USE DEF TypeOK, EventTypes
<1>0. finished \in Nat
  BY DEF UpdateTypes
<1>1. CASE TaskFinishes
  BY <1>0, <1>1 DEF TaskFinishes, eventVars, feedVars
<1>2. CASE Announce
  <2> DEFINE n == announced + 1
  <2>1. announced' = n /\ n \in 0..finished' /\ 1..announced \subseteq 1..n /\ n \in 1..n
    BY <1>0, <1>2 DEF Announce
  <2>2. announcing' \subseteq 1..n
    BY <1>2, <2>1 DEF Announce
  <2>3. recentEvents \in Seq(1..n)
    BY <2>1, SeqMonotone
  <2>4. MaxRecentEvents \in Nat \ {0}
    BY DashboardAssumption
  <2>6. recentEvents' = IF Len(Append(recentEvents, n)) > MaxRecentEvents
                        THEN Tail(Append(recentEvents, n)) ELSE Append(recentEvents, n)
    BY <1>2 DEF Announce
  <2>7. recentEvents' \in Seq(1..n) /\ Len(recentEvents') <= MaxRecentEvents
    <3> HIDE DEF n
    <3> QED BY <2>1, <2>3, <2>4, <2>6, RollType
  <2>8. UNCHANGED feedVars
    BY <1>2 DEF Announce
  <2>9. /\ taskEvents \in Seq(1..n)
        /\ \A c \in Client : feed[c] \in Seq(1..n) /\ live[c] \subseteq 1..n
    <3>1. taskEvents \in Seq(1..n)
      BY <2>1, SeqMonotone
    <3>2. ASSUME NEW c \in Client PROVE feed[c] \in Seq(1..n) /\ live[c] \subseteq 1..n
      <4>1. feed[c] \in Seq(1..announced) /\ live[c] \subseteq 1..announced
        OBVIOUS
      <4> QED
        BY <4>1, <2>1, SeqMonotone
    <3> QED
      BY <3>1, <3>2
  <2>10. feed' \in [Client -> Seq(1..n)] /\ live' \in [Client -> SUBSET (1..n)]
    BY <2>8, <2>9 DEF feedVars
  <2> QED
    BY <2>1, <2>2, <2>7, <2>8, <2>9, <2>10 DEF feedVars
<1>3. ASSUME NEW e, SendEvent(e) PROVE EventTypes'
  <2>1. e \in 1..announced
    BY <1>3 DEF SendEvent
  <2>2. taskEvents' \in Seq(1..announced) /\ Len(taskEvents') <= TaskEventBuffer
    BY <1>3, <2>1, PushType, DashboardAssumption DEF SendEvent
  <2> QED
    BY <1>3, <2>2 DEF SendEvent
<1>4. ASSUME NEW c \in Client, SubscriberTakes(c) PROVE EventTypes'
  <2>1. /\ Head(taskEvents) \in 1..announced /\ Tail(taskEvents) \in Seq(1..announced)
        /\ Len(Tail(taskEvents)) <= TaskEventBuffer
    BY <1>4, TailType, DashboardAssumption DEF SubscriberTakes
  <2>2. /\ Push(feed[c], Head(taskEvents), FeedBuffer) \in Seq(1..announced)
        /\ Len(Push(feed[c], Head(taskEvents), FeedBuffer)) <= FeedBuffer
    <3>1. feed[c] \in Seq(1..announced) /\ Len(feed[c]) <= FeedBuffer /\ FeedBuffer \in Nat
      BY DashboardAssumption
    <3> QED
      BY <2>1, <3>1, PushType
  <2> QED
    BY <1>4, <2>1, <2>2 DEF SubscriberTakes, eventVars
<1>5. ASSUME NEW c \in Client, WriteEvent(c) PROVE EventTypes'
  <2>1. feed[c] \in Seq(1..announced) /\ feed[c] # <<>> /\ Len(feed[c]) <= FeedBuffer
    BY <1>5 DEF WriteEvent
  <2>2. /\ Head(feed[c]) \in 1..announced /\ Tail(feed[c]) \in Seq(1..announced)
        /\ Len(Tail(feed[c])) <= FeedBuffer
    BY <2>1, TailType, DashboardAssumption
  <2>3. UNCHANGED <<announced, finished, announcing, recentEvents, taskEvents, subscriber>>
    BY <1>5 DEF WriteEvent, HandlerStep, eventVars
  <2> QED
    BY <1>5, <2>2, <2>3 DEF WriteEvent
<1>6. ASSUME NEW c \in Client, HandlerReturns(c) PROVE EventTypes'
  <2>1. UNCHANGED <<announced, finished, announcing, recentEvents, taskEvents, subscriber, live>>
    BY <1>6 DEF HandlerReturns, HandlerStep, Forget, eventVars
  <2>2. feed' = [feed EXCEPT ![c] = <<>>]
    BY <1>6 DEF HandlerReturns, Forget
  <2> QED
    BY <2>1, <2>2, DashboardAssumption
<1>7. ASSUME NEW c \in Client, Replay(c) \/ SubscriberReturns(c) PROVE EventTypes'
  BY <1>7 DEF Replay, SubscriberReturns, HandlerStep, eventVars
<1>8. CASE UNCHANGED <<finished, eventVars, feedVars>>
  BY <1>8 DEF eventVars, feedVars
<1>9. ASSUME NEW c \in Client,
             Arrive(c) \/ Register(c) \/ Greet(c) \/ WriteUpdate(c) \/ Disconnect(c)
      PROVE  UNCHANGED <<finished, eventVars, feedVars>>
  BY <1>9 DEF Arrive, Register, Greet, WriteUpdate, Disconnect, HandlerStep
<1>10. ASSUME Start \/ Listen \/ Collect \/ SendUpdate \/ UpdaterReturns \/ TakeUpdate
               \/ Deliver \/ BroadcasterReturns
       PROVE  UNCHANGED <<finished, eventVars, feedVars>>
  BY <1>10 DEF Start, Listen, Collect, SendUpdate, UpdaterReturns, TakeUpdate, Deliver,
               BroadcasterReturns
<1>11. ASSUME CloseDone \/ StopServer
       PROVE  UNCHANGED <<finished, eventVars, feedVars>>
  BY <1>11 DEF CloseDone, StopServer, CloseConnections, Shutdown, ShutdownReturns, StopStep
<1>12. CASE UNCHANGED vars
  BY <1>8, <1>12 DEF vars
<1>13. ASSUME NEW c \in Client, ClientStep(c) PROVE EventTypes'
  BY <1>4, <1>5, <1>6, <1>7, <1>8, <1>9, <1>13 DEF ClientStep, SetupStep
<1> QED
  BY <1>1, <1>2, <1>3, <1>8, <1>10, <1>11, <1>12, <1>13
     DEF Next, ServerStep, ReporterStep, UpdaterStep, BroadcasterStep

LEMMA UpdateTypesStep ==
    ASSUME TypeOK, [Next]_vars PROVE UpdateTypes'
<1> USE DEF TypeOK, UpdateTypes, shownVars
<1>0. finished \in 0..finished /\ BroadcastBuffer \in Nat /\ SendBuffer \in Nat
  BY DashboardAssumption
<1>1. CASE TaskFinishes
  <2> DEFINE n == finished + 1
  <2>1. finished' = n /\ n \in Nat /\ 0..finished \subseteq 0..n
    BY <1>1 DEF TaskFinishes
  <2>2. UNCHANGED <<loopVars, broadcast, delivering, send, shownVars>>
    BY <1>1 DEF TaskFinishes
  <2>3. collected \in Seq(0..n) /\ broadcast \in Seq(0..n) /\ delivering \in Seq(0..n)
    BY <2>1, SeqMonotone
  <2>4. ASSUME NEW c \in Client
        PROVE  send[c] \in Seq(0..n) /\ shown[c] \in (0..n) \cup {Nothing}
    <3>1. send[c] \in Seq(0..finished) /\ shown[c] \in (0..finished) \cup {Nothing}
      OBVIOUS
    <3> QED
      BY <3>1, <2>1, SeqMonotone
  <2>5. send' \in [Client -> Seq(0..n)] /\ shown' \in [Client -> (0..n) \cup {Nothing}]
    BY <2>2, <2>4
  <2> QED
    BY <2>1, <2>2, <2>3, <2>5 DEF loopVars
<1>2. CASE Collect
  BY <1>0, <1>2 DEF Collect
<1>3. CASE SendUpdate
  <2>1. Head(collected) \in 0..finished
    BY <1>3, TailType DEF SendUpdate
  <2>2. broadcast' \in Seq(0..finished) /\ Len(broadcast') <= BroadcastBuffer
    BY <1>0, <1>3, <2>1, PushType DEF SendUpdate
  <2> QED
    BY <1>3, <2>2 DEF SendUpdate
<1>4. CASE TakeUpdate
  <2>1. /\ Head(broadcast) \in 0..finished /\ Tail(broadcast) \in Seq(0..finished)
        /\ Len(Tail(broadcast)) = Len(broadcast) - 1
    BY <1>4, TailType DEF TakeUpdate
  <2>2. Len(Tail(broadcast)) <= BroadcastBuffer
    BY <1>0, <2>1
  <2> QED
    BY <1>4, <2>1, <2>2 DEF TakeUpdate, loopVars
<1>5. CASE Deliver
  <2> DEFINE pushed(c) == Push(send[c], Head(delivering), SendBuffer)
  <2>1. Head(delivering) \in 0..finished
    BY <1>5, TailType DEF Deliver
  <2>2. ASSUME NEW c \in Client
        PROVE  pushed(c) \in Seq(0..finished) /\ Len(pushed(c)) <= SendBuffer
    <3>1. send[c] \in Seq(0..finished) /\ Len(send[c]) <= SendBuffer
      OBVIOUS
    <3> QED
      BY <1>0, <2>1, <3>1, PushType
  <2>3. send' = [c \in Client |-> IF c \in connections THEN pushed(c) ELSE send[c]]
    BY <1>5 DEF Deliver
  <2>4. send' \in [Client -> Seq(0..finished)] /\ \A c \in Client : Len(send'[c]) <= SendBuffer
    <3> HIDE DEF pushed
    <3> QED BY <2>2, <2>3
  <2>5. UNCHANGED <<finished, loopVars, broadcast, shownVars>> /\ delivering' = <<>>
    BY <1>5 DEF Deliver
  <2> QED
    BY <2>4, <2>5 DEF loopVars
<1>6. ASSUME Start \/ UpdaterReturns \/ BroadcasterReturns PROVE UpdateTypes'
  BY <1>6 DEF Start, UpdaterReturns, BroadcasterReturns
<1>7. ASSUME NEW c \in Client, Greet(c) PROVE UpdateTypes'
  <2>1. UNCHANGED <<finished, loopVars, broadcast, delivering, send>>
    BY <1>7 DEF Greet, HandlerStep
  <2>2. shown' \in [Client -> (0..finished) \cup {Nothing}] /\ greeted' \subseteq Client
    BY <1>0, <1>7 DEF Greet
  <2> QED
    BY <2>1, <2>2 DEF loopVars
<1>8. ASSUME NEW c \in Client, WriteUpdate(c) PROVE UpdateTypes'
  <2>1. UNCHANGED <<finished, loopVars, broadcast, delivering>>
    BY <1>8 DEF WriteUpdate, HandlerStep
  <2>2. CASE send[c] # <<>>
    <3>1. send[c] \in Seq(0..finished) /\ Len(send[c]) <= SendBuffer
      OBVIOUS
    <3>2. Head(send[c]) \in 0..finished /\ Tail(send[c]) \in Seq(0..finished)
          /\ Len(Tail(send[c])) <= SendBuffer
      BY <1>0, <2>2, <3>1, TailType
    <3>3. /\ shown' = [shown EXCEPT ![c] = Head(send[c])] /\ greeted' = greeted \ {c}
          /\ send' = [send EXCEPT ![c] = Tail(send[c])]
      BY <1>8, <2>2 DEF WriteUpdate
    <3> QED
      BY <2>1, <3>2, <3>3 DEF loopVars
  <2>3. CASE send[c] = <<>>
    <3>1. shown' = [shown EXCEPT ![c] = Nothing] /\ greeted' = greeted \ {c} /\ send' = send
      BY <1>8, <2>3 DEF WriteUpdate
    <3> QED
      BY <2>1, <3>1 DEF loopVars
  <2> QED
    BY <2>2, <2>3
<1>9. ASSUME NEW c \in Client, HandlerReturns(c) PROVE UpdateTypes'
  <2>1. /\ UNCHANGED <<finished, loopVars, broadcast, delivering>>
        /\ send' = [send EXCEPT ![c] = <<>>] /\ shown' = [shown EXCEPT ![c] = Nothing]
        /\ greeted' = greeted \ {c}
    BY <1>9 DEF HandlerReturns, HandlerStep, Forget
  <2> QED
    BY <1>0, <2>1 DEF loopVars
<1>10. CASE UNCHANGED <<finished, loopVars, broadcast, delivering, send, shownVars>>
  BY <1>10 DEF loopVars
<1>11. ASSUME NEW c \in Client,
              Arrive(c) \/ Register(c) \/ Replay(c) \/ WriteEvent(c) \/ Disconnect(c)
                \/ SubscriberTakes(c) \/ SubscriberReturns(c)
       PROVE  UNCHANGED <<finished, loopVars, broadcast, delivering, send, shownVars>>
  BY <1>11 DEF Arrive, Register, Replay, WriteEvent, Disconnect, SubscriberTakes,
               SubscriberReturns, HandlerStep
<1>12. ASSUME Listen \/ Announce \/ CloseDone \/ StopServer
       PROVE  UNCHANGED <<finished, loopVars, broadcast, delivering, send, shownVars>>
  BY <1>12 DEF Listen, Announce, CloseDone, StopServer, CloseConnections, Shutdown,
               ShutdownReturns, StopStep
<1>13. ASSUME NEW e, SendEvent(e)
       PROVE  UNCHANGED <<finished, loopVars, broadcast, delivering, send, shownVars>>
  BY <1>13 DEF SendEvent
<1>14. CASE UNCHANGED vars
  BY <1>10, <1>14 DEF vars
<1>15. ASSUME NEW c \in Client, ClientStep(c) PROVE UpdateTypes'
  BY <1>7, <1>8, <1>9, <1>10, <1>11, <1>15 DEF ClientStep, SetupStep
<1> QED
  BY <1>1, <1>2, <1>3, <1>4, <1>5, <1>6, <1>10, <1>12, <1>13, <1>14, <1>15
     DEF Next, ServerStep, ReporterStep, UpdaterStep, BroadcasterStep

LEMMA ServerTypesStep ==
    ASSUME TypeOK, [Next]_vars PROVE ServerTypes'
<1> USE DEF TypeOK, ServerTypes, Ended
<1>1. CASE UNCHANGED <<server, muVars, handler, ctxDone, stop>>
  BY <1>1 DEF muVars
<1>2. ASSUME Start \/ Listen PROVE ServerTypes'
  BY <1>2 DEF Start, Listen, muVars
<1>3. ASSUME NEW c \in Client, HandlerReturns(c) PROVE ServerTypes'
  BY <1>3 DEF HandlerReturns, HandlerStep
<1>4. ASSUME NEW c \in Client, Register(c) \/ Disconnect(c) PROVE ServerTypes'
  BY <1>4 DEF Register, Disconnect, HandlerStep, muVars
<1>5. ASSUME NEW c \in Client,
             Arrive(c) \/ Greet(c) \/ Replay(c) \/ WriteUpdate(c) \/ WriteEvent(c)
      PROVE  ServerTypes'
  BY <1>5 DEF Arrive, Greet, Replay, WriteUpdate, WriteEvent, HandlerStep, muVars
<1>6. ASSUME NEW c \in Client, SubscriberTakes(c) \/ SubscriberReturns(c)
      PROVE  UNCHANGED <<server, muVars, handler, ctxDone, stop>>
  BY <1>6 DEF SubscriberTakes, SubscriberReturns
<1>7. ASSUME CloseDone \/ StopServer PROVE ServerTypes'
  BY <1>7 DEF CloseDone, StopServer, CloseConnections, Shutdown, ShutdownReturns, StopStep, muVars
<1>8. ASSUME TaskFinishes \/ Announce \/ Collect \/ SendUpdate \/ UpdaterReturns \/ TakeUpdate
              \/ Deliver \/ BroadcasterReturns
      PROVE  UNCHANGED <<server, muVars, handler, ctxDone, stop>>
  BY <1>8 DEF TaskFinishes, Announce, Collect, SendUpdate, UpdaterReturns, TakeUpdate, Deliver,
              BroadcasterReturns
<1>9. ASSUME NEW e, SendEvent(e) PROVE UNCHANGED <<server, muVars, handler, ctxDone, stop>>
  BY <1>9 DEF SendEvent
<1>10. CASE UNCHANGED vars
  BY <1>1, <1>10 DEF vars
<1>11. ASSUME NEW c \in Client, ClientStep(c) PROVE ServerTypes'
  BY <1>1, <1>3, <1>4, <1>5, <1>6, <1>11 DEF ClientStep, SetupStep
<1> QED
  BY <1>1, <1>2, <1>7, <1>8, <1>9, <1>10, <1>11
     DEF Next, ServerStep, ReporterStep, UpdaterStep, BroadcasterStep

(* Whatever the clients, the loops and Stop do, no channel of the dashboard*)
(* exceeds its buffer and nothing it holds is newer than the metrics.      *)
THEOREM DashboardTypes == Spec => []TypeOK
<1>1. TypeOK /\ [Next]_vars => TypeOK'
  BY EventTypesStep, UpdateTypesStep, ServerTypesStep DEF TypeOK
<1> QED
  BY InitTypes, <1>1, PTL DEF Spec

-----------------------------------------------------------------------------
(* Connections. A channel is only closed after its handler has registered  *)
(* it, and by then either the handler has ended or Stop has cleared the    *)
(* map.                                                                    *)

ClosedWhenDone ==
    \A c \in closedSend : handler[c] \in {"returned", "panicked"} \/ stop \notin {"no", "done"}

Closing ==
    /\ \A c \in connections \cup closedSend : handler[c] \notin {"none", "register"}
    /\ ClosedWhenDone /\ NoSendOnClosed /\ NoPanicWhileServing

LEMMA ClosingStep ==
    ASSUME TypeOK, Closing, [Next]_vars PROVE Closing'
<1> USE DEF TypeOK, ServerTypes, Closing, ClosedWhenDone, NoSendOnClosed, NoPanicWhileServing
<1>1. CASE UNCHANGED <<muVars, handler, stop>>
  BY <1>1 DEF muVars
<1>2. ASSUME NEW c \in Client, HandlerReturns(c) PROVE Closing'
  <2>1. /\ handler[c] = "loop" /\ ~locked /\ stop' = stop
        /\ handler' = [handler EXCEPT ![c] = IF c \in closedSend THEN "panicked" ELSE "returned"]
        /\ connections' = connections \ {c} /\ closedSend' = closedSend \cup {c}
        /\ locked' = (c \in closedSend)
    BY <1>2 DEF HandlerReturns, HandlerStep
  <2>2. c \in closedSend => stop \notin {"no", "done"}
    BY <2>1
  <2> QED
    BY <2>1, <2>2
<1>3. ASSUME NEW c \in Client,
             Arrive(c) \/ Register(c) \/ Greet(c) \/ Replay(c) \/ WriteUpdate(c) \/ WriteEvent(c)
      PROVE  Closing'
  <2>1. UNCHANGED <<closedSend, locked, stop>>
    BY <1>3 DEF Arrive, Register, Greet, Replay, WriteUpdate, WriteEvent, HandlerStep, muVars
  <2>2. CASE Arrive(c)
    BY <2>1, <2>2 DEF Arrive, HandlerStep, muVars
  <2>3. CASE Register(c)
    BY <2>1, <2>3 DEF Register, HandlerStep
  <2>4. CASE Greet(c)
    BY <2>1, <2>4 DEF Greet, HandlerStep, muVars
  <2>5. CASE Replay(c)
    BY <2>1, <2>5 DEF Replay, HandlerStep, muVars
  <2>6. CASE WriteUpdate(c)
    BY <2>1, <2>6 DEF WriteUpdate, HandlerStep, muVars
  <2>7. CASE WriteEvent(c)
    BY <2>1, <2>7 DEF WriteEvent, HandlerStep, muVars
  <2> QED
    BY <1>3, <2>2, <2>3, <2>4, <2>5, <2>6, <2>7
<1>4. ASSUME NEW c \in Client, Disconnect(c) \/ SubscriberTakes(c) \/ SubscriberReturns(c)
      PROVE  UNCHANGED <<muVars, handler, stop>>
  BY <1>4 DEF Disconnect, SubscriberTakes, SubscriberReturns
<1>5. CASE CloseDone
  BY <1>5 DEF CloseDone, StopStep, muVars
<1>6. CASE StopServer
  BY <1>6 DEF StopServer, CloseConnections, Shutdown, ShutdownReturns, StopStep, muVars
<1>7. ASSUME Start \/ Listen \/ TaskFinishes \/ Announce \/ Collect \/ SendUpdate
              \/ UpdaterReturns \/ TakeUpdate \/ Deliver \/ BroadcasterReturns
      PROVE  UNCHANGED <<muVars, handler, stop>>
  BY <1>7 DEF Start, Listen, TaskFinishes, Announce, Collect, SendUpdate, UpdaterReturns,
              TakeUpdate, Deliver, BroadcasterReturns
<1>8. ASSUME NEW e, SendEvent(e) PROVE UNCHANGED <<muVars, handler, stop>>
  BY <1>8 DEF SendEvent
<1>9. CASE UNCHANGED vars
  BY <1>1, <1>9 DEF vars
<1>10. ASSUME NEW c \in Client, ClientStep(c) PROVE Closing'
  BY <1>1, <1>2, <1>3, <1>4, <1>10 DEF ClientStep, SetupStep
<1> QED
  BY <1>1, <1>5, <1>6, <1>7, <1>8, <1>9, <1>10
     DEF Next, ServerStep, ReporterStep, UpdaterStep, BroadcasterStep

LEMMA ClosingHolds == Spec => []Closing
<1>1. Init => Closing
  BY DEF Init, Closing, ClosedWhenDone, NoSendOnClosed, NoPanicWhileServing
<1>2. TypeOK /\ Closing /\ [Next]_vars => Closing'
  BY ClosingStep
<1> QED
  BY <1>1, <1>2, DashboardTypes, PTL DEF Spec

(* The broadcaster never sends on a closed channel and Stop never closes   *)
(* one twice, whenever clients come and go.                                *)
THEOREM NoSendOnClosedHolds == Spec => []NoSendOnClosed
<1>1. Closing => NoSendOnClosed
  BY DEF Closing
<1> QED
  BY <1>1, ClosingHolds, PTL

(* As long as Stop has not cleared the map, no handler panics and mu is    *)
(* never left locked.                                                      *)
THEOREM NoPanicHolds == Spec => []NoPanicWhileServing
<1>1. Closing => NoPanicWhileServing
  BY DEF Closing
<1> QED
  BY <1>1, ClosingHolds, PTL

-----------------------------------------------------------------------------
(* Events.                                                                 *)

LEMMA EventsOnceStep ==
    ASSUME TypeOK, EventsOnce, [Next]_vars PROVE EventsOnce'
<1> USE DEF EventsOnce, Taken
<1>1. CASE UNCHANGED <<announcing, taskEvents, feed, live>>
  BY <1>1
<1>2. CASE Announce
  <2> DEFINE n == announced + 1
  <2>1. announcing' = announcing \cup {n} /\ UNCHANGED <<taskEvents, feed, live>>
    BY <1>2 DEF Announce, feedVars
  <2>2. n \notin 1..announced
    BY DEF TypeOK, EventTypes, UpdateTypes
  <2>3. n \notin Items(taskEvents)
    BY <2>2, ItemsType DEF TypeOK, EventTypes
  <2>4. ASSUME NEW c \in Client PROVE n \notin Taken(c)
    <3>1. feed[c] \in Seq(1..announced) /\ live[c] \subseteq 1..announced
      BY DEF TypeOK, EventTypes
    <3>2. Items(feed[c]) \subseteq 1..announced
      BY <3>1, ItemsType
    <3> QED
      BY <2>2, <3>1, <3>2
  <2> HIDE DEF n
  <2> QED
    BY <2>1, <2>3, <2>4
<1>3. ASSUME NEW e, SendEvent(e) PROVE EventsOnce'
  <2>1. /\ e \in announcing /\ announcing' = announcing \ {e} /\ UNCHANGED <<feed, live>>
        /\ taskEvents' = Push(taskEvents, e, TaskEventBuffer)
    BY <1>3 DEF SendEvent
  <2>2. taskEvents \in Seq(1..announced) /\ e \in 1..announced
    BY <2>1 DEF TypeOK, EventTypes
  <2>3. e \notin Items(taskEvents) /\ NoRepeats(taskEvents)
    BY <2>1
  <2>4. Items(taskEvents') \subseteq Items(taskEvents) \cup {e} /\ NoRepeats(taskEvents')
    BY <2>1, <2>2, <2>3, PushOnce
  <2>5. announcing' \cup Items(taskEvents') \subseteq announcing \cup Items(taskEvents)
    BY <2>1, <2>4
  <2>6. Items(taskEvents') \cap announcing' = {}
    BY <2>1, <2>4
  <2> QED
    BY <2>1, <2>4, <2>5, <2>6
<1>4. ASSUME NEW c \in Client, SubscriberTakes(c) PROVE EventsOnce'
  <2> DEFINE e == Head(taskEvents)
             f == Push(feed[c], e, FeedBuffer)
  <2>1. /\ taskEvents # <<>> /\ taskEvents' = Tail(taskEvents)
        /\ feed' = [feed EXCEPT ![c] = f] /\ UNCHANGED <<announcing, live>>
    BY <1>4 DEF SubscriberTakes, eventVars
  <2>2. taskEvents \in Seq(1..announced) /\ feed \in [Client -> Seq(1..announced)]
    BY DEF TypeOK, EventTypes
  <2>3. /\ e \in Items(taskEvents) /\ e \notin Items(taskEvents')
        /\ Items(taskEvents') \subseteq Items(taskEvents) /\ NoRepeats(taskEvents')
    BY <2>1, <2>2, TailOnce
  <2>4. e \in 1..announced
    BY <2>1, <2>2, TailType
  <2>5. e \notin announcing /\ \A d \in Client : e \notin Taken(d)
    BY <2>3
  <2>6. Items(f) \subseteq Items(feed[c]) \cup {e} /\ NoRepeats(f)
    <3>1. feed[c] \in Seq(1..announced) /\ NoRepeats(feed[c]) /\ e \notin Items(feed[c])
      BY <2>2, <2>5
    <3> HIDE DEF e
    <3> QED BY <2>4, <3>1, PushOnce
  <2> HIDE DEF e, f
  <2>7. feed'[c] = f /\ \A d \in Client \ {c} : feed'[d] = feed[d]
    BY <2>1, <2>2
  <2>8. NoRepeats(taskEvents') /\ Items(taskEvents') \cap announcing' = {}
    BY <2>1, <2>3
  <2>9. ASSUME NEW d \in Client
        PROVE  /\ NoRepeats(feed'[d]) /\ Items(feed'[d]) \cap live'[d] = {}
               /\ Taken(d)' \subseteq Taken(d) \cup {e} /\ (d # c => Taken(d)' = Taken(d))
    BY <2>1, <2>5, <2>6, <2>7
  <2>10. ASSUME NEW d \in Client
         PROVE  Taken(d)' \cap (announcing' \cup Items(taskEvents')) = {}
    BY <2>1, <2>3, <2>5, <2>9
  <2>11. ASSUME NEW d \in Client, NEW b \in Client \ {d} PROVE Taken(d)' \cap Taken(b)' = {}
    BY <2>5, <2>9
  <2> QED
    BY <2>8, <2>9, <2>10, <2>11
<1>5. ASSUME NEW c \in Client, WriteEvent(c) PROVE EventsOnce'
  <2> DEFINE e == Head(feed[c])
             f == Tail(feed[c])
  <2>1. /\ feed[c] # <<>> /\ UNCHANGED <<announcing, taskEvents>>
        /\ feed' = [feed EXCEPT ![c] = f] /\ live' = [live EXCEPT ![c] = live[c] \cup {e}]
    BY <1>5 DEF WriteEvent, HandlerStep, eventVars
  <2>2. feed \in [Client -> Seq(1..announced)] /\ live \in [Client -> SUBSET (1..announced)]
    BY DEF TypeOK, EventTypes
  <2>3. /\ e \in Items(feed[c]) /\ e \notin Items(f)
        /\ Items(f) \subseteq Items(feed[c]) /\ NoRepeats(f)
    <3>1. feed[c] \in Seq(1..announced) /\ NoRepeats(feed[c])
      BY <2>2
    <3> QED
      BY <2>1, <3>1, TailOnce
  <2> HIDE DEF e, f
  <2>4. /\ feed'[c] = f /\ live'[c] = live[c] \cup {e}
        /\ \A d \in Client \ {c} : feed'[d] = feed[d] /\ live'[d] = live[d]
    BY <2>1, <2>2
  <2>5. ASSUME NEW d \in Client
        PROVE  /\ NoRepeats(feed'[d]) /\ Items(feed'[d]) \cap live'[d] = {}
               /\ Taken(d)' \subseteq Taken(d)
    BY <2>3, <2>4
  <2> QED
    BY <2>1, <2>5
<1>6. ASSUME NEW c \in Client, HandlerReturns(c) PROVE EventsOnce'
  <2>1. UNCHANGED <<announcing, taskEvents, live>> /\ feed' = [feed EXCEPT ![c] = <<>>]
    BY <1>6 DEF HandlerReturns, HandlerStep, Forget, eventVars
  <2>2. feed \in [Client -> Seq(1..announced)]
    BY DEF TypeOK, EventTypes
  <2>3. Items(<<>>) = {} /\ NoRepeats(<<>>)
    BY DEF Items, NoRepeats
  <2>4. ASSUME NEW d \in Client
        PROVE  /\ NoRepeats(feed'[d]) /\ Items(feed'[d]) \cap live'[d] = {}
               /\ Taken(d)' \subseteq Taken(d)
    BY <2>1, <2>2, <2>3
  <2> QED
    BY <2>1, <2>4
<1>7. ASSUME NEW c \in Client,
             Arrive(c) \/ Register(c) \/ Greet(c) \/ Replay(c) \/ WriteUpdate(c)
               \/ Disconnect(c) \/ SubscriberReturns(c)
      PROVE  UNCHANGED <<announcing, taskEvents, feed, live>>
  BY <1>7 DEF Arrive, Register, Greet, Replay, WriteUpdate, Disconnect, SubscriberReturns,
              HandlerStep, eventVars, feedVars
<1>8. ASSUME Start \/ Listen \/ TaskFinishes \/ Collect \/ SendUpdate \/ UpdaterReturns
              \/ TakeUpdate \/ Deliver \/ BroadcasterReturns
      PROVE  UNCHANGED <<announcing, taskEvents, feed, live>>
  BY <1>8 DEF Start, Listen, TaskFinishes, Collect, SendUpdate, UpdaterReturns, TakeUpdate,
              Deliver, BroadcasterReturns, eventVars, feedVars
<1>9. ASSUME CloseDone \/ StopServer PROVE UNCHANGED <<announcing, taskEvents, feed, live>>
  BY <1>9 DEF CloseDone, StopServer, CloseConnections, Shutdown, ShutdownReturns, StopStep,
              eventVars, feedVars
<1>10. CASE UNCHANGED vars
  BY <1>1, <1>10 DEF vars, eventVars, feedVars
<1>11. ASSUME NEW c \in Client, ClientStep(c) PROVE EventsOnce'
  BY <1>1, <1>4, <1>5, <1>6, <1>7, <1>11 DEF ClientStep, SetupStep
<1> QED
  BY <1>1, <1>2, <1>3, <1>8, <1>9, <1>10, <1>11
     DEF Next, ServerStep, ReporterStep, UpdaterStep, BroadcasterStep

(* However many connections read the one channel of events, an event is    *)
(* shown live at most once and by one of them: of two connected clients one*)
(* never gets it, although the comments of BroadcastTaskEvent say that it  *)
(* goes to all.                                                            *)
THEOREM EventsOnceHolds == Spec => []EventsOnce
<1>1. Init => EventsOnce
  BY DEF Init, EventsOnce, Taken, Items, NoRepeats
<1>2. TypeOK /\ EventsOnce /\ [Next]_vars => EventsOnce'
  BY EventsOnceStep
<1> QED
  BY <1>1, <1>2, DashboardTypes, PTL DEF Spec

-----------------------------------------------------------------------------
(* Updates.                                                                *)

Below(s, t) == \A x \in Items(s), y \in Items(t) : x <= y

LEMMA ConcatType ==
    ASSUME NEW s \in Seq(Int), NEW t \in Seq(Int)
    PROVE  /\ s \o t \in Seq(Int) /\ Items(s \o t) = Items(s) \cup Items(t)
           /\ NonDecreasing(s \o t) <=> NonDecreasing(s) /\ NonDecreasing(t) /\ Below(s, t)
<1> DEFINE u == s \o t
<1>1. /\ u \in Seq(Int) /\ Len(u) = Len(s) + Len(t) /\ Len(s) \in Nat /\ Len(t) \in Nat
      /\ \A i \in 1..Len(s) : u[i] = s[i]
      /\ \A i \in 1..Len(t) : u[Len(s) + i] = t[i]
  OBVIOUS
<1>2. DOMAIN u = 1..Len(u) /\ DOMAIN s = 1..Len(s) /\ DOMAIN t = 1..Len(t)
  BY <1>1
<1> HIDE DEF u
<1>3. /\ \A i \in DOMAIN s : i \in DOMAIN u /\ u[i] = s[i]
      /\ \A i \in DOMAIN t : Len(s) + i \in DOMAIN u /\ u[Len(s) + i] = t[i]
      /\ \A k \in DOMAIN u : k \in DOMAIN s \/ (k > Len(s) /\ \E i \in DOMAIN t : k = Len(s) + i)
  <2>1. ASSUME NEW k \in DOMAIN u, k \notin DOMAIN s
        PROVE  k > Len(s) /\ \E i \in DOMAIN t : k = Len(s) + i
    <3>1. k - Len(s) \in DOMAIN t /\ k = Len(s) + (k - Len(s)) /\ k > Len(s)
      BY <1>1, <1>2, <2>1
    <3> QED
      BY <3>1
  <2> QED
    BY <1>1, <1>2, <2>1
<1>4. Items(u) = Items(s) \cup Items(t)
  BY <1>3 DEF Items
<1>5. ASSUME NonDecreasing(u) PROVE NonDecreasing(s) /\ NonDecreasing(t) /\ Below(s, t)
  <2>1. NonDecreasing(s)
    BY <1>3, <1>5 DEF NonDecreasing
  <2>2. ASSUME NEW i \in DOMAIN t, NEW j \in DOMAIN t, i < j PROVE t[i] <= t[j]
    <3>1. Len(s) + i < Len(s) + j
      BY <1>1, <1>2, <2>2
    <3> QED
      BY <1>3, <1>5, <3>1 DEF NonDecreasing
  <2>3. ASSUME NEW i \in DOMAIN s, NEW j \in DOMAIN t PROVE s[i] <= t[j]
    <3>1. i < Len(s) + j
      BY <1>1, <1>2
    <3> QED
      BY <1>3, <1>5, <3>1 DEF NonDecreasing
  <2> QED
    BY <2>1, <2>2, <2>3 DEF NonDecreasing, Below, Items
<1>6. ASSUME NonDecreasing(s), NonDecreasing(t), Below(s, t),
             NEW i \in DOMAIN u, NEW j \in DOMAIN u, i < j
      PROVE  u[i] <= u[j]
  <2>1. CASE i \in DOMAIN s /\ j \in DOMAIN s
    BY <1>3, <1>6, <2>1 DEF NonDecreasing
  <2>2. CASE i \in DOMAIN s /\ j \notin DOMAIN s
    BY <1>3, <1>6, <2>2 DEF Below, Items
  <2>3. CASE i \notin DOMAIN s
    <3>1. PICK k \in DOMAIN t : i = Len(s) + k
      BY <1>3, <2>3
    <3>2. j \notin DOMAIN s
      BY <1>1, <1>2, <1>6, <3>1
    <3>3. PICK l \in DOMAIN t : j = Len(s) + l
      BY <1>3, <3>2
    <3>4. k < l
      BY <1>1, <1>2, <1>6, <3>1, <3>3
    <3> QED
      BY <1>3, <1>6, <3>1, <3>3, <3>4 DEF NonDecreasing
  <2> QED
    BY <2>1, <2>2, <2>3
<1>7. NonDecreasing(s) /\ NonDecreasing(t) /\ Below(s, t) => NonDecreasing(u)
  BY <1>6 DEF NonDecreasing
<1> QED
  BY <1>1, <1>4, <1>5, <1>7 DEF u

LEMMA SingleType ==
    ASSUME NEW x \in Int
    PROVE  <<x>> \in Seq(Int) /\ Items(<<x>>) = {x} /\ NonDecreasing(<<x>>)
BY DEF Items, NonDecreasing

LEMMA EmptyType == Items(<<>>) = {} /\ NonDecreasing(<<>>)
BY DEF Items, NonDecreasing

LEMMA PushOrder ==
    ASSUME NEW q \in Seq(Int), NEW x \in Int, NEW b
    PROVE  /\ Items(Push(q, x, b)) \subseteq Items(q) \cup {x}
           /\ NonDecreasing(q) /\ (\A y \in Items(q) : y <= x) => NonDecreasing(Push(q, x, b))
<1>1. Items(Append(q, x)) \subseteq Items(q) \cup {x}
  BY DEF Items
<1>2. ASSUME NonDecreasing(q), \A y \in Items(q) : y <= x PROVE NonDecreasing(Append(q, x))
  BY <1>2 DEF Items, NonDecreasing
<1> QED
  BY <1>1, <1>2 DEF Push

LEMMA TailOrder ==
    ASSUME NEW q \in Seq(Int), q # <<>>, NonDecreasing(q)
    PROVE  /\ Head(q) \in Items(q) /\ Items(Tail(q)) \subseteq Items(q)
           /\ NonDecreasing(Tail(q)) /\ \A y \in Items(Tail(q)) : Head(q) <= y
BY DEF Items, NonDecreasing

(* The order along the pipeline, stage by stage.                           *)
LoopsInOrder ==
    /\ NonDecreasing(delivering) /\ NonDecreasing(broadcast) /\ NonDecreasing(collected)
    /\ Below(delivering, broadcast) /\ Below(delivering, collected) /\ Below(broadcast, collected)
ClientInOrder(c) ==
    /\ NonDecreasing(send[c])
    /\ Below(send[c], delivering) /\ Below(send[c], broadcast) /\ Below(send[c], collected)
StagesInOrder == LoopsInOrder /\ \A c \in Client : ClientInOrder(c)

LEMMA NatTypes ==
    ASSUME TypeOK
    PROVE  /\ finished \in Nat
           /\ collected \in Seq(Int) /\ broadcast \in Seq(Int) /\ delivering \in Seq(Int)
           /\ \A c \in Client : send[c] \in Seq(Int)
           /\ \A x \in Items(collected) \cup Items(broadcast) \cup Items(delivering) : x <= finished
           /\ \A c \in Client : \A x \in Items(send[c]) : x <= finished
           /\ \A c \in Client : shown[c] \in Int /\ shown[c] <= finished
<1> USE DEF TypeOK, UpdateTypes
<1>1. finished \in Nat /\ 0..finished \subseteq Int /\ \A x \in 0..finished : x <= finished
  OBVIOUS
<1>2. ASSUME NEW q \in Seq(0..finished)
      PROVE  q \in Seq(Int) /\ \A x \in Items(q) : x <= finished
  BY <1>1, SeqMonotone, ItemsType
<1>3. \A c \in Client : send[c] \in Seq(0..finished)
  OBVIOUS
<1>4. \A c \in Client : shown[c] \in Int /\ shown[c] <= finished
  BY DEF Nothing
<1> QED
  BY <1>1, <1>2, <1>3, <1>4

(* What a client was shown last is not newer than what is under way to it. *)
Ahead(c) == Items(send[c]) \cup Items(delivering) \cup Items(broadcast) \cup Items(collected)
SeenInOrder == \A c \in Client \ greeted : \A y \in Ahead(c) : shown[c] <= y

LEMMA SeenType ==
    ASSUME TypeOK, NEW c \in Client
    PROVE  /\ Seen(c) \in Seq(Int) /\ NonDecreasing(Seen(c))
           /\ \A x \in Items(Seen(c)) : c \notin greeted /\ x = shown[c]
<1>1. shown[c] \in Int
  BY NatTypes
<1>2. CASE c \in greeted
  BY <1>2, EmptyType DEF Seen
<1>3. CASE c \notin greeted
  BY <1>1, <1>3, SingleType DEF Seen
<1> QED
  BY <1>2, <1>3

LEMMA StagesMakePipeline == ASSUME TypeOK, StagesInOrder, SeenInOrder PROVE PipelineInOrder
<1> SUFFICES ASSUME NEW c \in Client
             PROVE  NonDecreasing(Seen(c) \o send[c] \o delivering \o broadcast \o collected
                                  \o <<finished>>)
  BY DEF PipelineInOrder
<1> DEFINE s0 == Seen(c) \o send[c]
           s1 == s0 \o delivering
           s2 == s1 \o broadcast
           s3 == s2 \o collected
<1>0. /\ LoopsInOrder /\ ClientInOrder(c)
      /\ \A x \in Items(Seen(c)) : \A y \in Ahead(c) : x <= y
  BY SeenType DEF StagesInOrder, SeenInOrder
<1> USE <1>0 DEF LoopsInOrder, ClientInOrder, Ahead
<1>a. Below(Seen(c), send[c])
  BY DEF Below
<1>b. /\ s0 \in Seq(Int) /\ Items(s0) = Items(Seen(c)) \cup Items(send[c]) /\ NonDecreasing(s0)
  BY <1>a, NatTypes, SeenType, ConcatType
<1> HIDE DEF s0
<1>c. Below(s0, delivering) /\ Below(s0, broadcast) /\ Below(s0, collected)
  BY <1>b DEF Below
<1>1. /\ s1 \in Seq(Int) /\ Items(s1) = Items(s0) \cup Items(delivering) /\ NonDecreasing(s1)
  BY <1>b, <1>c, NatTypes, ConcatType
<1> HIDE DEF s1
<1>2. Below(s1, broadcast) /\ Below(s1, collected)
  BY <1>1, <1>c DEF Below
<1>3. s2 \in Seq(Int) /\ Items(s2) = Items(s1) \cup Items(broadcast) /\ NonDecreasing(s2)
  BY <1>1, <1>2, NatTypes, ConcatType
<1> HIDE DEF s2
<1>4. Below(s2, collected)
  BY <1>2, <1>3 DEF Below
<1>5. s3 \in Seq(Int) /\ Items(s3) = Items(s2) \cup Items(collected) /\ NonDecreasing(s3)
  BY <1>3, <1>4, NatTypes, ConcatType
<1> HIDE DEF s3
<1>6. /\ <<finished>> \in Seq(Int) /\ NonDecreasing(<<finished>>) /\ Items(<<finished>>) = {finished}
  BY NatTypes, SingleType
<1>7. Below(s3, <<finished>>)
  <2>1. \A x \in Items(Seen(c)) : x <= finished
    BY SeenType, NatTypes
  <2> QED
    BY <1>b, <1>1, <1>3, <1>5, <1>6, <2>1, NatTypes DEF Below
<1>8. NonDecreasing(s3 \o <<finished>>)
  BY <1>5, <1>6, <1>7, ConcatType
<1> QED
  BY <1>8 DEF s0, s1, s2, s3

LEMMA StagesStep ==
    ASSUME TypeOK, StagesInOrder, [Next]_vars PROVE StagesInOrder'
<1> USE DEF StagesInOrder, LoopsInOrder, ClientInOrder
<1>0. send \in [Client -> Seq(0..finished)]
  BY DEF TypeOK, UpdateTypes
<1>1. CASE UNCHANGED <<collected, broadcast, delivering, send>>
  BY <1>1
<1>2. CASE Collect
  <2>1. collected' = <<finished>> /\ UNCHANGED <<broadcast, delivering, send>>
    BY <1>2 DEF Collect
  <2>2. NonDecreasing(collected') /\ Items(collected') = {finished}
    BY <2>1, NatTypes, SingleType
  <2> QED
    BY <2>1, <2>2, NatTypes DEF Below
<1>3. CASE SendUpdate
  <2> DEFINE x == Head(collected)
  <2>1. /\ collected # <<>> /\ collected' = <<>> /\ UNCHANGED <<delivering, send>>
        /\ broadcast' = Push(broadcast, x, BroadcastBuffer)
    BY <1>3 DEF SendUpdate
  <2>2. x \in Items(collected) /\ x \in Int
    BY <2>1, NatTypes, TailOrder, TailType
  <2> HIDE DEF x
  <2>3. \A y \in Items(broadcast) : y <= x
    BY <2>2 DEF Below
  <2>4. Items(broadcast') \subseteq Items(broadcast) \cup {x} /\ NonDecreasing(broadcast')
    BY <2>1, <2>2, <2>3, NatTypes, PushOrder
  <2>5. NonDecreasing(collected') /\ Items(collected') = {}
    BY <2>1, EmptyType
  <2> QED
    BY <2>1, <2>2, <2>4, <2>5 DEF Below
<1>4. CASE TakeUpdate
  <2> DEFINE x == Head(broadcast)
  <2>1. /\ broadcast # <<>> /\ delivering' = <<x>> /\ broadcast' = Tail(broadcast)
        /\ UNCHANGED <<collected, send>>
    BY <1>4 DEF TakeUpdate, loopVars
  <2>2. x \in Items(broadcast) /\ x \in Int
    BY <2>1, NatTypes, TailOrder, TailType
  <2>3. /\ Items(broadcast') \subseteq Items(broadcast) /\ NonDecreasing(broadcast')
        /\ \A y \in Items(broadcast') : x <= y
    BY <2>1, NatTypes, TailOrder
  <2> HIDE DEF x
  <2>4. NonDecreasing(delivering') /\ Items(delivering') = {x}
    BY <2>1, <2>2, SingleType
  <2> QED
    BY <2>1, <2>2, <2>3, <2>4 DEF Below
<1>5. CASE Deliver
  <2> DEFINE x == Head(delivering)
  <2>1. /\ delivering # <<>> /\ delivering' = <<>> /\ UNCHANGED <<collected, broadcast>>
        /\ send' = [c \in Client |-> IF c \in connections THEN Push(send[c], x, SendBuffer)
                                                          ELSE send[c]]
    BY <1>5 DEF Deliver, loopVars
  <2>2. x \in Items(delivering) /\ x \in Int
    BY <2>1, NatTypes, TailOrder, TailType
  <2> HIDE DEF x
  <2>3. NonDecreasing(delivering') /\ Items(delivering') = {}
    BY <2>1, EmptyType
  <2>4. LoopsInOrder'
    BY <2>1, <2>3 DEF Below
  <2>5. ASSUME NEW c \in Client PROVE ClientInOrder(c)'
    <3>1. \A y \in Items(send[c]) : y <= x
      BY <2>2 DEF Below
    <3>2. send'[c] = Push(send[c], x, SendBuffer) \/ send'[c] = send[c]
      BY <2>1
    <3>3. Items(send'[c]) \subseteq Items(send[c]) \cup {x} /\ NonDecreasing(send'[c])
      BY <2>2, <3>1, <3>2, NatTypes, PushOrder
    <3> QED
      BY <2>1, <2>2, <2>3, <3>3 DEF Below
  <2> QED
    BY <2>4, <2>5
<1>6. ASSUME NEW c \in Client, WriteUpdate(c) PROVE StagesInOrder'
  <2>1. UNCHANGED <<collected, broadcast, delivering>>
    BY <1>6 DEF WriteUpdate, HandlerStep, loopVars
  <2>2. CASE send[c] # <<>>
    <3>1. send' = [send EXCEPT ![c] = Tail(send[c])]
      BY <1>6, <2>2 DEF WriteUpdate
    <3>2. Items(Tail(send[c])) \subseteq Items(send[c]) /\ NonDecreasing(Tail(send[c]))
      BY <2>2, NatTypes, TailOrder
    <3>3. ASSUME NEW d \in Client
          PROVE  Items(send'[d]) \subseteq Items(send[d]) /\ NonDecreasing(send'[d])
      BY <1>0, <3>1, <3>2
    <3> QED
      BY <2>1, <3>3 DEF Below
  <2>3. CASE send[c] = <<>>
    BY <1>1, <1>6, <2>1, <2>3 DEF WriteUpdate
  <2> QED
    BY <2>2, <2>3
<1>7. ASSUME NEW c \in Client, HandlerReturns(c) PROVE StagesInOrder'
  <2>1. UNCHANGED <<collected, broadcast, delivering>> /\ send' = [send EXCEPT ![c] = <<>>]
    BY <1>7 DEF HandlerReturns, HandlerStep, Forget, loopVars
  <2>2. ASSUME NEW d \in Client
        PROVE  Items(send'[d]) \subseteq Items(send[d]) /\ NonDecreasing(send'[d])
    BY <1>0, <2>1, EmptyType
  <2> QED
    BY <2>1, <2>2 DEF Below
<1>8. ASSUME NEW c \in Client,
             Arrive(c) \/ Register(c) \/ Greet(c) \/ Replay(c) \/ WriteEvent(c) \/ Disconnect(c)
               \/ SubscriberTakes(c) \/ SubscriberReturns(c)
      PROVE  UNCHANGED <<collected, broadcast, delivering, send>>
  BY <1>8 DEF Arrive, Register, Greet, Replay, WriteEvent, Disconnect, SubscriberTakes,
              SubscriberReturns, HandlerStep, loopVars
<1>9. ASSUME Start \/ Listen \/ TaskFinishes \/ Announce \/ UpdaterReturns \/ BroadcasterReturns
      PROVE  UNCHANGED <<collected, broadcast, delivering, send>>
  BY <1>9 DEF Start, Listen, TaskFinishes, Announce, UpdaterReturns, BroadcasterReturns, loopVars
<1>10. ASSUME CloseDone \/ StopServer
       PROVE  UNCHANGED <<collected, broadcast, delivering, send>>
  BY <1>10 DEF CloseDone, StopServer, CloseConnections, Shutdown, ShutdownReturns, StopStep, loopVars
<1>11. ASSUME NEW e, SendEvent(e) PROVE UNCHANGED <<collected, broadcast, delivering, send>>
  BY <1>11 DEF SendEvent, loopVars
<1>12. CASE UNCHANGED vars
  BY <1>1, <1>12 DEF vars, loopVars
<1>13. ASSUME NEW c \in Client, ClientStep(c) PROVE StagesInOrder'
  BY <1>1, <1>6, <1>7, <1>8, <1>13 DEF ClientStep, SetupStep
<1> QED
  BY <1>1, <1>2, <1>3, <1>4, <1>5, <1>9, <1>10, <1>11, <1>12, <1>13
     DEF Next, ServerStep, ReporterStep, UpdaterStep, BroadcasterStep

LEMMA SeenStep ==
    ASSUME TypeOK, StagesInOrder, SeenInOrder, [Next]_vars PROVE SeenInOrder'
<1>0. /\ send \in [Client -> Seq(0..finished)] /\ finished \in Nat
      /\ shown \in [Client -> (0..finished) \cup {Nothing}]
  BY DEF TypeOK, UpdateTypes
<1>a. ASSUME UNCHANGED shownVars,
             \A c \in Client : \A y \in Ahead(c)' : y = finished \/ y \in Ahead(c)
      PROVE  SeenInOrder'
  BY <1>a, NatTypes DEF SeenInOrder, shownVars
<1>1. CASE UNCHANGED <<collected, broadcast, delivering, send, shownVars>>
  BY <1>1, <1>a DEF Ahead
<1>2. CASE Collect
  <2>1. collected' = <<finished>> /\ UNCHANGED <<broadcast, delivering, send, shownVars>>
    BY <1>2 DEF Collect
  <2>2. Items(collected') = {finished}
    BY <1>0, <2>1, SingleType
  <2> QED
    BY <1>a, <2>1, <2>2 DEF Ahead
<1>3. CASE SendUpdate
  <2>1. /\ collected # <<>> /\ collected' = <<>> /\ UNCHANGED <<delivering, send, shownVars>>
        /\ broadcast' = Push(broadcast, Head(collected), BroadcastBuffer)
    BY <1>3 DEF SendUpdate
  <2>2. Head(collected) \in Items(collected) /\ Head(collected) \in Int
    BY <2>1, NatTypes, TailOrder, TailType DEF StagesInOrder, LoopsInOrder
  <2>3. Items(broadcast') \subseteq Items(broadcast) \cup {Head(collected)} /\ Items(collected') = {}
    BY <2>1, <2>2, NatTypes, PushOrder, EmptyType
  <2> QED
    BY <1>a, <2>1, <2>2, <2>3 DEF Ahead
<1>4. CASE TakeUpdate
  <2>1. /\ broadcast # <<>> /\ delivering' = <<Head(broadcast)>> /\ broadcast' = Tail(broadcast)
        /\ UNCHANGED <<collected, send, shownVars>>
    BY <1>4 DEF TakeUpdate, loopVars
  <2>2. /\ Head(broadcast) \in Items(broadcast) /\ Head(broadcast) \in Int
        /\ Items(broadcast') \subseteq Items(broadcast)
    BY <2>1, NatTypes, TailOrder, TailType DEF StagesInOrder, LoopsInOrder
  <2>3. Items(delivering') = {Head(broadcast)}
    BY <2>1, <2>2, SingleType
  <2> QED
    BY <1>a, <2>1, <2>2, <2>3 DEF Ahead
<1>5. CASE Deliver
  <2> DEFINE x == Head(delivering)
  <2>1. /\ delivering # <<>> /\ delivering' = <<>> /\ UNCHANGED <<collected, broadcast, shownVars>>
        /\ send' = [c \in Client |-> IF c \in connections THEN Push(send[c], x, SendBuffer)
                                                          ELSE send[c]]
    BY <1>5 DEF Deliver, loopVars
  <2>2. x \in Items(delivering) /\ x \in Int
    BY <2>1, NatTypes, TailOrder, TailType DEF StagesInOrder, LoopsInOrder
  <2> HIDE DEF x
  <2>3. ASSUME NEW c \in Client PROVE Items(send'[c]) \subseteq Items(send[c]) \cup {x}
    <3>1. send'[c] = Push(send[c], x, SendBuffer) \/ send'[c] = send[c]
      BY <2>1
    <3> QED
      BY <2>2, <3>1, NatTypes, PushOrder
  <2>4. Items(delivering') = {}
    BY <2>1, EmptyType
  <2> QED
    BY <1>a, <2>1, <2>2, <2>3, <2>4 DEF Ahead
<1>6. ASSUME NEW c \in Client, WriteUpdate(c) PROVE SeenInOrder'
  <2>0. UNCHANGED <<collected, broadcast, delivering>> /\ greeted' = greeted \ {c}
    BY <1>6 DEF WriteUpdate, HandlerStep, loopVars
  <2>1. ASSUME NEW d \in Client, d # c
        PROVE  Ahead(d)' = Ahead(d) /\ shown'[d] = shown[d] /\ (d \in greeted' <=> d \in greeted)
    BY <1>0, <1>6, <2>0, <2>1 DEF WriteUpdate, Ahead
  <2>2. \A y \in Ahead(c)' : shown'[c] <= y
    <3>1. CASE send[c] # <<>>
      <4>1. /\ send' = [send EXCEPT ![c] = Tail(send[c])] /\ shown'[c] = Head(send[c])
        BY <1>0, <1>6, <3>1 DEF WriteUpdate
      <4>2. send'[c] = Tail(send[c]) /\ ClientInOrder(c)
        BY <1>0, <4>1 DEF StagesInOrder
      <4>3. /\ Head(send[c]) \in Items(send[c])
            /\ \A y \in Items(send'[c]) : Head(send[c]) <= y
        BY <3>1, <4>2, NatTypes, TailOrder DEF ClientInOrder
      <4> QED
        BY <2>0, <4>1, <4>2, <4>3 DEF Ahead, ClientInOrder, Below
    <3>2. CASE send[c] = <<>>
      <4>1. shown'[c] = Nothing /\ send' = send
        BY <1>0, <1>6, <3>2 DEF WriteUpdate
      <4>2. Ahead(c)' = Ahead(c)
        BY <2>0, <4>1 DEF Ahead
      <4>3. Ahead(c) \subseteq 0..finished
        BY ItemsType DEF Ahead, TypeOK, UpdateTypes
      <4> QED
        BY <1>0, <4>1, <4>2, <4>3 DEF Nothing
    <3> QED
      BY <3>1, <3>2
  <2> QED
    BY <2>1, <2>2 DEF SeenInOrder
<1>7. ASSUME NEW c \in Client, HandlerReturns(c) PROVE SeenInOrder'
  <2>0. /\ UNCHANGED <<collected, broadcast, delivering>> /\ greeted' = greeted \ {c}
        /\ send' = [send EXCEPT ![c] = <<>>] /\ shown' = [shown EXCEPT ![c] = Nothing]
    BY <1>7 DEF HandlerReturns, HandlerStep, Forget, loopVars
  <2>1. ASSUME NEW d \in Client, d # c
        PROVE  Ahead(d)' = Ahead(d) /\ shown'[d] = shown[d] /\ (d \in greeted' <=> d \in greeted)
    BY <1>0, <2>0, <2>1 DEF Ahead
  <2>2. \A y \in Ahead(c)' : shown'[c] <= y
    <3>1. Ahead(c)' \subseteq Ahead(c) /\ shown'[c] = Nothing
      BY <1>0, <2>0, EmptyType DEF Ahead
    <3>2. Ahead(c) \subseteq 0..finished
      BY ItemsType DEF Ahead, TypeOK, UpdateTypes
    <3> QED
      BY <1>0, <3>1, <3>2 DEF Nothing
  <2> QED
    BY <2>1, <2>2 DEF SeenInOrder
<1>8. ASSUME NEW c \in Client, Greet(c) PROVE SeenInOrder'
  <2>1. /\ UNCHANGED <<collected, broadcast, delivering, send>> /\ greeted' = greeted \cup {c}
        /\ shown' = [shown EXCEPT ![c] = finished]
    BY <1>8 DEF Greet, HandlerStep, loopVars
  <2> QED
    BY <1>0, <2>1 DEF SeenInOrder, Ahead
<1>9. ASSUME NEW c \in Client,
             Arrive(c) \/ Register(c) \/ Replay(c) \/ WriteEvent(c) \/ Disconnect(c)
               \/ SubscriberTakes(c) \/ SubscriberReturns(c)
      PROVE  UNCHANGED <<collected, broadcast, delivering, send, shownVars>>
  BY <1>9 DEF Arrive, Register, Replay, WriteEvent, Disconnect, SubscriberTakes,
              SubscriberReturns, HandlerStep, loopVars
<1>10. ASSUME Start \/ Listen \/ TaskFinishes \/ Announce \/ UpdaterReturns \/ BroadcasterReturns
       PROVE  UNCHANGED <<collected, broadcast, delivering, send, shownVars>>
  BY <1>10 DEF Start, Listen, TaskFinishes, Announce, UpdaterReturns, BroadcasterReturns, loopVars
<1>11. ASSUME CloseDone \/ StopServer
       PROVE  UNCHANGED <<collected, broadcast, delivering, send, shownVars>>
  BY <1>11 DEF CloseDone, StopServer, CloseConnections, Shutdown, ShutdownReturns, StopStep, loopVars
<1>12. ASSUME NEW e, SendEvent(e)
       PROVE  UNCHANGED <<collected, broadcast, delivering, send, shownVars>>
  BY <1>12 DEF SendEvent, loopVars
<1>13. CASE UNCHANGED vars
  BY <1>1, <1>13 DEF vars, loopVars
<1>14. ASSUME NEW c \in Client, ClientStep(c) PROVE SeenInOrder'
  BY <1>1, <1>6, <1>7, <1>8, <1>9, <1>14 DEF ClientStep, SetupStep
<1> QED
  BY <1>1, <1>2, <1>3, <1>4, <1>5, <1>10, <1>11, <1>12, <1>13, <1>14
     DEF Next, ServerStep, ReporterStep, UpdaterStep, BroadcasterStep

(* Although every stage drops what it has no room for, no client is shown  *)
(* an update after one that was collected later, its greeting apart        *)
(* (updateMetricsLoop, broadcastMetrics and the loop of handleWebSocket).  *)
THEOREM PipelineInOrderHolds == Spec => []PipelineInOrder
<1>1. Init => StagesInOrder /\ SeenInOrder
  BY EmptyType DEF Init, StagesInOrder, LoopsInOrder, ClientInOrder, Below, SeenInOrder, Ahead
<1>2. TypeOK /\ StagesInOrder /\ SeenInOrder /\ [Next]_vars => StagesInOrder' /\ SeenInOrder'
  BY StagesStep, SeenStep
<1>3. TypeOK /\ StagesInOrder /\ SeenInOrder => PipelineInOrder
  BY StagesMakePipeline
<1> QED
  BY <1>1, <1>2, <1>3, DashboardTypes, PTL DEF Spec
=============================================================================
