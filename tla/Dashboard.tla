------------------------------ MODULE Dashboard ------------------------------
(***************************************************************************)
(* web/server.go, the streaming part, driven the way examples/dashboard    *)
(* does it: a goroutine starts the server, another one turns finished tasks*)
(* into events, a signal stops the server. A metrics update is represented *)
(* by the number of tasks that are finished when it is collected, an event *)
(* by the number of its task, a client by its only request for a stream.   *)
(* The HTTP server and request contexts of net/http are external.          *)
(***************************************************************************)
EXTENDS Integers, Sequences, FiniteSets

CONSTANTS Client,
          SendBuffer, BroadcastBuffer,      \* updates a channel holds
          TaskEventBuffer, FeedBuffer,      \* events a channel holds
          MaxRecentEvents,
          MaxTasks                          \* bound: tasks that finish

ASSUME DashboardAssumption ==
    /\ {SendBuffer, BroadcastBuffer, TaskEventBuffer, FeedBuffer, MaxRecentEvents}
            \subseteq Nat \ {0}
    /\ MaxTasks \in Nat

VARIABLES
    finished,       \* tasks finished so far, what Stats and the metrics say
    announced,      \* events added to recentEvents so far
    announcing,     \* events of calls of BroadcastTaskEvent that have not sent them yet
    recentEvents, taskEvents,
    server,         \* "none", "created", "listening" or "closed"
    updater,        \* updateMetricsLoop: "off", "on" or "ended"
    collected,      \* its update before it is sent: none or one
    broadcast,
    broadcaster,    \* broadcastMetrics: "off", "on" or "ended"
    delivering,     \* the update it has taken: none or one
    connections,    \* the clients in the map
    closedSend,     \* clients whose channel is closed
    locked,         \* mu is held by a handler that panicked
    send,           \* client -> what its channel holds
    feed,           \* client -> what its taskEventCh holds
    handler,        \* client -> where handleWebSocket is
    subscriber,     \* client -> the goroutine that reads taskEvents
    ctxDone,        \* clients whose request is cancelled
    shown,          \* client -> the update written last
    greeted,        \* history: clients whose last update was the initial one
    live,           \* client -> the events written from its taskEventCh
    stop            \* how far Stop is

eventVars == <<announced, announcing, recentEvents>>
loopVars == <<updater, collected, broadcaster>>
muVars == <<connections, closedSend, locked>>
shownVars == <<shown, greeted>>
feedVars == <<taskEvents, feed, subscriber, live>>
vars == <<finished, eventVars, loopVars, muVars, feedVars, server, broadcast, delivering,
          send, handler, ctxDone, shownVars, stop>>

Nothing == -1     \* no update written yet, or the zero value

done == stop # "no"
Ended == {"none", "returned", "panicked"}
Push(queue, item, buffer) == IF Len(queue) < buffer THEN Append(queue, item) ELSE queue

Init ==
    /\ finished = 0 /\ announced = 0 /\ announcing = {}
    /\ recentEvents = <<>> /\ taskEvents = <<>>
    /\ server = "none" /\ updater = "off" /\ collected = <<>>
    /\ broadcast = <<>> /\ broadcaster = "off" /\ delivering = <<>>
    /\ connections = {} /\ closedSend = {} /\ locked = FALSE
    /\ send = [c \in Client |-> <<>>] /\ feed = [c \in Client |-> <<>>]
    /\ handler = [c \in Client |-> "none"] /\ subscriber = [c \in Client |-> "off"]
    /\ ctxDone = {} /\ shown = [c \in Client |-> Nothing] /\ greeted = {}
    /\ live = [c \in Client |-> {}]
    /\ stop = "no"

-----------------------------------------------------------------------------
(* Start.                                                                  *)

(* The server is made, its loops are started and it is called ready.       *)
Start ==
    /\ server = "none"
    /\ server' = "created" /\ updater' = "on" /\ broadcaster' = "on"
    /\ UNCHANGED <<finished, eventVars, collected, muVars, feedVars, broadcast, delivering,
                   send, handler, ctxDone, shownVars, stop>>

(* ListenAndServe, which refuses after Shutdown.                           *)
Listen ==
    /\ server = "created" /\ server' = "listening"
    /\ UNCHANGED <<finished, eventVars, loopVars, muVars, feedVars, broadcast, delivering,
                   send, handler, ctxDone, shownVars, stop>>

-----------------------------------------------------------------------------
(* Finished tasks and their events.                                        *)

TaskFinishes ==
    /\ finished < MaxTasks /\ finished' = finished + 1
    /\ UNCHANGED <<eventVars, loopVars, muVars, feedVars, server, broadcast, delivering,
                   send, handler, ctxDone, shownVars, stop>>

(* One of the example's goroutines, one per worker, finds a task it has not*)
(* announced. BroadcastTaskEvent adds an event to the recent ones, numbered*)
(* here in that order, and forgets the oldest.                             *)
Announce ==
    /\ announced < finished
    /\ announced' = announced + 1
    /\ announcing' = announcing \cup {announced + 1}
    /\ LET events == Append(recentEvents, announced + 1)
       IN  recentEvents' = IF Len(events) > MaxRecentEvents THEN Tail(events) ELSE events
    /\ UNCHANGED <<finished, loopVars, muVars, feedVars, server, broadcast, delivering,
                   send, handler, ctxDone, shownVars, stop>>

(* The send at the end of BroadcastTaskEvent; a full channel drops it.     *)
SendEvent(event) ==
    /\ event \in announcing
    /\ taskEvents' = Push(taskEvents, event, TaskEventBuffer)
    /\ announcing' = announcing \ {event}
    /\ UNCHANGED <<finished, announced, recentEvents, loopVars, muVars, feed, subscriber, live,
                   server, broadcast, delivering, send, handler, ctxDone, shownVars, stop>>

-----------------------------------------------------------------------------
(* updateMetricsLoop and broadcastMetrics. In a select every ready case may*)
(* be chosen, also the ticker or the channel when done is closed.          *)

Collect ==
    /\ updater = "on" /\ collected = <<>>
    /\ collected' = <<finished>>
    /\ UNCHANGED <<finished, eventVars, updater, broadcaster, muVars, feedVars, server, broadcast,
                   delivering, send, handler, ctxDone, shownVars, stop>>

(* Two slips: the bound of the channel is not looked at; a full channel    *)
(* ends the loop.                                                          *)
SendUpdate_Unbounded ==
    /\ collected # <<>>
    /\ broadcast' = Append(broadcast, Head(collected))
    /\ collected' = <<>>
    /\ UNCHANGED <<finished, eventVars, updater, broadcaster, muVars, feedVars, server,
                   delivering, send, handler, ctxDone, shownVars, stop>>

SendUpdate_GivesUp ==
    /\ collected # <<>>
    /\ broadcast' = Push(broadcast, Head(collected), BroadcastBuffer)
    /\ collected' = <<>>
    /\ updater' = IF Len(broadcast) < BroadcastBuffer THEN updater ELSE "ended"
    /\ UNCHANGED <<finished, eventVars, broadcaster, muVars, feedVars, server,
                   delivering, send, handler, ctxDone, shownVars, stop>>

SendUpdate ==
    /\ collected # <<>>
    /\ broadcast' = Push(broadcast, Head(collected), BroadcastBuffer)
    /\ collected' = <<>>
    /\ UNCHANGED <<finished, eventVars, updater, broadcaster, muVars, feedVars, server,
                   delivering, send, handler, ctxDone, shownVars, stop>>

UpdaterReturns ==
    /\ updater = "on" /\ collected = <<>> /\ done
    /\ updater' = "ended"
    /\ UNCHANGED <<finished, eventVars, collected, broadcaster, muVars, feedVars, server,
                   broadcast, delivering, send, handler, ctxDone, shownVars, stop>>

TakeUpdate ==
    /\ broadcaster = "on" /\ delivering = <<>> /\ broadcast # <<>>
    /\ delivering' = <<Head(broadcast)>>
    /\ broadcast' = Tail(broadcast)
    /\ UNCHANGED <<finished, eventVars, loopVars, muVars, feedVars, server, send, handler,
                   ctxDone, shownVars, stop>>

(* Two slips: a connection that does not keep up is closed and dropped; an *)
(* update that one of them has no room for is broadcast again.             *)
Deliver_ClosesSlow ==
    LET slow == {c \in connections : Len(send[c]) = SendBuffer}
    IN  /\ delivering # <<>> /\ ~locked
        /\ send' = [c \in Client |-> IF c \in connections
                                     THEN Push(send[c], Head(delivering), SendBuffer)
                                     ELSE send[c]]
        /\ connections' = connections \ slow /\ closedSend' = closedSend \cup slow
        /\ delivering' = <<>>
        /\ UNCHANGED <<finished, eventVars, loopVars, locked, feedVars, server, broadcast,
                       handler, ctxDone, shownVars, stop>>

Deliver_Requeues ==
    /\ delivering # <<>> /\ ~locked
    /\ send' = [c \in Client |-> IF c \in connections
                                 THEN Push(send[c], Head(delivering), SendBuffer)
                                 ELSE send[c]]
    /\ broadcast' = IF \E c \in connections : Len(send[c]) = SendBuffer
                    THEN Push(broadcast, Head(delivering), BroadcastBuffer) ELSE broadcast
    /\ delivering' = <<>>
    /\ UNCHANGED <<finished, eventVars, loopVars, muVars, feedVars, server, handler,
                   ctxDone, shownVars, stop>>

(* To every connection, except the ones whose channel is full.             *)
Deliver ==
    /\ delivering # <<>> /\ ~locked
    /\ send' = [c \in Client |-> IF c \in connections
                                 THEN Push(send[c], Head(delivering), SendBuffer)
                                 ELSE send[c]]
    /\ delivering' = <<>>
    /\ UNCHANGED <<finished, eventVars, loopVars, muVars, feedVars, server, broadcast, handler,
                   ctxDone, shownVars, stop>>

BroadcasterReturns ==
    /\ broadcaster = "on" /\ delivering = <<>> /\ done
    /\ broadcaster' = "ended"
    /\ UNCHANGED <<finished, eventVars, updater, collected, muVars, feedVars, server, broadcast,
                   delivering, send, handler, ctxDone, shownVars, stop>>

-----------------------------------------------------------------------------
(* handleWebSocket.                                                        *)

HandlerStep(c, from, to) ==
    /\ handler[c] = from /\ handler' = [handler EXCEPT ![c] = to]
    /\ UNCHANGED <<finished, eventVars, loopVars, server, broadcast, delivering, ctxDone, stop>>

Arrive(c) ==
    /\ server = "listening"
    /\ HandlerStep(c, "none", "register")
    /\ UNCHANGED <<muVars, feedVars, send, shownVars>>

Register(c) ==
    /\ ~locked
    /\ HandlerStep(c, "register", "greet")
    /\ connections' = connections \cup {c}
    /\ UNCHANGED <<closedSend, locked, feedVars, send, shownVars>>

(* The initial metrics are collected and written.                          *)
Greet(c) ==
    /\ HandlerStep(c, "greet", "replay")
    /\ shown' = [shown EXCEPT ![c] = finished] /\ greeted' = greeted \cup {c}
    /\ UNCHANGED <<muVars, feedVars, send>>

(* The recent events are written; the subscription begins.                 *)
Replay(c) ==
    /\ HandlerStep(c, "replay", "loop")
    /\ subscriber' = [subscriber EXCEPT ![c] = "on"]
    /\ UNCHANGED <<muVars, taskEvents, feed, live, send, shownVars>>

(* A closed channel that is empty gives the zero value, again and again.   *)
WriteUpdate(c) ==
    /\ HandlerStep(c, "loop", "loop")
    /\ \/ /\ send[c] # <<>>
          /\ shown' = [shown EXCEPT ![c] = Head(send[c])]
          /\ send' = [send EXCEPT ![c] = Tail(send[c])]
       \/ /\ send[c] = <<>> /\ c \in closedSend
          /\ shown' = [shown EXCEPT ![c] = Nothing]
          /\ UNCHANGED send
    /\ greeted' = greeted \ {c}
    /\ UNCHANGED <<muVars, feedVars>>

WriteEvent(c) ==
    /\ feed[c] # <<>>
    /\ HandlerStep(c, "loop", "loop")
    /\ live' = [live EXCEPT ![c] = live[c] \cup {Head(feed[c])}]
    /\ feed' = [feed EXCEPT ![c] = Tail(feed[c])]
    /\ UNCHANGED <<muVars, taskEvents, subscriber, send, shownVars>>

(* The client leaves, or a write fails after the server's WriteTimeout.    *)
(* Earlier than in its loop the handler does not look.                     *)
Disconnect(c) ==
    /\ handler[c] = "loop" /\ c \notin ctxDone
    /\ ctxDone' = ctxDone \cup {c}
    /\ UNCHANGED <<finished, eventVars, loopVars, muVars, feedVars, server, broadcast,
                   delivering, send, handler, shownVars, stop>>

(* What nobody can read any more when the handler is gone.                 *)
Forget(c) ==
    /\ send' = [send EXCEPT ![c] = <<>>]
    /\ feed' = [feed EXCEPT ![c] = <<>>]
    /\ shown' = [shown EXCEPT ![c] = Nothing] /\ greeted' = greeted \ {c}
    /\ UNCHANGED <<taskEvents, subscriber, live>>

(* A slip: the connection stays in the map.                                *)
HandlerReturns_KeepsConnection(c) ==
    /\ c \in ctxDone /\ ~locked
    /\ HandlerStep(c, "loop", IF c \in closedSend THEN "panicked" ELSE "returned")
    /\ closedSend' = closedSend \cup {c}
    /\ locked' = (c \in closedSend)
    /\ Forget(c)
    /\ UNCHANGED connections

(* The request is cancelled. Closing a channel that Stop has closed panics *)
(* with mu held; net/http recovers and the program goes on.                *)
HandlerReturns(c) ==
    /\ c \in ctxDone /\ ~locked
    /\ HandlerStep(c, "loop", IF c \in closedSend THEN "panicked" ELSE "returned")
    /\ connections' = connections \ {c}
    /\ closedSend' = closedSend \cup {c}
    /\ locked' = (c \in closedSend)
    /\ Forget(c)

(* The goroutine of a connection takes an event, which no other connection *)
(* gets any more; a full taskEventCh drops it.                             *)
SubscriberTakes(c) ==
    /\ subscriber[c] = "on" /\ taskEvents # <<>>
    /\ feed' = [feed EXCEPT ![c] = Push(feed[c], Head(taskEvents), FeedBuffer)]
    /\ taskEvents' = Tail(taskEvents)
    /\ UNCHANGED <<finished, eventVars, loopVars, muVars, subscriber, live, server, broadcast,
                   delivering, send, handler, ctxDone, shownVars, stop>>

(* A slip: the subscription only ends while its handler still runs.        *)
SubscriberReturns_WithHandler(c) ==
    /\ subscriber[c] = "on" /\ handler[c] = "loop" /\ c \in ctxDone
    /\ subscriber' = [subscriber EXCEPT ![c] = "ended"]
    /\ UNCHANGED <<finished, eventVars, loopVars, muVars, taskEvents, feed, live, server,
                   broadcast, delivering, send, handler, ctxDone, shownVars, stop>>

SubscriberReturns(c) ==
    /\ subscriber[c] = "on" /\ (c \in ctxDone \/ handler[c] \in Ended)
    /\ subscriber' = [subscriber EXCEPT ![c] = "ended"]
    /\ UNCHANGED <<finished, eventVars, loopVars, muVars, taskEvents, feed, live, server,
                   broadcast, delivering, send, handler, ctxDone, shownVars, stop>>

-----------------------------------------------------------------------------
(* Stop, called once and after Ready.                                      *)

StopStep(from, to) ==
    /\ stop = from /\ stop' = to
    /\ UNCHANGED <<finished, eventVars, loopVars, feedVars, broadcast, delivering, send,
                   handler, ctxDone, shownVars>>

CloseDone ==
    /\ server # "none"
    /\ StopStep("no", "done")
    /\ UNCHANGED <<server, muVars>>

CloseConnections ==
    /\ ~locked
    /\ StopStep("done", "cleared")
    /\ closedSend' = closedSend \cup connections
    /\ connections' = {}
    /\ UNCHANGED <<server, locked>>

(* Shutdown closes the listener and waits for the requests under way.      *)
Shutdown ==
    /\ StopStep("cleared", "waiting")
    /\ server' = "closed"
    /\ UNCHANGED muVars

(* A slip: no deadline.                                                    *)
ShutdownReturns_NoTimeout ==
    /\ StopStep("waiting", "graceful") /\ \A c \in Client : handler[c] \in Ended
    /\ UNCHANGED <<server, muVars>>

ShutdownReturns ==
    /\ \/ StopStep("waiting", "graceful") /\ \A c \in Client : handler[c] \in Ended
       \/ StopStep("waiting", "timeout")
    /\ UNCHANGED <<server, muVars>>

-----------------------------------------------------------------------------
ServerStep == Start \/ Listen
ReporterStep == Announce \/ \E event \in 1..MaxTasks : SendEvent(event)
UpdaterStep == Collect \/ SendUpdate
BroadcasterStep == TakeUpdate \/ Deliver
SetupStep(c) == Register(c) \/ Greet(c) \/ Replay(c)
ClientStep(c) ==
    \/ Arrive(c) \/ Disconnect(c)
    \/ SetupStep(c) \/ WriteUpdate(c) \/ WriteEvent(c) \/ HandlerReturns(c)
    \/ SubscriberTakes(c) \/ SubscriberReturns(c)
StopServer == CloseConnections \/ Shutdown \/ ShutdownReturns

Next ==
    \/ ServerStep \/ TaskFinishes \/ ReporterStep
    \/ UpdaterStep \/ UpdaterReturns \/ BroadcasterStep \/ BroadcasterReturns
    \/ CloseDone \/ StopServer
    \/ \E c \in Client : ClientStep(c)

Spec == Init /\ [][Next]_vars

(* Goroutines run; tickers fire; collecting and writing return. A select   *)
(* with a closed channel does not choose another case forever.             *)
FairSpec ==
    /\ Spec
    /\ WF_vars(ServerStep) /\ WF_vars(StopServer)
    /\ WF_vars(UpdaterStep) /\ SF_vars(UpdaterReturns)
    /\ WF_vars(BroadcasterStep) /\ SF_vars(BroadcasterReturns)
    /\ \A c \in Client :
          /\ WF_vars(SetupStep(c)) /\ WF_vars(WriteUpdate(c)) /\ WF_vars(HandlerReturns(c))
          /\ WF_vars(SubscriberReturns(c))

-----------------------------------------------------------------------------
(* Properties.                                                             *)

EventTypes ==
    /\ announced \in 0..finished /\ announcing \subseteq 1..announced
    /\ recentEvents \in Seq(1..announced) /\ Len(recentEvents) <= MaxRecentEvents
    /\ taskEvents \in Seq(1..announced) /\ Len(taskEvents) <= TaskEventBuffer
    /\ feed \in [Client -> Seq(1..announced)] /\ live \in [Client -> SUBSET (1..announced)]
    /\ \A c \in Client : Len(feed[c]) <= FeedBuffer
    /\ subscriber \in [Client -> {"off", "on", "ended"}]

UpdateTypes ==
    /\ finished \in Nat
    /\ updater \in {"off", "on", "ended"} /\ broadcaster \in {"off", "on", "ended"}
    /\ collected \in Seq(0..finished) /\ Len(collected) <= 1
    /\ broadcast \in Seq(0..finished) /\ Len(broadcast) <= BroadcastBuffer
    /\ delivering \in Seq(0..finished) /\ Len(delivering) <= 1
    /\ send \in [Client -> Seq(0..finished)]
    /\ \A c \in Client : Len(send[c]) <= SendBuffer
    /\ shown \in [Client -> (0..finished) \cup {Nothing}] /\ greeted \subseteq Client

ServerTypes ==
    /\ server \in {"none", "created", "listening", "closed"}
    /\ connections \subseteq Client /\ closedSend \subseteq Client /\ ctxDone \subseteq Client
    /\ locked \in BOOLEAN
    /\ handler \in [Client -> {"register", "greet", "replay", "loop"} \cup Ended]
    /\ stop \in {"no", "done", "cleared", "waiting", "graceful", "timeout"}

(* Every variable has its type: no channel exceeds its buffer, no loop     *)
(* holds more than the item it works on, and no update or event comes from *)
(* the future.                                                             *)
TypeOK == EventTypes /\ UpdateTypes /\ ServerTypes

(* The broadcaster sends to every connection in the map, and Stop closes   *)
(* the channel of every one: none of them may be closed already, or the    *)
(* goroutine panics and takes the program down.                            *)
NoSendOnClosed == connections \cap closedSend = {}

(* A handler panics only in a server that is being stopped: as long as it  *)
(* serves, clients that come and go leave mu free.                         *)
NoPanicWhileServing ==
    (locked \/ \E c \in Client : handler[c] = "panicked") => stop \notin {"no", "done"}

NonDecreasing(s) == \A i, j \in DOMAIN s : i < j => s[i] <= s[j]

(* What a client has been shown, unless that was its greeting.             *)
Seen(c) == IF c \in greeted THEN <<>> ELSE <<shown[c]>>

(* Updates never overtake each other on their way from the metrics to what *)
(* a client is shown: through the update loop, the broadcast channel, the  *)
(* broadcaster and the channel of the client, each of which may drop some, *)
(* no stream goes back to an older update. The greeting is exempt: a       *)
(* handler joins the connections before it collects the initial metrics,   *)
(* so the updates that are under way at that moment are older than the     *)
(* greeting and are written after it.                                      *)
PipelineInOrder ==
    \A c \in Client :
        NonDecreasing(Seen(c) \o send[c] \o delivering \o broadcast \o collected \o <<finished>>)

Items(s) == {s[i] : i \in DOMAIN s}
NoRepeats(s) == \A i, j \in DOMAIN s : s[i] = s[j] => i = j

(* The events that have come to a client, shown or not.                    *)
Taken(c) == live[c] \cup Items(feed[c])

(* An event is in one place: with the goroutine that announces it, in the  *)
(* channel, in the feed of one client or shown by it. The goroutines of all*)
(* connections receive from one channel, so one client at most is shown the*)
(* event live, however many are connected, where the comments of           *)
(* BroadcastTaskEvent promise it to all of them.                           *)
EventsOnce ==
    /\ NoRepeats(taskEvents) /\ Items(taskEvents) \cap announcing = {}
    /\ \A c \in Client :
          /\ NoRepeats(feed[c]) /\ Items(feed[c]) \cap live[c] = {}
          /\ Taken(c) \cap (announcing \cup Items(taskEvents)) = {}
          /\ \A d \in Client \ {c} : Taken(c) \cap Taken(d) = {}

Streaming(c) == handler[c] = "loop" /\ c \notin ctxDone /\ ~done

(* A client that stays sees the metrics as they are, although full channels*)
(* drop updates: after the last change every stream shows it. The server's *)
(* WriteTimeout ends a stream after 15 seconds (Disconnect); what this says*)
(* of a stream without end holds for one that outlasts the next updates.   *)
ClientSeesAll == \A c \in Client : <>[]Streaming(c) => <>[](shown[c] = finished)

(* A client that leaves a serving server leaves nothing behind: its handler*)
(* and the goroutine that reads events for it end.                         *)
ClientLeavesNothing ==
    \A c \in Client :
        c \in ctxDone ~> \/ handler[c] \in Ended /\ subscriber[c] = "ended"
                         \/ done

(* Stop comes to an end whatever the clients do, and so do the two loops;  *)
(* the broadcaster may only hang on mu.                                    *)
StopEnds ==
    done ~> /\ stop \in {"graceful", "timeout"}
            /\ updater = "ended"
            /\ broadcaster = "ended" \/ locked

(* "Stop gracefully shuts down the server": also in a server that is being *)
(* stopped the handler of a client that left ends.                         *)
HandlersEnd == \A c \in Client : c \in ctxDone ~> handler[c] \in Ended
=============================================================================
