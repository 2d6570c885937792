---------------------------- MODULE Watcher_proofs ----------------------------
(***************************************************************************)
(* Proofs about Watcher, for any paths, scans, clients, webhooks, delays.  *)
(*                                                                         *)
(* The argument: what has happened to a file is at any time known to the   *)
(* one place that is behind all others - the last event in the channel,    *)
(* the event in the loop, the one in the debouncer, that of the callback,  *)
(* what has been dispatched. A scan that has looked at a file and not yet  *)
(* dispatched what it saw may be out of date, but then a newer event of    *)
(* the file is younger than Delay, so that its own report comes later.     *)
(***************************************************************************)
EXTENDS Watcher, SequenceTheorems, TLAPS

LEMMA Constants ==
    /\ Delay \in Nat /\ Delay >= 1
    /\ QueueMax \in Nat /\ QueueMax >= 1
    /\ MaxRetries \in Nat /\ MaxRetries >= 1
    /\ MaxFailCount \in Nat /\ MaxFailCount >= 1
    /\ Filters \subseteq SUBSET EventType
    /\ Sender = Path \cup Scanner
    /\ Path \cap Scanner = {}
    /\ FirstScan \in Scanner
    /\ BufferMax \in Nat /\ BufferKeep \in 1..BufferMax
    /\ Worlds \subseteq World
    /\ Nothing \notin Event
  BY DebouncerAssumption, DispatcherAssumption, WatcherAssumption, NothingAssumption

\* Nothing is pending in a debouncer that is stopped.
StoppedIsEmpty == stopped => \A p \in Path : ~Pending(p)

DebouncerInv == DebouncerTypeOK /\ PendingIsTimed /\ StoppedIsEmpty

Active == {"walk", "dispatch", "send"}

\* Where senders can be, and with what.
SendersInPlace ==
    /\ \A p \in Path : at[p] \in {"idle", "append", "dispatch", "send"}
    /\ \A s \in Scanner : at[s] \in {"idle", "start", "done"} \cup Active
    /\ \A s \in Sender : Busy(s) <=> what[s] # Nothing
    /\ \A p \in Path : what[p] # Nothing => what[p].path = p
    /\ loop = "handle" <=> taken # Nothing

\* A path that is reported has no other event old enough to be.
OneCallback == \A p \in Path : Busy(p) /\ Pending(p) => age[p] = 0

\* isScanning says whether there is a scan that walks.
ScanIsKnown ==
    /\ isScanning <=> \E s \in Scanner : at[s] \in Active
    /\ ScansDoNotOverlap

StopsInOrder == stopped <=> stopping \in {"fsWatcher", "stopped"}

CoreInv ==
    /\ TypeOK /\ PendingIsTimed /\ StoppedIsEmpty
    /\ SendersInPlace /\ OneCallback /\ ScanIsKnown /\ StopsInOrder

-----------------------------------------------------------------------------
(* What the debouncer and the dispatcher do in a step                      *)

DebouncerStep ==
    \/ \E p \in Path : \/ \E type \in EventType : Add(p, type)
                       \/ TimerFires(p) \/ FlushNothing(p) \/ FlushEarly(p) \/ FlushDue(p)
    \/ StopDebouncer \/ TimePasses
    \/ UNCHANGED debouncer

LEMMA DebouncerKeeps ==
    ASSUME DebouncerInv, DebouncerStep
    PROVE  DebouncerInv'
  <1> USE Constants DEF DebouncerInv, DebouncerTypeOK, PendingIsTimed, StoppedIsEmpty,
                        Pending, Off
  <1>0. NoEvent \notin EventType
    BY DEF NoEvent, EventType
  <1>1. CASE \E p \in Path, type \in EventType : Add(p, type)
    <2> PICK p \in Path, type \in EventType : Add(p, type)
      BY <1>1
    <2>1. DebouncerTypeOK'
      BY <1>0 DEF Add
    <2>2. PendingIsTimed' /\ StoppedIsEmpty'
      BY <1>0 DEF Add
    <2> QED
      BY <2>1, <2>2
  <1>2. CASE \E p \in Path : TimerFires(p)
    BY <1>2 DEF TimerFires
  <1>3. CASE \E p \in Path : FlushNothing(p)
    BY <1>3 DEF FlushNothing
  <1>4. CASE \E p \in Path : FlushEarly(p)
    BY <1>4 DEF FlushEarly
  <1>5. CASE \E p \in Path : FlushDue(p)
    <2> PICK p \in Path : FlushDue(p)
      BY <1>5
    <2>1. DebouncerTypeOK'
      BY DEF FlushDue
    <2>2. PendingIsTimed' /\ StoppedIsEmpty'
      BY DEF FlushDue
    <2> QED
      BY <2>1, <2>2
  <1>6. CASE StopDebouncer
    BY <1>6 DEF StopDebouncer
  <1>7. CASE TimePasses
    BY <1>7 DEF TimePasses
  <1>8. CASE UNCHANGED debouncer
    BY <1>8 DEF debouncer
  <1> QED
    BY <1>1, <1>2, <1>3, <1>4, <1>5, <1>6, <1>7, <1>8 DEF DebouncerStep

DispatcherStep ==
    \/ \E c \in Client : AddSSEClient(c) \/ StreamEvent(c) \/ RemoveSSEClient(c)
    \/ \E s \in Sender : \/ \E type \in EventType : Dispatch(s, type)
                         \/ SnapshotClients(s) /\ UNCHANGED webhooks
                         \/ \E c \in clients[s] : SendOrSkip(s, c) \/ SendOnClosed(s, c)
    \/ \E u \in Url : Subscribe(u) \/ Unsubscribe(u)
    \/ \E type \in EventType : DispatchToWebhooks(type)
    \/ \E u \in Url, n \in Attempt :
          DeliverySucceeds(u, n) \/ AttemptFails(u, n) \/ DeliveryFails(u, n)
    \/ UNCHANGED dispatcher

\* The parts of DispatcherTypeOK that the SSE side and the webhook side change.
SseTypeOK ==
    /\ channel \in [Client -> {"none", "open", "closed"}]
    /\ queue \in [Client -> 0..QueueMax]
    /\ clients \in [Sender -> SUBSET Client]
    /\ panicked \in BOOLEAN

WebhookTypeOK ==
    /\ subscribers \in [Url -> Subscriber \cup {Gone}]
    /\ fanout \in [EventType -> Nat]
    /\ deliveries \in [Url -> [Attempt -> Nat]]

LEMMA SseKeeps ==
    ASSUME SseTypeOK,
           \/ \E c \in Client : AddSSEClient(c) \/ StreamEvent(c) \/ RemoveSSEClient(c)
           \/ \E s \in Sender : \/ SnapshotClients(s)
                                \/ \E c \in clients[s] : SendOrSkip(s, c) \/ SendOnClosed(s, c)
           \/ UNCHANGED sse
    PROVE  SseTypeOK'
  <1> USE Constants DEF SseTypeOK
  <1>1. CASE \E c \in Client : AddSSEClient(c)
    BY <1>1 DEF AddSSEClient
  <1>2. CASE \E c \in Client : StreamEvent(c)
    BY <1>2 DEF StreamEvent
  <1>3. CASE \E c \in Client : RemoveSSEClient(c)
    BY <1>3 DEF RemoveSSEClient
  <1>4. CASE \E s \in Sender : SnapshotClients(s)
    BY <1>4 DEF SnapshotClients
  <1>5. CASE \E s \in Sender : \E c \in clients[s] : SendOrSkip(s, c)
    BY <1>5 DEF SendOrSkip
  <1>6. CASE \E s \in Sender : \E c \in clients[s] : SendOnClosed(s, c)
    BY <1>6 DEF SendOnClosed
  <1>7. CASE UNCHANGED sse
    BY <1>7 DEF sse
  <1> QED
    BY <1>1, <1>2, <1>3, <1>4, <1>5, <1>6, <1>7

LEMMA WebhooksKeep ==
    ASSUME WebhookTypeOK,
           \/ \E type \in EventType :
                 fanout' = [fanout EXCEPT ![type] = @ + 1] /\ UNCHANGED <<subscribers, deliveries>>
           \/ \E u \in Url : Subscribe(u) \/ Unsubscribe(u)
           \/ \E type \in EventType : DispatchToWebhooks(type)
           \/ \E u \in Url, n \in Attempt :
                 DeliverySucceeds(u, n) \/ AttemptFails(u, n) \/ DeliveryFails(u, n)
           \/ UNCHANGED webhooks
    PROVE  WebhookTypeOK'
  <1> USE Constants DEF WebhookTypeOK
  <1>1. CASE \E type \in EventType :
                 fanout' = [fanout EXCEPT ![type] = @ + 1] /\ UNCHANGED <<subscribers, deliveries>>
    BY <1>1
  <1>2. CASE \E u \in Url : Subscribe(u)
    BY <1>2 DEF Subscribe, Subscriber
  <1>3. CASE \E u \in Url : Unsubscribe(u)
    BY <1>3 DEF Unsubscribe
  <1>4. CASE \E type \in EventType : DispatchToWebhooks(type)
    <2> PICK type \in EventType : DispatchToWebhooks(type)
      BY <1>4
    <2>1. ASSUME NEW u \in Url
          PROVE  [deliveries[u] EXCEPT ![0] = @ + 1] \in [Attempt -> Nat]
      BY DEF Attempt
    <2>2. deliveries' \in [Url -> [Attempt -> Nat]]
      BY <2>1 DEF DispatchToWebhooks
    <2> QED
      BY <2>2 DEF DispatchToWebhooks
  <1>5. CASE \E u \in Url, n \in Attempt : DeliverySucceeds(u, n)
    <2> PICK u \in Url, n \in Attempt : DeliverySucceeds(u, n)
      BY <1>5
    <2>1. deliveries' \in [Url -> [Attempt -> Nat]]
      BY DEF DeliverySucceeds, Attempt
    <2>2. subscribers' \in [Url -> Subscriber \cup {Gone}]
      <3>1. CASE ~Subscribed(u)
        BY <3>1 DEF DeliverySucceeds
      <3>2. CASE Subscribed(u)
        <4>1. subscribers[u] \in Subscriber
          BY <3>2 DEF Subscribed
        <4>2. [subscribers[u] EXCEPT !.fails = 0] \in Subscriber
          BY <4>1 DEF Subscriber
        <4> QED
          BY <3>2, <4>2 DEF DeliverySucceeds
      <3> QED
        BY <3>1, <3>2
    <2> QED
      BY <2>1, <2>2 DEF DeliverySucceeds
  <1>6. CASE \E u \in Url, n \in Attempt : AttemptFails(u, n)
    <2> PICK u \in Url, n \in Attempt : AttemptFails(u, n)
      BY <1>6
    <2>1. Moved(deliveries[u], n, n + 1) \in [Attempt -> Nat]
      <3> DEFINE less == [deliveries[u] EXCEPT ![n] = @ - 1]
      <3>1. less \in [Attempt -> Nat]
        <4>1. deliveries[u] \in [Attempt -> Nat] /\ deliveries[u][n] > 0
          BY DEF AttemptFails, WebhookTypeOK
        <4> QED
          BY <4>1
      <3>2. n + 1 \in Attempt
        BY DEF AttemptFails
      <3>3. [less EXCEPT ![n + 1] = @ + 1] \in [Attempt -> Nat]
        <4> HIDE DEF less
        <4> QED
          BY <3>1, <3>2
      <3> QED
        BY <3>3 DEF Moved
    <2>2. deliveries' \in [Url -> [Attempt -> Nat]]
      BY <2>1 DEF AttemptFails
    <2> QED
      BY <2>2 DEF AttemptFails
  <1>7. CASE \E u \in Url, n \in Attempt : DeliveryFails(u, n)
    <2> PICK u \in Url, n \in Attempt : DeliveryFails(u, n)
      BY <1>7
    <2>1. deliveries' \in [Url -> [Attempt -> Nat]]
      BY DEF DeliveryFails, Attempt
    <2>2. subscribers' \in [Url -> Subscriber \cup {Gone}]
      <3>1. CASE Subscribed(u) /\ subscribers[u].fails + 1 < MaxFailCount
        <4>1. subscribers[u] \in Subscriber
          BY <3>1 DEF Subscribed
        <4> DEFINE worse == [subscribers[u] EXCEPT !.fails = @ + 1]
        <4>2. worse \in Subscriber
          BY <3>1, <4>1 DEF Subscriber
        <4>3. subscribers' = [subscribers EXCEPT ![u] = worse]
          BY <3>1 DEF DeliveryFails
        <4> HIDE DEF worse
        <4> QED
          BY <4>2, <4>3
      <3>2. CASE ~(Subscribed(u) /\ subscribers[u].fails + 1 < MaxFailCount)
        BY <3>2 DEF DeliveryFails
      <3> QED
        BY <3>1, <3>2
    <2> QED
      BY <2>1, <2>2 DEF DeliveryFails
  <1>8. CASE UNCHANGED webhooks
    BY <1>8 DEF webhooks
  <1> QED
    BY <1>1, <1>2, <1>3, <1>4, <1>5, <1>6, <1>7, <1>8

LEMMA DispatcherKeeps ==
    ASSUME DispatcherTypeOK, DispatcherStep
    PROVE  DispatcherTypeOK'
  <1>1. SseTypeOK /\ WebhookTypeOK
    BY DEF DispatcherTypeOK, SseTypeOK, WebhookTypeOK
  <1>2. \/ \E c \in Client : AddSSEClient(c) \/ StreamEvent(c) \/ RemoveSSEClient(c)
        \/ \E s \in Sender : \/ SnapshotClients(s)
                             \/ \E c \in clients[s] : SendOrSkip(s, c) \/ SendOnClosed(s, c)
        \/ UNCHANGED sse
    BY DEF DispatcherStep, Dispatch, Subscribe, Unsubscribe, DispatchToWebhooks,
           DeliverySucceeds, AttemptFails, DeliveryFails, dispatcher
  <1>3. \/ \E type \in EventType :
              fanout' = [fanout EXCEPT ![type] = @ + 1] /\ UNCHANGED <<subscribers, deliveries>>
        \/ \E u \in Url : Subscribe(u) \/ Unsubscribe(u)
        \/ \E type \in EventType : DispatchToWebhooks(type)
        \/ \E u \in Url, n \in Attempt :
              DeliverySucceeds(u, n) \/ AttemptFails(u, n) \/ DeliveryFails(u, n)
        \/ UNCHANGED webhooks
    BY DEF DispatcherStep, Dispatch, AddSSEClient, StreamEvent, RemoveSSEClient,
           SendOrSkip, SendOnClosed, dispatcher
  <1>4. SseTypeOK'
    BY <1>1, <1>2, SseKeeps
  <1>5. WebhookTypeOK'
    BY <1>1, <1>3, WebhooksKeep
  <1> QED
    BY <1>4, <1>5 DEF DispatcherTypeOK, SseTypeOK, WebhookTypeOK

-----------------------------------------------------------------------------
(* The core invariant                                                      *)

LEMMA StepParts ==
    ASSUME CoreInv, Next
    PROVE  DebouncerStep /\ DispatcherStep
  <1> USE DEF CoreInv, TypeOK, SendersInPlace
  <1>1. CASE TakeEvent \/ LoopEnds \/ \E p \in Path : FileChanges(p)
    BY <1>1 DEF TakeEvent, LoopEnds, FileChanges, DebouncerStep, DispatcherStep
  <1>2. CASE HandleFsEvent
    <2>1. taken \in Event
      BY <1>2 DEF HandleFsEvent
    <2>2. taken.path \in Path /\ taken.type \in EventType
      BY <2>1 DEF Event
    <2> QED
      BY <1>2, <2>2 DEF HandleFsEvent, DebouncerStep, DispatcherStep
  <1>3. CASE Stop
    BY <1>3 DEF Stop, StopStep, DebouncerStep, DispatcherStep
  <1>4. CASE Tick
    BY <1>4 DEF Tick, DebouncerStep, DispatcherStep
  <1>5. CASE FanOut
    BY <1>5 DEF FanOut, DebouncerStep, DispatcherStep
  <1>6. CASE \E p \in Path : Fire(p) \/ FlushWithout(p) \/ FlushCallsBack(p)
    BY <1>6 DEF Fire, FlushWithout, FlushCallsBack, DebouncerStep, DispatcherStep
  <1>7. CASE \E p \in Path : AppendToBuffer(p)
    BY <1>7 DEF AppendToBuffer, DebouncerStep, DispatcherStep
  <1>8. CASE \E s \in Sender : DispatchEvent(s)
    <2> PICK s \in Sender : DispatchEvent(s)
      BY <1>8
    <2>1. what[s] \in Event
      BY DEF DispatchEvent, Busy
    <2>2. what[s].type \in EventType
      BY <2>1 DEF Event
    <2> QED
      BY <2>2 DEF DispatchEvent, DebouncerStep, DispatcherStep
  <1>9. CASE \E s \in Sender : SendToClient(s)
    BY <1>9 DEF SendToClient, DebouncerStep, DispatcherStep
  <1>10. CASE \E s \in Sender : DispatchReturns(s)
    BY <1>10 DEF DispatchReturns, DebouncerStep, DispatcherStep
  <1>11. CASE \E s \in Scanner : RunScan(s) \/ handleTriggerScan(s)
    BY <1>11 DEF RunScan, ScanBegins, ScanRefused, ScanVisits, ScanEnds,
                 handleTriggerScan, DebouncerStep, DispatcherStep
  <1>12. CASE \E c \in Client : handleSSESubscribe(c)
    BY <1>12 DEF handleSSESubscribe, DebouncerStep, DispatcherStep
  <1>13. CASE \E u \in Url : handleSubscribers(u) \/ Deliver(u)
    BY <1>13 DEF handleSubscribers, Deliver, DebouncerStep, DispatcherStep
  <1> QED
    BY <1>1, <1>2, <1>3, <1>4, <1>5, <1>6, <1>7, <1>8, <1>9, <1>10, <1>11, <1>12, <1>13
       DEF Next, Loop, Flush, Sends

LEMMA CoreInit == Init => CoreInv
  <1> SUFFICES ASSUME Init PROVE CoreInv
    OBVIOUS
  <1> USE Constants
  <1>1. DebouncerTypeOK /\ PendingIsTimed /\ StoppedIsEmpty
    <2>1. DebouncerInit
      BY DEF Init
    <2>2. /\ pending \in [Path -> EventType \cup {NoEvent}]
          /\ age \in [Path -> 0..Delay]
      BY <2>1 DEF DebouncerInit
    <2>3. /\ timer \in [Path -> 0..Off]
          /\ flushers \in [Path -> Nat]
          /\ stopped = FALSE
      BY <2>1 DEF DebouncerInit, Off
    <2> QED
      BY <2>1, <2>2, <2>3 DEF DebouncerInit, DebouncerTypeOK, PendingIsTimed, StoppedIsEmpty,
                              Pending
  <1>2. DispatcherTypeOK
    <2>1. DispatcherInit
      BY DEF Init
    <2>2. /\ channel \in [Client -> {"none", "open", "closed"}]
          /\ clients \in [Sender -> SUBSET Client]
          /\ panicked \in BOOLEAN
      BY <2>1 DEF DispatcherInit
    <2>5. queue \in [Client -> 0..QueueMax]
      BY <2>1 DEF DispatcherInit
    <2>3. /\ subscribers \in [Url -> Subscriber \cup {Gone}]
          /\ fanout \in [EventType -> Nat]
      BY <2>1 DEF DispatcherInit
    <2>4. deliveries \in [Url -> [Attempt -> Nat]]
      BY <2>1 DEF DispatcherInit
    <2> QED
      BY <2>2, <2>3, <2>4, <2>5 DEF DispatcherTypeOK
  <1>3. world \in Worlds /\ disk \subseteq Path /\ changes \in Nat
    BY DEF Init, World
  <1>4. TypeOK
    <2>1. /\ events \in Seq(Event)
          /\ eventBuffer \in Seq(Event) /\ Len(eventBuffer) <= BufferMax
      BY Constants DEF Init
    <2>2. at \in [Sender -> SenderPC]
      BY DEF Init, SenderPC
    <2>3. what \in [Sender -> Event \cup {Nothing}] /\ walk \in [Scanner -> SUBSET Path]
      BY DEF Init
    <2> QED
      BY <1>1, <1>2, <1>3, <2>1, <2>2, <2>3 DEF Init, TypeOK
  <1>5. SendersInPlace
    BY DEF Init, SendersInPlace, Busy, Active
  <1>6. OneCallback /\ ScanIsKnown /\ StopsInOrder
    BY DEF Init, DebouncerInit, OneCallback, Pending, ScanIsKnown, ScansDoNotOverlap,
           StopsInOrder, Active
  <1> QED
    BY <1>1, <1>4, <1>5, <1>6 DEF CoreInv

\* Steps that leave the variables of the watcher itself alone.
AsideStep ==
    \/ Tick \/ FanOut
    \/ \E p \in Path : Fire(p) \/ FlushWithout(p)
    \/ \E s \in Sender : SendToClient(s)
    \/ \E c \in Client : handleSSESubscribe(c)
    \/ \E u \in Url : handleSubscribers(u) \/ Deliver(u)

\* The cut leaves a sequence of events that fits the buffer.
LEMMA TrimmedType ==
    ASSUME NEW buf \in Seq(Event)
    PROVE  Trimmed(buf) \in Seq(Event) /\ Len(Trimmed(buf)) <= BufferMax
  <1>1. CASE Len(buf) > BufferMax
    BY <1>1, Constants DEF Trimmed
  <1>2. CASE ~(Len(buf) > BufferMax)
    BY <1>2, Constants DEF Trimmed
  <1> QED
    BY <1>1, <1>2

LEMMA CoreNext ==
    ASSUME CoreInv, [Next]_vars
    PROVE  CoreInv'
  <1> USE Constants
  <1>0. NoEvent \notin EventType
    BY DEF NoEvent, EventType
  <1>a. CASE Next
    <2>0. DebouncerStep /\ DispatcherStep
      BY <1>a, StepParts
    <2>1. DebouncerInv' /\ DispatcherTypeOK'
      BY <2>0, DebouncerKeeps, DispatcherKeeps DEF CoreInv, TypeOK, DebouncerInv
    <2>2. SUFFICES /\ TypeOK' /\ SendersInPlace' /\ OneCallback'
                   /\ ScanIsKnown' /\ StopsInOrder'
      BY <2>1 DEF CoreInv, DebouncerInv
    <2> USE <2>1 DEF DebouncerInv
    <2>3. CASE TakeEvent
      <3>1. taken' \in Event /\ events' \in Seq(Event)
        BY <2>3 DEF TakeEvent, CoreInv, TypeOK
      <3> QED
        BY <2>3, <3>1 DEF TakeEvent, CoreInv, TypeOK, SendersInPlace, OneCallback, ScanIsKnown,
               ScansDoNotOverlap, StopsInOrder, Busy, Pending, debouncer, sendVars, loopVars
    <2>4. CASE LoopEnds \/ \E p \in Path : FileChanges(p)
      <3>1. events' \in Seq(Event) /\ disk' \subseteq Path /\ changes' \in Nat
        <4>1. CASE LoopEnds
          BY <4>1 DEF LoopEnds, CoreInv, TypeOK
        <4>2. CASE \E p \in Path : FileChanges(p)
          <5> PICK p \in Path, type \in EventType :
                    /\ changes > 0 /\ changes' = changes - 1
                    /\ disk' = IF type \in Present THEN disk \cup {p} ELSE disk \ {p}
                    /\ events' = Append(events, [path |-> p, type |-> type])
            BY <4>2 DEF FileChanges, EventType
          <5>1. [path |-> p, type |-> type] \in Event
            BY DEF Event
          <5> QED
            BY <5>1 DEF CoreInv, TypeOK
        <4> QED
          BY <2>4, <4>1, <4>2
      <3> QED
        BY <2>4, <3>1 DEF LoopEnds, FileChanges, CoreInv, TypeOK, SendersInPlace, OneCallback,
               ScanIsKnown, ScansDoNotOverlap, StopsInOrder, Busy, Pending, debouncer, sendVars
    <2>5. CASE HandleFsEvent
      <3>1. taken \in Event
        BY <2>5 DEF HandleFsEvent, CoreInv, TypeOK, SendersInPlace
      <3>2. stopped' = stopped /\ \A p \in Path : Pending(p)' /\ ~Pending(p) => age'[p] = 0
        BY <2>5, <3>1 DEF HandleFsEvent, Add, Pending, CoreInv, TypeOK, DebouncerTypeOK,
              Event, debouncer
      <3>3. \A p \in Path : age'[p] = age[p] \/ age'[p] = 0
        BY <2>5, <3>1 DEF HandleFsEvent, Add, CoreInv, TypeOK, DebouncerTypeOK, Event, debouncer
      <3>4. TypeOK'
        BY <2>5 DEF HandleFsEvent, CoreInv, TypeOK, sendVars
      <3> QED
        BY <2>5, <3>2, <3>3, <3>4 DEF HandleFsEvent, CoreInv, TypeOK, SendersInPlace,
               OneCallback, ScanIsKnown, ScansDoNotOverlap, StopsInOrder, Busy, sendVars
    <2>6. CASE Stop
      <3>1. TypeOK'
        BY <2>6 DEF Stop, StopStep, CoreInv, TypeOK, sendVars, loopVars
      <3>2. OneCallback'
        BY <2>6 DEF Stop, StopStep, StopDebouncer, CoreInv, OneCallback, Busy, Pending,
                    sendVars, debouncer
      <3>3. StopsInOrder'
        BY <2>6 DEF Stop, StopStep, StopDebouncer, CoreInv, StopsInOrder, debouncer
      <3>4. SendersInPlace' /\ ScanIsKnown'
        BY <2>6 DEF Stop, CoreInv, SendersInPlace, ScanIsKnown, ScansDoNotOverlap, Busy,
                    sendVars, loopVars
      <3> QED
        BY <3>1, <3>2, <3>3, <3>4
    <2>7. CASE AsideStep
      <3>1. UNCHANGED watcher
        BY <2>7 DEF AsideStep, Tick, FanOut, Fire, FlushWithout, SendToClient, handleSSESubscribe,
                    handleSubscribers, Deliver
      <3>2. stopped' = stopped /\ pending' = pending
        BY <2>7 DEF AsideStep, Tick, TimePasses, FanOut, Fire, TimerFires, FlushWithout, FlushNothing,
                    FlushEarly, SendToClient, handleSSESubscribe, handleSubscribers, Deliver,
                    debouncer
      <3>3. (\A s \in Sender : ~Busy(s)) \/ age' = age
        BY <2>7 DEF AsideStep, Tick, FanOut, Fire, TimerFires, FlushWithout, FlushNothing,
                    FlushEarly, SendToClient, handleSSESubscribe, handleSubscribers, Deliver,
                    debouncer
      <3>4. TypeOK'
        BY <3>1 DEF watcher, loopVars, sendVars, CoreInv, TypeOK
      <3>5. SendersInPlace' /\ ScanIsKnown'
        BY <3>1 DEF watcher, loopVars, sendVars, CoreInv, SendersInPlace, ScanIsKnown,
                    ScansDoNotOverlap, Busy
      <3>6. OneCallback'
        BY <3>1, <3>2, <3>3 DEF watcher, sendVars, CoreInv, OneCallback, Busy, Pending
      <3>7. StopsInOrder'
        BY <3>1, <3>2 DEF watcher, CoreInv, StopsInOrder
      <3> QED
        BY <3>4, <3>5, <3>6, <3>7
    <2>8. CASE \E p \in Path : FlushCallsBack(p)
      <3> PICK p \in Path : FlushCallsBack(p)
        BY <2>8
      <3>1. pending[p] \in EventType /\ p \in Sender
        BY DEF FlushCallsBack, FlushDue, Pending, CoreInv, TypeOK, DebouncerTypeOK
      <3>2. [path |-> p, type |-> pending[p]] \in Event
        BY <3>1 DEF Event
      <3>3. TypeOK'
        BY <3>1, <3>2 DEF FlushCallsBack, Goto, CoreInv, TypeOK, SenderPC, loopVars
      <3>4. ~Pending(p)' /\ stopped' = stopped
            /\ \A q \in Path : q # p => pending'[q] = pending[q] /\ age'[q] = age[q]
        BY DEF FlushCallsBack, FlushDue, Pending, CoreInv, TypeOK, DebouncerTypeOK
      <3>5. \A s \in Sender : s # p => at'[s] = at[s] /\ what'[s] = what[s]
        BY <3>1 DEF FlushCallsBack, Goto, CoreInv, TypeOK
      <3>6. at'[p] = "append" /\ what'[p] = [path |-> p, type |-> pending[p]]
        BY <3>1 DEF FlushCallsBack, Goto, CoreInv, TypeOK
      <3>7. SendersInPlace'
        BY <3>2, <3>5, <3>6 DEF FlushCallsBack, CoreInv, SendersInPlace, Busy, loopVars
      <3>8. OneCallback'
        BY <3>4, <3>5 DEF CoreInv, OneCallback, Busy, Pending
      <3>9. ScanIsKnown' /\ StopsInOrder'
        BY <3>4, <3>5 DEF FlushCallsBack, CoreInv, ScanIsKnown, ScansDoNotOverlap, StopsInOrder,
                          Active
      <3> QED
        BY <3>3, <3>7, <3>8, <3>9
    <2>9. CASE \E p \in Path : AppendToBuffer(p)
      <3> PICK p \in Path : AppendToBuffer(p)
        BY <2>9
      <3>1. what[p] \in Event /\ p \in Sender
        BY DEF AppendToBuffer, CoreInv, TypeOK, SendersInPlace, Busy
      <3>2. eventBuffer' \in Seq(Event) /\ Len(eventBuffer') <= BufferMax
        <4>1. Append(eventBuffer, what[p]) \in Seq(Event)
          BY <3>1 DEF CoreInv, TypeOK
        <4> QED
          BY <4>1, TrimmedType DEF AppendToBuffer
      <3>3. TypeOK'
        BY <3>1, <3>2 DEF AppendToBuffer, Goto, CoreInv, TypeOK, SenderPC, loopVars
      <3>4. \A s \in Sender : s # p => at'[s] = at[s]
        BY DEF AppendToBuffer, Goto, CoreInv, TypeOK
      <3>5. at[p] = "append" /\ at'[p] = "dispatch"
        BY <3>1 DEF AppendToBuffer, Goto, CoreInv, TypeOK
      <3>6. SendersInPlace' /\ OneCallback'
        BY <3>4, <3>5 DEF AppendToBuffer, CoreInv, SendersInPlace, OneCallback, Busy, Pending,
                          loopVars, debouncer
      <3>7. ScanIsKnown' /\ StopsInOrder'
        BY <3>4, <3>5 DEF AppendToBuffer, CoreInv, ScanIsKnown, ScansDoNotOverlap, StopsInOrder,
                          Active, debouncer
      <3> QED
        BY <3>3, <3>6, <3>7
    <2>10. CASE \E s \in Sender : DispatchEvent(s)
      <3> PICK s \in Sender : DispatchEvent(s)
        BY <2>10
      <3>1. what[s] \in Event
        BY DEF DispatchEvent, CoreInv, TypeOK, SendersInPlace, Busy
      <3>2. what[s].path \in Path /\ what[s].type \in EventType
        BY <3>1 DEF Event
      <3>3. TypeOK'
        BY <3>2 DEF DispatchEvent, Goto, CoreInv, TypeOK, SenderPC, loopVars
      <3>4. \A r \in Sender : r # s => at'[r] = at[r]
        BY DEF DispatchEvent, Goto, CoreInv, TypeOK
      <3>5. at[s] = "dispatch" /\ at'[s] = "send"
        BY DEF DispatchEvent, Goto, CoreInv, TypeOK
      <3>6. SendersInPlace' /\ OneCallback'
        BY <3>4, <3>5 DEF DispatchEvent, CoreInv, SendersInPlace, OneCallback, Busy, Pending,
                          loopVars, debouncer, Active
      <3>7. ScanIsKnown' /\ StopsInOrder'
        BY <3>4, <3>5 DEF DispatchEvent, CoreInv, ScanIsKnown, ScansDoNotOverlap, StopsInOrder,
                          Active, debouncer
      <3> QED
        BY <3>3, <3>6, <3>7
    <2>11. CASE \E s \in Sender : DispatchReturns(s)
      <3> PICK s \in Sender : DispatchReturns(s)
        BY <2>11
      <3>1. TypeOK'
        BY DEF DispatchReturns, Goto, CoreInv, TypeOK, SenderPC, loopVars
      <3>2. \A r \in Sender : r # s => at'[r] = at[r] /\ what'[r] = what[r]
        BY DEF DispatchReturns, Goto, CoreInv, TypeOK
      <3>3. /\ at[s] = "send" /\ what'[s] = Nothing
            /\ at'[s] = IF s \in Scanner THEN "walk" ELSE "idle"
        BY DEF DispatchReturns, Goto, CoreInv, TypeOK
      <3>4. SendersInPlace' /\ OneCallback'
        BY <3>2, <3>3 DEF DispatchReturns, CoreInv, SendersInPlace, OneCallback, Busy, Pending,
                          loopVars, debouncer, Active
      <3>5. ScanIsKnown' /\ StopsInOrder'
        BY <3>2, <3>3 DEF DispatchReturns, CoreInv, ScanIsKnown, ScansDoNotOverlap, StopsInOrder,
                          Active, debouncer
      <3> QED
        BY <3>1, <3>4, <3>5
    <2>12. CASE \E s \in Scanner : RunScan(s) \/ handleTriggerScan(s)
      <3> PICK s \in Scanner : RunScan(s) \/ handleTriggerScan(s)
        BY <2>12
      <3>0. \/ ScanBegins(s) \/ ScanRefused(s) \/ ScanVisits(s) \/ ScanEnds(s)
            \/ handleTriggerScan(s)
        BY DEF RunScan
      <3>a. s \in Sender
        OBVIOUS
      <3>1. \A r \in Sender : r # s => at'[r] = at[r] /\ what'[r] = what[r]
        BY <3>0 DEF ScanBegins, ScanRefused, ScanVisits, ScanEnds, handleTriggerScan, Goto,
                    CoreInv, TypeOK
      <3>2. \/ at'[s] \in {"start", "done", "walk"} /\ what'[s] = what[s]
               /\ at[s] \in {"start", "idle", "walk"}
            \/ \E p \in Path : /\ at[s] = "walk" /\ at'[s] = "dispatch"
                               /\ what'[s] = [path |-> p, type |-> "add"]
        <4>1. at \in [Sender -> SenderPC] /\ what \in [Sender -> Event \cup {Nothing}]
          BY DEF CoreInv, TypeOK
        <4>2. CASE ScanBegins(s)
          BY <3>a, <4>1, <4>2 DEF ScanBegins, Goto
        <4>3. CASE ScanRefused(s)
          BY <3>a, <4>1, <4>3 DEF ScanRefused, Goto
        <4>4. CASE ScanVisits(s)
          <5>1. PICK p \in walk[s] :
                    \/ p \in disk /\ at' = [at EXCEPT ![s] = "dispatch"]
                       /\ what' = [what EXCEPT ![s] = [path |-> p, type |-> "add"]]
                    \/ UNCHANGED <<at, what>>
            BY <4>4, Zenon DEF ScanVisits, Goto
          <5>2. at[s] = "walk" /\ p \in Path
            BY <4>4 DEF ScanVisits, CoreInv, TypeOK
          <5> QED
            BY <3>a, <4>1, <5>1, <5>2
        <4>5. CASE ScanEnds(s)
          BY <3>a, <4>1, <4>5 DEF ScanEnds, Goto
        <4>6. CASE handleTriggerScan(s)
          BY <3>a, <4>1, <4>6 DEF handleTriggerScan, Goto
        <4> QED
          BY <3>0, <4>2, <4>3, <4>4, <4>5, <4>6
      <3>3. \A p \in Path : [path |-> p, type |-> "add"] \in Event
        BY DEF Event, EventType
      <3>4. at' \in [Sender -> SenderPC] /\ what' \in [Sender -> Event \cup {Nothing}]
        <4>1. /\ at \in [Sender -> SenderPC] /\ what \in [Sender -> Event \cup {Nothing}]
              /\ walk[s] \subseteq Path
          BY DEF CoreInv, TypeOK
        <4>2. /\ {"start", "walk", "done", "dispatch"} \subseteq SenderPC
              /\ \A l : Goto(s, l) /\ l \in SenderPC => at' \in [Sender -> SenderPC]
          BY <4>1 DEF Goto, SenderPC
        <4>3. CASE ScanVisits(s)
          <5>1. PICK p \in walk[s] :
                    \/ Goto(s, "dispatch")
                       /\ what' = [what EXCEPT ![s] = [path |-> p, type |-> "add"]]
                    \/ UNCHANGED <<at, what>>
            BY <4>3, Zenon DEF ScanVisits
          <5>2. [path |-> p, type |-> "add"] \in Event
            BY <3>3, <4>1
          <5>3. what' \in [Sender -> Event \cup {Nothing}]
            BY <4>1, <5>1, <5>2
          <5>4. at' \in [Sender -> SenderPC]
            BY <4>1, <4>2, <5>1
          <5> QED
            BY <5>3, <5>4
        <4>4. CASE ScanBegins(s) \/ ScanRefused(s) \/ ScanEnds(s) \/ handleTriggerScan(s)
          <5>1. PICK l \in {"start", "walk", "done"} : what' = what /\ Goto(s, l)
            BY <4>4 DEF ScanBegins, ScanRefused, ScanEnds, handleTriggerScan
          <5>2. at' \in [Sender -> SenderPC]
            BY <4>2, <5>1
          <5>3. what' \in [Sender -> Event \cup {Nothing}]
            BY <4>1, <5>1
          <5> QED
            BY <5>2, <5>3
        <4> QED
          BY <3>0, <4>3, <4>4
      <3>5. walk' \in [Scanner -> SUBSET Path] /\ isScanning' \in BOOLEAN
        <4>1. walk \in [Scanner -> SUBSET Path] /\ disk \subseteq Path /\ isScanning \in BOOLEAN
          BY DEF CoreInv, TypeOK
        <4>2. \/ walk' = walk \/ walk' = [walk EXCEPT ![s] = disk]
              \/ \E p \in walk[s] : walk' = [walk EXCEPT ![s] = @ \ {p}]
          BY <3>0, Zenon DEF ScanBegins, ScanRefused, ScanVisits, ScanEnds, handleTriggerScan
        <4>3. isScanning' = isScanning \/ isScanning' \in BOOLEAN
          BY <3>0, Zenon DEF ScanBegins, ScanRefused, ScanVisits, ScanEnds, handleTriggerScan
        <4>4. walk' \in [Scanner -> SUBSET Path]
          BY <4>1, <4>2
        <4> QED
          BY <4>1, <4>3, <4>4
      <3>6. UNCHANGED <<debouncer, dispatcher, world, disk, changes, loopVars, stopping,
                        eventBuffer, dispatched>>
        BY <3>0 DEF ScanBegins, ScanRefused, ScanVisits, ScanEnds, handleTriggerScan
      <3>7. TypeOK'
        BY <3>4, <3>5, <3>6 DEF CoreInv, TypeOK, loopVars
      <3>8. SendersInPlace'
        <4>0. Busy(s) <=> what[s] # Nothing
          BY <3>a DEF CoreInv, SendersInPlace
        <4>1. Busy(s)' <=> what'[s] # Nothing
          <5>1. CASE /\ at'[s] \in {"start", "done", "walk"} /\ what'[s] = what[s]
                     /\ at[s] \in {"start", "idle", "walk"}
            BY <4>0, <5>1 DEF Busy
          <5>2. ASSUME NEW p \in Path, at'[s] = "dispatch",
                       what'[s] = [path |-> p, type |-> "add"]
                PROVE  Busy(s)' /\ what'[s] # Nothing
            <6>1. what'[s] \in Event /\ Nothing \notin Event
              BY <3>3, <5>2, NothingAssumption, Zenon
            <6> QED
              BY <5>2, <6>1 DEF Busy
          <5> QED
            BY <3>2, <5>1, <5>2
        <4>2. \A r \in Sender : r # s => (Busy(r)' <=> what'[r] # Nothing)
          BY <3>1 DEF CoreInv, SendersInPlace, Busy
        <4>3. at'[s] \in {"idle", "start", "done"} \cup Active
          BY <3>2 DEF Active
        <4>4. \A p \in Path : p # s
          OBVIOUS
        <4> QED
          BY <3>1, <3>6, <4>1, <4>2, <4>3, <4>4 DEF CoreInv, SendersInPlace, loopVars
      <3>9. OneCallback' /\ StopsInOrder'
        <4>1. \A p \in Path : at'[p] = at[p]
          BY <3>1
        <4> QED
          BY <4>1, <3>6 DEF CoreInv, OneCallback, StopsInOrder, Busy, Pending, debouncer
      <3>10. \A r \in Scanner : r # s => at'[r] = at[r]
        BY <3>1
      <3>11. ScanIsKnown'
        <4>1. CASE isScanning' = isScanning /\ (at[s] \in Active <=> at'[s] \in Active)
          BY <4>1, <3>10 DEF CoreInv, TypeOK, ScanIsKnown, ScansDoNotOverlap, Active
        <4>2. CASE ScanBegins(s)
          <5>1. isScanning' /\ at'[s] = "walk" /\ \A r \in Scanner : at[r] \notin Active
            BY <4>2, <3>a DEF ScanBegins, Goto, CoreInv, ScanIsKnown, TypeOK
          <5> QED
            BY <3>5, <3>10, <5>1 DEF ScanIsKnown, ScansDoNotOverlap, Active
        <4>3. CASE ScanEnds(s)
          <5>1. ~isScanning' /\ at[s] = "walk" /\ at'[s] = "done"
            BY <4>3, <3>a DEF ScanEnds, Goto, CoreInv, TypeOK
          <5>2. \A r \in Scanner : r # s => at[r] \notin Active
            BY <5>1 DEF CoreInv, ScanIsKnown, ScansDoNotOverlap, Active
          <5> QED
            BY <3>5, <3>10, <5>1, <5>2 DEF ScanIsKnown, ScansDoNotOverlap, Active
        <4>4. CASE ScanRefused(s) \/ ScanVisits(s) \/ handleTriggerScan(s)
          <5>1. isScanning' = isScanning /\ (at[s] \in Active <=> at'[s] \in Active)
            BY <4>4, <3>a DEF ScanRefused, ScanVisits, handleTriggerScan, Goto, CoreInv, TypeOK,
                               Active
          <5> QED
            BY <4>1, <5>1
        <4> QED
          BY <3>0, <4>2, <4>3, <4>4
      <3> QED
        BY <3>7, <3>8, <3>9, <3>11
    <2>13. \/ TakeEvent
           \/ LoopEnds \/ \E p \in Path : FileChanges(p)
           \/ HandleFsEvent
           \/ Stop
           \/ AsideStep
           \/ \E p \in Path : FlushCallsBack(p)
           \/ \E p \in Path : AppendToBuffer(p)
           \/ \E s \in Sender : DispatchEvent(s)
           \/ \E s \in Sender : DispatchReturns(s)
           \/ \E s \in Scanner : RunScan(s) \/ handleTriggerScan(s)
      BY <1>a DEF Next, Loop, Flush, Sends, AsideStep
    <2> QED
      BY ONLY <2>3, <2>4, <2>5, <2>6, <2>7, <2>8, <2>9, <2>10, <2>11, <2>12, <2>13
  <1>b. CASE UNCHANGED vars
    <2>1. DebouncerInv' /\ DispatcherTypeOK'
      BY <1>b, DebouncerKeeps, DispatcherKeeps DEF vars, CoreInv, TypeOK, DebouncerInv,
         DebouncerStep, DispatcherStep
    <2> QED
      BY <1>b, <2>1 DEF vars, debouncer, watcher, loopVars, sendVars, CoreInv, TypeOK,
         DebouncerInv, SendersInPlace, OneCallback, ScanIsKnown, ScansDoNotOverlap, StopsInOrder,
         Busy, Pending
  <1> QED
    BY <1>a, <1>b

THEOREM CoreHolds == Spec => []CoreInv
  BY CoreInit, CoreNext, PTL DEF Spec

\* Every variable keeps its type: a subscriber stays below MaxFailCount
\* failures, a channel never holds more than its capacity.
THEOREM TypeCorrect == Spec => []TypeOK
  BY CoreHolds, PTL DEF CoreInv

\* No event is forgotten in the debouncer.
THEOREM PendingTimed == Spec => []PendingIsTimed
  BY CoreHolds, PTL DEF CoreInv

\* At most one scan walks over the files.
THEOREM OneScan == Spec => []ScansDoNotOverlap
  <1>1. CoreInv => ScansDoNotOverlap
    BY DEF CoreInv, ScanIsKnown
  <1> QED
    BY <1>1, CoreHolds, PTL

\* Only a flush that is due starts a callback.
LEMMA CallbackStarts ==
    ASSUME CoreInv, Next, NEW p \in Path, what[p] = Nothing, what'[p] # Nothing
    PROVE  FlushDue(p)
  <1> USE Constants DEF CoreInv, TypeOK
  <1>1. CASE Loop \/ LoopEnds \/ Stop \/ Tick \/ FanOut
    BY <1>1 DEF Loop, TakeEvent, HandleFsEvent, LoopEnds, Stop, Tick, FanOut, sendVars, watcher
  <1>2. CASE \E q \in Path : FileChanges(q) \/ Fire(q) \/ FlushWithout(q) \/ AppendToBuffer(q)
    BY <1>2 DEF FileChanges, Fire, FlushWithout, AppendToBuffer, sendVars, watcher
  <1>3. CASE \E q \in Path : FlushCallsBack(q)
    BY <1>3 DEF FlushCallsBack
  <1>4. CASE \E s \in Sender : Sends(s)
    <2> PICK s \in Sender : Sends(s)
      BY <1>4
    <2>1. CASE DispatchEvent(s) \/ SendToClient(s)
      BY <2>1 DEF DispatchEvent, SendToClient, watcher, sendVars
    <2>2. CASE DispatchReturns(s)
      BY <2>2 DEF DispatchReturns
    <2> QED
      BY <2>1, <2>2 DEF Sends
  <1>5. CASE \E s \in Scanner : RunScan(s) \/ handleTriggerScan(s)
    <2> PICK s \in Scanner : RunScan(s) \/ handleTriggerScan(s)
      BY <1>5
    <2>1. s # p
      OBVIOUS
    <2> QED
      BY <2>1 DEF RunScan, ScanBegins, ScanRefused, ScanVisits, ScanEnds, handleTriggerScan
  <1>6. CASE \/ \E c \in Client : handleSSESubscribe(c)
            \/ \E u \in Url : handleSubscribers(u) \/ Deliver(u)
    BY <1>6 DEF handleSSESubscribe, handleSubscribers, Deliver, watcher, sendVars
  <1> QED
    BY <1>1, <1>2, <1>3, <1>4, <1>5, <1>6 DEF Next, Flush

\* A file is reported only after DEBOUNCE_MS of quiet.
THEOREM QuietHolds == Spec => QuietBeforeReport
  <1> DEFINE Quiet == \A p \in Path : what[p] = Nothing /\ what'[p] # Nothing
                                         => Pending(p) /\ age[p] = Delay
  <1>1. ASSUME CoreInv, Next PROVE Quiet
    <2> SUFFICES ASSUME NEW p \in Path, what[p] = Nothing, what'[p] # Nothing
                 PROVE  Pending(p) /\ age[p] = Delay
      OBVIOUS
    <2>1. FlushDue(p)
      BY <1>1, CallbackStarts
    <2> QED
      BY <1>1, <2>1, Constants DEF FlushDue, CoreInv, TypeOK, DebouncerTypeOK
  <1>2. CoreInv /\ [Next]_vars => [Quiet]_vars
    BY <1>1
  <1> QED
    BY <1>2, CoreHolds, PTL DEF Spec, QuietBeforeReport

\* After Stop of the debouncer there are no more callbacks.
THEOREM SilenceHolds == Spec => StopSilences
  <1> DEFINE Silence == stopped => /\ stopped'
                                   /\ \A p \in Path : what[p] = Nothing => what'[p] = Nothing
                                   /\ \A p \in Path : ~Pending(p)'
  <1>1. ASSUME CoreInv, Next, CoreInv' PROVE Silence
    <2> SUFFICES ASSUME stopped PROVE Silence
      OBVIOUS
    <2>1. stopped'
      BY <1>1, StepParts DEF DebouncerStep, Add, TimerFires, FlushNothing, FlushEarly, FlushDue,
         StopDebouncer, TimePasses, debouncer
    <2>2. \A p \in Path : ~Pending(p)'
      BY <1>1, <2>1 DEF CoreInv, StoppedIsEmpty
    <2>3. ASSUME NEW p \in Path, what[p] = Nothing PROVE what'[p] = Nothing
      <3>1. ~FlushDue(p)
        BY <1>1 DEF FlushDue, CoreInv, StoppedIsEmpty
      <3> QED
        BY <1>1, <2>3, <3>1, CallbackStarts
    <2> QED
      BY <2>1, <2>2, <2>3
  <1>2. CoreInv /\ CoreInv' /\ [Next]_vars => [Silence]_vars
    BY <1>1
  <1> QED
    BY <1>2, CoreHolds, PTL DEF Spec, StopSilences

-----------------------------------------------------------------------------
(* The promise of QuietPeriod                                              *)

LEMMA ReportingFrame ==
    ASSUME \A p \in Path : what'[p] = what[p]
    PROVE  Reporting' = Reporting
  BY DEF Reporting

\* Each step is one of QuietPeriod, or nothing to it.
LEMMA PromiseKept ==
    ASSUME CoreInv, [Next]_vars
    PROVE  [Promise!QNext]_(Promise!qvars)
  <1> USE Constants
  <1>0. /\ Path \subseteq Sender
        /\ what \in [Sender -> Event \cup {Nothing}]
        /\ pending \in [Path -> EventType \cup {NoEvent}] /\ age \in [Path -> 0..Delay]
        /\ NoEvent \notin EventType
    BY DEF CoreInv, TypeOK, DebouncerTypeOK, NoEvent, EventType
  <1>1. CASE UNCHANGED <<pending, age, stopped>> /\ \A p \in Path : what'[p] = what[p]
    BY <1>1, ReportingFrame DEF Promise!qvars
  <1>2. CASE TakeEvent \/ LoopEnds \/ \E p \in Path : FileChanges(p) \/ AppendToBuffer(p)
    BY <1>1, <1>2 DEF TakeEvent, LoopEnds, FileChanges, AppendToBuffer, debouncer, sendVars
  <1>3. CASE HandleFsEvent
    <2>1. taken.path \in Path /\ taken.type \in EventType
      BY <1>3 DEF HandleFsEvent, CoreInv, TypeOK, SendersInPlace, Event
    <2>2. what' = what
      BY <1>3 DEF HandleFsEvent, sendVars
    <2>3. CASE UNCHANGED debouncer
      BY <1>1, <2>2, <2>3 DEF debouncer
    <2>4. CASE Add(taken.path, taken.type)
      <3>1. Promise!Hear(taken.path, taken.type)
        BY <2>2, <2>4, ReportingFrame DEF Add, Promise!Hear
      <3> QED
        BY <2>1, <3>1 DEF Promise!QNext
    <2> QED
      BY <1>3, <2>3, <2>4 DEF HandleFsEvent
  <1>4. CASE Stop
    <2>1. what' = what
      BY <1>4 DEF Stop, sendVars
    <2>2. CASE StopDebouncer
      <3>1. Promise!Silence
        BY <2>1, <2>2, ReportingFrame DEF StopDebouncer, Promise!Silence
      <3> QED
        BY <3>1 DEF Promise!QNext
    <2>3. CASE UNCHANGED debouncer
      BY <1>1, <2>1, <2>3 DEF debouncer
    <2> QED
      BY <1>4, <2>2, <2>3 DEF Stop, StopStep
  <1>5. CASE Tick
    <2>1. what' = what
      BY <1>5 DEF Tick, watcher, sendVars
    <2>2. \A p \in Path : what[p] = Nothing
      BY <1>0, <1>5 DEF Tick, CoreInv, SendersInPlace
    <2>3. Promise!Wait
      <3>1. \A p \in Path : Reporting[p] = NoEvent
        BY <2>2 DEF Reporting
      <3> QED
        BY <1>5, <2>1, <3>1, ReportingFrame DEF Tick, TimePasses, Pending, Promise!Wait
    <2> QED
      BY <2>3 DEF Promise!QNext
  <1>6. CASE \E p \in Path : Fire(p) \/ FlushWithout(p)
    BY <1>1, <1>6 DEF Fire, TimerFires, FlushWithout, FlushNothing, FlushEarly, watcher, sendVars
  <1>7. ASSUME NEW p \in Path, FlushCallsBack(p)
        PROVE  Promise!QNext
    <2>1. /\ Pending(p) /\ age[p] = Delay
          /\ pending' = [pending EXCEPT ![p] = NoEvent]
          /\ age' = [age EXCEPT ![p] = 0]
          /\ stopped' = stopped
      BY <1>0, <1>7 DEF FlushCallsBack, FlushDue
    <2>2. what[p] = Nothing
      BY <1>0, <2>1 DEF CoreInv, OneCallback, SendersInPlace
    <2>3. what' = [what EXCEPT ![p] = [path |-> p, type |-> pending[p]]]
      BY <1>7 DEF FlushCallsBack
    <2>4. [path |-> p, type |-> pending[p]] # Nothing
      <3>1. [path |-> p, type |-> pending[p]] \in Event
        BY <1>0, <2>1 DEF Pending, Event
      <3> QED
        BY <3>1, NothingAssumption
    <2>5. Reporting' = [Reporting EXCEPT ![p] = pending[p]]
      BY <1>0, <2>3, <2>4 DEF Reporting
    <2>6. Reporting[p] = NoEvent
      BY <2>2 DEF Reporting
    <2>7. Promise!Report(p)
      BY <2>1, <2>5, <2>6 DEF Pending, Promise!Report
    <2> QED
      BY <2>7 DEF Promise!QNext
  <1>8. CASE \E s \in Sender : DispatchEvent(s) \/ SendToClient(s)
    BY <1>1, <1>8 DEF DispatchEvent, SendToClient, debouncer, watcher, sendVars
  <1>9. ASSUME NEW s \in Sender, DispatchReturns(s)
        PROVE  [Promise!QNext]_(Promise!qvars)
    <2>1. UNCHANGED <<pending, age, stopped>> /\ what' = [what EXCEPT ![s] = Nothing]
      BY <1>9 DEF DispatchReturns, debouncer
    <2>2. CASE s \notin Path
      BY <1>0, <1>1, <2>1, <2>2
    <2>3. CASE s \in Path
      <3>1. what[s] \in Event
        BY <1>0, <1>9 DEF DispatchReturns, CoreInv, SendersInPlace, Busy
      <3>2. Reporting[s] # NoEvent
        BY <1>0, <2>3, <3>1 DEF Reporting, Event
      <3>3. Reporting' = [Reporting EXCEPT ![s] = NoEvent]
        BY <1>0, <2>1, <2>3 DEF Reporting
      <3>4. Promise!Reported(s)
        BY <2>1, <3>2, <3>3 DEF Promise!Reported
      <3> QED
        BY <2>3, <3>4 DEF Promise!QNext
    <2> QED
      BY <2>2, <2>3
  <1>10. ASSUME NEW s \in Scanner, RunScan(s) \/ handleTriggerScan(s)
         PROVE  [Promise!QNext]_(Promise!qvars)
    <2>1. UNCHANGED debouncer
      BY <1>10 DEF RunScan, ScanBegins, ScanRefused, ScanVisits, ScanEnds, handleTriggerScan
    <2>2. \A p \in Path : p # s
      OBVIOUS
    <2>3. \/ what' = what
          \/ \E p \in walk[s] : what' = [what EXCEPT ![s] = [path |-> p, type |-> "add"]]
      BY <1>10, Zenon DEF RunScan, ScanBegins, ScanRefused, ScanVisits, ScanEnds, handleTriggerScan
    <2>4. \A p \in Path : what'[p] = what[p]
      BY <1>0, <2>2, <2>3
    <2> QED
      BY <1>1, <2>1, <2>4 DEF debouncer
  <1>11. CASE \/ FanOut \/ \E c \in Client : handleSSESubscribe(c)
              \/ \E u \in Url : handleSubscribers(u) \/ Deliver(u)
    BY <1>1, <1>11 DEF FanOut, handleSSESubscribe, handleSubscribers, Deliver, debouncer, watcher,
                       sendVars
  <1>12. CASE UNCHANGED vars
    BY <1>1, <1>12 DEF vars, debouncer, watcher, sendVars
  <1> QED
    BY <1>2, <1>3, <1>4, <1>5, <1>6, <1>7, <1>8, <1>9, <1>10, <1>11, <1>12
       DEF Next, Loop, Flush, Sends

\* Of each path the latest event is reported after DEBOUNCE_MS of quiet, one
\* report at a time, and after Stop none begins: timers, flushes and
\* callbacks, however they interleave, look like one step each.
THEOREM LatestReported == Spec => ReportsTheLatest
  <1>1. Init => Promise!QInit
    BY Constants DEF Init, DebouncerInit, Promise!QInit, Reporting
  <1>2. CoreInv /\ [Next]_vars => [Promise!QNext]_(Promise!qvars)
    BY PromiseKept
  <1> QED
    BY <1>1, <1>2, CoreHolds, PTL DEF Spec, ReportsTheLatest, Promise!QSpec

-----------------------------------------------------------------------------
(* What is dispatched is true                                              *)

Agrees(type, p) == type \in Present <=> p \in disk

Heard(seq, p)  == \E i \in DOMAIN seq : seq[i].path = p
Latest(seq, i) == \A j \in DOMAIN seq : j > i => seq[j].path # seq[i].path

\* What a sequence of events says last of a path is so.
SaysTruly(seq, p) ==
    \A i \in DOMAIN seq : seq[i].path = p /\ Latest(seq, i) => Agrees(seq[i].type, p)

\* The debouncer has still to hear of the path.
News(p) == Heard(events, p) \/ (taken # Nothing /\ taken.path = p)

\* Nothing newer than what the callback of the path has at hand.
Flushed(p) == ~News(p) /\ ~Pending(p)

\* A scan is to tell of the path: one that has still to begin, or the one
\* that walks and has not come to it.
Coming(p) ==
    /\ \E s \in Scanner : at[s] \in {"start"} \cup Active
    /\ \A s \in Scanner :
          at[s] \in Active => p \in walk[s] \/ (at[s] = "dispatch" /\ what[s].path = p)

LoopTruth(p) ==
    /\ SaysTruly(events, p)
    /\ taken # Nothing /\ taken.path = p /\ ~Heard(events, p) => Agrees(taken.type, p)

PendingTruth(p) == ~News(p) /\ Pending(p) => Agrees(pending[p], p)

CallbackTruth(p) ==
    Flushed(p) /\ at[p] \in {"append", "dispatch"} => Agrees(what[p].type, p)

DispatchTruth(p) ==
    Flushed(p) /\ at[p] \notin {"append", "dispatch"}
        => Agrees(dispatched[p], p) \/ (dispatched[p] = NoEvent /\ p \in disk /\ Coming(p))

BufferTruth(p) == Flushed(p) /\ at[p] # "append" => SaysTruly(eventBuffer, p)

\* What a scan is about to tell is so, or is soon put right.
ScanTruth(p) ==
    \A s \in Scanner : at[s] = "dispatch" /\ what[s].path = p =>
        /\ what[s].type = "add"
        /\ p \in disk \/ News(p) \/ (Pending(p) /\ age[p] = 0)

Truth(p) ==
    /\ LoopTruth(p) /\ PendingTruth(p) /\ CallbackTruth(p)
    /\ DispatchTruth(p) /\ BufferTruth(p) /\ ScanTruth(p)

TruthInv == stopping = "running" => \A p \in Path : Truth(p)

LEMMA AppendSays ==
    ASSUME NEW seq \in Seq(Event), NEW e \in Event, NEW p \in Path
    PROVE  LET t == Append(seq, e)
           IN  /\ Heard(t, p) <=> Heard(seq, p) \/ e.path = p
               /\ \A i \in DOMAIN t : t[i].path = p /\ Latest(t, i) =>
                     IF e.path = p THEN t[i] = e
                     ELSE i \in DOMAIN seq /\ seq[i] = t[i] /\ Latest(seq, i)
  <1> DEFINE t == Append(seq, e)
  <1>1. DOMAIN seq = 1..Len(seq) /\ DOMAIN t = 1..Len(seq) + 1 /\ Len(seq) \in Nat
    OBVIOUS
  <1>2. t[Len(seq) + 1] = e /\ \A i \in 1..Len(seq) : t[i] = seq[i]
    OBVIOUS
  <1> HIDE DEF t
  <1>3. Heard(t, p) <=> Heard(seq, p) \/ e.path = p
    BY <1>1, <1>2 DEF Heard
  <1>4. ASSUME NEW i \in DOMAIN t, t[i].path = p, Latest(t, i)
        PROVE  IF e.path = p THEN t[i] = e
               ELSE i \in DOMAIN seq /\ seq[i] = t[i] /\ Latest(seq, i)
    BY <1>1, <1>2, <1>4 DEF Latest
  <1> QED
    BY <1>3, <1>4 DEF t

LEMMA TailSays ==
    ASSUME NEW seq \in Seq(Event), seq # <<>>, NEW p \in Path
    PROVE  LET t == Tail(seq)
           IN  /\ Heard(seq, p) <=> Heard(t, p) \/ Head(seq).path = p
               /\ \A i \in DOMAIN t : Latest(t, i) =>
                     i + 1 \in DOMAIN seq /\ seq[i + 1] = t[i] /\ Latest(seq, i + 1)
               /\ ~Heard(t, p) /\ Head(seq).path = p =>
                     1 \in DOMAIN seq /\ seq[1] = Head(seq) /\ Latest(seq, 1)
  <1> DEFINE t == Tail(seq)
  <1>1. /\ Len(seq) \in Nat \ {0} /\ DOMAIN seq = 1..Len(seq)
        /\ DOMAIN t = 1..Len(seq) - 1 /\ seq[1] = Head(seq)
    OBVIOUS
  <1>2. \A i \in 1..Len(seq) - 1 : t[i] = seq[i + 1]
    OBVIOUS
  <1> HIDE DEF t
  <1>3. \A j \in DOMAIN seq : j = 1 \/ (j - 1 \in DOMAIN t /\ t[j - 1] = seq[j])
    BY <1>1, <1>2
  <1>4. Heard(seq, p) <=> Heard(t, p) \/ Head(seq).path = p
    <2>1. Heard(seq, p) => Heard(t, p) \/ Head(seq).path = p
      BY <1>1, <1>3 DEF Heard
    <2>2. Heard(t, p) => Heard(seq, p)
      <3>1. \A i \in DOMAIN t : i + 1 \in DOMAIN seq /\ t[i] = seq[i + 1]
        BY <1>1, <1>2
      <3> QED
        BY <3>1 DEF Heard
    <2>3. Head(seq).path = p => Heard(seq, p)
      BY <1>1 DEF Heard
    <2> QED
      BY <2>1, <2>2, <2>3
  <1>5. ASSUME NEW i \in DOMAIN t, Latest(t, i)
        PROVE  i + 1 \in DOMAIN seq /\ seq[i + 1] = t[i] /\ Latest(seq, i + 1)
    <2>1. i + 1 \in DOMAIN seq /\ seq[i + 1] = t[i] /\ i \in Nat
      BY <1>1, <1>2
    <2>2. ASSUME NEW j \in DOMAIN seq, j > i + 1 PROVE seq[j].path # seq[i + 1].path
      <3>1. j - 1 \in DOMAIN t /\ t[j - 1] = seq[j] /\ j - 1 > i
        BY <1>1, <1>3, <2>1, <2>2
      <3> QED
        BY <1>5, <2>1, <3>1 DEF Latest
    <2> QED
      BY <2>1, <2>2 DEF Latest
  <1>6. ASSUME ~Heard(t, p), Head(seq).path = p
        PROVE  1 \in DOMAIN seq /\ seq[1] = Head(seq) /\ Latest(seq, 1)
    <2>1. ASSUME NEW j \in DOMAIN seq, j > 1 PROVE seq[j].path # p
      BY <1>3, <1>6, <2>1 DEF Heard
    <2> QED
      BY <1>1, <1>6, <2>1 DEF Latest
  <1> QED
    BY <1>4, <1>5, <1>6 DEF t

\* Trimming keeps the newest events, the last of all in any case.
LEMMA TrimmedIsEnd ==
    ASSUME NEW full \in Seq(Event), full # <<>>
    PROVE  \E off \in Nat :
              /\ DOMAIN Trimmed(full) = 1..Len(full) - off
              /\ Len(full) - off >= 1
              /\ \A i \in 1..Len(full) - off : Trimmed(full)[i] = full[i + off]
  <1> USE Constants
  <1>1. Len(full) \in Nat \ {0} /\ DOMAIN full = 1..Len(full)
    OBVIOUS
  <1>2. CASE Len(full) <= BufferMax
    <2>1. Trimmed(full) = full
      BY <1>1, <1>2 DEF Trimmed
    <2> WITNESS 0 \in Nat
    <2> QED
      BY <1>1, <2>1
  <1>3. CASE Len(full) > BufferMax
    <2> DEFINE off == Len(full) - BufferKeep
    <2>1. off \in Nat /\ off + 1 \in 1..Len(full) /\ Len(full) - off = BufferKeep
      BY <1>1, <1>3
    <2>2. Trimmed(full) = SubSeq(full, off + 1, Len(full))
      BY <1>1, <1>3 DEF Trimmed
    <2>3. /\ DOMAIN Trimmed(full) = 1..Len(full) - off
          /\ \A i \in 1..Len(full) - off : Trimmed(full)[i] = full[i + off]
      BY <1>1, <2>1, <2>2
    <2>4. Len(full) - off >= 1
      BY <2>1
    <2> HIDE DEF off
    <2> QED
      BY <2>1, <2>3, <2>4
  <1> QED
    BY <1>1, <1>2, <1>3

LEMMA TrimSays ==
    ASSUME NEW buf \in Seq(Event), NEW e \in Event, NEW p \in Path
    PROVE  LET t == Trimmed(Append(buf, e))
           IN  \A i \in DOMAIN t : t[i].path = p /\ Latest(t, i) =>
                  IF e.path = p THEN t[i] = e
                  ELSE \E k \in DOMAIN buf : buf[k] = t[i] /\ Latest(buf, k)
  <1> DEFINE full == Append(buf, e)
             t == Trimmed(full)
  <1>1. full \in Seq(Event) /\ full # <<>> /\ Len(full) \in Nat /\ DOMAIN full = 1..Len(full)
    OBVIOUS
  <1>2. \A i \in DOMAIN full : full[i].path = p /\ Latest(full, i) =>
            IF e.path = p THEN full[i] = e
            ELSE i \in DOMAIN buf /\ buf[i] = full[i] /\ Latest(buf, i)
    BY AppendSays
  <1> HIDE DEF full
  <1>3. PICK off \in Nat : /\ DOMAIN t = 1..Len(full) - off
                           /\ Len(full) - off >= 1
                           /\ \A i \in 1..Len(full) - off : t[i] = full[i + off]
    BY <1>1, TrimmedIsEnd
  <1> HIDE DEF t
  <1>4. ASSUME NEW i \in DOMAIN t, t[i].path = p, Latest(t, i)
        PROVE  IF e.path = p THEN t[i] = e
               ELSE \E k \in DOMAIN buf : buf[k] = t[i] /\ Latest(buf, k)
    <2>1. i + off \in DOMAIN full /\ full[i + off] = t[i] /\ i \in Nat
      BY <1>1, <1>3
    <2>2. ASSUME NEW j \in DOMAIN full, j > i + off PROVE full[j].path # full[i + off].path
      <3>1. j - off \in DOMAIN t /\ t[j - off] = full[j] /\ j - off > i
        BY <1>1, <1>3, <2>1, <2>2
      <3> QED
        BY <1>4, <2>1, <3>1 DEF Latest
    <2>3. Latest(full, i + off)
      BY <2>2 DEF Latest
    <2> QED
      BY <1>2, <1>4, <2>1, <2>3
  <1> QED
    BY <1>4 DEF t, full

\* Nothing about the path changes up to the debouncer.
SamePath(p) ==
    /\ UNCHANGED <<events, taken>>
    /\ pending'[p] = pending[p]
    /\ p \in disk' <=> p \in disk

LEMMA SameMeaning ==
    ASSUME NEW p \in Path, SamePath(p)
    PROVE  /\ News(p)' <=> News(p)
           /\ Pending(p)' <=> Pending(p)
           /\ Flushed(p)' <=> Flushed(p)
           /\ LoopTruth(p) => LoopTruth(p)'
           /\ PendingTruth(p) => PendingTruth(p)'
  <1>1. News(p)' <=> News(p)
    BY DEF SamePath, News, Heard
  <1>2. Pending(p)' <=> Pending(p)
    BY DEF SamePath, Pending
  <1>3. LoopTruth(p) => LoopTruth(p)'
    BY DEF SamePath, LoopTruth, SaysTruly, Latest, Heard, Agrees
  <1>4. PendingTruth(p) => PendingTruth(p)'
    BY <1>1, <1>2 DEF SamePath, PendingTruth, Agrees
  <1> QED
    BY <1>1, <1>2, <1>3, <1>4 DEF Flushed

\* The sender of the path, and what was dispatched of it, stay as they are.
LEMMA SameSender ==
    ASSUME NEW p \in Path, Truth(p),
           p \in disk' <=> p \in disk,
           Flushed(p)' => Flushed(p),
           at'[p] = at[p], what'[p] = what[p], dispatched'[p] = dispatched[p],
           eventBuffer' = eventBuffer,
           Coming(p) /\ DispatchTruth(p) => Coming(p)' \/ ~Flushed(p)
    PROVE  CallbackTruth(p)' /\ DispatchTruth(p)' /\ BufferTruth(p)'
  <1>1. CallbackTruth(p)'
    BY DEF Truth, CallbackTruth, Agrees
  <1>2. DispatchTruth(p)'
    BY DEF Truth, DispatchTruth, Agrees
  <1>3. BufferTruth(p)'
    BY DEF Truth, BufferTruth, SaysTruly, Latest, Agrees
  <1> QED
    BY <1>1, <1>2, <1>3

LEMMA SameComing ==
    ASSUME NEW p \in Path, Coming(p),
           \A s \in Scanner : at'[s] = at[s] /\ what'[s] = what[s] /\ walk'[s] = walk[s]
    PROVE  Coming(p)'
  BY DEF Coming

\* Timers, clients and webhooks.
LEMMA AsideKeeps ==
    ASSUME CoreInv, NEW p \in Path, Truth(p), AsideStep \/ UNCHANGED vars
    PROVE  Truth(p)'
  <1>1. UNCHANGED watcher
    BY DEF AsideStep, Tick, FanOut, Fire, FlushWithout, SendToClient, handleSSESubscribe,
           handleSubscribers, Deliver, vars
  <1>2. pending' = pending
    BY DEF AsideStep, Tick, TimePasses, FanOut, Fire, TimerFires, FlushWithout, FlushNothing,
           FlushEarly, SendToClient, handleSSESubscribe, handleSubscribers, Deliver,
           debouncer, vars
  <1>3. (\A s \in Sender : ~Busy(s)) \/ age' = age
    BY DEF AsideStep, Tick, FanOut, Fire, TimerFires, FlushWithout, FlushNothing,
           FlushEarly, SendToClient, handleSSESubscribe, handleSubscribers, Deliver,
           debouncer, vars
  <1>4. SamePath(p)
    BY <1>1, <1>2 DEF SamePath, watcher, loopVars
  <1>5. Coming(p) => Coming(p)'
    BY <1>1, SameComing DEF watcher, sendVars
  <1>6. CallbackTruth(p)' /\ DispatchTruth(p)' /\ BufferTruth(p)'
    BY <1>1, <1>4, <1>5, SameMeaning, SameSender DEF watcher, sendVars
  <1>7. ScanTruth(p)'
    <2>1. at' = at /\ what' = what /\ disk' = disk
      BY <1>1 DEF watcher, sendVars
    <2>2. News(p)' <=> News(p)
      BY <1>4, SameMeaning
    <2>3. Pending(p)' <=> Pending(p)
      BY <1>4, SameMeaning
    <2>4. \A s \in Scanner : s \in Sender
      BY Constants
    <2> QED
      BY <1>3, <2>1, <2>2, <2>3, <2>4 DEF Truth, ScanTruth, Busy
  <1> QED
    BY <1>4, <1>6, <1>7, SameMeaning DEF Truth

\* The event goes from the channel to the loop.
LEMMA TakeKeeps ==
    ASSUME CoreInv, NEW p \in Path, Truth(p), TakeEvent
    PROVE  Truth(p)'
  <1> USE DEF CoreInv
  <1>1. /\ taken = Nothing /\ events \in Seq(Event) /\ events # <<>>
        /\ taken' = Head(events) /\ events' = Tail(events) /\ Head(events) \in Event
        /\ Nothing \notin Event
    BY Constants DEF TakeEvent, TypeOK, SendersInPlace
  <1>2. /\ Heard(events, p) <=> Heard(events', p) \/ taken'.path = p
        /\ \A i \in DOMAIN events' : Latest(events', i) =>
              i + 1 \in DOMAIN events /\ events[i + 1] = events'[i] /\ Latest(events, i + 1)
        /\ ~Heard(events', p) /\ taken'.path = p =>
              1 \in DOMAIN events /\ events[1] = taken' /\ Latest(events, 1)
    BY <1>1, TailSays
  <1>3. UNCHANGED <<debouncer, disk, at, what, walk, dispatched, eventBuffer>>
    BY DEF TakeEvent, sendVars
  <1>4. (News(p)' <=> News(p)) /\ (Flushed(p)' <=> Flushed(p)) /\ (Pending(p)' <=> Pending(p))
    BY <1>1, <1>2, <1>3 DEF News, Flushed, Heard, Pending, debouncer
  <1>5. SaysTruly(events, p)
    BY DEF Truth, LoopTruth
  <1>6. LoopTruth(p)'
    <2>1. SaysTruly(events, p)'
      BY <1>2, <1>3, <1>5 DEF SaysTruly, Agrees, Latest
    <2>2. (taken # Nothing /\ taken.path = p /\ ~Heard(events, p) => Agrees(taken.type, p))'
      BY <1>2, <1>3, <1>5 DEF SaysTruly, Agrees, Heard
    <2> QED
      BY <2>1, <2>2 DEF LoopTruth
  <1>7. PendingTruth(p)'
    BY <1>3, <1>4 DEF Truth, PendingTruth, Agrees, debouncer
  <1>8. CallbackTruth(p)' /\ DispatchTruth(p)' /\ BufferTruth(p)'
    BY <1>3, <1>4, SameComing, SameSender
  <1>9. ScanTruth(p)'
    BY <1>3, <1>4 DEF Truth, ScanTruth, debouncer
  <1> QED
    BY <1>6, <1>7, <1>8, <1>9 DEF Truth

\* And from the loop to the debouncer.
LEMMA HandleKeeps ==
    ASSUME CoreInv, NEW p \in Path, Truth(p), HandleFsEvent, stopping = "running"
    PROVE  Truth(p)'
  <1> USE DEF CoreInv
  <1>1. taken \in Event /\ taken # Nothing /\ taken' = Nothing /\ taken.type # NoEvent
    BY Constants DEF HandleFsEvent, TypeOK, SendersInPlace, Event, EventType, NoEvent
  <1>2. Add(taken.path, taken.type)
    BY DEF HandleFsEvent, StopsInOrder
  <1>3. UNCHANGED <<events, disk, at, what, walk, dispatched, eventBuffer>>
    BY DEF HandleFsEvent, sendVars
  <1>4. LoopTruth(p)'
    BY <1>1, <1>3 DEF Truth, LoopTruth, SaysTruly, Latest, Agrees
  <1>5. CASE taken.path = p
    <2>1. pending'[p] = taken.type /\ age'[p] = 0 /\ Pending(p)'
      BY <1>1, <1>2, <1>5 DEF Add, Pending, TypeOK, DebouncerTypeOK
    <2>2. News(p)' <=> Heard(events, p)
      BY <1>1, <1>3 DEF News, Heard
    <2>3. PendingTruth(p)'
      BY <1>1, <1>3, <1>5, <2>1, <2>2 DEF Truth, LoopTruth, PendingTruth, Agrees
    <2>4. CallbackTruth(p)' /\ DispatchTruth(p)' /\ BufferTruth(p)'
      BY <2>1 DEF CallbackTruth, DispatchTruth, BufferTruth, Flushed
    <2>5. ScanTruth(p)'
      BY <1>3, <2>1 DEF Truth, ScanTruth
    <2> QED
      BY <1>4, <2>3, <2>4, <2>5 DEF Truth
  <1>6. CASE taken.path # p
    <2>1. pending'[p] = pending[p] /\ age'[p] = age[p]
      BY <1>2, <1>6 DEF Add, TypeOK, DebouncerTypeOK
    <2>2. (News(p)' <=> News(p)) /\ (Pending(p)' <=> Pending(p)) /\ (Flushed(p)' <=> Flushed(p))
      BY <1>1, <1>3, <1>6, <2>1 DEF News, Heard, Pending, Flushed
    <2>3. PendingTruth(p)'
      BY <1>3, <2>1, <2>2 DEF Truth, PendingTruth, Agrees
    <2>4. CallbackTruth(p)' /\ DispatchTruth(p)' /\ BufferTruth(p)'
      BY <1>3, <2>2, SameComing, SameSender
    <2>5. ScanTruth(p)'
      BY <1>3, <2>1, <2>2 DEF Truth, ScanTruth
    <2> QED
      BY <1>4, <2>3, <2>4, <2>5 DEF Truth
  <1> QED
    BY <1>5, <1>6

\* A file changes, and its event is the last in the channel.
LEMMA ChangeKeeps ==
    ASSUME CoreInv, NEW p \in Path, Truth(p), NEW q \in Path, FileChanges(q)
    PROVE  Truth(p)'
  <1> USE DEF CoreInv
  <1>1. PICK type \in EventType :
            /\ disk' = IF type \in Present THEN disk \cup {q} ELSE disk \ {q}
            /\ events' = Append(events, [path |-> q, type |-> type])
    BY DEF FileChanges, EventType
  <1>2. UNCHANGED <<debouncer, taken, at, what, walk, dispatched, eventBuffer>>
    BY DEF FileChanges, sendVars
  <1> DEFINE e == [path |-> q, type |-> type]
  <1>3. e \in Event /\ e.path = q /\ e.type = type
    BY DEF Event
  <1>4. events \in Seq(Event) /\ events' = Append(events, e)
    BY <1>1 DEF TypeOK
  <1> HIDE DEF e
  <1>5. /\ Heard(events', p) <=> Heard(events, p) \/ q = p
        /\ \A i \in DOMAIN events' : events'[i].path = p /\ Latest(events', i) =>
              IF q = p THEN events'[i] = e
              ELSE i \in DOMAIN events /\ events[i] = events'[i] /\ Latest(events, i)
    BY <1>3, <1>4, AppendSays
  <1>6. CASE q = p
    <2>1. News(p)' /\ Heard(events', p)
      BY <1>5, <1>6 DEF News, Heard
    <2>2. Agrees(type, p)'
      BY <1>1, <1>6 DEF Agrees
    <2>3. LoopTruth(p)'
      BY <1>3, <1>5, <1>6, <2>1, <2>2 DEF LoopTruth, SaysTruly, Agrees, Latest, Heard
    <2>4. ScanTruth(p)'
      BY <1>2, <2>1 DEF Truth, ScanTruth
    <2> QED
      BY <2>1, <2>3, <2>4 DEF Truth, PendingTruth, CallbackTruth, DispatchTruth, BufferTruth, Flushed
  <1>7. CASE q # p
    <2>1. p \in disk' <=> p \in disk
      BY <1>1, <1>7
    <2>2. (News(p)' <=> News(p)) /\ (Pending(p)' <=> Pending(p)) /\ (Flushed(p)' <=> Flushed(p))
      BY <1>2, <1>5, <1>7 DEF News, Heard, Pending, Flushed, debouncer
    <2>3. LoopTruth(p)'
      <3>1. SaysTruly(events, p)'
        BY <1>5, <1>7, <2>1 DEF Truth, LoopTruth, SaysTruly, Agrees, Latest
      <3>2. Heard(events, p)' <=> Heard(events, p)
        BY <1>5, <1>7 DEF Heard
      <3> QED
        BY <1>2, <2>1, <3>1, <3>2 DEF Truth, LoopTruth, Agrees
    <2>4. PendingTruth(p)'
      BY <1>2, <2>1, <2>2 DEF Truth, PendingTruth, Agrees, debouncer
    <2>5. CallbackTruth(p)' /\ DispatchTruth(p)' /\ BufferTruth(p)'
      BY <1>2, <2>1, <2>2, SameComing, SameSender
    <2>6. ScanTruth(p)'
      BY <1>2, <2>1, <2>2 DEF Truth, ScanTruth, debouncer
    <2> QED
      BY <2>3, <2>4, <2>5, <2>6 DEF Truth
  <1> QED
    BY <1>6, <1>7

\* From the debouncer to a callback.
LEMMA FlushKeeps ==
    ASSUME CoreInv, NEW p \in Path, Truth(p), NEW q \in Path, FlushCallsBack(q)
    PROVE  Truth(p)'
  <1> USE DEF CoreInv
  <1>1. UNCHANGED <<events, taken, disk, walk, dispatched, eventBuffer>>
    BY DEF FlushCallsBack, loopVars
  <1>2. \A s \in Scanner : at'[s] = at[s] /\ what'[s] = what[s]
    BY Constants DEF FlushCallsBack, Goto, TypeOK
  <1>3. FlushDue(q)
    BY DEF FlushCallsBack
  <1>4. LoopTruth(p)' /\ (News(p)' <=> News(p))
    BY <1>1 DEF Truth, LoopTruth, SaysTruly, Latest, Agrees, News, Heard
  <1>5. CASE q = p
    <2>1. Pending(p) /\ age[p] # 0 /\ ~Pending(p)'
      BY <1>3, <1>5, Constants DEF FlushDue, Pending, TypeOK, DebouncerTypeOK
    <2>2. at'[p] = "append" /\ what'[p].type = pending[p]
      BY <1>5, Constants DEF FlushCallsBack, Goto, TypeOK
    <2>3. CallbackTruth(p)'
      BY <1>1, <1>4, <2>1, <2>2 DEF Truth, PendingTruth, CallbackTruth, Flushed, Agrees
    <2>4. ScanTruth(p)'
      BY <1>1, <1>2, <1>4, <2>1 DEF Truth, ScanTruth
    <2> QED
      BY <1>4, <2>1, <2>2, <2>3, <2>4 DEF Truth, PendingTruth, DispatchTruth, BufferTruth
  <1>6. CASE q # p
    <2>1. pending'[p] = pending[p] /\ age'[p] = age[p] /\ at'[p] = at[p] /\ what'[p] = what[p]
      BY <1>3, <1>6 DEF FlushDue, FlushCallsBack, Goto, TypeOK, DebouncerTypeOK
    <2>2. (Pending(p)' <=> Pending(p)) /\ (Flushed(p)' <=> Flushed(p))
      BY <1>4, <2>1 DEF Pending, Flushed
    <2>3. PendingTruth(p)'
      BY <1>1, <1>4, <2>1, <2>2 DEF Truth, PendingTruth, Agrees
    <2>4. CallbackTruth(p)' /\ DispatchTruth(p)' /\ BufferTruth(p)'
      BY <1>1, <1>2, <2>1, <2>2, SameComing, SameSender
    <2>5. ScanTruth(p)'
      BY <1>1, <1>2, <1>4, <2>1, <2>2 DEF Truth, ScanTruth
    <2> QED
      BY <1>4, <2>3, <2>4, <2>5 DEF Truth
  <1> QED
    BY <1>5, <1>6

\* From a callback to the buffer.
LEMMA AppendKeeps ==
    ASSUME CoreInv, NEW p \in Path, Truth(p), NEW q \in Path, AppendToBuffer(q)
    PROVE  Truth(p)'
  <1> USE DEF CoreInv
  <1>1. UNCHANGED <<events, taken, disk, debouncer, what, walk, dispatched>>
    BY DEF AppendToBuffer, loopVars
  <1>2. \A s \in Scanner : at'[s] = at[s]
    BY Constants DEF AppendToBuffer, Goto, TypeOK
  <1>3. at[q] = "append" /\ at'[q] = "dispatch" /\ (p # q => at'[p] = at[p])
    BY Constants DEF AppendToBuffer, Goto, TypeOK
  <1>4. what[q] \in Event /\ what[q].path = q
    BY <1>3, Constants DEF TypeOK, SendersInPlace, Busy
  <1>5. \A i \in DOMAIN eventBuffer' : eventBuffer'[i].path = p /\ Latest(eventBuffer', i) =>
            IF q = p THEN eventBuffer'[i] = what[q]
            ELSE \E k \in DOMAIN eventBuffer : eventBuffer[k] = eventBuffer'[i]
                                                /\ Latest(eventBuffer, k)
    BY <1>4, TrimSays DEF AppendToBuffer, TypeOK
  <1>6. SamePath(p)
    BY <1>1 DEF SamePath, debouncer
  <1>7. LoopTruth(p)' /\ PendingTruth(p)'
    BY <1>6, SameMeaning DEF Truth
  <1>8. (News(p)' <=> News(p)) /\ (Pending(p)' <=> Pending(p)) /\ (Flushed(p)' <=> Flushed(p))
    BY <1>6, SameMeaning
  <1>9. CallbackTruth(p)'
    BY <1>1, <1>3, <1>8 DEF Truth, CallbackTruth, Agrees
  <1>10. DispatchTruth(p)'
    <2>1. Coming(p) => Coming(p)'
      BY <1>1, <1>2, SameComing
    <2> QED
      BY <1>1, <1>3, <1>8, <2>1 DEF Truth, DispatchTruth, Agrees
  <1>11. BufferTruth(p)'
    <2>1. CASE q = p
      <3>1. Flushed(p) => Agrees(what[p].type, p)
        BY <1>3, <2>1 DEF Truth, CallbackTruth
      <3> QED
        BY <1>1, <1>5, <1>8, <2>1, <3>1 DEF BufferTruth, SaysTruly, Latest, Agrees
    <2>2. CASE q # p
      BY <1>1, <1>3, <1>5, <1>8, <2>2 DEF Truth, BufferTruth, SaysTruly, Latest, Agrees
    <2> QED
      BY <2>1, <2>2
  <1>12. ScanTruth(p)'
    BY <1>1, <1>2, <1>8 DEF Truth, ScanTruth, debouncer
  <1> QED
    BY <1>7, <1>9, <1>10, <1>11, <1>12 DEF Truth

\* To the subscribers: by a callback, or by a scan.
LEMMA DispatchKeeps ==
    ASSUME CoreInv, NEW p \in Path, Truth(p), NEW s \in Sender, DispatchEvent(s)
    PROVE  Truth(p)'
  <1> USE DEF CoreInv
  <1>1. UNCHANGED <<events, taken, disk, debouncer, what, walk, eventBuffer>>
    BY DEF DispatchEvent, loopVars
  <1>2. /\ at[s] = "dispatch" /\ at'[s] = "send"
        /\ \A r \in Sender : r # s => at'[r] = at[r]
    BY DEF DispatchEvent, Goto, TypeOK
  <1>3. what[s] \in Event /\ what[s].path \in Path /\ what[s].type # NoEvent
    BY <1>2, Constants DEF TypeOK, SendersInPlace, Busy, Event, EventType, NoEvent
  <1>4. /\ dispatched'[what[s].path] = what[s].type
        /\ p # what[s].path => dispatched'[p] = dispatched[p]
    BY <1>3 DEF DispatchEvent, TypeOK
  <1>5. SamePath(p)
    BY <1>1 DEF SamePath, debouncer
  <1>6. LoopTruth(p)' /\ PendingTruth(p)'
    BY <1>5, SameMeaning DEF Truth
  <1>7. (News(p)' <=> News(p)) /\ (Pending(p)' <=> Pending(p)) /\ (Flushed(p)' <=> Flushed(p))
    BY <1>5, SameMeaning
  <1>8. p \in Sender /\ \A r \in Scanner : r \in Sender /\ r # p
    BY Constants
  <1>9. CallbackTruth(p)'
    BY <1>1, <1>2, <1>7, <1>8 DEF Truth, CallbackTruth, Agrees
  <1>10. ScanTruth(p)'
    BY <1>1, <1>2, <1>7, <1>8 DEF Truth, ScanTruth, debouncer
  <1>11. BufferTruth(p)'
    <2>1. at[p] = "append" <=> at'[p] = "append"
      BY <1>2, <1>8
    <2> QED
      BY <1>1, <1>7, <2>1 DEF Truth, BufferTruth, SaysTruly, Latest, Agrees
  <1>12. CASE s \in Path
    <2>1. what[s].path = s
      BY <1>2, <1>12, Constants DEF SendersInPlace, Busy
    <2>2. Coming(p) => Coming(p)'
      <3>1. \A r \in Scanner : at'[r] = at[r]
        BY <1>2, <1>8, <1>12, Constants
      <3> QED
        BY <1>1, <3>1, SameComing
    <2>3. DispatchTruth(p)'
      BY <1>1, <1>2, <1>4, <1>7, <1>8, <2>1, <2>2 DEF Truth, CallbackTruth, DispatchTruth, Agrees
    <2> QED
      BY <1>6, <1>9, <1>10, <1>11, <2>3 DEF Truth
  <1>13. CASE s \in Scanner
    <2>1. at'[p] = at[p]
      BY <1>2, <1>8, <1>13
    <2>2. CASE what[s].path = p
      <3>1. what[s].type = "add" /\ (Flushed(p) => p \in disk)
        BY <1>2, <1>13, <2>2 DEF Truth, ScanTruth, Flushed
      <3>2. "add" \in Present
        BY DEF Present
      <3> QED
        BY <1>1, <1>4, <1>6, <1>7, <1>9, <1>10, <1>11, <2>2, <3>1, <3>2
           DEF Truth, DispatchTruth, Agrees
    <2>3. CASE what[s].path # p
      <3>1. ASSUME Coming(p) PROVE Coming(p)'
        <4>1. p \in walk[s]
          BY <1>2, <1>13, <2>3, <3>1 DEF Coming, Active
        <4>2. \A r \in Scanner : at'[r] \in Active =>
                  p \in walk'[r] \/ (at'[r] = "dispatch" /\ what'[r].path = p)
          BY <1>1, <1>2, <1>8, <3>1, <4>1 DEF Coming
        <4>3. at'[s] \in Active
          BY <1>2 DEF Active
        <4> QED
          BY <1>13, <4>2, <4>3 DEF Coming
      <3>2. DispatchTruth(p)'
        BY <1>1, <1>4, <1>7, <2>1, <2>3, <3>1 DEF Truth, DispatchTruth, Agrees
      <3> QED
        BY <1>6, <1>9, <1>10, <1>11, <3>2 DEF Truth
    <2> QED
      BY <2>2, <2>3
  <1> QED
    BY <1>12, <1>13, Constants

LEMMA ReturnKeeps ==
    ASSUME CoreInv, NEW p \in Path, Truth(p), NEW s \in Sender, DispatchReturns(s)
    PROVE  Truth(p)'
  <1> USE DEF CoreInv
  <1>1. UNCHANGED <<events, taken, disk, debouncer, walk, dispatched, eventBuffer>>
    BY DEF DispatchReturns, loopVars
  <1>2. /\ at[s] = "send" /\ at'[s] = IF s \in Scanner THEN "walk" ELSE "idle"
        /\ \A r \in Sender : r # s => at'[r] = at[r] /\ what'[r] = what[r]
    BY DEF DispatchReturns, Goto, TypeOK
  <1>3. SamePath(p)
    BY <1>1 DEF SamePath, debouncer
  <1>4. LoopTruth(p)' /\ PendingTruth(p)'
    BY <1>3, SameMeaning DEF Truth
  <1>5. (News(p)' <=> News(p)) /\ (Pending(p)' <=> Pending(p)) /\ (Flushed(p)' <=> Flushed(p))
    BY <1>3, SameMeaning
  <1>6. p \in Sender /\ \A r \in Scanner : r \in Sender
    BY Constants
  <1>7. CallbackTruth(p)'
    BY <1>1, <1>2, <1>5, <1>6 DEF Truth, CallbackTruth, Agrees
  <1>8. ScanTruth(p)'
    BY <1>1, <1>2, <1>5, <1>6 DEF Truth, ScanTruth, debouncer
  <1>9. BufferTruth(p)'
    <2>1. at[p] = "append" <=> at'[p] = "append"
      BY <1>2, <1>6
    <2> QED
      BY <1>1, <1>5, <2>1 DEF Truth, BufferTruth, SaysTruly, Latest, Agrees
  <1>10. Coming(p) => Coming(p)'
    <2> SUFFICES ASSUME Coming(p) PROVE Coming(p)'
      OBVIOUS
    <2>1. \A r \in Scanner : at[r] \in {"start"} \cup Active => at'[r] \in {"start"} \cup Active
      BY <1>2, <1>6 DEF Active
    <2>2. ASSUME NEW r \in Scanner, at'[r] \in Active
          PROVE  p \in walk'[r] \/ (at'[r] = "dispatch" /\ what'[r].path = p)
      <3>1. CASE r = s
        BY <1>1, <1>2, <3>1 DEF Coming, Active
      <3>2. CASE r # s
        BY <1>1, <1>2, <1>6, <2>2, <3>2 DEF Coming
      <3> QED
        BY <3>1, <3>2
    <2> QED
      BY <2>1, <2>2 DEF Coming
  <1>11. DispatchTruth(p)'
    <2>1. at[p] \in {"append", "dispatch"} <=> at'[p] \in {"append", "dispatch"}
      BY <1>2, <1>6
    <2> QED
      BY <1>1, <1>5, <1>10, <2>1 DEF Truth, DispatchTruth, Agrees
  <1> QED
    BY <1>4, <1>7, <1>8, <1>9, <1>11 DEF Truth

\* A scan that begins looks at all there is; one that is refused leaves it to
\* the scan that walks.
LEMMA ScanKeeps ==
    ASSUME CoreInv, NEW p \in Path, Truth(p), NEW s \in Scanner,
           RunScan(s) \/ handleTriggerScan(s)
    PROVE  Truth(p)'
  <1> USE DEF CoreInv
  <1>0. \/ ScanBegins(s) \/ ScanRefused(s) \/ ScanVisits(s) \/ ScanEnds(s)
        \/ handleTriggerScan(s)
    BY DEF RunScan
  <1>1. UNCHANGED <<events, taken, disk, debouncer, dispatched, eventBuffer>>
    BY <1>0 DEF ScanBegins, ScanRefused, ScanVisits, ScanEnds, handleTriggerScan, loopVars
  <1>2. s \in Sender /\ p \in Sender /\ p # s /\ \A r \in Scanner : r \in Sender
    BY Constants
  <1>3. \A r \in Sender : r # s => at'[r] = at[r] /\ what'[r] = what[r]
    BY <1>0, <1>2 DEF ScanBegins, ScanRefused, ScanVisits, ScanEnds, handleTriggerScan, Goto, TypeOK
  <1>4. \A r \in Scanner : r # s => walk'[r] = walk[r]
    BY <1>0 DEF ScanBegins, ScanRefused, ScanVisits, ScanEnds, handleTriggerScan, TypeOK
  <1>5. SamePath(p)
    BY <1>1 DEF SamePath, debouncer
  <1>6. LoopTruth(p)' /\ PendingTruth(p)'
    BY <1>5, SameMeaning DEF Truth
  <1>7. (News(p)' <=> News(p)) /\ (Pending(p)' <=> Pending(p)) /\ (Flushed(p)' <=> Flushed(p))
    BY <1>5, SameMeaning
  <1>8. ScanTruth(p)'
    <2>1. at'[s] = "dispatch" => /\ what'[s].type = "add"
                                 /\ what'[s].path \in disk'
      BY <1>0, <1>2 DEF ScanBegins, ScanRefused, ScanVisits, ScanEnds, handleTriggerScan, Goto,
                        TypeOK
    <2> QED
      BY <1>1, <1>2, <1>3, <1>7, <2>1 DEF Truth, ScanTruth, debouncer
  <1>9. ASSUME Coming(p), p \in disk PROVE Coming(p)'
    <2>1. CASE ScanBegins(s)
      <3>1. at'[s] = "walk" /\ p \in walk'[s] /\ \A r \in Scanner : at[r] \notin Active
        BY <1>2, <1>9, <2>1 DEF ScanBegins, Goto, TypeOK, ScanIsKnown
      <3> QED
        BY <1>2, <1>3, <3>1 DEF Coming, Active
    <2>2. CASE ScanRefused(s)
      <3>1. at'[s] = "done" /\ walk' = walk /\ at[s] = "start"
        BY <1>2, <2>2 DEF ScanRefused, Goto, TypeOK
      <3>2. PICK r \in Scanner : at[r] \in Active
        BY <2>2 DEF ScanRefused, ScanIsKnown
      <3>3. r # s /\ at'[r] = at[r]
        BY <1>2, <1>3, <3>1, <3>2 DEF Active
      <3> QED
        BY <1>2, <1>3, <1>9, <3>1, <3>2, <3>3 DEF Coming, Active
    <2>3. CASE ScanVisits(s)
      <3>1. at[s] = "walk" /\ p \in walk[s]
        BY <1>9, <2>3 DEF ScanVisits, Coming, Active
      <3>2. \/ at'[s] = "walk" /\ p \in walk'[s]
            \/ at'[s] = "dispatch" /\ (p \in walk'[s] \/ what'[s].path = p)
        BY <1>2, <1>9, <2>3, <3>1 DEF ScanVisits, Goto, TypeOK
      <3> QED
        BY <1>2, <1>3, <1>4, <1>9, <3>2 DEF Coming, Active
    <2>4. CASE ScanEnds(s)
      BY <1>9, <2>4 DEF ScanEnds, Coming, Active
    <2>5. CASE handleTriggerScan(s)
      <3>1. at'[s] = "start" /\ walk' = walk
        BY <1>2, <2>5 DEF handleTriggerScan, Goto, TypeOK
      <3> QED
        BY <1>2, <1>3, <1>9, <3>1 DEF Coming, Active
    <2> QED
      BY <1>0, <2>1, <2>2, <2>3, <2>4, <2>5
  <1>10. Coming(p) /\ DispatchTruth(p) => Coming(p)' \/ ~Flushed(p) \/ Agrees(dispatched[p], p)
           \/ at[p] \in {"append", "dispatch"}
    BY <1>9 DEF DispatchTruth
  <1>11. CallbackTruth(p)' /\ BufferTruth(p)'
    BY <1>1, <1>2, <1>3, <1>7 DEF Truth, CallbackTruth, BufferTruth, SaysTruly, Latest, Agrees
  <1>12. DispatchTruth(p)'
    BY <1>1, <1>2, <1>3, <1>7, <1>10 DEF Truth, DispatchTruth, Agrees
  <1> QED
    BY <1>6, <1>8, <1>11, <1>12 DEF Truth

LEMMA TruthInit == Init => TruthInv
  <1> SUFFICES ASSUME Init, NEW p \in Path PROVE Truth(p)
    BY DEF TruthInv
  <1>1. /\ events = <<>> /\ eventBuffer = <<>> /\ taken = Nothing
        /\ dispatched[p] = NoEvent /\ at[p] = "idle"
        /\ \A s \in Scanner : at[s] = IF s = FirstScan THEN "start" ELSE "idle"
    BY Constants DEF Init
  <1>2. ~Pending(p)
    BY DEF Init, DebouncerInit, Pending
  <1>3. Coming(p)
    BY <1>1, Constants DEF Coming, Active
  <1>4. DOMAIN events = {} /\ DOMAIN eventBuffer = {}
    BY <1>1
  <1>5. NoEvent \notin Present
    BY DEF NoEvent, Present
  <1>6. LoopTruth(p) /\ PendingTruth(p) /\ CallbackTruth(p)
    BY <1>1, <1>2, <1>4 DEF LoopTruth, SaysTruly, PendingTruth, CallbackTruth
  <1>7. DispatchTruth(p)
    BY <1>1, <1>3, <1>5 DEF DispatchTruth, Agrees
  <1>8. BufferTruth(p) /\ ScanTruth(p)
    BY <1>1, <1>4 DEF BufferTruth, SaysTruly, ScanTruth
  <1> QED
    BY <1>6, <1>7, <1>8 DEF Truth

LEMMA TruthNext ==
    ASSUME CoreInv, TruthInv, [Next]_vars
    PROVE  TruthInv'
  <1> SUFFICES ASSUME stopping' = "running", NEW p \in Path
               PROVE  Truth(p)'
    BY DEF TruthInv
  <1>1. CASE Stop \/ LoopEnds
    <2>1. stopping = "running" => ~LoopEnds
      BY DEF LoopEnds
    <2>2. ~Stop
      BY DEF Stop, StopStep
    <2>3. stopping' = stopping
      BY <1>1, <2>2 DEF LoopEnds
    <2> QED
      BY <1>1, <2>1, <2>2, <2>3
  <1>2. CASE AsideStep \/ UNCHANGED vars
    <2>1. stopping = "running"
      BY <1>2 DEF AsideStep, Tick, FanOut, Fire, FlushWithout, SendToClient, handleSSESubscribe,
                  handleSubscribers, Deliver, vars, watcher
    <2> QED
      BY <1>2, <2>1, AsideKeeps DEF TruthInv
  <1>3. CASE TakeEvent
    BY <1>3, TakeKeeps DEF TruthInv, TakeEvent
  <1>4. CASE HandleFsEvent
    BY <1>4, HandleKeeps DEF TruthInv, HandleFsEvent
  <1>5. CASE \E q \in Path : FileChanges(q)
    BY <1>5, ChangeKeeps DEF TruthInv, FileChanges
  <1>6. CASE \E q \in Path : FlushCallsBack(q)
    BY <1>6, FlushKeeps DEF TruthInv, FlushCallsBack
  <1>7. CASE \E q \in Path : AppendToBuffer(q)
    BY <1>7, AppendKeeps DEF TruthInv, AppendToBuffer
  <1>8. CASE \E s \in Sender : DispatchEvent(s)
    BY <1>8, DispatchKeeps DEF TruthInv, DispatchEvent
  <1>9. CASE \E s \in Sender : DispatchReturns(s)
    BY <1>9, ReturnKeeps DEF TruthInv, DispatchReturns
  <1>10. CASE \E s \in Scanner : RunScan(s) \/ handleTriggerScan(s)
    <2>1. stopping = "running"
      BY <1>10 DEF RunScan, ScanBegins, ScanRefused, ScanVisits, ScanEnds, handleTriggerScan
    <2> QED
      BY <1>10, <2>1, ScanKeeps DEF TruthInv
  <1>11. \/ Stop \/ LoopEnds
         \/ AsideStep \/ UNCHANGED vars
         \/ TakeEvent \/ HandleFsEvent
         \/ \E q \in Path : FileChanges(q)
         \/ \E q \in Path : FlushCallsBack(q)
         \/ \E q \in Path : AppendToBuffer(q)
         \/ \E s \in Sender : DispatchEvent(s)
         \/ \E s \in Sender : DispatchReturns(s)
         \/ \E s \in Scanner : RunScan(s) \/ handleTriggerScan(s)
    BY DEF Next, Loop, Flush, Sends, AsideStep
  <1> QED
    BY ONLY <1>1, <1>2, <1>3, <1>4, <1>5, <1>6, <1>7, <1>8, <1>9, <1>10, <1>11

THEOREM TruthHolds == Spec => [](CoreInv /\ TruthInv)
  BY CoreInit, CoreNext, TruthInit, TruthNext, PTL DEF Spec

\* When nothing is under way, the last that was dispatched of a path says
\* whether there is a file, for any number of paths and of scans.
THEOREM LastDispatchHolds == Spec => []LastDispatchIsTrue
  <1>1. CoreInv /\ TruthInv => LastDispatchIsTrue
    <2> SUFFICES ASSUME CoreInv, TruthInv, Settled, NEW p \in Path
                 PROVE  Agrees(dispatched[p], p)
      BY DEF LastDispatchIsTrue, Agrees
    <2>1. Flushed(p) /\ at[p] = "idle"
      BY DEF Settled, Flushed, News, Heard, CoreInv, SendersInPlace
    <2>2. ~Coming(p)
      BY DEF Settled, Coming, Active
    <2> QED
      BY <2>1, <2>2 DEF Settled, TruthInv, Truth, DispatchTruth
  <1> QED
    BY <1>1, TruthHolds, PTL

\* Nor does trimming the buffer leave pollers an event that is no longer so.
THEOREM BufferHolds == Spec => []BufferAgrees
  <1>1. CoreInv /\ TruthInv => BufferAgrees
    <2> SUFFICES ASSUME CoreInv, TruthInv, Settled, NEW i \in DOMAIN eventBuffer,
                        Latest(eventBuffer, i)
                 PROVE  Agrees(eventBuffer[i].type, eventBuffer[i].path)
      BY DEF BufferAgrees, Latest, Agrees
    <2> DEFINE p == eventBuffer[i].path
    <2>1. p \in Path
      <3>1. eventBuffer \in Seq(Event)
        BY DEF CoreInv, TypeOK
      <3>2. eventBuffer[i] \in Event
        BY <3>1
      <3> QED
        BY <3>2 DEF Event
    <2>2. Flushed(p) /\ at[p] = "idle"
      BY <2>1 DEF Settled, Flushed, News, Heard, CoreInv, SendersInPlace
    <2> QED
      BY <2>1, <2>2 DEF Settled, TruthInv, Truth, BufferTruth, SaysTruly
  <1> QED
    BY <1>1, TruthHolds, PTL
=============================================================================
