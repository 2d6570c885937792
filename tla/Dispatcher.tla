------------------------------ MODULE Dispatcher ------------------------------
(***************************************************************************)
(* Delivery of file events (internal/watcher/dispatcher.go, handlers.go).  *)
(*                                                                         *)
(* A sender is a goroutine that has called Dispatch. It starts a goroutine *)
(* for the webhooks and sends to the SSE channels itself, from a copy of   *)
(* the client list that it took under d.mu; a client may leave while it    *)
(* does so. Each webhook gets each event in a goroutine of its own, with   *)
(* retries. What an event says does not matter here, its type does.        *)
(***************************************************************************)
EXTENDS FileEvents

CONSTANTS Sender,
          Client,        \* SSE connections; each has a channel of its own
          Url,           \* webhooks
          Filters,       \* what webhooks ask for; all types stands for none given
          QueueMax,      \* capacity of a channel
          MaxRetries, MaxFailCount,
          Gone           \* no subscriber under this url

ASSUME DispatcherAssumption ==
    /\ Filters \subseteq SUBSET EventType
    /\ QueueMax \in Nat \ {0}
    /\ MaxRetries \in Nat \ {0}
    /\ MaxFailCount \in Nat \ {0}

VARIABLES
    channel,     \* of an SSE client: "none" yet, "open", "closed"
    queue,       \* how many events it holds
    clients,     \* the copy of d.sseClients a sender has still to go through
    panicked,    \* a goroutine sent on a closed channel: the process is gone
    subscribers, \* d.subscribers
    fanout,      \* dispatchToWebhooks goroutines that have not run, by type
    deliveries   \* deliverToWebhook goroutines, by url and attempt

sse == <<channel, queue, clients, panicked>>
webhooks == <<subscribers, fanout, deliveries>>
dispatcher == <<sse, webhooks>>

Attempt == 0..MaxRetries - 1
Subscriber == [types : Filters, fails : 0..MaxFailCount - 1]

DispatcherTypeOK ==
    /\ channel \in [Client -> {"none", "open", "closed"}]
    /\ queue \in [Client -> 0..QueueMax]
    /\ clients \in [Sender -> SUBSET Client]
    /\ panicked \in BOOLEAN
    /\ subscribers \in [Url -> Subscriber \cup {Gone}]
    /\ fanout \in [EventType -> Nat]
    /\ deliveries \in [Url -> [Attempt -> Nat]]

DispatcherInit ==
    /\ channel = [c \in Client |-> "none"]
    /\ queue = [c \in Client |-> 0]
    /\ clients = [s \in Sender |-> {}]
    /\ panicked = FALSE
    /\ subscribers = [u \in Url |-> Gone]
    /\ fanout = [t \in EventType |-> 0]
    /\ deliveries = [u \in Url |-> [n \in Attempt |-> 0]]

Subscribed(u) == subscribers[u] # Gone

-----------------------------------------------------------------------------
(* SSE                                                                     *)

AddSSEClient(c) ==
    /\ channel[c] = "none"
    /\ channel' = [channel EXCEPT ![c] = "open"]
    /\ UNCHANGED <<queue, clients, panicked, webhooks>>

\* The handler's loop writes an event to the connection.
StreamEvent(c) ==
    /\ channel[c] = "open"
    /\ queue[c] > 0
    /\ queue' = [queue EXCEPT ![c] = @ - 1]
    /\ UNCHANGED <<channel, clients, panicked, webhooks>>

\* The request ends; delete and close are one step under d.mu.
RemoveSSEClient(c) ==
    /\ channel[c] = "open"
    /\ channel' = [channel EXCEPT ![c] = "closed"]
    /\ queue' = [queue EXCEPT ![c] = 0]
    /\ UNCHANGED <<clients, panicked, webhooks>>

\* dispatchToSSE copies the list of clients.
SnapshotClients(s) ==
    /\ clients' = [clients EXCEPT ![s] = {c \in Client : channel[c] = "open"}]
    /\ UNCHANGED <<channel, queue, panicked>>

Dispatch(s, type) ==
    /\ fanout' = [fanout EXCEPT ![type] = @ + 1]
    /\ SnapshotClients(s)
    /\ UNCHANGED <<subscribers, deliveries>>

\* Mutant of SendOrSkip: select without a default case.
SendOrWait(s, c) ==
    /\ c \in clients[s]
    /\ channel[c] = "open"
    /\ queue[c] < QueueMax
    /\ clients' = [clients EXCEPT ![s] = @ \ {c}]
    /\ queue' = [queue EXCEPT ![c] = @ + 1]
    /\ UNCHANGED <<channel, panicked, webhooks>>

\* dispatchToSSE: an event for a full channel is dropped.
SendOrSkip(s, c) ==
    /\ c \in clients[s]
    /\ channel[c] = "open"
    /\ clients' = [clients EXCEPT ![s] = @ \ {c}]
    /\ queue' = [queue EXCEPT ![c] = IF @ < QueueMax THEN @ + 1 ELSE @]
    /\ UNCHANGED <<channel, panicked, webhooks>>

\* A send on a closed channel panics, in a select with a default case too.
SendOnClosed(s, c) ==
    /\ c \in clients[s]
    /\ channel[c] = "closed"
    /\ panicked' = TRUE
    /\ UNCHANGED <<channel, queue, clients, webhooks>>

-----------------------------------------------------------------------------
(* Webhooks                                                                *)

Subscribe(u) ==
    /\ \E types \in Filters :
          subscribers' = [subscribers EXCEPT ![u] = [types |-> types, fails |-> 0]]
    /\ UNCHANGED <<sse, fanout, deliveries>>

Unsubscribe(u) ==
    /\ subscribers' = [subscribers EXCEPT ![u] = Gone]
    /\ UNCHANGED <<sse, fanout, deliveries>>

\* The subscribers of now, not those of the time of Dispatch.
DispatchToWebhooks(type) ==
    /\ fanout[type] > 0
    /\ fanout' = [fanout EXCEPT ![type] = @ - 1]
    /\ deliveries' =
          [u \in Url |->
              IF Subscribed(u) /\ type \in subscribers[u].types
              THEN [deliveries[u] EXCEPT ![0] = @ + 1]
              ELSE deliveries[u]]
    /\ UNCHANGED <<sse, subscribers>>

\* Delivered, and so said by the response.
DeliverySucceeds(u, n) ==
    /\ deliveries[u][n] > 0
    /\ deliveries' = [deliveries EXCEPT ![u][n] = @ - 1]
    /\ subscribers' = IF Subscribed(u)
                      THEN [subscribers EXCEPT ![u].fails = 0]
                      ELSE subscribers
    /\ UNCHANGED <<sse, fanout>>

\* One of the deliveries counted in d goes from one attempt to another.
Moved(d, from, to) ==
    LET less == [d EXCEPT ![from] = @ - 1] IN [less EXCEPT ![to] = @ + 1]

\* Not delivered, or delivered and the response lost: try again.
AttemptFails(u, n) ==
    /\ n + 1 \in Attempt
    /\ deliveries[u][n] > 0
    /\ deliveries' = [deliveries EXCEPT ![u] = Moved(@, n, n + 1)]
    /\ UNCHANGED <<sse, subscribers, fanout>>

\* Mutant of DeliveryFails: it starts over.
DeliveryStartsOver(u, n) ==
    /\ n + 1 \notin Attempt
    /\ deliveries[u][n] > 0
    /\ deliveries' = [deliveries EXCEPT ![u] = Moved(@, n, 0)]
    /\ UNCHANGED <<sse, subscribers, fanout>>

\* Mutant of DeliveryFails: one more failure before the subscriber goes.
FailsOneMore(u, n) ==
    /\ n + 1 \notin Attempt
    /\ deliveries[u][n] > 0
    /\ deliveries' = [deliveries EXCEPT ![u][n] = @ - 1]
    /\ subscribers' =
          IF Subscribed(u) /\ subscribers[u].fails < MaxFailCount
          THEN [subscribers EXCEPT ![u].fails = @ + 1]
          ELSE [subscribers EXCEPT ![u] = Gone]
    /\ UNCHANGED <<sse, fanout>>

\* The last attempt fails: it counts against whoever is subscribed now, if
\* there is one.
DeliveryFails(u, n) ==
    /\ n + 1 \notin Attempt
    /\ deliveries[u][n] > 0
    /\ deliveries' = [deliveries EXCEPT ![u][n] = @ - 1]
    /\ subscribers' =
          IF Subscribed(u) /\ subscribers[u].fails + 1 < MaxFailCount
          THEN [subscribers EXCEPT ![u].fails = @ + 1]
          ELSE [subscribers EXCEPT ![u] = Gone]
    /\ UNCHANGED <<sse, fanout>>
=============================================================================
