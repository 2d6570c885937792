------------------------------- MODULE Watcher -------------------------------
(***************************************************************************)
(* The file watcher (internal/watcher/watcher.go) with its debouncer and   *)
(* dispatcher, in one meta-core process: fsnotify reports what happens to  *)
(* files, processEvents hands it to the debouncer, a flush calls back into *)
(* the watcher, which keeps the event for pollers and dispatches it. Scans *)
(* walk over the files and dispatch an add event for each.                 *)
(*                                                                         *)
(* Goroutines: the event loop, one for each flush that calls back, one for *)
(* each scan, those of the dispatcher. A flush of path p is sender p.      *)
(*                                                                         *)
(* Files are not hidden and lie in directories that are watched; the       *)
(* inotify queue does not overflow. Reading the first 64 KB of a file and  *)
(* dispatching the event take less than Delay (30 s by default): no tick   *)
(* happens meanwhile.                                                      *)
(***************************************************************************)
EXTENDS Debouncer, Dispatcher, Sequences

CONSTANTS Scanner,     \* goroutines that run RunScan; bounds how many scans there are
          FirstScan,   \* the one that Start starts
          BufferMax,   \* 10000
          BufferKeep,  \* 5000
          Nothing,     \* no event at hand
          Worlds       \* what may happen around the process: see world

\* The files there are at first, a bound on how often files change, and those
\* of SSE clients, webhooks, requests to scan and a shutdown that there are.
Visitor == {"sse", "webhook", "scan", "stop"}
World == [files : SUBSET Path, changes : Nat, visitors : SUBSET Visitor]

ASSUME WatcherAssumption ==
    /\ Sender = Path \cup Scanner
    /\ Path \cap Scanner = {}
    /\ FirstScan \in Scanner
    /\ BufferMax \in Nat /\ BufferKeep \in 1..BufferMax
    /\ Worlds \subseteq World

Event == [path : Path, type : EventType]
ASSUME NothingAssumption == Nothing \notin Event

VARIABLES
    world,       \* chosen at first, so that TLC takes them one by one
    disk,        \* the files there are
    changes,     \* how many more changes there will be
    events,      \* fsWatcher.Events
    loop,        \* processEvents: "select", "handle", "off"
    taken,       \* the event it handles
    stopping,    \* the next step of Stop, "running" before, "stopped" after
    isScanning,
    at,          \* where each sender is
    what,        \* the event it is about
    walk,        \* paths a scan has still to visit
    eventBuffer,
    dispatched   \* history: the type last given to DispatchEvent of each path

loopVars == <<events, loop, taken>>
sendVars == <<at, what, walk>>
watcher == <<world, disk, changes, loopVars, stopping, isScanning, sendVars,
             eventBuffer, dispatched>>
vars == <<debouncer, dispatcher, watcher>>

SenderPC == {"idle", "start", "walk", "append", "dispatch", "send", "done"}

TypeOK ==
    /\ DebouncerTypeOK
    /\ DispatcherTypeOK
    /\ world \in Worlds
    /\ disk \subseteq Path
    /\ changes \in Nat
    /\ events \in Seq(Event)
    /\ loop \in {"select", "handle", "off"}
    /\ taken \in Event \cup {Nothing}
    /\ stopping \in {"running", "stopChan", "debouncer", "fsWatcher", "stopped"}
    /\ isScanning \in BOOLEAN
    /\ at \in [Sender -> SenderPC]
    /\ what \in [Sender -> Event \cup {Nothing}]
    /\ walk \in [Scanner -> SUBSET Path]
    /\ eventBuffer \in Seq(Event) /\ Len(eventBuffer) <= BufferMax
    /\ dispatched \in [Path -> EventType \cup {NoEvent}]

\* Start has added the watches and started the loop and the first scan.
Init ==
    /\ DebouncerInit
    /\ DispatcherInit
    /\ world \in Worlds
    /\ disk = world.files
    /\ changes = world.changes
    /\ events = <<>> /\ loop = "select" /\ taken = Nothing
    /\ stopping = "running"
    /\ isScanning = FALSE
    /\ at = [s \in Sender |-> IF s = FirstScan THEN "start" ELSE "idle"]
    /\ what = [s \in Sender |-> Nothing]
    /\ walk = [s \in Scanner |-> {}]
    /\ eventBuffer = <<>>
    /\ dispatched = [p \in Path |-> NoEvent]

Goto(s, label) == at' = [at EXCEPT ![s] = label]

-----------------------------------------------------------------------------
(* The file system and the event loop                                      *)

FileChanges(p) ==
    /\ changes > 0
    /\ changes' = changes - 1
    /\ \E type \in IF p \in disk THEN EventType \ {"add"} ELSE {"add"} :
          /\ disk' = IF type \in Present THEN disk \cup {p} ELSE disk \ {p}
          /\ events' = Append(events, [path |-> p, type |-> type])
    /\ UNCHANGED <<debouncer, dispatcher, world, loop, taken, stopping, isScanning,
                   sendVars, eventBuffer, dispatched>>

\* processEvents receives from fsWatcher.Events; select may prefer this to a
\* stopChan that is closed.
TakeEvent ==
    /\ loop = "select"
    /\ events # <<>>
    /\ taken' = Head(events)
    /\ events' = Tail(events)
    /\ loop' = "handle"
    /\ UNCHANGED <<debouncer, dispatcher, world, disk, changes, stopping, isScanning,
                   sendVars, eventBuffer, dispatched>>

HandleFsEvent ==
    /\ loop = "handle"
    /\ \/ Add(taken.path, taken.type)
       \/ stopped /\ UNCHANGED debouncer
    /\ loop' = "select"
    /\ taken' = Nothing
    /\ UNCHANGED <<dispatcher, world, disk, changes, events, stopping, isScanning,
                   sendVars, eventBuffer, dispatched>>

\* stopChan, or the channel of a watcher that is closed.
LoopEnds ==
    /\ loop = "select"
    /\ stopping \in {"debouncer", "fsWatcher", "stopped"}
    /\ loop' = "off"
    /\ UNCHANGED <<debouncer, dispatcher, world, disk, changes, events, taken, stopping,
                   isScanning, sendVars, eventBuffer, dispatched>>

\* Stop, when meta-core shuts down. Callbacks and scans under way go on.
StopStep ==
    \/ /\ "stop" \in world.visitors
       /\ stopping = "running" /\ stopping' = "stopChan"
       /\ UNCHANGED debouncer
    \/ /\ stopping = "stopChan" /\ stopping' = "debouncer"
       /\ UNCHANGED debouncer
    \/ /\ stopping = "debouncer" /\ stopping' = "fsWatcher"
       /\ StopDebouncer
    \/ /\ stopping = "fsWatcher" /\ stopping' = "stopped"
       /\ UNCHANGED debouncer

Stop ==
    /\ StopStep
    /\ UNCHANGED <<dispatcher, world, disk, changes, loopVars, isScanning, sendVars,
                   eventBuffer, dispatched>>

-----------------------------------------------------------------------------
(* Flushes and their callbacks                                             *)

\* It has an event at hand that it has still to dispatch, or to send.
Busy(s) == at[s] \in {"append", "dispatch", "send"}

Tick ==
    /\ \A s \in Sender : ~Busy(s)
    /\ TimePasses
    /\ UNCHANGED <<dispatcher, watcher>>

Fire(p) == TimerFires(p) /\ UNCHANGED <<dispatcher, watcher>>

FlushWithout(p) ==
    /\ FlushNothing(p) \/ FlushEarly(p)
    /\ UNCHANGED <<dispatcher, watcher>>

FlushCallsBack(p) ==
    /\ FlushDue(p)
    /\ Goto(p, "append")
    /\ what' = [what EXCEPT ![p] = [path |-> p, type |-> pending[p]]]
    /\ UNCHANGED <<dispatcher, world, disk, changes, loopVars, stopping, isScanning,
                   walk, eventBuffer, dispatched>>

\* Mutant of Trimmed: the older half is kept.
TrimmedWrong(buf) ==
    IF Len(buf) > BufferMax THEN SubSeq(buf, 1, BufferKeep) ELSE buf

Trimmed(buf) ==
    IF Len(buf) > BufferMax THEN SubSeq(buf, Len(buf) - BufferKeep + 1, Len(buf)) ELSE buf

AppendToBuffer(p) ==
    /\ at[p] = "append"
    /\ eventBuffer' = Trimmed(Append(eventBuffer, what[p]))
    /\ Goto(p, "dispatch")
    /\ UNCHANGED <<debouncer, dispatcher, world, disk, changes, loopVars, stopping,
                   isScanning, what, walk, dispatched>>

\* Of a callback and of a scan alike. Without webhooks the goroutine for them
\* has nothing to do.
DispatchEvent(s) ==
    /\ at[s] = "dispatch"
    /\ IF "webhook" \in world.visitors
       THEN Dispatch(s, what[s].type)
       ELSE SnapshotClients(s) /\ UNCHANGED webhooks
    /\ dispatched' = [dispatched EXCEPT ![what[s].path] = what[s].type]
    /\ Goto(s, "send")
    /\ UNCHANGED <<debouncer, world, disk, changes, loopVars, stopping, isScanning,
                   what, walk, eventBuffer>>

SendToClient(s) ==
    /\ at[s] = "send"
    /\ \E c \in clients[s] : SendOrSkip(s, c) \/ SendOnClosed(s, c)
    /\ UNCHANGED <<debouncer, watcher>>

DispatchReturns(s) ==
    /\ at[s] = "send"
    /\ clients[s] = {}
    /\ Goto(s, IF s \in Scanner THEN "walk" ELSE "idle")
    /\ what' = [what EXCEPT ![s] = Nothing]
    /\ UNCHANGED <<debouncer, dispatcher, world, disk, changes, loopVars, stopping,
                   isScanning, walk, eventBuffer, dispatched>>

-----------------------------------------------------------------------------
(* RunScan                                                                 *)

\* Mutant of ScanBegins: isScanning is read and not set.
ScanBeginsUnseen(s) ==
    /\ at[s] = "start"
    /\ ~isScanning
    /\ Goto(s, "walk")
    /\ walk' = [walk EXCEPT ![s] = disk]
    /\ UNCHANGED <<debouncer, dispatcher, world, disk, changes, loopVars, stopping,
                   isScanning, what, eventBuffer, dispatched>>

\* Test and set of isScanning under w.mu, then the names in the directory.
ScanBegins(s) ==
    /\ at[s] = "start"
    /\ ~isScanning
    /\ isScanning' = TRUE
    /\ Goto(s, "walk")
    /\ walk' = [walk EXCEPT ![s] = disk]
    /\ UNCHANGED <<debouncer, dispatcher, world, disk, changes, loopVars, stopping,
                   what, eventBuffer, dispatched>>

ScanRefused(s) ==
    /\ at[s] = "start"
    /\ isScanning
    /\ Goto(s, "done")
    /\ UNCHANGED <<debouncer, dispatcher, world, disk, changes, loopVars, stopping,
                   isScanning, what, walk, eventBuffer, dispatched>>

\* filepath.Walk looks at each of the names; a file may have gone.
ScanVisits(s) ==
    /\ at[s] = "walk"
    /\ \E p \in walk[s] :
          /\ walk' = [walk EXCEPT ![s] = @ \ {p}]
          /\ \/ /\ p \in disk
                /\ Goto(s, "dispatch")
                /\ what' = [what EXCEPT ![s] = [path |-> p, type |-> "add"]]
             \/ /\ p \notin disk
                /\ UNCHANGED <<at, what>>
    /\ UNCHANGED <<debouncer, dispatcher, world, disk, changes, loopVars, stopping,
                   isScanning, eventBuffer, dispatched>>

ScanEnds(s) ==
    /\ at[s] = "walk"
    /\ walk[s] = {}
    /\ isScanning' = FALSE
    /\ Goto(s, "done")
    /\ UNCHANGED <<debouncer, dispatcher, world, disk, changes, loopVars, stopping,
                   what, walk, eventBuffer, dispatched>>

-----------------------------------------------------------------------------
(* The HTTP API (handlers.go)                                              *)

handleTriggerScan(s) ==
    /\ "scan" \in world.visitors
    /\ at[s] = "idle"
    /\ Goto(s, "start")
    /\ UNCHANGED <<debouncer, dispatcher, world, disk, changes, loopVars, stopping,
                   isScanning, what, walk, eventBuffer, dispatched>>

handleSSESubscribe(c) ==
    /\ "sse" \in world.visitors
    /\ AddSSEClient(c) \/ StreamEvent(c) \/ RemoveSSEClient(c)
    /\ UNCHANGED <<debouncer, watcher>>

handleSubscribers(u) ==
    /\ "webhook" \in world.visitors
    /\ Subscribe(u) \/ Unsubscribe(u)
    /\ UNCHANGED <<debouncer, watcher>>

FanOut ==
    /\ \E type \in EventType : DispatchToWebhooks(type)
    /\ UNCHANGED <<debouncer, watcher>>

Deliver(u) ==
    /\ \E n \in Attempt : DeliverySucceeds(u, n) \/ AttemptFails(u, n) \/ DeliveryFails(u, n)
    /\ UNCHANGED <<debouncer, watcher>>

-----------------------------------------------------------------------------
Loop == TakeEvent \/ HandleFsEvent
Flush(p) == Fire(p) \/ FlushWithout(p) \/ FlushCallsBack(p) \/ AppendToBuffer(p)
Sends(s) == DispatchEvent(s) \/ SendToClient(s) \/ DispatchReturns(s)
RunScan(s) == ScanBegins(s) \/ ScanRefused(s) \/ ScanVisits(s) \/ ScanEnds(s)

Next ==
    /\ ~panicked
    /\ \/ Loop \/ LoopEnds \/ Stop \/ Tick \/ FanOut
       \/ \E p \in Path : FileChanges(p) \/ Flush(p)
       \/ \E s \in Sender : Sends(s)
       \/ \E s \in Scanner : RunScan(s) \/ handleTriggerScan(s)
       \/ \E c \in Client : handleSSESubscribe(c)
       \/ \E u \in Url : handleSubscribers(u) \/ Deliver(u)

Spec == Init /\ [][Next]_vars

\* Timers run out and goroutines run. Nobody has to change files, to call
\* the API, to read an SSE stream or to stop the process; requests to
\* webhooks end by their time-out.
Fairness ==
    /\ WF_vars(~panicked /\ Loop)
    /\ WF_vars(~panicked /\ Tick)
    /\ WF_vars(~panicked /\ FanOut)
    /\ \A p \in Path : WF_vars(~panicked /\ Flush(p))
    /\ \A s \in Sender : WF_vars(~panicked /\ Sends(s))
    /\ \A s \in Scanner : WF_vars(~panicked /\ RunScan(s))
    /\ \A u \in Url : WF_vars(~panicked /\ Deliver(u))

FairSpec == Spec /\ Fairness

-----------------------------------------------------------------------------
(* Properties                                                              *)

\* No event is forgotten in the debouncer: a path with one has a timer that
\* runs, or a goroutine that is about to flush it (Timer.Reset in flush).
PendingIsTimed ==
    \A p \in Path : Pending(p) => timer[p] # Off \/ flushers[p] > 0

\* A file is reported only when it has been left alone for DEBOUNCE_MS,
\* however many timers of it have run out meanwhile (the elapsed check of
\* flush and the reset in Add).
QuietBeforeReport ==
    [][\A p \in Path : what[p] = Nothing /\ what'[p] # Nothing
                          => Pending(p) /\ age[p] = Delay]_vars

\* Once Stop of the debouncer has returned nothing is pending and no callback
\* begins, whatever fsnotify still delivers (d.stopped in Add).
StopSilences ==
    [][stopped => /\ stopped'
                  /\ \A p \in Path : what[p] = Nothing => what'[p] = Nothing
                  /\ \A p \in Path : ~Pending(p)']_vars

\* The event that the flush of each path is about.
Reporting == [p \in Path |-> IF what[p] = Nothing THEN NoEvent ELSE what[p].type]

\* Through timers, late flushes, callbacks and Stop the watcher keeps what
\* QuietPeriod promises: of each path the latest event is reported, as it is,
\* one report at a time, and after Stop none begins (Add, flush and Stop under
\* d.mu, the callback outside of it).
Promise == INSTANCE QuietPeriod
    WITH held <- pending, quiet <- age, reporting <- Reporting, silent <- stopped
ReportsTheLatest == Promise!QSpec

\* Two scans never walk over the files at once (isScanning under w.mu).
ScansDoNotOverlap ==
    \A r, s \in Scanner :
        at[r] \in {"walk", "dispatch", "send"} /\ at[s] \in {"walk", "dispatch", "send"}
            => r = s

\* Nothing is under way: all that has happened to files has been dispatched.
Settled ==
    /\ stopping = "running" /\ ~panicked
    /\ events = <<>> /\ loop = "select"
    /\ \A p \in Path : ~Pending(p) /\ at[p] = "idle"
    /\ \A s \in Scanner : at[s] \in {"idle", "done"}

\* What is dispatched last of a path says whether there is a file, though
\* debouncing drops events and scans and flushes dispatch side by side. What
\* subscribers then receive is another matter: a full SSE channel drops events,
\* and deliveries to webhooks overtake each other.
LastDispatchIsTrue ==
    Settled => \A p \in Path : dispatched[p] \in Present <=> p \in disk

\* The latest event of a path that pollers find in the buffer, if they find
\* any, is true of the file (the trimming in handleDebouncedEvent).
BufferAgrees ==
    Settled => \A i \in DOMAIN eventBuffer :
        LET p == eventBuffer[i].path
        IN  (\A j \in DOMAIN eventBuffer : j > i => eventBuffer[j].path # p)
                => (eventBuffer[i].type \in Present <=> p \in disk)

Down == stopping # "running" \/ panicked

\* What happens to files is in the end dispatched, and truly, once they are left
\* alone, unless the process ends (dispatched, not received: see above).
ChangesDispatched ==
    []<>(Down \/ \A p \in Path : dispatched[p] \in Present <=> p \in disk)

\* Sending to SSE clients ends, though none of them need read what it is sent
\* (the default case in dispatchToSSE). A scan hangs on it too.
DispatchEnds ==
    \A s \in Sender : at[s] = "send" ~> at[s] # "send" \/ panicked

\* A delivery does not go on for ever, though the subscriber never answers.
DeliveriesEnd ==
    []<>(panicked \/ /\ \A t \in EventType : fanout[t] = 0
                     /\ \A u \in Url, n \in Attempt : deliveries[u][n] = 0)
=============================================================================
