------------------------------- MODULE Discovery -------------------------------
(***************************************************************************)
(* Service discovery (internal/discovery/service.go): a process writes a   *)
(* file <SERVICE_NAME>.json into a directory that all processes share, and *)
(* again with every heartbeat; Stop removes it. A reader takes a service   *)
(* for stale whose heartbeat is old.                                       *)
(*                                                                         *)
(* A write truncates <SERVICE_NAME>.json.tmp, fills it and renames it.     *)
(* Nothing keeps two processes from having one name, the default for one:  *)
(* they share both files, and an open file is what it was opened as, or    *)
(* what a rename has made of it since. A process may die between any two   *)
(* steps and be started again. Time passes in ticks; a write takes less.   *)
(***************************************************************************)
EXTENDS Integers

CONSTANTS Process, Name,
          Interval,     \* HEARTBEAT_INTERVAL_MS, in ticks
          Threshold,    \* STALE_THRESHOLD_MS, in ticks
          MaxFaults,    \* bound: crashes and failed reads and writes
          Missing,      \* no such file
          Empty, Mixed  \* truncated; one text written over a longer one

\* A heartbeat is kept in whole seconds, so that it may look a tick older.
ASSUME DiscoveryAssumption ==
    /\ Interval \in Nat \ {0}
    /\ Threshold \in Nat
    /\ Interval + 1 <= Threshold
    /\ MaxFaults \in Nat

Old  == Threshold + 1
Info == [by : Process, age : 0..Old]

ASSUME ContentAssumption ==
    /\ Missing \notin Info \cup {Empty, Mixed}
    /\ Empty \notin Info \cup {Mixed}
    /\ Mixed \notin Info

VARIABLES
    name,      \* SERVICE_NAME of each process; never changes
    service,   \* <name>.json in the directory
    tmp,       \* <name>.json.tmp
    pc,        \* the goroutine of Start, then of heartbeatLoop
    up,        \* Start has returned, the loop runs
    fd,        \* what the file opened for writing is by now
    due,       \* ticks until the ticker fires, or the process may be started
    missed,    \* the latest heartbeat could not be written
    stop,      \* the goroutine of Stop: "none", "wait", "removed"
    todo,      \* files DiscoverAll has still to read
    found,     \* and those it has read
    listing,   \* whether it is under way
    steady,    \* history: processes up since it began, and read without error
    faults

files   == <<service, tmp>>
process == <<pc, up, fd, due, missed, stop>>
reader  == <<todo, found, listing, steady>>
vars    == <<name, files, process, reader, faults>>

TypeOK ==
    /\ name \in [Process -> Name]
    /\ service \in [Name -> Info \cup {Missing, Empty, Mixed}]
    /\ tmp \in [Name -> Info \cup {Missing, Empty, Mixed}]
    /\ pc \in [Process -> {"off", "open", "write", "rename", "beating", "ended"}]
    /\ up \in [Process -> BOOLEAN]
    /\ fd \in [Process -> {"none", "tmp", "file", "gone"}]
    /\ due \in [Process -> 0..Interval]
    /\ missed \in [Process -> BOOLEAN]
    /\ stop \in [Process -> {"none", "wait", "removed"}]
    /\ todo \subseteq Name /\ found \subseteq Name
    /\ listing \in BOOLEAN
    /\ steady \subseteq Process
    /\ faults \in 0..MaxFaults

Init ==
    /\ name \in [Process -> Name]
    /\ service = [n \in Name |-> Missing]
    /\ tmp = [n \in Name |-> Missing]
    /\ pc = [p \in Process |-> "off"]
    /\ up = [p \in Process |-> FALSE]
    /\ fd = [p \in Process |-> "none"]
    /\ due = [p \in Process |-> 0]
    /\ missed = [p \in Process |-> FALSE]
    /\ stop = [p \in Process |-> "none"]
    /\ todo = {} /\ found = {} /\ listing = FALSE /\ steady = {}
    /\ faults = MaxFaults

Goto(p, label) == pc' = [pc EXCEPT ![p] = label]
Fault == faults > 0 /\ faults' = faults - 1

\* What is "running" by its file, for Discover.
\* Mutant of Discover: the time of the heartbeat is not looked at.
DiscoverTrusts(n) == service[n] \in Info

Discover(n) == service[n] \in Info /\ service[n].age <= Threshold

-----------------------------------------------------------------------------
(* writeServiceInfo, for register and heartbeat                            *)

\* Mutant of Open: O_EXCL, so that a file left behind is in the way.
OpenExclusive(p) ==
    /\ pc[p] = "open"
    /\ tmp[name[p]] = Missing
    /\ tmp' = [tmp EXCEPT ![name[p]] = Empty]
    /\ fd' = [fd EXCEPT ![p] = "tmp"]
    /\ Goto(p, "write")
    /\ UNCHANGED <<name, service, up, due, missed, stop, reader, faults>>

\* Mutant of Open: the service file itself is written.
OpenInPlace(p) ==
    /\ pc[p] = "open"
    /\ service' = [service EXCEPT ![name[p]] = Empty]
    /\ fd' = [fd EXCEPT ![p] = "file"]
    /\ Goto(p, "write")
    /\ UNCHANGED <<name, tmp, up, due, missed, stop, reader, faults>>

\* os.WriteFile creates or truncates the file,
Open(p) ==
    /\ pc[p] = "open"
    /\ tmp' = [tmp EXCEPT ![name[p]] = Empty]
    /\ fd' = [fd EXCEPT ![p] = "tmp"]
    /\ Goto(p, "write")
    /\ UNCHANGED <<name, service, up, due, missed, stop, reader, faults>>

\* Mutant of Written: the heartbeat in the file is that of before.
WrittenLate(p, old) ==
    IF service[name[p]] \in Info
    THEN {[by |-> p, age |-> service[name[p]].age]}
    ELSE {[by |-> p, age |-> 0]}

\* What a file that holds old may hold after p has written its own.
Written(p, old) ==
    {[by |-> p, age |-> a] : a \in {0, 1}} \cup (IF old = Empty THEN {} ELSE {Mixed})

\* then writes to what it has opened.
Write(p) ==
    /\ pc[p] = "write"
    /\ LET n == name[p]
       IN  \/ /\ fd[p] = "tmp"
              /\ \E text \in Written(p, tmp[n]) : tmp' = [tmp EXCEPT ![n] = text]
              /\ UNCHANGED service
           \/ /\ fd[p] = "file"
              /\ \E text \in Written(p, service[n]) : service' = [service EXCEPT ![n] = text]
              /\ UNCHANGED tmp
           \/ /\ fd[p] = "gone"
              /\ UNCHANGED files
    /\ fd' = [fd EXCEPT ![p] = "none"]
    /\ Goto(p, "rename")
    /\ UNCHANGED <<name, up, due, missed, stop, reader, faults>>

\* The files of one name that others have open, when <name>.json goes.
Unlinked(n) ==
    [q \in Process |-> IF name[q] = n /\ fd[q] = "file" THEN "gone" ELSE fd[q]]

\* And when <name>.json.tmp takes its place.
Renamed(n) ==
    [q \in Process |-> IF name[q] # n THEN fd[q]
                       ELSE CASE fd[q] = "file" -> "gone"
                              [] fd[q] = "tmp" -> "file"
                              [] OTHER -> fd[q]]

Rename(p) ==
    /\ pc[p] = "rename"
    /\ tmp[name[p]] # Missing
    /\ service' = [service EXCEPT ![name[p]] = tmp[name[p]]]
    /\ tmp' = [tmp EXCEPT ![name[p]] = Missing]
    /\ fd' = Renamed(name[p])
    /\ up' = [up EXCEPT ![p] = TRUE]
    /\ missed' = [missed EXCEPT ![p] = FALSE]
    /\ Goto(p, "beating")
    /\ UNCHANGED <<name, due, stop, reader, faults>>

\* The process ends. It takes a tick before it is started again.
Ends(p, label) ==
    /\ Goto(p, label)
    /\ due' = [due EXCEPT ![p] = 1]

\* A heartbeat that fails is logged; a registration that fails ends main.
GiveUp(p) ==
    /\ fd' = [fd EXCEPT ![p] = "none"]
    /\ missed' = [missed EXCEPT ![p] = up[p]]
    /\ IF up[p] THEN Goto(p, "beating") /\ UNCHANGED due ELSE Ends(p, "off")
    /\ UNCHANGED <<name, files, up, stop, reader>>

\* Another process has renamed the file: ENOENT.
RenameFails(p) ==
    /\ pc[p] = "rename"
    /\ tmp[name[p]] = Missing
    /\ GiveUp(p)
    /\ UNCHANGED faults

WriteFails(p) ==
    /\ pc[p] \in {"open", "write", "rename"}
    /\ Fault
    /\ GiveUp(p)

-----------------------------------------------------------------------------
(* Start, heartbeatLoop, Stop                                              *)

\* The process starts, or is started again.
Start(p) ==
    /\ \/ pc[p] = "off"
       \/ pc[p] = "ended" /\ stop[p] = "removed"
    /\ due[p] = 0
    /\ Goto(p, "open")
    /\ due' = [due EXCEPT ![p] = Interval]
    /\ stop' = [stop EXCEPT ![p] = "none"]
    /\ missed' = [missed EXCEPT ![p] = FALSE]
    /\ UNCHANGED <<name, files, up, fd, reader, faults>>

\* The ticker may win over a stopChan that is closed.
heartbeat(p) ==
    /\ pc[p] = "beating"
    /\ due[p] = 0
    /\ Goto(p, "open")
    /\ due' = [due EXCEPT ![p] = Interval]
    /\ UNCHANGED <<name, files, up, fd, missed, stop, reader, faults>>

StopBegins(p) ==
    /\ up[p] /\ stop[p] = "none"
    /\ stop' = [stop EXCEPT ![p] = "wait"]
    /\ UNCHANGED <<name, files, pc, up, fd, due, missed, reader, faults>>

LoopEnds(p) ==
    /\ pc[p] = "beating"
    /\ stop[p] # "none"
    /\ Goto(p, "ended")
    /\ UNCHANGED <<name, files, up, fd, due, missed, stop, reader, faults>>

\* Mutant of Remove: Stop does not wait for the loop.
RemoveAtOnce(p) ==
    /\ stop[p] = "wait"
    /\ service' = [service EXCEPT ![name[p]] = Missing]
    /\ fd' = Unlinked(name[p])
    /\ stop' = [stop EXCEPT ![p] = "removed"]
    /\ up' = [up EXCEPT ![p] = FALSE]
    /\ steady' = steady \ {p}
    /\ UNCHANGED <<name, tmp, pc, due, missed, todo, found, listing, faults>>

\* wg.Wait, then os.Remove; the process ends.
Remove(p) ==
    /\ stop[p] = "wait"
    /\ pc[p] = "ended"
    /\ service' = [service EXCEPT ![name[p]] = Missing]
    /\ fd' = Unlinked(name[p])
    /\ stop' = [stop EXCEPT ![p] = "removed"]
    /\ up' = [up EXCEPT ![p] = FALSE]
    /\ steady' = steady \ {p}
    /\ Ends(p, "ended")
    /\ UNCHANGED <<name, tmp, missed, todo, found, listing, faults>>

\* It dies, or Stop cannot remove the file.
Crash(p) ==
    /\ pc[p] # "off" /\ stop[p] # "removed"
    /\ Fault
    /\ Ends(p, "off")
    /\ up' = [up EXCEPT ![p] = FALSE]
    /\ fd' = [fd EXCEPT ![p] = "none"]
    /\ missed' = [missed EXCEPT ![p] = FALSE]
    /\ stop' = [stop EXCEPT ![p] = "none"]
    /\ steady' = steady \ {p}
    /\ UNCHANGED <<name, files, todo, found, listing>>

-----------------------------------------------------------------------------
(* DiscoverAll                                                             *)

\* Mutant of ReadDir: temporary files are taken for services.
ReadDirAll ==
    /\ ~listing
    /\ listing' = TRUE
    /\ todo' = {n \in Name : service[n] # Missing}
               \cup {<<n, "tmp">> : n \in {m \in Name : tmp[m] # Missing}}
    /\ found' = {}
    /\ steady' = {p \in Process : up[p]}
    /\ UNCHANGED <<name, files, process, faults>>

ReadDir ==
    /\ ~listing
    /\ listing' = TRUE
    /\ todo' = {n \in Name : service[n] # Missing}
    /\ found' = {}
    /\ steady' = {p \in Process : up[p]}
    /\ UNCHANGED <<name, files, process, faults>>

\* A file that is gone, or that is no JSON text, is left out.
ReadOne(n) ==
    /\ n \in todo
    /\ todo' = todo \ {n}
    /\ found' = IF service[n] \in Info THEN found \cup {n} ELSE found
    /\ UNCHANGED <<name, files, process, listing, steady, faults>>

\* Mutant of ReadFails: an error ends the listing.
ReadFailsForAll(n) ==
    /\ n \in todo
    /\ Fault
    /\ todo' = {}
    /\ steady' = {p \in steady : name[p] # n}
    /\ UNCHANGED <<name, files, process, found, listing>>

\* An error is logged, and the next file read.
ReadFails(n) ==
    /\ n \in todo
    /\ Fault
    /\ todo' = todo \ {n}
    /\ steady' = {p \in steady : name[p] # n}
    /\ UNCHANGED <<name, files, process, found, listing>>

ListingEnds ==
    /\ listing /\ todo = {}
    /\ listing' = FALSE
    /\ found' = {} /\ steady' = {}
    /\ UNCHANGED <<name, files, process, todo, faults>>

-----------------------------------------------------------------------------
Older(text) == IF text \in Info /\ text.age < Old THEN [text EXCEPT !.age = @ + 1] ELSE text

\* The ticker is served, a write is done and a loop ended before time goes on.
Tick ==
    /\ \A p \in Process :
          \/ pc[p] \in {"off", "ended"}
          \/ /\ pc[p] = "beating"
             /\ due[p] > 0
    /\ due' = [p \in Process |-> IF due[p] > 0 THEN due[p] - 1 ELSE 0]
    /\ service' = [n \in Name |-> Older(service[n])]
    /\ tmp' = [n \in Name |-> Older(tmp[n])]
    /\ UNCHANGED <<name, pc, up, fd, missed, stop, reader, faults>>

Loop(p) ==
    \/ Open(p) \/ Write(p) \/ Rename(p) \/ RenameFails(p)
    \/ heartbeat(p) \/ LoopEnds(p)

DiscoverAll ==
    \/ ReadDir \/ ListingEnds
    \/ \E n \in Name : ReadOne(n) \/ ReadFails(n)

Next ==
    \/ Tick \/ DiscoverAll
    \/ \E p \in Process : \/ Start(p) \/ StopBegins(p) \/ Remove(p) \/ Crash(p)
                          \/ Loop(p) \/ WriteFails(p)

Spec == Init /\ [][Next]_vars

\* Processes run and time passes. Nobody has to start or stop a process.
FairSpec ==
    /\ Spec
    /\ WF_vars(Tick)
    /\ \A p \in Process : WF_vars(Loop(p)) /\ WF_vars(Remove(p))

-----------------------------------------------------------------------------
(* Properties                                                              *)

Alone(p) == \A q \in Process : name[q] = name[p] => q = p
Live(p)  == pc[p] \notin {"off", "ended"}

\* service.go: "writeServiceInfo atomically writes service info to file". A
\* service that has its name to itself is never found half written, though it
\* dies at any point and leaves its temporary file to the next start.
FileWhole ==
    \A p \in Process : Alone(p) => service[name[p]] \notin {Empty, Mixed}

\* A service that is up, has its name to itself and could write its latest
\* heartbeat is found, and not stale: HEARTBEAT_INTERVAL_MS and the seconds
\* that RFC3339 cuts off stay below STALE_THRESHOLD_MS.
BeatingIsFresh ==
    \A p \in Process :
        up[p] /\ Live(p) /\ Alone(p) /\ ~missed[p]
            => Discover(name[p]) /\ service[name[p]].by = p

\* README.md: "On graceful shutdown, services remove their registration file".
\* No heartbeat brings it back (wg.Wait in Stop), also when processes share a
\* name and all of them have stopped.
StoppedStaysGone ==
    \A p \in Process :
        (\A q \in Process : name[q] = name[p] => stop[q] = "removed")
            => service[name[p]] = Missing

\* DiscoverAll leaves out no service that was up all the while, whatever it
\* cannot read of others.
ListsTheLiving ==
    listing /\ todo = {}
        => \A p \in steady : Alone(p) => name[p] \in found

\* README.md: "Services are automatically marked as stale". A name without a
\* process does not stay "running".
DeadIsSeen ==
    \A n \in Name :
        []<>(~Discover(n) \/ \E p \in Process : name[p] = n /\ Live(p))

\* A service that stays while the others of its name are gone is found in the
\* end, whatever they have done to the files they shared.
LiveIsFound ==
    \A p \in Process :
        []<>(\/ ~Live(p)
             \/ \E q \in Process \ {p} : name[q] = name[p] /\ Live(q)
             \/ Discover(name[p]))

-----------------------------------------------------------------------------
\* For services that have their names to themselves the directory is a
\* registry, in which writeServiceInfo and Stop act in one step each.
Registrations == INSTANCE Registry WITH
    entry <- [p \in Process |-> IF Alone(p) THEN service[name[p]] ELSE Missing],
    there <- {p \in Process : up[p] /\ Alone(p)}

KeepsRegistry == Registrations!RSpec
=============================================================================
