------------------------------ MODULE Debouncer ------------------------------
(***************************************************************************)
(* The debouncer of the file watcher (internal/watcher/debounce.go): an    *)
(* event of a path is held back until the path has been quiet for Delay.   *)
(*                                                                         *)
(* d.mu makes Add, flush and Stop atomic. What it does not cover is the    *)
(* time between a timer that runs out and its goroutine getting the lock:  *)
(* Add may reset the timer meanwhile, and several such goroutines of one   *)
(* path may wait. Time passes in ticks; a timer that has run out may fire  *)
(* late. The actions here say what happens to the debouncer; Watcher says  *)
(* who takes them and what the callback does.                              *)
(***************************************************************************)
EXTENDS FileEvents

CONSTANTS Delay,        \* DEBOUNCE_MS, in ticks
          MaxFlushers   \* bound: goroutines of one path that wait for d.mu

ASSUME DebouncerAssumption ==
    /\ Delay \in Nat \ {0}
    /\ MaxFlushers \in Nat \ {0}

VARIABLES
    pending,   \* d.pending: the type of the latest event of a path
    age,       \* time.Since(LastSeen), counted up to Delay
    timer,     \* ticks until the timer of a path runs out, or Off
    flushers,  \* goroutines of timers that ran out, before d.mu.Lock
    stopped    \* d.stopped

debouncer == <<pending, age, timer, flushers, stopped>>

Off == Delay + 1

Pending(p) == pending[p] # NoEvent

DebouncerTypeOK ==
    /\ pending \in [Path -> EventType \cup {NoEvent}]
    /\ age \in [Path -> 0..Delay]
    /\ timer \in [Path -> 0..Off]
    /\ flushers \in [Path -> Nat]
    /\ stopped \in BOOLEAN

DebouncerInit ==
    /\ pending = [p \in Path |-> NoEvent]
    /\ age = [p \in Path |-> 0]
    /\ timer = [p \in Path |-> Off]
    /\ flushers = [p \in Path |-> 0]
    /\ stopped = FALSE

-----------------------------------------------------------------------------
\* Mutant of Add: a pending event keeps what it was first.
AddKeepsFirst(p, type) ==
    /\ ~stopped
    /\ pending' = [pending EXCEPT ![p] = IF @ = NoEvent THEN type ELSE @]
    /\ age' = [age EXCEPT ![p] = 0]
    /\ timer' = [timer EXCEPT ![p] = Delay]
    /\ UNCHANGED <<flushers, stopped>>

\* Mutant of Add: it does not look at d.stopped.
AddAnyway(p, type) ==
    /\ pending' = [pending EXCEPT ![p] = type]
    /\ age' = [age EXCEPT ![p] = 0]
    /\ timer' = [timer EXCEPT ![p] = Delay]
    /\ UNCHANGED <<flushers, stopped>>

\* A new entry and an old one end up alike: the latest event, LastSeen now, a
\* timer of Delay.
Add(p, type) ==
    /\ ~stopped
    /\ pending' = [pending EXCEPT ![p] = type]
    /\ age' = [age EXCEPT ![p] = 0]
    /\ timer' = [timer EXCEPT ![p] = Delay]
    /\ UNCHANGED <<flushers, stopped>>

\* The runtime starts flush in a goroutine of its own.
TimerFires(p) ==
    /\ timer[p] = 0
    /\ flushers[p] < MaxFlushers
    /\ timer' = [timer EXCEPT ![p] = Off]
    /\ flushers' = [flushers EXCEPT ![p] = @ + 1]
    /\ UNCHANGED <<pending, age, stopped>>

\* flush: another goroutine was faster, or Stop was.
FlushNothing(p) ==
    /\ flushers[p] > 0
    /\ ~Pending(p)
    /\ flushers' = [flushers EXCEPT ![p] = @ - 1]
    /\ UNCHANGED <<pending, age, timer, stopped>>

\* Mutant of FlushEarly: the timer is not set again.
FlushGivesUp(p) ==
    /\ flushers[p] > 0
    /\ Pending(p) /\ age[p] < Delay
    /\ flushers' = [flushers EXCEPT ![p] = @ - 1]
    /\ timer' = [timer EXCEPT ![p] = Off]
    /\ UNCHANGED <<pending, age, stopped>>

\* flush: an event came after the timer had run out; wait for the rest.
FlushEarly(p) ==
    /\ flushers[p] > 0
    /\ Pending(p) /\ age[p] < Delay
    /\ flushers' = [flushers EXCEPT ![p] = @ - 1]
    /\ timer' = [timer EXCEPT ![p] = Delay - age[p]]
    /\ UNCHANGED <<pending, age, stopped>>

\* Mutant of FlushDue: the time since the last event is not checked.
FlushUnchecked(p) ==
    /\ flushers[p] > 0
    /\ Pending(p)
    /\ pending' = [pending EXCEPT ![p] = NoEvent]
    /\ age' = [age EXCEPT ![p] = 0]
    /\ timer' = [timer EXCEPT ![p] = Off]
    /\ flushers' = [flushers EXCEPT ![p] = @ - 1]
    /\ UNCHANGED stopped

\* flush takes the event out and calls back. A timer of the entry that has
\* run out once more can no longer be held: its goroutine is as good as here.
FlushDue(p) ==
    /\ flushers[p] > 0
    /\ Pending(p) /\ age[p] >= Delay
    /\ pending' = [pending EXCEPT ![p] = NoEvent]
    /\ age' = [age EXCEPT ![p] = 0]
    /\ timer' = [timer EXCEPT ![p] = Off]
    /\ flushers' = [flushers EXCEPT ![p] = IF timer[p] = 0 THEN @ ELSE @ - 1]
    /\ UNCHANGED stopped

StopDebouncer ==
    /\ stopped' = TRUE
    /\ pending' = [p \in Path |-> NoEvent]
    /\ age' = [p \in Path |-> 0]
    /\ timer' = [p \in Path |-> Off]
    /\ UNCHANGED flushers

TimePasses ==
    /\ age' = [p \in Path |-> IF Pending(p) /\ age[p] < Delay THEN age[p] + 1 ELSE age[p]]
    /\ timer' = [p \in Path |-> IF timer[p] \in 1..Delay THEN timer[p] - 1 ELSE timer[p]]
    /\ UNCHANGED <<pending, flushers, stopped>>
=============================================================================
