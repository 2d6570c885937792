----------------------------- MODULE QuietPeriod -----------------------------
(***************************************************************************)
(* What a watcher promises of the events it hears, without timers, locks   *)
(* or goroutines: of each path it holds the latest, and reports that one   *)
(* when nothing more was heard of the path for Delay; one report of a path *)
(* is over before time goes on. Once silenced it holds and reports nothing.*)
(***************************************************************************)
EXTENDS Naturals

CONSTANTS Path, EventType, NoEvent, Delay

VARIABLES held,       \* the event of each path that has still to be reported
          quiet,      \* how long nothing more was heard of it, up to Delay
          reporting,  \* the event of each path that is being reported
          silent

qvars == <<held, quiet, reporting, silent>>

QInit ==
    /\ held = [p \in Path |-> NoEvent]
    /\ quiet = [p \in Path |-> 0]
    /\ reporting = [p \in Path |-> NoEvent]
    /\ silent = FALSE

Hear(p, type) ==
    /\ ~silent
    /\ held' = [held EXCEPT ![p] = type]
    /\ quiet' = [quiet EXCEPT ![p] = 0]
    /\ UNCHANGED <<reporting, silent>>

Report(p) ==
    /\ held[p] # NoEvent /\ quiet[p] = Delay
    /\ reporting[p] = NoEvent
    /\ reporting' = [reporting EXCEPT ![p] = held[p]]
    /\ held' = [held EXCEPT ![p] = NoEvent]
    /\ quiet' = [quiet EXCEPT ![p] = 0]
    /\ UNCHANGED silent

Reported(p) ==
    /\ reporting[p] # NoEvent
    /\ reporting' = [reporting EXCEPT ![p] = NoEvent]
    /\ UNCHANGED <<held, quiet, silent>>

Wait ==
    /\ \A p \in Path : reporting[p] = NoEvent
    /\ quiet' = [p \in Path |-> IF held[p] # NoEvent /\ quiet[p] < Delay
                                THEN quiet[p] + 1 ELSE quiet[p]]
    /\ UNCHANGED <<held, reporting, silent>>

\* Reports that have begun go on.
Silence ==
    /\ silent' = TRUE
    /\ held' = [p \in Path |-> NoEvent]
    /\ quiet' = [p \in Path |-> 0]
    /\ UNCHANGED reporting

QNext ==
    \/ Wait \/ Silence
    \/ \E p \in Path : Report(p) \/ Reported(p) \/ \E type \in EventType : Hear(p, type)

QSpec == QInit /\ [][QNext]_qvars
=============================================================================
