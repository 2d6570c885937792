------------------------------- MODULE Registry -------------------------------
(***************************************************************************)
(* What a reader of the service directory may assume of services that have *)
(* their names to themselves: a registration appears, is renewed and goes  *)
(* in one step each, a service renews its own and no other, and one that   *)
(* dies leaves its own behind to grow old.                                 *)
(***************************************************************************)
EXTENDS Naturals

CONSTANTS Process,
          Old,      \* an age at which it does not matter any more
          Missing   \* no registration

VARIABLES entry,  \* the registration of each process, by whom and how old
          there   \* processes that are registered and have not ended

rvars == <<entry, there>>

RInit == entry = [p \in Process |-> Missing] /\ there = {}

\* Seconds are cut off, so that it may look a tick older than it is.
Register(p) ==
    /\ \E age \in {0, 1} : entry' = [entry EXCEPT ![p] = [by |-> p, age |-> age]]
    /\ there' = there \cup {p}

Withdraw(p) ==
    /\ p \in there
    /\ entry' = [entry EXCEPT ![p] = Missing]
    /\ there' = there \ {p}

Die(p) ==
    /\ p \in there
    /\ there' = there \ {p}
    /\ UNCHANGED entry

Aged(e) == IF e # Missing /\ e.age < Old THEN [e EXCEPT !.age = @ + 1] ELSE e

Age ==
    /\ entry' = [p \in Process |-> Aged(entry[p])]
    /\ UNCHANGED there

RNext == Age \/ \E p \in Process : Register(p) \/ Withdraw(p) \/ Die(p)

RSpec == RInit /\ [][RNext]_rvars
=============================================================================
