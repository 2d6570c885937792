------------------------------ MODULE MCWatcher ------------------------------
(* A small instance of Watcher. *)
EXTENDS Watcher

CONSTANTS a, b, s1, s2

MCSender == {a, b, s1, s2}
MCFilters == {EventType, {"add"}}
MCWorlds ==
    {[files |-> {a, b}, changes |-> 2, visitors |-> {}],
     [files |-> {}, changes |-> 3, visitors |-> {}],
     [files |-> {a}, changes |-> 2, visitors |-> {"sse"}],
     [files |-> {a}, changes |-> 1, visitors |-> {"webhook"}],
     [files |-> {a, b}, changes |-> 1, visitors |-> {"scan"}],
     [files |-> {}, changes |-> 2, visitors |-> {"stop"}]}
=============================================================================
