--------------------------- MODULE MCMetadataStore ---------------------------
(* Instances of MetadataStore for TLC.                                     *)
EXTENDS MetadataStore, TLC

CONSTANTS p1, p2, r1, r2, r3

\* All requests to one process, and the first one to another than the rest.
OneProcess   == [r \in Request |-> p1]
TwoProcesses == [r \in Request |-> IF r = r1 THEN p1 ELSE p2]

DeleteAndSet == {"delete", "set"}
AddsOnly == {"add"}
=============================================================================
