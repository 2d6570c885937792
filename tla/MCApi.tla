-------------------------------- MODULE MCApi --------------------------------
(* A small instance of Api. *)
EXTENDS Api

CONSTANTS p1, r1, r2, r3, b, w, f1, f2, a, c, v1

OneProcess == [r \in Request |-> p1]

WithoutDelete == Operations \ {"delete"}

MCBatches ==
    {<<[file |-> f1, metadata |-> {a, c}, properties |-> {}, value |-> v1],
       [file |-> Any, metadata |-> {a}, properties |-> {}, value |-> v1]>>,
     <<[file |-> f1, metadata |-> {a}, properties |-> {a, c}, value |-> v1],
       [file |-> f2, metadata |-> {}, properties |-> {c}, value |-> v1]>>}

\* Plain requests by themselves; a batch, and a reader, beside one of them.
MCCompanies == {{r1, r2, r3}, {r1, b}, {r1, w}}
=============================================================================
