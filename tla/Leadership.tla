----------------------------- MODULE Leadership -----------------------------
(***************************************************************************)
(* What the election of meta-core promises, without lock files, processes  *)
(* or Redis: one holder at a time, only the holder publishes its address,  *)
(* and what an instance believes about the leader is either nothing, its   *)
(* own name while it holds, or something that was published.               *)
(***************************************************************************)
CONSTANTS Node, None

VARIABLES holder,     \* the instance that leads, or None
          published,  \* the address every instance can look up
          known       \* the leader each instance believes in

avars == <<holder, published, known>>

AInit == /\ holder = None
         /\ published = None
         /\ known = [n \in Node |-> None]

Elect(n) == /\ holder = None
            /\ holder' = n
            /\ UNCHANGED <<published, known>>

\* The holder announces itself, to itself and then to the others.
Claim(n) == /\ holder = n
            /\ known' = [known EXCEPT ![n] = n]
            /\ UNCHANGED <<holder, published>>

Publish(n) == /\ holder = n
              /\ known[n] = n
              /\ published' = n
              /\ UNCHANGED <<holder, known>>

Learn(n) == /\ holder # n
            /\ known' = [known EXCEPT ![n] = published]
            /\ UNCHANGED <<holder, published>>

\* An instance that ends forgets what it knew and gives up what it held.
Resign(n) == /\ holder = n
             /\ holder' = None
             /\ UNCHANGED <<published, known>>

End(n) == /\ holder' = IF holder = n THEN None ELSE holder
          /\ known' = [known EXCEPT ![n] = None]
          /\ UNCHANGED published

ANext == \E n \in Node : Elect(n) \/ Claim(n) \/ Publish(n) \/ Learn(n) \/ Resign(n) \/ End(n)

ASpec == AInit /\ [][ANext]_avars
=============================================================================
