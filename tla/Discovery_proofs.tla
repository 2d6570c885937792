--------------------------- MODULE Discovery_proofs ---------------------------
(***************************************************************************)
(* Proofs about Discovery, for any processes, names, intervals, faults.    *)
(*                                                                         *)
(* The argument: a process that has its name to itself is alone with its   *)
(* two files. What it has open is its temporary file, which it has         *)
(* emptied, so that it renames a whole text of its own; and the time its   *)
(* ticker still has to run is time its heartbeat may still grow old.       *)
(***************************************************************************)
EXTENDS Discovery, TLAPS

LEMMA Constants ==
    /\ Interval \in Nat /\ Interval >= 1
    /\ Threshold \in Nat /\ Interval + 1 <= Threshold
    /\ MaxFaults \in Nat
    /\ Old \in Nat /\ Old = Threshold + 1
    /\ Missing \notin Info /\ Empty \notin Info /\ Mixed \notin Info
    /\ Missing # Empty /\ Missing # Mixed /\ Empty # Mixed
  BY DiscoveryAssumption, ContentAssumption DEF Old

Text == Info \cup {Missing, Empty, Mixed}

Writing == {"open", "write", "rename"}

\* The process, its service file and its temporary file.
Own(p) ==
    LET n == name[p]
    IN  /\ fd[p] = IF pc[p] = "write" THEN "tmp" ELSE "none"
        /\ pc[p] = "write" => tmp[n] = Empty
        /\ pc[p] = "rename" => tmp[n] \in Info /\ tmp[n].by = p /\ tmp[n].age <= 1
        /\ service[n] \in Info \cup {Missing}
        /\ up[p] => service[n] \in Info /\ service[n].by = p
        /\ up[p] /\ ~missed[p] /\ pc[p] = "beating" => service[n].age + due[p] <= Interval + 1
        /\ up[p] /\ ~missed[p] /\ pc[p] \in Writing => service[n].age <= Interval + 1
        /\ stop[p] = "wait" => up[p]

\* A process that is not there is not up; nor is one that has stopped, whose
\* loop has ended.
OffIsDown ==
    \A p \in Process :
        /\ pc[p] = "off" => ~up[p]
        /\ stop[p] = "removed" => pc[p] = "ended" /\ ~up[p]

\* A name that a listing owes is still to be read, or has been found.
Owed ==
    /\ ~listing => steady = {}
    /\ \A p \in steady : up[p] /\ (Alone(p) => name[p] \in todo \cup found)

IInv == TypeOK /\ OffIsDown /\ Owed /\ StoppedStaysGone /\ \A p \in Process : Alone(p) => Own(p)

-----------------------------------------------------------------------------
(* Types                                                                   *)

LEMMA WrittenType ==
    ASSUME NEW p \in Process, NEW old \in Text, NEW text \in Written(p, old)
    PROVE  text \in Text /\ (old = Empty => text \in Info /\ text.by = p /\ text.age <= 1)
  BY Constants DEF Written, Info, Text

LEMMA OlderType ==
    ASSUME NEW text \in Text
    PROVE  /\ Older(text) \in Text
           /\ text \notin Info => Older(text) = text
           /\ text \in Info => /\ Older(text) \in Info
                               /\ Older(text).by = text.by
                               /\ Older(text).age <= text.age + 1
  <1> USE Constants
  <1>1. CASE text \in Info /\ text.age < Old
    <2> DEFINE new == [text EXCEPT !.age = @ + 1]
    <2>1. new \in Info /\ new.by = text.by /\ new.age = text.age + 1 /\ text.age \in Nat
      BY <1>1 DEF Info
    <2>2. Older(text) = new
      BY <1>1 DEF Older
    <2> HIDE DEF new
    <2> QED
      BY <1>1, <2>1, <2>2 DEF Text
  <1>2. CASE ~(text \in Info /\ text.age < Old)
    <2>1. Older(text) = text
      BY <1>2 DEF Older
    <2>2. text \in Info => text.age \in Nat
      BY DEF Info
    <2> QED
      BY <2>1, <2>2
  <1> QED
    BY <1>1, <1>2

LEMMA TypesKept ==
    ASSUME TypeOK, [Next]_vars
    PROVE  TypeOK' /\ name' = name
  <1> USE Constants
  <1>1. CASE Tick
    <2>1. service' \in [Name -> Text] /\ tmp' \in [Name -> Text]
      BY <1>1, OlderType DEF Tick, TypeOK, Text
    <2> QED
      BY <1>1, <2>1 DEF Tick, TypeOK, Text, reader
  <1>2. CASE DiscoverAll
    <2>1. UNCHANGED <<name, files, process>>
      BY <1>2 DEF DiscoverAll, ReadDir, ListingEnds, ReadOne, ReadFails
    <2>2. /\ todo' \subseteq Name /\ found' \subseteq Name
          /\ listing' \in BOOLEAN /\ steady' \subseteq Process
      BY <1>2 DEF DiscoverAll, ReadDir, ListingEnds, ReadOne, ReadFails, TypeOK
    <2>3. faults' \in 0..MaxFaults
      BY <1>2 DEF DiscoverAll, ReadDir, ListingEnds, ReadOne, ReadFails, Fault, TypeOK
    <2> QED
      BY <2>1, <2>2, <2>3 DEF TypeOK, files, process
  <1>3. ASSUME NEW p \in Process, Start(p) \/ StopBegins(p) \/ heartbeat(p) \/ LoopEnds(p)
        PROVE  TypeOK' /\ name' = name
    <2>1. UNCHANGED <<name, files, up, fd, reader, faults>>
      BY <1>3 DEF Start, StopBegins, heartbeat, LoopEnds
    <2>2. /\ pc' \in [Process -> {"off", "open", "write", "rename", "beating", "ended"}]
          /\ stop' \in [Process -> {"none", "wait", "removed"}]
      BY <1>3 DEF Start, StopBegins, heartbeat, LoopEnds, Goto, TypeOK
    <2>3. due' \in [Process -> 0..Interval]
      <3>1. due' = due \/ due' = [due EXCEPT ![p] = Interval]
        BY <1>3 DEF Start, StopBegins, heartbeat, LoopEnds
      <3> QED
        BY <3>1 DEF TypeOK
    <2>4. missed' \in [Process -> BOOLEAN]
      <3>1. missed' = missed \/ missed' = [missed EXCEPT ![p] = FALSE]
        BY <1>3 DEF Start, StopBegins, heartbeat, LoopEnds
      <3> QED
        BY <3>1 DEF TypeOK
    <2> QED
      BY <2>1, <2>2, <2>3, <2>4 DEF TypeOK, files, reader
  <1>4. ASSUME NEW p \in Process, Open(p)
        PROVE  TypeOK' /\ name' = name
    BY <1>4 DEF Open, Goto, TypeOK, reader
  <1>5. ASSUME NEW p \in Process, Write(p)
        PROVE  TypeOK' /\ name' = name
    <2>1. name[p] \in Name /\ tmp[name[p]] \in Text /\ service[name[p]] \in Text
      BY DEF TypeOK, Text
    <2>2. service \in [Name -> Text] /\ tmp \in [Name -> Text]
      BY DEF TypeOK, Text
    <2>3. service' \in [Name -> Text] /\ tmp' \in [Name -> Text]
      <3>1. CASE fd[p] = "tmp"
        <4>1. PICK text \in Written(p, tmp[name[p]]) :
                  tmp' = [tmp EXCEPT ![name[p]] = text] /\ service' = service
          BY <1>5, <3>1 DEF Write
        <4>2. text \in Text
          BY <2>1, <4>1, WrittenType
        <4> QED
          BY <2>1, <2>2, <4>1, <4>2
      <3>2. CASE fd[p] = "file"
        <4>1. PICK text \in Written(p, service[name[p]]) :
                  service' = [service EXCEPT ![name[p]] = text] /\ tmp' = tmp
          BY <1>5, <3>2 DEF Write
        <4>2. text \in Text
          BY <2>1, <4>1, WrittenType
        <4> QED
          BY <2>1, <2>2, <4>1, <4>2
      <3>3. CASE fd[p] = "gone"
        BY <1>5, <2>2, <3>3 DEF Write, files
      <3> QED
        BY <1>5, <3>1, <3>2, <3>3 DEF Write
    <2> QED
      BY <1>5, <2>3 DEF Write, Goto, TypeOK, Text, reader
  <1>6. ASSUME NEW p \in Process, Rename(p)
        PROVE  TypeOK' /\ name' = name
    <2>1. fd' \in [Process -> {"none", "tmp", "file", "gone"}]
      BY <1>6 DEF Rename, Renamed, TypeOK
    <2> QED
      BY <1>6, <2>1 DEF Rename, Goto, TypeOK, reader
  <1>7. ASSUME NEW p \in Process, RenameFails(p) \/ WriteFails(p)
        PROVE  TypeOK' /\ name' = name
    <2>1. GiveUp(p) /\ faults' \in 0..MaxFaults
      BY <1>7 DEF RenameFails, WriteFails, Fault, TypeOK
    <2> QED
      BY <2>1 DEF GiveUp, Ends, Goto, TypeOK, files, reader
  <1>8. ASSUME NEW p \in Process, Remove(p)
        PROVE  TypeOK' /\ name' = name
    <2>1. fd' \in [Process -> {"none", "tmp", "file", "gone"}]
      BY <1>8 DEF Remove, Unlinked, TypeOK
    <2>2. /\ service' \in [Name -> Info \cup {Missing, Empty, Mixed}]
          /\ stop' \in [Process -> {"none", "wait", "removed"}]
          /\ up' \in [Process -> BOOLEAN] /\ steady' \subseteq Process
      BY <1>8 DEF Remove, TypeOK
    <2>3. /\ pc' \in [Process -> {"off", "open", "write", "rename", "beating", "ended"}]
          /\ due' \in [Process -> 0..Interval]
      BY <1>8 DEF Remove, Ends, Goto, TypeOK
    <2> QED
      BY <1>8, <2>1, <2>2, <2>3 DEF Remove, TypeOK
  <1>9. ASSUME NEW p \in Process, Crash(p)
        PROVE  TypeOK' /\ name' = name
    BY <1>9 DEF Crash, Ends, Goto, Fault, TypeOK, files
  <1>10. CASE UNCHANGED vars
    BY <1>10 DEF vars, files, process, reader, TypeOK
  <1> QED
    BY <1>1, <1>2, <1>3, <1>4, <1>5, <1>6, <1>7, <1>8, <1>9, <1>10 DEF Next, Loop

-----------------------------------------------------------------------------
(* The steps                                                               *)

LEMMA Initially == Init => IInv
  <1> SUFFICES ASSUME Init PROVE IInv
    OBVIOUS
  <1> USE Constants
  <1>1. TypeOK
    <2>1. /\ name \in [Process -> Name]
          /\ service \in [Name -> Info \cup {Missing, Empty, Mixed}]
          /\ tmp \in [Name -> Info \cup {Missing, Empty, Mixed}]
      BY DEF Init
    <2>2. /\ pc \in [Process -> {"off", "open", "write", "rename", "beating", "ended"}]
          /\ fd \in [Process -> {"none", "tmp", "file", "gone"}]
          /\ stop \in [Process -> {"none", "wait", "removed"}]
      BY DEF Init
    <2>3. up \in [Process -> BOOLEAN] /\ missed \in [Process -> BOOLEAN]
      BY DEF Init
    <2>4. due \in [Process -> 0..Interval]
      BY DEF Init
    <2>5. /\ todo \subseteq Name /\ found \subseteq Name /\ listing \in BOOLEAN
          /\ steady \subseteq Process
      BY DEF Init
    <2>6. faults \in 0..MaxFaults
      <3>1. faults = MaxFaults
        BY DEF Init
      <3> QED
        BY <3>1
    <2> QED
      BY <2>1, <2>2, <2>3, <2>4, <2>5, <2>6 DEF TypeOK
  <1>2. OffIsDown /\ Owed /\ StoppedStaysGone
    BY <1>1 DEF Init, OffIsDown, Owed, StoppedStaysGone, TypeOK
  <1>3. ASSUME NEW p \in Process PROVE Own(p)
    BY DEF Init, Own, Writing
  <1> QED
    BY <1>1, <1>2, <1>3 DEF IInv

\* What a process that is alone shares with nobody.
LEMMA OthersElsewhere ==
    ASSUME TypeOK, NEW p \in Process, Alone(p), NEW q \in Process, q # p
    PROVE  name[q] # name[p]
  BY DEF Alone

\* A step of another process leaves it its files, and its state.
LEMMA OthersKeep ==
    ASSUME TypeOK, NEW p \in Process, Alone(p), NEW q \in Process, q # p,
           \/ Start(q) \/ StopBegins(q) \/ Remove(q) \/ Crash(q) \/ Loop(q) \/ WriteFails(q)
    PROVE  /\ service'[name[p]] = service[name[p]] /\ tmp'[name[p]] = tmp[name[p]]
           /\ pc'[p] = pc[p] /\ up'[p] = up[p] /\ due'[p] = due[p]
           /\ missed'[p] = missed[p] /\ stop'[p] = stop[p] /\ fd'[p] = fd[p]
  <1> USE DEF TypeOK
  <1>1. name[q] # name[p] /\ name[p] \in Name /\ name' = name
    BY OthersElsewhere, TypesKept DEF Next
  <1>2. /\ pc'[p] = pc[p] /\ up'[p] = up[p] /\ due'[p] = due[p]
        /\ missed'[p] = missed[p] /\ stop'[p] = stop[p]
    BY DEF Start, StopBegins, Remove, Crash, Loop, WriteFails, Open, Write, Rename, RenameFails,
           heartbeat, LoopEnds, GiveUp, Ends, Goto
  <1>3. fd'[p] = fd[p]
    BY <1>1 DEF Start, StopBegins, Remove, Crash, Loop, WriteFails, Open, Write, Rename,
           RenameFails, heartbeat, LoopEnds, GiveUp, Renamed, Unlinked
  <1>4. service'[name[p]] = service[name[p]] /\ tmp'[name[p]] = tmp[name[p]]
    BY <1>1 DEF Start, StopBegins, Remove, Crash, Loop, WriteFails, Open, Write, Rename,
           RenameFails, heartbeat, LoopEnds, GiveUp, files
  <1> QED
    BY <1>2, <1>3, <1>4

LEMMA OwnKept ==
    ASSUME IInv, NEW p \in Process, Alone(p), NEW q \in Process, q # p,
           \/ Start(q) \/ StopBegins(q) \/ Remove(q) \/ Crash(q) \/ Loop(q) \/ WriteFails(q)
    PROVE  Own(p)'
  <1>1. name' = name
    BY TypesKept DEF IInv, Next
  <1> QED
    BY <1>1, OthersKeep DEF IInv, Own

\* A step of the process itself.
LEMMA OwnMoves ==
    ASSUME IInv, NEW p \in Process, Alone(p),
           \/ Start(p) \/ StopBegins(p) \/ Remove(p) \/ Crash(p) \/ Loop(p) \/ WriteFails(p)
    PROVE  Own(p)'
  <1> USE Constants DEF IInv
  <1>0. TypeOK /\ Own(p) /\ name' = name /\ name[p] \in Name
    BY TypesKept DEF Next, TypeOK
  <1> DEFINE n == name[p]
  <1>1. CASE Start(p)
    BY <1>0, <1>1 DEF Start, Goto, Own, OffIsDown, Writing, TypeOK, files
  <1>2. CASE StopBegins(p)
    BY <1>0, <1>2 DEF StopBegins, Own, Writing, TypeOK, files
  <1>3. CASE Remove(p)
    BY <1>0, <1>3 DEF Remove, Ends, Goto, Own, Unlinked, Writing, TypeOK
  <1>4. CASE Crash(p)
    BY <1>0, <1>4 DEF Crash, Ends, Goto, Own, Writing, TypeOK, files
  <1>5. CASE Open(p)
    BY <1>0, <1>5 DEF Open, Goto, Own, Writing, TypeOK
  <1>6. CASE Write(p)
    <2>1. fd[p] = "tmp" /\ pc[p] = "write" /\ tmp[n] = Empty
      BY <1>0, <1>6 DEF Write, Own
    <2>2. service' = service /\ tmp'[n] \in Written(p, Empty)
      BY <1>0, <1>6, <2>1 DEF Write, TypeOK, files
    <2>3. tmp'[n] \in Info /\ tmp'[n].by = p /\ tmp'[n].age <= 1
      BY <2>2, WrittenType DEF Text
    <2> QED
      BY <1>0, <1>6, <2>2, <2>3 DEF Write, Goto, Own, Writing, TypeOK
  <1>7. CASE Rename(p)
    <2>1. service'[n] = tmp[n] /\ tmp[n] \in Info /\ tmp[n].by = p /\ tmp[n].age <= 1
      BY <1>0, <1>7 DEF Rename, Own, TypeOK
    <2>2. tmp[n].age \in Nat /\ due[p] \in 0..Interval /\ due' = due
      BY <1>0, <1>7, <2>1 DEF Rename, Info, TypeOK
    <2>3. fd'[p] = "none" /\ pc'[p] = "beating" /\ stop' = stop /\ up'[p]
      BY <1>0, <1>7 DEF Rename, Renamed, Goto, Own, TypeOK
    <2> QED
      BY <1>0, <2>1, <2>2, <2>3 DEF Own, Writing
  <1>8. CASE RenameFails(p) \/ WriteFails(p)
    <2>1. GiveUp(p) /\ pc[p] \in Writing
      BY <1>8 DEF RenameFails, WriteFails, Writing
    <2> QED
      BY <1>0, <2>1 DEF GiveUp, Ends, Goto, Own, Writing, TypeOK, files
  <1>9. CASE heartbeat(p)
    <2>1. /\ pc[p] = "beating" /\ due[p] = 0 /\ pc'[p] = "open"
          /\ UNCHANGED <<files, up, fd, missed, stop>>
      BY <1>0, <1>9 DEF heartbeat, Goto, TypeOK
    <2>2. service[n] \in Info => service[n].age \in Nat
      BY DEF Info
    <2>3. up[p] /\ ~missed[p] => service[n].age <= Interval + 1
      BY <1>0, <2>1, <2>2 DEF Own
    <2> QED
      BY <1>0, <2>1, <2>3 DEF Own, Writing, files
  <1>10. CASE LoopEnds(p)
    BY <1>0, <1>10 DEF LoopEnds, Goto, Own, Writing, TypeOK, files
  <1> QED
    BY <1>1, <1>2, <1>3, <1>4, <1>5, <1>6, <1>7, <1>8, <1>9, <1>10 DEF Loop

LEMMA OwnAges ==
    ASSUME IInv, NEW p \in Process, Alone(p), Tick
    PROVE  Own(p)'
  <1> USE Constants
  <1> DEFINE n == name[p]
  <1>1. TypeOK /\ Own(p) /\ name' = name /\ n \in Name /\ service[n] \in Text
    BY DEF Tick, IInv, TypeOK, Text
  <1>2. UNCHANGED <<pc, up, fd, missed, stop>>
    BY DEF Tick
  <1>3. pc[p] \in {"off", "ended"} \/ (pc[p] = "beating" /\ due[p] > 0 /\ due'[p] = due[p] - 1)
    BY DEF Tick
  <1>4. service'[n] = Older(service[n])
    BY <1>1 DEF Tick
  <1>5. service[n] \in Info => /\ service'[n] \in Info /\ service'[n].by = service[n].by
                               /\ service'[n].age <= service[n].age + 1
    BY <1>1, <1>4, OlderType
  <1>6. service[n] = Missing => service'[n] = Missing
    BY <1>1, <1>4, OlderType
  <1>7. service[n] \in Info => service[n].age \in Nat
    BY DEF Info
  <1>8. service'[n] \in Info => service'[n].age \in Nat
    BY DEF Info
  <1>9. due[p] \in Nat
    BY <1>1 DEF TypeOK
  <1> QED
    BY <1>1, <1>2, <1>3, <1>5, <1>6, <1>7, <1>8, <1>9 DEF Own, Writing

LEMMA OwedKept ==
    ASSUME IInv, [Next]_vars
    PROVE  Owed'
  <1> USE DEF IInv
  <1>0. TypeOK /\ name' = name
    BY TypesKept
  <1>1. CASE ReadDir
    <2>1. ASSUME NEW p \in Process, up[p], Alone(p) PROVE service[name[p]] # Missing /\ name[p] \in Name
      BY <1>0, <2>1, Constants DEF Own, TypeOK
    <2> QED
      BY <1>0, <1>1, <2>1 DEF ReadDir, Owed, Alone, process
  <1>2. ASSUME NEW n \in Name, ReadOne(n) PROVE Owed'
    <2>1. ASSUME NEW p \in steady, Alone(p) PROVE p \in Process /\ service[name[p]] \in Info
      BY <1>0, <2>1 DEF Own, Owed, TypeOK
    <2> QED
      BY <1>0, <1>2, <2>1 DEF ReadOne, Owed, Alone, process
  <1>3. ASSUME NEW n \in Name, ReadFails(n) PROVE Owed'
    BY <1>0, <1>3 DEF ReadFails, Owed, Alone, process
  <1>4. CASE ListingEnds
    BY <1>0, <1>4 DEF ListingEnds, Owed
  <1>5. ASSUME NEW p \in Process, Remove(p) \/ Crash(p) PROVE Owed'
    BY <1>0, <1>5 DEF Remove, Crash, Owed, Alone, TypeOK
  <1>6. ASSUME UNCHANGED reader, \A p \in Process : up[p] => up'[p] PROVE Owed'
    BY <1>0, <1>6 DEF Owed, Alone, reader, TypeOK
  <1>7. CASE Tick \/ UNCHANGED vars
    BY <1>6, <1>7 DEF Tick, vars, process
  <1>8. ASSUME NEW p \in Process, Start(p) \/ StopBegins(p) \/ Loop(p) \/ WriteFails(p)
        PROVE  Owed'
    <2>1. UNCHANGED reader
      BY <1>8 DEF Start, StopBegins, Loop, WriteFails, Open, Write, Rename, RenameFails,
         heartbeat, LoopEnds, GiveUp
    <2>2. \A q \in Process : up[q] => up'[q]
      BY <1>0, <1>8 DEF Start, StopBegins, Loop, WriteFails, Open, Write, Rename, RenameFails,
         heartbeat, LoopEnds, GiveUp, TypeOK
    <2> QED
      BY <1>6, <2>1, <2>2
  <1> QED
    BY <1>1, <1>2, <1>3, <1>4, <1>5, <1>7, <1>8 DEF Next, DiscoverAll

LEMMA OffKept ==
    ASSUME IInv, [Next]_vars
    PROVE  OffIsDown'
  <1> USE DEF IInv, OffIsDown, TypeOK
  <1>1. CASE Tick \/ DiscoverAll \/ UNCHANGED vars
    BY <1>1 DEF Tick, DiscoverAll, ReadDir, ListingEnds, ReadOne, ReadFails, vars, process
  <1>2. ASSUME NEW p \in Process, Remove(p) \/ Crash(p) PROVE OffIsDown'
    BY <1>2 DEF Remove, Crash, Ends, Goto
  <1>3. ASSUME NEW p \in Process, Start(p) \/ StopBegins(p) \/ Loop(p) \/ WriteFails(p)
        PROVE  OffIsDown'
    <2>1. CASE Start(p) \/ StopBegins(p) \/ heartbeat(p) \/ LoopEnds(p)
      BY <2>1 DEF Start, StopBegins, heartbeat, LoopEnds, Goto
    <2>2. CASE Open(p) \/ Write(p) \/ Rename(p)
      BY <2>2 DEF Open, Write, Rename, Goto
    <2>3. CASE RenameFails(p) \/ WriteFails(p)
      BY <2>3 DEF RenameFails, WriteFails, GiveUp, Ends, Goto
    <2> QED
      BY <1>3, <2>1, <2>2, <2>3 DEF Loop
  <1> QED
    BY <1>1, <1>2, <1>3 DEF Next

LEMMA StoppedKept ==
    ASSUME IInv, [Next]_vars
    PROVE  StoppedStaysGone'
  <1>0. TypeOK /\ name' = name
    BY TypesKept DEF IInv
  <1> SUFFICES ASSUME NEW q \in Process,
                      \A r \in Process : name[r] = name[q] => stop'[r] = "removed"
               PROVE  service'[name[q]] = Missing
    BY <1>0 DEF StoppedStaysGone
  <1>1. name[q] \in Name /\ (stop' = stop => service[name[q]] = Missing)
    BY DEF IInv, StoppedStaysGone, TypeOK
  <1>2. CASE Tick
    <2>1. stop' = stop /\ service'[name[q]] = Older(service[name[q]])
      BY <1>1, <1>2 DEF Tick
    <2> QED
      BY <1>1, <2>1, OlderType, Constants DEF Text
  <1>3. CASE DiscoverAll \/ UNCHANGED vars
    BY <1>1, <1>3 DEF DiscoverAll, ReadDir, ListingEnds, ReadOne, ReadFails, vars, files, process
  <1>4. ASSUME NEW p \in Process, Remove(p)
        PROVE  service'[name[q]] = Missing
    <2>1. CASE name[p] = name[q]
      BY <1>0, <1>1, <1>4, <2>1 DEF Remove, TypeOK
    <2>2. CASE name[p] # name[q]
      <3>1. \A r \in Process : name[r] = name[q] => stop'[r] = stop[r]
        BY <1>0, <1>4, <2>2 DEF Remove, TypeOK
      <3>2. service[name[q]] = Missing
        BY <3>1 DEF IInv, StoppedStaysGone
      <3> QED
        BY <1>0, <1>1, <1>4, <2>2, <3>2 DEF Remove, TypeOK
    <2> QED
      BY <2>1, <2>2
  <1>5. ASSUME NEW p \in Process, Start(p) \/ StopBegins(p) \/ Crash(p)
        PROVE  service'[name[q]] = Missing
    <2>1. stop'[p] # "removed" /\ service' = service
      BY <1>0, <1>5 DEF Start, StopBegins, Crash, TypeOK, files
    <2>2. name[p] # name[q]
      BY <2>1
    <2>3. \A r \in Process : name[r] = name[q] => stop'[r] = stop[r]
      BY <1>0, <1>5, <2>2 DEF Start, StopBegins, Crash, TypeOK
    <2> QED
      BY <2>1, <2>3 DEF IInv, StoppedStaysGone
  <1>6. ASSUME NEW p \in Process, Loop(p) \/ WriteFails(p)
        PROVE  service'[name[q]] = Missing
    <2>1. stop' = stop /\ pc[p] # "ended"
      BY <1>6 DEF Loop, WriteFails, Open, Write, Rename, RenameFails, heartbeat, LoopEnds, GiveUp
    <2>2. name[p] # name[q]
      BY <2>1 DEF IInv, OffIsDown
    <2>3. service'[name[q]] = service[name[q]]
      BY <1>0, <1>1, <1>6, <2>2 DEF Loop, WriteFails, Open, Write, Rename, RenameFails, heartbeat,
         LoopEnds, GiveUp, files, TypeOK
    <2> QED
      BY <1>1, <2>1, <2>3
  <1> QED
    BY <1>2, <1>3, <1>4, <1>5, <1>6 DEF Next

LEMMA Inductive ==
    ASSUME IInv, [Next]_vars
    PROVE  IInv'
  <1>1. TypeOK' /\ name' = name
    BY TypesKept DEF IInv
  <1>2. ASSUME NEW p \in Process, Alone(p)' PROVE Own(p)'
    <2>1. Alone(p) /\ Own(p)
      BY <1>1, <1>2 DEF Alone, IInv
    <2>2. CASE Tick
      BY <2>1, <2>2, OwnAges
    <2>3. CASE DiscoverAll \/ UNCHANGED vars
      <3>1. UNCHANGED <<name, files, process>>
        BY <2>3 DEF DiscoverAll, ReadDir, ListingEnds, ReadOne, ReadFails, vars
      <3> QED
        BY <2>1, <3>1 DEF Own, files, process
    <2>4. CASE \E q \in Process : \/ Start(q) \/ StopBegins(q) \/ Remove(q) \/ Crash(q)
                                 \/ Loop(q) \/ WriteFails(q)
      BY <2>1, <2>4, OwnKept, OwnMoves
    <2> QED
      BY <2>2, <2>3, <2>4 DEF Next
  <1>3. Owed' /\ OffIsDown' /\ StoppedStaysGone'
    BY OwedKept, OffKept, StoppedKept
  <1> QED
    BY <1>1, <1>2, <1>3 DEF IInv

-----------------------------------------------------------------------------
(* Theorems                                                                *)

THEOREM InvHolds == Spec => []IInv
  BY Initially, Inductive, PTL DEF Spec

\* Every variable keeps its type; a listing names services only.
THEOREM TypeCorrect == Spec => []TypeOK
  BY InvHolds, PTL DEF IInv

\* The service file never holds anything but a whole text, or nothing: not
\* even after a crash that left a temporary file behind.
THEOREM FileWholeHolds == Spec => []FileWhole
  <1>1. IInv => FileWhole
    BY Constants DEF IInv, FileWhole, Own
  <1> QED
    BY <1>1, InvHolds, PTL

\* A service that could write its latest heartbeat is never taken for stale.
THEOREM FreshHolds == Spec => []BeatingIsFresh
  <1>1. IInv => BeatingIsFresh
    <2> SUFFICES ASSUME IInv, NEW p \in Process, up[p], Live(p), Alone(p), ~missed[p]
                 PROVE  Discover(name[p]) /\ service[name[p]].by = p
      BY DEF BeatingIsFresh
    <2>1. Own(p) /\ pc[p] \in Writing \cup {"beating"} /\ due[p] \in Nat
      BY Constants DEF IInv, TypeOK, Live, Writing
    <2>2. service[name[p]] \in Info /\ service[name[p]].by = p
      BY <2>1 DEF Own
    <2>3. service[name[p]].age \in Nat
      BY <2>2, Constants DEF Info
    <2>4. service[name[p]].age <= Interval + 1
      BY <2>1, <2>3, Constants DEF Own
    <2> QED
      BY <2>2, <2>3, <2>4, Constants DEF Discover
  <1> QED
    BY <1>1, InvHolds, PTL

\* What Stop has removed is not written again, whoever else has the name: when
\* all of them have stopped, nothing is left.
THEOREM StoppedHolds == Spec => []StoppedStaysGone
  <1>1. IInv => StoppedStaysGone
    BY DEF IInv
  <1> QED
    BY <1>1, InvHolds, PTL

\* A listing has every service that was up all the while.
THEOREM ListingHolds == Spec => []ListsTheLiving
  <1>1. IInv => ListsTheLiving
    BY DEF IInv, ListsTheLiving, Owed
  <1> QED
    BY <1>1, InvHolds, PTL

-----------------------------------------------------------------------------
(* The refinement of Registry                                              *)

\* The registration of a process, if the name is its own, and who has one.
EntryOf == [p \in Process |-> IF Alone(p) THEN service[name[p]] ELSE Missing]
ThereOf == {p \in Process : up[p] /\ Alone(p)}

\* A step of a process changes its own registration only.
LEMMA EntryMoves ==
    ASSUME IInv, NEW p \in Process,
           \/ Start(p) \/ StopBegins(p) \/ Remove(p) \/ Crash(p) \/ Loop(p) \/ WriteFails(p)
    PROVE  /\ EntryOf' = [EntryOf EXCEPT ![p] = IF Alone(p) THEN service'[name[p]] ELSE Missing]
           /\ ThereOf' = IF Alone(p) /\ up'[p] THEN ThereOf \cup {p} ELSE ThereOf \ {p}
  <1>1. TypeOK /\ name' = name /\ \A q \in Process : Alone(q)' <=> Alone(q)
    BY TypesKept DEF IInv, Next, Alone
  <1>2. ASSUME NEW q \in Process, q # p, Alone(q)
        PROVE  service'[name[q]] = service[name[q]] /\ up'[q] = up[q]
    BY <1>1, <1>2, OthersKeep
  <1>3. EntryOf' = [EntryOf EXCEPT ![p] = IF Alone(p) THEN service'[name[p]] ELSE Missing]
    BY <1>1, <1>2 DEF EntryOf
  <1>4. ThereOf' = IF Alone(p) /\ up'[p] THEN ThereOf \cup {p} ELSE ThereOf \ {p}
    BY <1>1, <1>2 DEF ThereOf
  <1> QED
    BY <1>3, <1>4

\* A step after which its file and its state are what they were.
LEMMA EntryKept ==
    ASSUME IInv, NEW p \in Process,
           \/ Start(p) \/ StopBegins(p) \/ Remove(p) \/ Crash(p) \/ Loop(p) \/ WriteFails(p),
           Alone(p) => service'[name[p]] = service[name[p]] /\ up'[p] = up[p]
    PROVE  UNCHANGED <<EntryOf, ThereOf>>
  <1>1. EntryOf' = EntryOf
    BY EntryMoves DEF EntryOf
  <1>2. ThereOf' = ThereOf
    BY EntryMoves DEF ThereOf
  <1> QED
    BY <1>1, <1>2

LEMMA ProcessRefines ==
    ASSUME IInv, NEW p \in Process,
           \/ Start(p) \/ StopBegins(p) \/ Remove(p) \/ Crash(p) \/ Loop(p) \/ WriteFails(p)
    PROVE  \/ Registrations!Register(p) \/ Registrations!Withdraw(p) \/ Registrations!Die(p)
           \/ UNCHANGED <<EntryOf, ThereOf>>
  <1> DEFINE n == name[p]
  <1>0. TypeOK /\ n \in Name /\ (Alone(p) => Own(p))
    BY DEF IInv, TypeOK
  <1>1. CASE ~Alone(p)
    BY <1>1, EntryKept
  <1>2. CASE Alone(p) /\ Rename(p)
    <2>1. service'[n] = tmp[n] /\ tmp[n] \in Info /\ tmp[n].by = p /\ tmp[n].age <= 1 /\ up'[p]
      BY <1>0, <1>2 DEF Rename, Own, TypeOK
    <2>2. PICK age \in {0, 1} : tmp[n] = [by |-> p, age |-> age]
      BY <2>1, Constants DEF Info
    <2>3. /\ EntryOf' = [EntryOf EXCEPT ![p] = [by |-> p, age |-> age]]
          /\ ThereOf' = ThereOf \cup {p}
      BY <1>2, <2>1, <2>2, EntryMoves DEF Loop
    <2> QED
      BY <2>3 DEF Registrations!Register, EntryOf, ThereOf
  <1>3. CASE Alone(p) /\ Remove(p)
    <2>1. service'[n] = Missing /\ ~up'[p] /\ up[p]
      BY <1>0, <1>3 DEF Remove, Own, TypeOK
    <2>2. EntryOf' = [EntryOf EXCEPT ![p] = Missing] /\ ThereOf' = ThereOf \ {p}
      BY <1>3, <2>1, EntryMoves
    <2>3. p \in ThereOf
      BY <1>3, <2>1 DEF ThereOf
    <2> QED
      BY <2>2, <2>3 DEF Registrations!Withdraw, EntryOf, ThereOf
  <1>4. CASE Alone(p) /\ Crash(p)
    <2>1. service' = service /\ up'[p] = FALSE
      BY <1>0, <1>4 DEF Crash, TypeOK, files
    <2>2. CASE ~up[p]
      <3>1. up[p] = FALSE
        BY <1>0, <2>2 DEF TypeOK
      <3> QED
        BY <1>4, <2>1, <3>1, EntryKept
    <2>3. CASE up[p]
      <3>1. EntryOf' = [EntryOf EXCEPT ![p] = service[n]] /\ ThereOf' = ThereOf \ {p}
        BY <1>4, <2>1, EntryMoves
      <3>2. EntryOf' = EntryOf
        BY <1>4, <3>1 DEF EntryOf
      <3>3. p \in ThereOf
        BY <1>4, <2>3 DEF ThereOf
      <3> QED
        BY <3>1, <3>2, <3>3 DEF Registrations!Die, EntryOf, ThereOf
    <2> QED
      BY <2>2, <2>3
  <1>5. CASE Alone(p) /\ ~Rename(p) /\ ~Remove(p) /\ ~Crash(p)
    <2>1. up'[p] = up[p]
      BY <1>0, <1>5 DEF Start, StopBegins, Loop, WriteFails, Open, Write, RenameFails, heartbeat,
         LoopEnds, GiveUp
    <2>2. service' = service
      <3>1. CASE Write(p)
        BY <1>0, <1>5, <3>1 DEF Write, Own, files
      <3>2. CASE ~Write(p)
        BY <1>5, <3>2 DEF Start, StopBegins, Loop, WriteFails, Open, RenameFails, heartbeat,
           LoopEnds, GiveUp, files
      <3> QED
        BY <3>1, <3>2
    <2> QED
      BY <2>1, <2>2, EntryKept
  <1> QED
    BY <1>1, <1>2, <1>3, <1>4, <1>5

LEMMA StepRefines ==
    ASSUME IInv, [Next]_vars
    PROVE  [Registrations!RNext]_(Registrations!rvars)
  <1>0. TypeOK /\ name' = name /\ \A q \in Process : Alone(q)' <=> Alone(q)
    BY TypesKept DEF IInv, Alone
  <1>1. CASE DiscoverAll \/ UNCHANGED vars
    <2>1. UNCHANGED <<name, service, up>>
      BY <1>1 DEF DiscoverAll, ReadDir, ListingEnds, ReadOne, ReadFails, vars, files, process
    <2> QED
      BY <1>0, <2>1 DEF Registrations!rvars
  <1>2. CASE Tick
    <2>1. ASSUME NEW p \in Process, Alone(p)
          PROVE  service'[name[p]] = Registrations!Aged(service[name[p]])
      <3>1. service[name[p]] \in Info \cup {Missing} /\ name[p] \in Name
        BY <1>0, <2>1 DEF IInv, Own, TypeOK
      <3>2. service'[name[p]] = Older(service[name[p]])
        BY <1>2, <3>1 DEF Tick
      <3> QED
        BY <3>1, <3>2, Constants DEF Older, Registrations!Aged
    <2>2. Registrations!Aged(Missing) = Missing
      BY DEF Registrations!Aged
    <2>3. EntryOf' = [p \in Process |-> Registrations!Aged(EntryOf[p])]
      BY <1>0, <2>1, <2>2 DEF EntryOf
    <2>4. ThereOf' = ThereOf
      BY <1>0, <1>2 DEF ThereOf, Tick
    <2> QED
      BY <2>3, <2>4 DEF EntryOf, ThereOf, Registrations!RNext, Registrations!Age
  <1>3. ASSUME NEW p \in Process,
               \/ Start(p) \/ StopBegins(p) \/ Remove(p) \/ Crash(p) \/ Loop(p) \/ WriteFails(p)
        PROVE  [Registrations!RNext]_(Registrations!rvars)
    <2>1. CASE UNCHANGED <<EntryOf, ThereOf>>
      BY <2>1 DEF EntryOf, ThereOf, Registrations!rvars
    <2> QED
      BY <1>3, <2>1, ProcessRefines DEF Registrations!RNext
  <1> QED
    BY <1>1, <1>2, <1>3 DEF Next

\* Services that have their names to themselves have a registry that is atomic:
\* no reader meets half a registration, or one that another process made.
THEOREM RegistryKept == Spec => KeepsRegistry
  <1>1. Init => Registrations!RInit
    BY DEF Init, Registrations!RInit
  <1>2. IInv /\ [Next]_vars => [Registrations!RNext]_(Registrations!rvars)
    BY StepRefines
  <1> QED
    BY <1>1, <1>2, InvHolds, PTL DEF Spec, KeepsRegistry, Registrations!RSpec
=============================================================================
