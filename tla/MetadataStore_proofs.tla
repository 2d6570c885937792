------------------------ MODULE MetadataStore_proofs ------------------------
(***************************************************************************)
(* Theorems about MetadataStore, for every set of requests, files, fields  *)
(* and values. Each is stated for several processes on one Redis as far as *)
(* it holds of them: only AddToSet, ClearAllMetadata and DeleteMetadata    *)
(* take a process to themselves. What goes wrong otherwise is for TLC to   *)
(* show.                                                                   *)
(***************************************************************************)
EXTENDS MetadataStore, TLAPS

\* All requests are served by one process, whose mutex they share.
SingleProcess == \A r, s \in Request : Home[r] = Home[s]

\* Where clients call AddToSet there is a single process.
AddsAlone == "add" \in Workload => SingleProcess

\* The read and the write lock of one process exclude each other.
MutexInv ==
    \A r, s \in Request :
        r # s /\ Home[r] = Home[s] /\ pc[r] \in WritePC => pc[s] = "idle"

\* AddToSet works on a single field.
ArgInv == \A r \in Request : pc[r] \in {"hget", "hset"} => \E p \in Field : names[r] = {p}

\* Requests are in no operation that clients do not call.
OfferedInv ==
    \A r \in Request :
        /\ pc[r] \in {"hmset", "sadd"} => Workload \cap {"set", "property"} # {}
        /\ pc[r] \in {"del", "srem"} => "delete" \in Workload
        /\ pc[r] \in {"hget", "hset", "saddSet"} => "add" \in Workload
        /\ pc[r] = "clear" => "clear" \in Workload

AtomicInv == TypeOK /\ MutexInv /\ ArgInv /\ OfferedInv /\ ReadIsFresh

LEMMA FieldOfSingleton ==
    ASSUME NEW r \in Request, NEW p \in Field, names[r] = {p}
    PROVE  FieldOf(r) = p
BY DEF FieldOf

LEMMA NoDefaults == NoFile \in File /\ NoValue \in Value
BY StoreAssumption DEF NoFile, NoValue

LEMMA InitAtomic == Init => AtomicInv
BY NoDefaults
   DEF Init, AtomicInv, TypeOK, MutexInv, ArgInv, OfferedInv, ReadIsFresh, WritePC, ReadPC,
       NoFields

-----------------------------------------------------------------------------
(* Types, control and the mutex, whatever processes there are              *)

LEMMA TypeStep ==
    ASSUME TypeOK, ArgInv, NEW r \in Request, Step(r)
    PROVE  TypeOK'
<1> USE NoDefaults
<1> USE DEF TypeOK, ReadPC, WritePC, NoFields, Goto, args
<1>1. CASE SetMetadataFlat(r)
  BY <1>1 DEF SetMetadataFlat, Call
<1>2. CASE SetProperty(r)
  BY <1>2 DEF SetProperty, Call
<1>3. CASE HMSet(r)
  BY <1>3 DEF HMSet
<1>4. CASE SAdd(r)
  BY <1>4 DEF SAdd, Return
<1>5. CASE DeleteMetadata(r)
  BY <1>5 DEF DeleteMetadata, Call
<1>6. CASE Del(r)
  BY <1>6 DEF Del
<1>7. CASE SRem(r)
  BY <1>7 DEF SRem, Return
<1>8. CASE DeleteProperty(r)
  BY <1>8 DEF DeleteProperty
<1>9. CASE AddToSet(r)
  BY <1>9 DEF AddToSet, Call
<1>10. CASE HGetNew(r)
  <2>1. FieldOf(r) \in Field
    BY <1>10, FieldOfSingleton DEF HGetNew, ArgInv
  <2> QED  BY <1>10, <2>1 DEF HGetNew
<1>11. CASE HGetPresent(r)
  BY <1>11 DEF HGetPresent, Return
<1>12. CASE HSet(r)
  BY <1>12 DEF HSet
<1>13. CASE ClearAllMetadata(r)
  BY <1>13 DEF ClearAllMetadata
<1>14. CASE ClearFile(r)
  <2>1. PICK f \in todo[r] :
            /\ todo' = [todo EXCEPT ![r] = @ \ {f}]
            /\ \/ hash' = [hash EXCEPT ![f] = NoFields]
               \/ MayFail /\ UNCHANGED hash
    BY <1>14 DEF ClearFile
  <2>2. CASE hash' = [hash EXCEPT ![f] = NoFields]
    BY <1>14, <2>1, <2>2 DEF ClearFile
  <2>3. CASE UNCHANGED hash
    BY <1>14, <2>1, <2>3 DEF ClearFile
  <2> QED  BY <2>1, <2>2, <2>3
<1>15. CASE ClearIndex(r)
  BY <1>15 DEF ClearIndex, Return
<1>16. CASE CommandFails(r)
  BY <1>16 DEF CommandFails, Return
<1> QED
  BY <1>1, <1>2, <1>3, <1>4, <1>5, <1>6, <1>7, <1>8,
     <1>9, <1>10, <1>11, <1>12, <1>13, <1>14, <1>15, <1>16
  DEF Step

\* A step of one request leaves the others where they are, an operation keeps
\* the mode it locked the mutex in, and it starts only when it may lock it.
LEMMA StepControl ==
    ASSUME TypeOK, NEW r \in Request, Step(r)
    PROVE  /\ \A s \in Request : s # r => pc'[s] = pc[s]
           /\ pc[r] \in WritePC => pc'[r] \in WritePC \cup {"idle"}
           /\ pc[r] \in ReadPC => pc'[r] \in ReadPC \cup {"idle"}
           /\ pc[r] = "idle" => \/ pc'[r] \notin WritePC /\ CanRLock(r)
                              \/ CanLock(r)
<1> USE DEF TypeOK, ReadPC, WritePC, Goto, args
<1>1. CASE SetMetadataFlat(r)
  BY <1>1 DEF SetMetadataFlat, Call
<1>2. CASE SetProperty(r)
  BY <1>2 DEF SetProperty, Call
<1>3. CASE HMSet(r)
  BY <1>3 DEF HMSet
<1>4. CASE SAdd(r)
  BY <1>4 DEF SAdd, Return
<1>5. CASE DeleteMetadata(r)
  BY <1>5 DEF DeleteMetadata, Call
<1>6. CASE Del(r)
  BY <1>6 DEF Del
<1>7. CASE SRem(r)
  BY <1>7 DEF SRem, Return
<1>8. CASE DeleteProperty(r)
  BY <1>8 DEF DeleteProperty
<1>9. CASE AddToSet(r)
  BY <1>9 DEF AddToSet, Call
<1>10. CASE HGetNew(r)
  BY <1>10 DEF HGetNew
<1>11. CASE HGetPresent(r)
  BY <1>11 DEF HGetPresent, Return
<1>12. CASE HSet(r)
  BY <1>12 DEF HSet
<1>13. CASE ClearAllMetadata(r)
  BY <1>13 DEF ClearAllMetadata
<1>14. CASE ClearFile(r)
  BY <1>14 DEF ClearFile
<1>15. CASE ClearIndex(r)
  BY <1>15 DEF ClearIndex, Return
<1>16. CASE CommandFails(r)
  BY <1>16 DEF CommandFails, Return
<1> QED
  BY <1>1, <1>2, <1>3, <1>4, <1>5, <1>6, <1>7, <1>8,
     <1>9, <1>10, <1>11, <1>12, <1>13, <1>14, <1>15, <1>16
  DEF Step

LEMMA MutexStep ==
    ASSUME TypeOK, MutexInv, NEW r \in Request, Step(r)
    PROVE  MutexInv'
<1> SUFFICES ASSUME NEW q \in Request, NEW s \in Request,
                    q # s, Home[q] = Home[s], pc'[q] \in WritePC
             PROVE  pc'[s] = "idle"
  BY DEF MutexInv
<1>1. CASE r = q
  BY <1>1, StepControl DEF MutexInv, CanLock, TypeOK, ReadPC, WritePC
<1>2. CASE r = s
  BY <1>2, StepControl DEF MutexInv, CanLock, CanRLock, TypeOK, ReadPC, WritePC
<1>3. CASE r # q /\ r # s
  BY <1>3, StepControl DEF MutexInv
<1> QED  BY <1>1, <1>2, <1>3

\* The arguments of the other requests stay theirs.
LEMMA ArgsKept ==
    ASSUME TypeOK, NEW r \in Request, Step(r), NEW s \in Request, s # r
    PROVE  /\ file'[s] = file[s] /\ names'[s] = names[s]
           /\ value'[s] = value[s] /\ seen'[s] = seen[s]
           /\ todo'[s] = todo[s]
<1> USE DEF TypeOK, args
<1>1. CASE SetMetadataFlat(r)
  BY <1>1 DEF SetMetadataFlat, Call
<1>2. CASE SetProperty(r)
  BY <1>2 DEF SetProperty, Call
<1>3. CASE HMSet(r)
  BY <1>3 DEF HMSet
<1>4. CASE SAdd(r)
  BY <1>4 DEF SAdd, Return
<1>5. CASE DeleteMetadata(r)
  BY <1>5 DEF DeleteMetadata, Call
<1>6. CASE Del(r)
  BY <1>6 DEF Del
<1>7. CASE SRem(r)
  BY <1>7 DEF SRem, Return
<1>8. CASE DeleteProperty(r)
  BY <1>8 DEF DeleteProperty
<1>9. CASE AddToSet(r)
  BY <1>9 DEF AddToSet, Call
<1>10. CASE HGetNew(r)
  BY <1>10 DEF HGetNew
<1>11. CASE HGetPresent(r)
  BY <1>11 DEF HGetPresent, Return
<1>12. CASE HSet(r)
  BY <1>12 DEF HSet
<1>13. CASE ClearAllMetadata(r)
  BY <1>13 DEF ClearAllMetadata
<1>14. CASE ClearFile(r)
  BY <1>14 DEF ClearFile
<1>15. CASE ClearIndex(r)
  BY <1>15 DEF ClearIndex, Return
<1>16. CASE CommandFails(r)
  BY <1>16 DEF CommandFails, Return
<1> QED
  BY <1>1, <1>2, <1>3, <1>4, <1>5, <1>6, <1>7, <1>8,
     <1>9, <1>10, <1>11, <1>12, <1>13, <1>14, <1>15, <1>16
  DEF Step

\* Only AddToSet and its HGET lead to the steps that need a single field.
LEMMA AddControl ==
    ASSUME TypeOK, NEW r \in Request, Step(r)
    PROVE  /\ pc'[r] = "hget" => AddToSet(r)
           /\ pc'[r] = "hset" => HGetNew(r)
<1> USE DEF TypeOK, Goto, args
<1>1. CASE SetMetadataFlat(r)
  BY <1>1 DEF SetMetadataFlat, Call
<1>2. CASE SetProperty(r)
  BY <1>2 DEF SetProperty, Call
<1>3. CASE HMSet(r)
  BY <1>3 DEF HMSet
<1>4. CASE SAdd(r)
  BY <1>4 DEF SAdd, Return
<1>5. CASE DeleteMetadata(r)
  BY <1>5 DEF DeleteMetadata, Call
<1>6. CASE Del(r)
  BY <1>6 DEF Del
<1>7. CASE SRem(r)
  BY <1>7 DEF SRem, Return
<1>8. CASE DeleteProperty(r)
  BY <1>8 DEF DeleteProperty
<1>9. CASE AddToSet(r)
  BY <1>9 DEF AddToSet, Call
<1>10. CASE HGetNew(r)
  BY <1>10 DEF HGetNew
<1>11. CASE HGetPresent(r)
  BY <1>11 DEF HGetPresent, Return
<1>12. CASE HSet(r)
  BY <1>12 DEF HSet
<1>13. CASE ClearAllMetadata(r)
  BY <1>13 DEF ClearAllMetadata
<1>14. CASE ClearFile(r)
  BY <1>14 DEF ClearFile
<1>15. CASE ClearIndex(r)
  BY <1>15 DEF ClearIndex, Return
<1>16. CASE CommandFails(r)
  BY <1>16 DEF CommandFails, Return
<1> QED
  BY <1>1, <1>2, <1>3, <1>4, <1>5, <1>6, <1>7, <1>8,
     <1>9, <1>10, <1>11, <1>12, <1>13, <1>14, <1>15, <1>16
  DEF Step

LEMMA ArgStep ==
    ASSUME TypeOK, ArgInv, NEW r \in Request, Step(r)
    PROVE  ArgInv'
<1> SUFFICES ASSUME NEW s \in Request, pc'[s] \in {"hget", "hset"}
             PROVE  \E p \in Field : names'[s] = {p}
  BY DEF ArgInv
<1>1. CASE s # r
  BY <1>1, StepControl, ArgsKept DEF ArgInv
<1>2. CASE s = r /\ pc'[s] = "hget"
  <2>1. AddToSet(r)
    BY <1>2, AddControl
  <2> QED  BY <1>2, <2>1 DEF AddToSet, Call, TypeOK
<1>3. CASE s = r /\ pc'[s] = "hset"
  <2>1. HGetNew(r)
    BY <1>3, AddControl
  <2> QED  BY <1>3, <2>1 DEF HGetNew, args, ArgInv
<1> QED  BY <1>1, <1>2, <1>3

\* An operation begins when a client calls it, and goes on as what it is.
LEMMA OfferedStep ==
    ASSUME TypeOK, OfferedInv, NEW r \in Request, Step(r)
    PROVE  OfferedInv'
<1> USE DEF TypeOK, OfferedInv, Goto, args
<1>1. CASE SetMetadataFlat(r)
  BY <1>1 DEF SetMetadataFlat, Call
<1>2. CASE SetProperty(r)
  BY <1>2 DEF SetProperty, Call
<1>3. CASE HMSet(r)
  BY <1>3 DEF HMSet
<1>4. CASE SAdd(r)
  BY <1>4 DEF SAdd, Return
<1>5. CASE DeleteMetadata(r)
  BY <1>5 DEF DeleteMetadata, Call
<1>6. CASE Del(r)
  BY <1>6 DEF Del
<1>7. CASE SRem(r)
  BY <1>7 DEF SRem, Return
<1>8. CASE DeleteProperty(r)
  BY <1>8 DEF DeleteProperty
<1>9. CASE AddToSet(r)
  BY <1>9 DEF AddToSet, Call
<1>10. CASE HGetNew(r)
  BY <1>10 DEF HGetNew
<1>11. CASE HGetPresent(r)
  BY <1>11 DEF HGetPresent, Return
<1>12. CASE HSet(r)
  BY <1>12 DEF HSet
<1>13. CASE ClearAllMetadata(r)
  BY <1>13 DEF ClearAllMetadata
<1>14. CASE ClearFile(r)
  BY <1>14 DEF ClearFile
<1>15. CASE ClearIndex(r)
  BY <1>15 DEF ClearIndex, Return
<1>16. CASE CommandFails(r)
  BY <1>16 DEF CommandFails, Return
<1> QED
  BY <1>1, <1>2, <1>3, <1>4, <1>5, <1>6, <1>7, <1>8,
     <1>9, <1>10, <1>11, <1>12, <1>13, <1>14, <1>15, <1>16
  DEF Step

LEMMA CallsTyped == Spec => [](TypeOK /\ ArgInv)
<1>1. Init => TypeOK /\ ArgInv
  BY InitAtomic DEF AtomicInv
<1>2. TypeOK /\ ArgInv /\ [Next]_vars => (TypeOK /\ ArgInv)'
  <2> SUFFICES ASSUME TypeOK, ArgInv, [Next]_vars
               PROVE  TypeOK' /\ ArgInv'
    OBVIOUS
  <2>1. CASE UNCHANGED vars
    BY <2>1 DEF vars, args, TypeOK, ArgInv
  <2>2. CASE Next
    BY <2>2, TypeStep, ArgStep DEF Next
  <2> QED  BY <2>1, <2>2
<1> QED  BY <1>1, <1>2, PTL DEF Spec

\* Every variable keeps its type, with any number of processes on the Redis
\* and whichever commands fail.
THEOREM TypesHold == Spec => []TypeOK
BY CallsTyped, PTL

-----------------------------------------------------------------------------
(* What AddToSet has read is what is stored                                *)

LEMMA FreshStep ==
    ASSUME AddsAlone, AtomicInv, NEW r \in Request, Step(r)
    PROVE  ReadIsFresh'
<1> SUFFICES ASSUME NEW s \in Request, pc'[s] = "hset"
             PROVE  /\ seen'[s] = hash'[file'[s]][FieldOf(s)']
                    /\ value'[s] \notin seen'[s]
  BY DEF ReadIsFresh
<1>0. SingleProcess
  BY OfferedStep DEF AtomicInv, AddsAlone, OfferedInv
<1>1. s = r
  <2> SUFFICES ASSUME s # r
               PROVE  FALSE
    OBVIOUS
  <2>1. pc[s] = "hset"
    BY StepControl DEF AtomicInv
  <2>2. pc[r] = "idle" /\ Home[s] = Home[r]
    BY <1>0, <2>1 DEF AtomicInv, MutexInv, SingleProcess, WritePC
  <2> QED
    BY <2>1, <2>2, StepControl DEF AtomicInv, CanLock, CanRLock, WritePC
<1>2. HGetNew(r)
  BY <1>1, AddControl DEF AtomicInv
<1> QED
  BY <1>1, <1>2 DEF HGetNew, args, AtomicInv, TypeOK, FieldOf

LEMMA AtomicStep ==
    ASSUME AddsAlone, AtomicInv, [Next]_vars
    PROVE  AtomicInv'
<1>1. CASE UNCHANGED vars
  BY <1>1 DEF vars, args, AtomicInv, TypeOK, MutexInv, ArgInv, OfferedInv, ReadIsFresh, FieldOf
<1>2. CASE Next
  <2>1. PICK r \in Request : Step(r)
    BY <1>2 DEF Next
  <2>2. TypeOK'
    BY <2>1, TypeStep DEF AtomicInv
  <2>3. MutexInv'
    BY <2>1, MutexStep DEF AtomicInv
  <2>4. ArgInv'
    BY <2>1, ArgStep DEF AtomicInv
  <2>5. OfferedInv'
    BY <2>1, OfferedStep DEF AtomicInv
  <2>6. ReadIsFresh'
    BY <2>1, FreshStep
  <2> QED  BY <2>2, <2>3, <2>4, <2>5, <2>6 DEF AtomicInv
<1> QED  BY <1>1, <1>2

LEMMA AtomicHolds == ASSUME AddsAlone PROVE Spec => []AtomicInv
<1>1. Init => AtomicInv
  BY InitAtomic
<1>2. AtomicInv /\ [Next]_vars => AtomicInv'
  BY AtomicStep
<1> QED  BY <1>1, <1>2, PTL DEF Spec

\* Whatever the requests are and whichever commands fail, no request changes
\* a field between the HGET and the HSET of another, where one process adds.
THEOREM Freshness == ASSUME AddsAlone PROVE Spec => []ReadIsFresh
<1>1. AtomicInv => ReadIsFresh
  BY DEF AtomicInv
<1> QED  BY <1>1, AtomicHolds, PTL

\* Hence adding a value removes no other one, whatever else the process does
\* at the time. (Where two processes add it does.)
THEOREM AddKeeps == ASSUME AddsAlone PROVE Spec => AddKeepsMembers
<1>1. AtomicInv => [\A r \in Request :
          HSet(r) => \A p \in Field : hash[file[r]][p] \subseteq hash'[file[r]][p]]_vars
  <2> SUFFICES ASSUME AtomicInv, NEW r \in Request, HSet(r), NEW q \in Field
               PROVE  hash[file[r]][q] \subseteq hash'[file[r]][q]
    OBVIOUS
  <2>1. PICK p \in Field : names[r] = {p}
    BY DEF HSet, ArgInv, AtomicInv
  <2>2. seen[r] = hash[file[r]][p]
    BY <2>1, FieldOfSingleton DEF HSet, ReadIsFresh, AtomicInv
  <2>3. hash'[file[r]][q] = IF q = p THEN seen[r] \cup {value[r]} ELSE hash[file[r]][q]
    BY <2>1 DEF HSet, AtomicInv, TypeOK
  <2> QED  BY <2>2, <2>3
<1> QED  BY <1>1, AtomicHolds, PTL DEF AddKeepsMembers

-----------------------------------------------------------------------------
(* The refinement of FieldStore                                            *)

\* AddToSet is about to write over other values than it has read.
Stale(r) == seen[r] # hash[file[r]][FieldOf(r)]

\* Another request is in the middle of a clear.
Divides(r) == \E s \in Request : s # r /\ pc[s] = "clear"

\* The commands that change a hash.
Acts(r) == HMSet(r) \/ HSet(r) \/ Del(r) \/ DeleteProperty(r) \/ ClearFile(r)

\* What a call is, read off the next command.
LEMMA CallOfStage ==
    ASSUME NEW r \in Request
    PROVE  /\ pc[r] = "idle" => CallOf(r) = Atomic!None
           /\ pc[r] = "hmset" => CallOf(r) = [op |-> "put", file |-> file[r],
                                              names |-> names[r], value |-> value[r]]
           /\ pc[r] \in {"hget", "hset"} =>
                  CallOf(r) = [op |-> "add", file |-> file[r], field |-> FieldOf(r),
                               value |-> value[r]]
           /\ pc[r] = "del" => CallOf(r) = [op |-> "drop", file |-> file[r]]
           /\ pc[r] = "clear" => CallOf(r) = [op |-> "clear", left |-> todo[r]]
           /\ pc[r] \in {"sadd", "saddSet", "srem"} => CallOf(r) = Atomic!Over
BY DEF CallOf, Atomic!None, Atomic!Over

\* The same after a step.
LEMMA CallOfNextStage ==
    ASSUME NEW r \in Request
    PROVE  /\ pc'[r] = "idle" => CallOf(r)' = Atomic!None
           /\ pc'[r] = "hmset" => CallOf(r)' = [op |-> "put", file |-> file'[r],
                                                names |-> names'[r], value |-> value'[r]]
           /\ pc'[r] \in {"hget", "hset"} =>
                  CallOf(r)' = [op |-> "add", file |-> file'[r], field |-> FieldOf(r)',
                                value |-> value'[r]]
           /\ pc'[r] = "del" => CallOf(r)' = [op |-> "drop", file |-> file'[r]]
           /\ pc'[r] = "clear" => CallOf(r)' = [op |-> "clear", left |-> todo'[r]]
           /\ pc'[r] \in {"sadd", "saddSet", "srem"} => CallOf(r)' = Atomic!Over
BY DEF CallOf, Atomic!None, Atomic!Over

LEMMA Clearing ==
    ASSUME TypeOK, NEW r \in Request
    PROVE  CallOf(r).op = "clear" <=> pc[r] = "clear"
BY CallOfStage DEF TypeOK, ReadPC, WritePC, Atomic!None, Atomic!Over

LEMMA NotDivided ==
    ASSUME TypeOK, NEW r \in Request, ~Divides(r)
    PROVE  Atomic!Undivided(r)
BY Clearing DEF Divides, Atomic!Undivided, CallsNow

\* A step changes the call of its own request and of no other.
LEMMA CallsKept ==
    ASSUME TypeOK, NEW r \in Request, Step(r)
    PROVE  CallsNow' = [CallsNow EXCEPT ![r] = CallOf(r)']
<1>1. ASSUME NEW s \in Request, s # r
      PROVE  CallOf(s)' = CallOf(s)
  <2>1. /\ pc'[s] = pc[s] /\ file'[s] = file[s] /\ names'[s] = names[s]
        /\ value'[s] = value[s] /\ todo'[s] = todo[s]
    BY <1>1, StepControl, ArgsKept
  <2>2. FieldOf(s)' = FieldOf(s)
    BY <2>1 DEF FieldOf
  <2> QED  BY <2>1, <2>2 DEF CallOf
<1> QED  BY <1>1 DEF CallsNow

\* Every command does to the fields what the call is about: with TypeOK and
\* ArgInv only, as long as AddToSet has read what is there and nothing acts
\* while another request clears.
LEMMA HashStep ==
    ASSUME TypeOK, ArgInv, NEW r \in Request, Step(r), HSet(r) => ~Stale(r),
           Acts(r) => ~Divides(r)
    PROVE  [Atomic!FNext]_(Atomic!fvars)
<1>1. CallsNow' = [CallsNow EXCEPT ![r] = CallOf(r)'] /\ CallsNow[r] = CallOf(r)
  BY CallsKept DEF CallsNow
<1>2. Acts(r) => Atomic!Undivided(r)
  BY NotDivided
<1>3. TypeOK' /\ ArgInv'
  BY TypeStep, ArgStep
<1>4. CASE pc[r] = "idle" /\ hash' = hash
  <2>1. CallOf(r) = Atomic!None
    BY <1>4, CallOfStage
  <2>2. pc'[r] \in {"idle", "hmset", "del", "hget", "clear"}
    BY <1>4 DEF Step, SetMetadataFlat, SetProperty, HMSet, SAdd, DeleteMetadata, Del, SRem,
       DeleteProperty, AddToSet, HGetNew, HGetPresent, HSet, ClearAllMetadata, ClearFile,
       ClearIndex, CommandFails, Call, Goto, TypeOK
  <2>3. CallOf(r)' \in Atomic!Calls \cup {Atomic!None}
    <3>1. /\ file'[r] \in File /\ names'[r] \in SUBSET Field /\ value'[r] \in Value
          /\ todo'[r] \in SUBSET File
      BY <1>3 DEF TypeOK
    <3>2. pc'[r] = "hget" => FieldOf(r)' \in Field
      BY <1>3 DEF ArgInv, FieldOf
    <3> QED  BY <2>2, <3>1, <3>2, CallOfNextStage DEF Atomic!Calls
  <2>4. CASE CallOf(r)' \in Atomic!Calls
    <3>1. Atomic!Begin(r)
      BY <1>1, <1>4, <2>1, <2>4 DEF Atomic!Begin, Atomic!Goes
    <3> QED  BY <3>1 DEF Atomic!FNext
  <2>5. CASE CallOf(r)' = Atomic!None
    <3>1. CallsNow' = CallsNow
      BY <1>1, <2>1, <2>5 DEF CallsNow
    <3> QED  BY <1>4, <3>1 DEF Atomic!fvars
  <2> QED  BY <2>3, <2>4, <2>5
<1>5. CASE DeleteProperty(r)
  <2>1. CallOf(r) = Atomic!None /\ CallOf(r)' = Atomic!None
    BY <1>5, CallOfStage, CallOfNextStage DEF DeleteProperty
  <2>2. CallsNow' = CallsNow
    BY <1>1, <2>1 DEF CallsNow
  <2>3. Atomic!DropField(r)
    BY <1>1, <1>2, <1>5, <2>1, <2>2 DEF DeleteProperty, Acts, Atomic!DropField
  <2> QED  BY <2>3 DEF Atomic!FNext
<1>6. CASE HMSet(r)
  <2>1. CallOf(r) = [op |-> "put", file |-> file[r], names |-> names[r], value |-> value[r]]
    BY <1>6, CallOfStage DEF HMSet
  <2>2. CallOf(r)' = Atomic!Over
    BY <1>6, CallOfNextStage DEF HMSet, Goto, TypeOK
  <2>3. Atomic!Put(r)
    BY <1>1, <1>2, <1>6, <2>1, <2>2 DEF HMSet, Acts, Atomic!Put, Atomic!Goes
  <2> QED  BY <2>3 DEF Atomic!FNext
<1>7. CASE HSet(r)
  <2>1. PICK p \in Field : names[r] = {p} /\ FieldOf(r) = p
    BY <1>7, FieldOfSingleton DEF HSet, ArgInv
  <2>2. CallOf(r) = [op |-> "add", file |-> file[r], field |-> p, value |-> value[r]]
    BY <1>7, <2>1, CallOfStage DEF HSet
  <2>3. CallOf(r)' = Atomic!Over
    BY <1>7, CallOfNextStage DEF HSet, Goto, TypeOK
  <2>4. seen[r] = hash[file[r]][p]
    BY <1>7, <2>1 DEF Stale
  <2>5. hash' = [hash EXCEPT ![file[r]] =
                    [q \in Field |-> IF q \in {p} THEN hash[file[r]][p] \cup {value[r]}
                                     ELSE hash[file[r]][q]]]
    BY <1>7, <2>1, <2>4 DEF HSet
  <2>6. hash' = [hash EXCEPT ![file[r]][p] = @ \cup {value[r]}]
    BY <2>5 DEF TypeOK
  <2>7. Atomic!Add(r)
    BY <1>1, <1>2, <1>7, <2>2, <2>3, <2>6 DEF Acts, Atomic!Add, Atomic!Goes
  <2> QED  BY <2>7 DEF Atomic!FNext
<1>8. CASE Del(r)
  <2>1. CallOf(r) = [op |-> "drop", file |-> file[r]]
    BY <1>8, CallOfStage DEF Del
  <2>2. CallOf(r)' = Atomic!Over
    BY <1>8, CallOfNextStage DEF Del, Goto, TypeOK
  <2>3. Atomic!Drop(r)
    BY <1>1, <1>2, <1>8, <2>1, <2>2
       DEF Del, NoFields, Acts, Atomic!Drop, Atomic!Without, Atomic!Goes
  <2> QED  BY <2>3 DEF Atomic!FNext
<1>9. CASE ClearFile(r)
  <2>1. CallOf(r) = [op |-> "clear", left |-> todo[r]]
    BY <1>9, CallOfStage DEF ClearFile
  <2>2. PICK f \in todo[r] : /\ todo' = [todo EXCEPT ![r] = @ \ {f}]
                             /\ \/ hash' = [hash EXCEPT ![f] = NoFields]
                                \/ MayFail /\ UNCHANGED hash
    BY <1>9 DEF ClearFile
  <2>3. CallOf(r)' = [op |-> "clear", left |-> todo[r] \ {f}]
    BY <1>9, <2>2, CallOfNextStage DEF ClearFile, TypeOK
  <2>4. Atomic!Without(f) \/ (MayFail /\ UNCHANGED hash)
    BY <2>2 DEF NoFields, Atomic!Without
  <2>5. Atomic!ClearNext(r)
    <3>1. CallsNow[r].op = "clear" /\ CallsNow[r].left = todo[r]
      BY <1>1, <2>1
    <3>2. Atomic!Goes(r, [op |-> "clear", left |-> CallsNow[r].left \ {f}])
      BY <1>1, <2>3, <3>1 DEF Atomic!Goes
    <3>3. Atomic!Undivided(r) /\ f \in CallsNow[r].left
      BY <1>2, <1>9, <3>1 DEF Acts
    <3> QED  BY <2>4, <3>1, <3>2, <3>3, Zenon DEF Atomic!ClearNext
  <2> QED  BY <2>5 DEF Atomic!FNext
<1>10. CASE HGetNew(r)
  <2>1. CallOf(r)' = CallOf(r)
    <3>1. /\ pc[r] = "hget" /\ pc'[r] = "hset" /\ file'[r] = file[r] /\ names'[r] = names[r]
          /\ value'[r] = value[r]
      BY <1>10 DEF HGetNew, Goto, args, TypeOK
    <3>2. FieldOf(r)' = FieldOf(r)
      BY <3>1 DEF FieldOf
    <3> QED  BY <3>1, <3>2, CallOfStage, CallOfNextStage
  <2>2. CallsNow' = CallsNow
    BY <1>1, <2>1 DEF CallsNow
  <2> QED  BY <1>10, <2>2 DEF HGetNew, Atomic!fvars
<1>11. CASE HGetPresent(r)
  <2>1. CallOf(r) = [op |-> "add", file |-> file[r], field |-> FieldOf(r), value |-> value[r]]
    BY <1>11, CallOfStage DEF HGetPresent
  <2>2. CallOf(r)' = Atomic!None
    BY <1>11, CallOfNextStage DEF HGetPresent, Return, Goto, TypeOK
  <2>3. Atomic!AddPresent(r)
    BY <1>1, <1>11, <2>1, <2>2 DEF HGetPresent, Atomic!AddPresent, Atomic!Goes
  <2> QED  BY <2>3 DEF Atomic!FNext
<1>12. CASE SAdd(r) \/ SRem(r) \/ ClearIndex(r)
  <2>1. \/ CallOf(r) = Atomic!Over
        \/ CallOf(r) = [op |-> "clear", left |-> {}]
    BY <1>12, CallOfStage DEF SAdd, SRem, ClearIndex
  <2>2. pc'[r] = "idle" /\ hash' = hash
    BY <1>12 DEF SAdd, SRem, ClearIndex, Return, Goto, TypeOK
  <2>3. CallOf(r)' = Atomic!None
    BY <2>2, CallOfNextStage
  <2>4. Atomic!Return(r)
    BY <1>1, <2>1, <2>2, <2>3 DEF Atomic!Return, Atomic!Goes
  <2> QED  BY <2>4 DEF Atomic!FNext
<1>13. CASE CommandFails(r)
  <2>1. CallOf(r) # Atomic!None
    <3>1. pc[r] \in ReadPC \cup WritePC
      BY <1>13 DEF CommandFails, TypeOK
    <3>2. CallOf(r).op \in {"put", "add", "drop", "clear", "over"}
      BY <3>1, CallOfStage DEF ReadPC, WritePC, Atomic!Over
    <3> QED  BY <3>2 DEF Atomic!None
  <2>2. CallOf(r)' = Atomic!None
    BY <1>13, CallOfNextStage DEF CommandFails, Return, Goto, TypeOK
  <2>3. Atomic!Fail(r)
    BY <1>1, <1>13, <2>1, <2>2 DEF CommandFails, Atomic!Fail, Atomic!Goes
  <2> QED  BY <2>3 DEF Atomic!FNext
<1>14. SetMetadataFlat(r) \/ SetProperty(r) \/ DeleteMetadata(r) \/ AddToSet(r)
          \/ ClearAllMetadata(r) => pc[r] = "idle" /\ hash' = hash
  BY DEF SetMetadataFlat, SetProperty, DeleteMetadata, AddToSet, ClearAllMetadata, Call
<1> QED
  BY <1>4, <1>5, <1>6, <1>7, <1>8, <1>9, <1>10, <1>11, <1>12, <1>13, <1>14 DEF Step

\* Where clients add to sets or clear, there is a single process.
LocksAlone == Workload \cap {"add", "clear"} # {} => SingleProcess

\* Each call acts on the stored fields at most once, in one step, and exactly
\* once if nothing fails, a clear file by file with nothing in between: with
\* any number of processes for the calls that share the lock, in one process
\* for AddToSet and clears, which rest on its exclusive mode.
THEOREM Atomicity == ASSUME LocksAlone PROVE Spec => ImplementsFieldStore
<1>1. Init => Atomic!FInit
  BY CallOfStage DEF Init, NoFields, CallsNow, Atomic!FInit
<1>2. AtomicInv /\ [Next]_vars => [Atomic!FNext]_(Atomic!fvars)
  <2>1. CASE UNCHANGED vars
    <3>1. \A r \in Request : CallOf(r)' = CallOf(r)
      BY <2>1 DEF vars, args, CallOf, FieldOf
    <3> QED  BY <2>1, <3>1 DEF vars, CallsNow, Atomic!fvars
  <2>2. ASSUME AtomicInv, NEW r \in Request, Step(r)
        PROVE  [Atomic!FNext]_(Atomic!fvars)
    <3>1. HSet(r) => ~Stale(r)
      BY <2>2 DEF HSet, Stale, AtomicInv, ReadIsFresh
    <3>2. ASSUME Acts(r), NEW s \in Request, s # r, pc[s] = "clear"
          PROVE  FALSE
      <4>1. Home[r] = Home[s]
        BY <2>2, <3>2 DEF LocksAlone, SingleProcess, AtomicInv, OfferedInv
      <4>2. pc[r] = "idle"
        BY <2>2, <3>2, <4>1 DEF AtomicInv, MutexInv, WritePC
      <4>3. ~CanRLock(r)
        BY <3>2, <4>1 DEF CanRLock, WritePC
      <4> QED  BY <3>2, <4>2, <4>3 DEF Acts, HMSet, HSet, Del, DeleteProperty, ClearFile
    <3> QED  BY <2>2, <3>1, <3>2, HashStep DEF Divides, AtomicInv
  <2> QED  BY <2>1, <2>2 DEF Next
<1>3. AddsAlone
  BY DEF LocksAlone, AddsAlone
<1> QED  BY <1>1, <1>2, <1>3, AtomicHolds, PTL DEF Spec, ImplementsFieldStore, Atomic!FSpec

\* Without any condition, for processes that share no mutex, too: the only
\* steps that FieldStore does not allow are the HSET of an AddToSet whose field
\* was changed after its HGET, and a command that comes between those of a
\* clear.
THEOREM OnlyStaleAddDeviates ==
    Spec => [][(\A r \in Request : /\ HSet(r) => ~Stale(r)
                                   /\ Acts(r) => ~Divides(r))
                  => Atomic!FNext]_(Atomic!fvars)
<1>1. TypeOK /\ ArgInv /\ [Next]_vars =>
        [(\A r \in Request : /\ HSet(r) => ~Stale(r)
                             /\ Acts(r) => ~Divides(r)) => Atomic!FNext]_(Atomic!fvars)
  <2>1. CASE UNCHANGED vars
    <3>1. \A r \in Request : CallOf(r)' = CallOf(r)
      BY <2>1 DEF vars, args, CallOf, FieldOf
    <3> QED  BY <2>1, <3>1 DEF vars, CallsNow, Atomic!fvars
  <2>2. CASE Next
    BY <2>2, HashStep DEF Next
  <2> QED  BY <2>1, <2>2
<1> QED  BY <1>1, CallsTyped, PTL DEF Spec

-----------------------------------------------------------------------------
(* The index                                                               *)

\* What deletes whole files, or clears, has the process to itself, and
\* DeleteMetadata, which shares its lock with HMSET, meets none.
Apart ==
    /\ Workload \cap {"delete", "clear"} # {} => SingleProcess
    /\ "delete" \in Workload => Workload \cap {"set", "property"} = {}

\* And no command fails.
Undisturbed == ~MayFail /\ Apart

\* The two commands that must not fail: the SADD of a file that is not listed
\* yet, and the DEL of a file in a clear, which goes on to delete the index.
IndexServed ==
    \A r \in Request :
        /\ pc[r] \in {"sadd", "saddSet"} /\ pc'[r] = "idle" => file[r] \in index'
        /\ pc[r] = "clear" /\ pc'[r] = "clear" => \A f \in todo[r] \ todo'[r] : ~Stored(f)'

\* While a clear runs, what is stored is what it has still to delete, and what
\* has been deleted is not stored again before it leaves the index.
ListInv ==
    /\ TypeOK
    /\ MutexInv
    /\ ArgInv
    /\ OfferedInv
    /\ StoredIsListed
    /\ \A r \in Request : pc[r] = "srem" => ~Stored(file[r])
    /\ \A r \in Request : pc[r] = "clear" => \A f \in File : Stored(f) => f \in todo[r]

LEMMA InitListed == Init => ListInv
<1> SUFFICES ASSUME Init
             PROVE  ListInv
  OBVIOUS
<1>1. AtomicInv
  BY InitAtomic
<1> QED
  BY <1>1 DEF Init, ListInv, AtomicInv, StoredIsListed, Stored

\* A request that runs alone in its process, because it holds the write lock.
LEMMA RunsAlone ==
    ASSUME SingleProcess, MutexInv, NEW r \in Request, NEW s \in Request,
           s # r, pc[s] \in WritePC \/ CanLock(s)
    PROVE  pc[r] = "idle"
BY DEF SingleProcess, MutexInv, CanLock

\* A request that acts in a process finds no clear under way but its own.
LEMMA NoOtherClear ==
    ASSUME Apart, ListInv, NEW r \in Request, Step(r),
           NEW s \in Request, s # r
    PROVE  pc[s] # "clear" /\ pc'[s] # "clear"
<1> SUFFICES ASSUME pc[s] = "clear"
             PROVE  FALSE
  BY StepControl DEF ListInv
<1>0. SingleProcess
  BY DEF Apart, ListInv, OfferedInv
<1>1. pc[r] = "idle" /\ Home[s] = Home[r]
  BY <1>0, RunsAlone DEF SingleProcess, ListInv, WritePC
<1> QED
  BY <1>1, StepControl DEF ListInv, CanLock, CanRLock, WritePC

\* A request that is about to list a file stays so while others act.
LEMMA OthersPending ==
    ASSUME TypeOK, NEW r \in Request, Step(r), NEW f \in File,
           NEW s \in Request, s # r, file[s] = f, pc[s] \in {"sadd", "saddSet"}
    PROVE  \E q \in Request : file'[q] = f /\ pc'[q] \in {"sadd", "saddSet"}
BY StepControl, ArgsKept

\* Steps that store nothing, take nothing out of the index and list nothing.
LEMMA ListedKept ==
    ASSUME ListInv, NEW r \in Request, Step(r),
           \A f \in File : Stored(f)' => Stored(f),
           index \subseteq index', pc[r] \notin {"sadd", "saddSet"}
    PROVE  StoredIsListed'
<1> SUFFICES ASSUME NEW f \in File, Stored(f)', f \notin index'
             PROVE  \E q \in Request : file'[q] = f /\ pc'[q] \in {"sadd", "saddSet"}
  BY DEF StoredIsListed
<1>1. PICK s \in Request : file[s] = f /\ pc[s] \in {"sadd", "saddSet"}
  BY DEF ListInv, StoredIsListed
<1> QED  BY <1>1, OthersPending DEF ListInv

\* No deletion stores anything.
LEMMA DropStores ==
    ASSUME TypeOK, NEW r \in Request, Del(r) \/ ClearFile(r)
    PROVE  \A f \in File : Stored(f)' => Stored(f)
<1> USE DEF TypeOK
<1>1. hash' = hash \/ \E g \in File : hash' = [hash EXCEPT ![g] = NoFields]
  <2>1. CASE Del(r)
    BY <2>1 DEF Del
  <2>2. CASE ClearFile(r)
    <3>1. PICK g \in todo[r] : hash' = hash \/ hash' = [hash EXCEPT ![g] = NoFields]
      BY <2>2, Zenon DEF ClearFile
    <3>2. g \in File
      BY <3>1
    <3> QED  BY <3>1, <3>2
  <2> QED  BY <2>1, <2>2
<1> QED  BY <1>1 DEF Stored

LEMMA DeletePropertyStores ==
    ASSUME TypeOK, NEW r \in Request, DeleteProperty(r)
    PROVE  \A f \in File : Stored(f)' => Stored(f)
<1> USE DEF TypeOK
<1>1. PICK g \in File, p \in Field : hash' = [hash EXCEPT ![g][p] = {}]
  BY DEF DeleteProperty
<1>2. \A f \in File : f # g => hash'[f] = hash[f]
  BY <1>1
<1>3. hash'[g] = [hash[g] EXCEPT ![p] = {}]
  BY <1>1
<1>4. hash[g] = NoFields => hash'[g] = NoFields
  BY <1>3 DEF NoFields
<1> QED  BY <1>2, <1>4 DEF Stored

LEMMA ListedStep ==
    ASSUME Apart, IndexServed, ListInv, NEW r \in Request, Step(r)
    PROVE  StoredIsListed'
<1> USE DEF ListInv, TypeOK, args
<1>1. CASE HMSet(r) \/ HSet(r)
  <2>1. file'[r] = file[r] /\ pc'[r] \in {"sadd", "saddSet"}
    BY <1>1 DEF HMSet, HSet, Goto
  <2>2. \A f \in File : f # file[r] => (Stored(f)' <=> Stored(f))
    BY <1>1 DEF HMSet, HSet, Stored
  <2>3. index' = index
    BY <1>1 DEF HMSet, HSet
  <2> SUFFICES ASSUME NEW f \in File, Stored(f)', f # file[r], f \notin index
               PROVE  \E q \in Request : file'[q] = f /\ pc'[q] \in {"sadd", "saddSet"}
    BY <2>1, <2>3 DEF StoredIsListed
  <2>4. PICK s \in Request : file[s] = f /\ pc[s] \in {"sadd", "saddSet"}
    BY <2>2 DEF StoredIsListed
  <2> QED  BY <2>4, OthersPending
<1>2. CASE SAdd(r)
  <2>1. \A f \in File : Stored(f)' <=> Stored(f)
    BY <1>2 DEF SAdd, Stored
  <2>2. index' = index \cup {file[r]}
    BY <1>2 DEF SAdd
  <2> SUFFICES ASSUME NEW f \in File, Stored(f), f \notin index, f # file[r]
               PROVE  \E q \in Request : file'[q] = f /\ pc'[q] \in {"sadd", "saddSet"}
    BY <2>1, <2>2 DEF StoredIsListed
  <2>3. PICK s \in Request : file[s] = f /\ pc[s] \in {"sadd", "saddSet"}
    BY DEF StoredIsListed
  <2> QED  BY <2>3, OthersPending
<1>3. CASE ClearIndex(r)
  <2>1. \A f \in File : ~Stored(f)
    BY <1>3 DEF ClearIndex
  <2> QED  BY <1>3, <2>1 DEF ClearIndex, StoredIsListed, Stored
<1>4. CASE DeleteProperty(r)
  BY <1>4, DeletePropertyStores, ListedKept DEF DeleteProperty
<1>5. CASE ClearFile(r)
  BY <1>5, DropStores, ListedKept DEF ClearFile
<1>6. CASE \/ SetMetadataFlat(r) \/ SetProperty(r) \/ AddToSet(r) \/ DeleteMetadata(r)
           \/ HGetNew(r) \/ HGetPresent(r) \/ ClearAllMetadata(r)
  <2>1. UNCHANGED <<hash, index>> /\ pc[r] \notin {"sadd", "saddSet"}
    BY <1>6 DEF SetMetadataFlat, SetProperty, AddToSet, HGetNew, HGetPresent,
                DeleteMetadata, ClearAllMetadata, Call
  <2> QED  BY <2>1, ListedKept DEF Stored
<1>7. CASE Del(r)
  BY <1>7, DropStores, ListedKept DEF Del
<1>8. CASE SRem(r)
  <2>1. UNCHANGED hash /\ index' = index \ {file[r]} /\ pc[r] = "srem"
    BY <1>8 DEF SRem
  <2> SUFFICES ASSUME NEW f \in File, Stored(f), f \notin index'
               PROVE  \E q \in Request : file'[q] = f /\ pc'[q] \in {"sadd", "saddSet"}
    BY <2>1 DEF StoredIsListed, Stored
  <2>2. f \notin index
    BY <2>1
  <2>3. PICK s \in Request : file[s] = f /\ pc[s] \in {"sadd", "saddSet"}
    BY <2>2 DEF StoredIsListed
  <2> QED  BY <2>1, <2>3, OthersPending
<1>9. CASE CommandFails(r)
  <2>1. UNCHANGED <<hash, index>> /\ pc'[r] = "idle"
    BY <1>9 DEF CommandFails, Return, Goto
  <2> SUFFICES ASSUME NEW f \in File, Stored(f), f \notin index'
               PROVE  \E q \in Request : file'[q] = f /\ pc'[q] \in {"sadd", "saddSet"}
    BY <2>1 DEF StoredIsListed, Stored
  <2>2. PICK s \in Request : file[s] = f /\ pc[s] \in {"sadd", "saddSet"}
    BY <2>1 DEF StoredIsListed
  <2>3. s # r
    BY <2>1, <2>2 DEF IndexServed
  <2> QED  BY <2>2, <2>3, OthersPending
<1> QED  BY <1>1, <1>2, <1>3, <1>4, <1>5, <1>6, <1>7, <1>8, <1>9 DEF Step

\* Between the DEL and the SREM of DeleteMetadata nothing is stored.
LEMMA SRemStep ==
    ASSUME Apart, ListInv, NEW r \in Request, Step(r),
           NEW s \in Request, pc'[s] = "srem"
    PROVE  ~Stored(file[s])'
<1> USE DEF ListInv, TypeOK
<1>1. CASE s = r
  <2>1. Del(r)
    BY <1>1 DEF Step, SetMetadataFlat, SetProperty, HMSet, SAdd, DeleteMetadata, SRem,
       DeleteProperty, AddToSet, HGetNew, HGetPresent, HSet, ClearAllMetadata, ClearFile,
       ClearIndex, CommandFails, Call, Return, Goto, args
  <2> QED  BY <1>1, <2>1 DEF Del, Stored, args, NoFields
<1>2. CASE s # r
  <2>1. pc[s] = "srem" /\ file'[s] = file[s]
    BY <1>2, StepControl, ArgsKept
  <2>2. SingleProcess /\ Workload \cap {"set", "property"} = {}
    BY <2>1 DEF OfferedInv, Apart
  <2>3. pc[r] # "hmset" /\ pc[r] # "hset"
    BY <1>2, <2>1, <2>2 DEF OfferedInv, MutexInv, SingleProcess, WritePC
  <2>4. \A f \in File : Stored(f)' => Stored(f)
    <3>1. CASE UNCHANGED hash
      BY <3>1 DEF Stored
    <3>2. CASE Del(r) \/ ClearFile(r)
      BY <3>2, DropStores
    <3>3. CASE DeleteProperty(r)
      BY <3>3, DeletePropertyStores
    <3> QED
      BY <2>3, <3>1, <3>2, <3>3 DEF Step, SetMetadataFlat, SetProperty, HMSet, SAdd,
         DeleteMetadata, SRem, AddToSet, HGetNew, HGetPresent, HSet, ClearAllMetadata,
         ClearIndex, CommandFails
  <2> QED  BY <2>1, <2>4
<1> QED  BY <1>1, <1>2

LEMMA ClearStep ==
    ASSUME Apart, IndexServed, ListInv, NEW r \in Request, Step(r),
           NEW s \in Request, pc'[s] = "clear", NEW f \in File, Stored(f)'
    PROVE  f \in todo'[s]
<1>1. s = r
  BY NoOtherClear
<1> USE DEF ListInv, TypeOK
<1>2. CASE ClearAllMetadata(r)
  <2>1. \A q \in Request : pc[q] = "idle"
    BY <1>2 DEF ClearAllMetadata, CanLock, Apart, SingleProcess
  <2>2. f \in index
    BY <1>2, <2>1 DEF ClearAllMetadata, StoredIsListed, Stored
  <2> QED  BY <1>1, <1>2, <2>2 DEF ClearAllMetadata
<1>3. CASE ClearFile(r)
  <2>1. f \in todo[r]
    BY <1>3, DropStores DEF ClearFile
  <2>2. pc[r] = "clear" /\ pc'[r] = "clear"
    BY <1>3 DEF ClearFile
  <2> QED  BY <1>1, <2>1, <2>2 DEF IndexServed
<1>4. ClearAllMetadata(r) \/ ClearFile(r)
  BY <1>1 DEF Step, SetMetadataFlat, SetProperty, HMSet, SAdd, DeleteMetadata,
      Del, SRem, DeleteProperty, AddToSet, HGetNew, HGetPresent, HSet, ClearIndex,
      CommandFails, Call, Return, Goto, args
<1> QED  BY <1>2, <1>3, <1>4

LEMMA ListStep ==
    ASSUME Apart, ListInv, [Next]_vars, [IndexServed]_vars
    PROVE  ListInv'
<1>1. CASE UNCHANGED vars
  BY <1>1 DEF vars, args, ListInv, TypeOK, MutexInv, ArgInv, OfferedInv, StoredIsListed, Stored
<1>2. CASE Next /\ IndexServed
  <2>1. PICK r \in Request : Step(r)
    BY <1>2 DEF Next
  <2>2. TypeOK' /\ MutexInv' /\ ArgInv' /\ OfferedInv'
    BY <2>1, TypeStep, MutexStep, ArgStep, OfferedStep DEF ListInv
  <2>3. StoredIsListed'
    BY <1>2, <2>1, ListedStep
  <2>4. \A s \in Request : pc'[s] = "srem" => ~Stored(file[s])'
    BY <2>1, SRemStep
  <2>5. \A s \in Request : pc'[s] = "clear" => \A f \in File : Stored(f)' => f \in todo'[s]
    BY <1>2, <2>1, ClearStep
  <2> QED  BY <2>2, <2>3, <2>4, <2>5 DEF ListInv
<1> QED  BY <1>1, <1>2

\* Commands that do not fail serve the index.
LEMMA ServedWithoutFailure ==
    ASSUME Undisturbed, ListInv, [Next]_vars
    PROVE  [IndexServed]_vars
<1> SUFFICES ASSUME Next, NEW s \in Request
             PROVE  /\ pc[s] \in {"sadd", "saddSet"} /\ pc'[s] = "idle" => file[s] \in index'
                    /\ pc[s] = "clear" /\ pc'[s] = "clear"
                          => \A f \in todo[s] \ todo'[s] : ~Stored(f)'
  BY DEF IndexServed
<1>1. PICK r \in Request : Step(r)
  BY DEF Next
<1>2. ~CommandFails(r) /\ Apart
  BY DEF Undisturbed, CommandFails
<1>3. ASSUME pc[s] \in {"sadd", "saddSet"}, pc'[s] = "idle"
      PROVE  file[s] \in index'
  <2>1. s = r
    BY <1>1, <1>3, StepControl DEF ListInv
  <2>2. SAdd(r)
    BY <1>1, <1>2, <1>3, <2>1 DEF Step, SetMetadataFlat, SetProperty, HMSet, DeleteMetadata, Del,
       SRem, DeleteProperty, AddToSet, HGetNew, HGetPresent, HSet, ClearAllMetadata, ClearFile,
       ClearIndex, Call
  <2> QED  BY <2>1, <2>2 DEF SAdd
<1>4. ASSUME pc[s] = "clear", pc'[s] = "clear", NEW f \in todo[s] \ todo'[s]
      PROVE  ~Stored(f)'
  <2>1. s = r
    BY <1>1, <1>2, <1>4, NoOtherClear
  <2>2. ClearFile(r) \/ ClearIndex(r)
    BY <1>1, <1>2, <1>4, <2>1 DEF Step, SetMetadataFlat, SetProperty, HMSet, SAdd, DeleteMetadata,
       Del, SRem, DeleteProperty, AddToSet, HGetNew, HGetPresent, HSet, ClearAllMetadata, Call
  <2>3. ~ClearIndex(r)
    BY <1>4, <2>1 DEF ClearIndex, Return, Goto, ListInv, TypeOK
  <2>4. PICK g \in todo[r] : /\ todo' = [todo EXCEPT ![r] = @ \ {g}]
                             /\ hash' = [hash EXCEPT ![g] = NoFields]
    BY <2>2, <2>3 DEF ClearFile, Undisturbed
  <2>5. f = g /\ g \in File
    BY <1>4, <2>1, <2>4 DEF ListInv, TypeOK
  <2> QED  BY <2>4, <2>5 DEF Stored, ListInv, TypeOK
<1> QED  BY <1>3, <1>4

\* The invariant of the index, under what it depends on.
THEOREM ListInvariance == ASSUME Apart PROVE Spec /\ [][IndexServed]_vars => []ListInv
<1>1. Init => ListInv
  BY InitListed
<1>2. ListInv /\ [Next]_vars /\ [IndexServed]_vars => ListInv'
  BY ListStep
<1> QED  BY <1>1, <1>2, PTL DEF Spec

\* And where no command fails.
THEOREM NoFailureList == ASSUME Undisturbed PROVE Spec => []ListInv
<1>1. Init => ListInv
  BY InitListed
<1>2. ListInv /\ [Next]_vars => ListInv'
  BY ListStep, ServedWithoutFailure DEF Undisturbed
<1> QED  BY <1>1, <1>2, PTL DEF Spec

\* Whatever else fails, half-way through any operation, what is stored gets
\* listed as long as two commands do their work: the SADD of a file that is new
\* to the index, and the DEL of each file in a clear. (If one of them fails, its
\* file can stay unlisted.)
THEOREM IndexDepends ==
    ASSUME Apart
    PROVE  Spec /\ [][IndexServed]_vars => []StoredIsListed
<1>1. ListInv => StoredIsListed
  BY DEF ListInv
<1> QED  BY <1>1, ListInvariance, PTL

\* Where no command fails and deletions have the process to themselves, a file
\* with metadata is listed as soon as the request that stored it returns; with
\* several processes where none deletes whole files or clears.
THEOREM IndexComplete == ASSUME Undisturbed PROVE Spec => []StoredIsListed
<1>1. ListInv => StoredIsListed
  BY DEF ListInv
<1> QED  BY <1>1, NoFailureList, PTL

\* Under the same conditions a clear leaves no metadata behind, though it
\* looks only at the files the index names.
THEOREM ClearComplete == ASSUME Undisturbed PROVE Spec => ClearEmpties
<1>1. ListInv /\ [Next]_vars =>
        [\A r \in Request :
            ClearIndex(r) => index' = {} /\ \A f \in File : ~Stored(f)']_vars
  <2> SUFFICES ASSUME ListInv, NEW r \in Request, ClearIndex(r)
               PROVE  index' = {} /\ \A f \in File : ~Stored(f)'
    OBVIOUS
  <2>1. \A f \in File : ~Stored(f)
    BY DEF ListInv, ClearIndex
  <2> QED  BY <2>1 DEF ClearIndex, Stored, Undisturbed
<1> QED  BY <1>1, NoFailureList, PTL DEF Spec, ClearEmpties

=============================================================================
