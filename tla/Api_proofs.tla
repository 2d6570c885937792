------------------------------ MODULE Api_proofs ------------------------------
(***************************************************************************)
(* Proofs about Api, for any requests, files, fields, batches, page sizes  *)
(* and limits, and with every company of requests at once.                 *)
(*                                                                         *)
(* The batch: the calls that went through, the one under way or failed and *)
(* those still to make add up to the calls of the item. The walk: the keys *)
(* so far are the beginning of the listing, as long as the index stays     *)
(* what it is. The search: what is owed has been found or is still ahead.  *)
(***************************************************************************)
EXTENDS Api, MetadataStore_proofs, FiniteSetTheorems, SequenceTheorems

ApiTypeOK ==
    /\ order \in Orders(index)
    /\ updates \in [Batcher -> Seq(Item)]
    /\ stage \in [Batcher -> {"none", "metadata", "properties", "respond"}]
    /\ rest \in [Batcher -> SUBSET Field]
    /\ updateErr \in [Batcher -> BOOLEAN]
    /\ done \in [Batcher -> Nat]
    /\ results \in [Batcher -> Seq({"ok", "error"})]
    /\ mode \in [Reader -> {"none", "keys", "reading", "whole", "found"}]
    /\ cursor \in [Reader -> Nat]
    /\ got \in [Reader -> Seq(File)]
    /\ steady \in [Reader -> BOOLEAN]
    /\ query \in [Reader -> Value \cup {Any}]
    /\ limit \in [Reader -> Nat]
    /\ ids \in [Reader -> SUBSET File]
    /\ hits \in [Reader -> SUBSET File]
    /\ owed \in [Reader -> SUBSET File]

CallInv == TypeOK /\ ArgInv

\* Where batch r is: the calls of its item are done, under way or failed, and
\* left.
BatchOf(r) ==
    /\ stage[r] \in {"metadata", "properties"} => updates[r] # <<>>
    /\ stage[r] # "properties" =>
           pc[r] = "idle" /\ done[r] = 0 /\ rest[r] = {} /\ ~updateErr[r]
    /\ stage[r] = "properties" =>
           LET item == Head(updates[r])
           IN  /\ item.file # Any
               /\ pc[r] \in {"idle", "hmset", "sadd"}
               /\ updateErr[r] => pc[r] = "idle"
               /\ done[r] + Cardinality(rest[r])
                    + (IF updateErr[r] \/ pc[r] # "idle" THEN 1 ELSE 0) = Calls(item)

\* The pages of r are the beginning of the listing.
WalkOf(r) ==
    /\ mode[r] # "keys" => cursor[r] = 0
    /\ mode[r] \notin {"keys", "whole"} => got[r] = <<>>
    /\ mode[r] = "keys" /\ steady[r] =>
           cursor[r] <= Len(order) /\ got[r] = SubSeq(order, 1, cursor[r])
    /\ mode[r] = "whole" /\ steady[r] => got[r] = order

\* What the search of r owes has been found or is ahead.
SearchOf(r) ==
    /\ \A f \in owed[r] : Matches(hash, f, query[r])
    /\ mode[r] = "reading" => owed[r] \subseteq hits[r] \cup ids[r]
    /\ mode[r] = "found" => owed[r] \subseteq hits[r] \/ Cardinality(hits[r]) >= limit[r]

IInv ==
    /\ company \in Companies
    /\ ApiTypeOK
    /\ CallInv
    /\ \A r \in Batcher : BatchOf(r)
    /\ \A r \in Reader : WalkOf(r) /\ SearchOf(r)

-----------------------------------------------------------------------------
(* Sequences and orders                                                    *)

LEMMA IndexFinite ==
    ASSUME NEW S \in SUBSET File
    PROVE  IsFiniteSet(S) /\ Cardinality(S) \in Nat
  BY ApiAssumption, FS_Subset, FS_CardinalityType

LEMMA FieldsFinite ==
    ASSUME NEW S \in SUBSET Field
    PROVE  IsFiniteSet(S) /\ Cardinality(S) \in Nat
  BY ApiAssumption, FS_Subset, FS_CardinalityType

LEMMA OneLess ==
    ASSUME NEW S \in SUBSET Field, NEW p \in S
    PROVE  Cardinality(S \ {p}) = Cardinality(S) - 1
  BY FieldsFinite, FS_RemoveElement

LEMMA OrderIsSeq ==
    ASSUME NEW S \in SUBSET File, NEW o \in Orders(S)
    PROVE  /\ o \in Seq(File)
           /\ Len(o) = Cardinality(S)
           /\ S = {o[i] : i \in DOMAIN o}
  <1>1. Cardinality(S) \in Nat
    BY IndexFinite
  <1>2. o \in [1..Cardinality(S) -> S]
    BY DEF Orders
  <1>3. o \in Seq(File) /\ Len(o) = Cardinality(S)
    BY <1>1, <1>2
  <1>4. S = {o[i] : i \in DOMAIN o}
    BY <1>2 DEF Orders
  <1> QED
    BY <1>3, <1>4

LEMMA EmptyOrder == <<>> \in Orders({})
  <1>1. Cardinality({}) = 0
    BY FS_EmptySet
  <1> QED
    BY <1>1 DEF Orders

LEMMA PageOfOrder ==
    ASSUME order \in Seq(File), NEW from \in Nat, NEW n \in Nat, n >= 1
    PROVE  /\ Page(from, n) \in Seq(File)
           /\ Len(Page(from, n)) \in Nat
           /\ from <= Len(order) =>
                  /\ from + Len(Page(from, n)) <= Len(order)
                  /\ SubSeq(order, 1, from) \o Page(from, n)
                        = SubSeq(order, 1, from + Len(Page(from, n)))
  <1> DEFINE end == IF from + n > Len(order) THEN Len(order) ELSE from + n
  <1>1. Len(order) \in Nat /\ end \in Nat /\ end <= Len(order)
    OBVIOUS
  <1>2. Page(from, n) = SubSeq(order, from + 1, end)
    BY DEF Page
  <1> HIDE DEF end
  <1>3. CASE from < end
    <2>1. \A i \in (from + 1)..end : order[i] \in File
      BY <1>1
    <2>2. from + 1 \in Int /\ end \in Int
      BY <1>1
    <2>3. /\ SubSeq(order, from + 1, end) \in Seq(File)
          /\ Len(SubSeq(order, from + 1, end)) = end - from
      BY <1>3, <2>1, <2>2, SubSeqProperties
    <2>4. from \in 0..Len(order) /\ end \in from..Len(order) /\ 1 \in 1..(Len(order) + 1)
      BY <1>1, <1>3
    <2>5. SubSeq(order, 1, from) \o SubSeq(order, from + 1, end) = SubSeq(order, 1, end)
      BY <2>4, ConcatAdjacentSubSeq
    <2> QED
      BY <1>1, <1>2, <1>3, <2>3, <2>5
  <1>4. CASE end <= from
    <2>1. Page(from, n) = <<>>
      BY <1>1, <1>2, <1>4, SubSeqEmpty
    <2>2. from <= Len(order) => SubSeq(order, 1, from) \in Seq(File)
      BY <1>1, SubSeqProperties
    <2> QED
      BY <1>1, <2>1, <2>2, ConcatEmptySeq
  <1> QED
    BY <1>1, <1>3, <1>4

-----------------------------------------------------------------------------
(* What a step of the API is to the storage client                         *)

\* A call ends with an error that is not the store's own choice.
CallFails(r) == Return(r) /\ UNCHANGED <<hash, index>>

LEMMA StoreKept ==
    ASSUME CallInv, NEW r \in Request, Step(r) \/ CallFails(r) \/ UNCHANGED vars
    PROVE  CallInv'
  <1>1. CASE Step(r)
    BY <1>1, TypeStep, ArgStep DEF CallInv
  <1>2. CASE CallFails(r)
    BY <1>2, NoDefaults DEF CallFails, Return, Goto, CallInv, TypeOK, ArgInv
  <1>3. CASE UNCHANGED vars
    BY <1>3 DEF vars, args, CallInv, TypeOK, ArgInv
  <1> QED
    BY <1>1, <1>2, <1>3

LEMMA ItemFields ==
    ASSUME NEW item \in Item
    PROVE  /\ item.file \in File \cup {Any}
           /\ item.metadata \subseteq Field /\ item.properties \subseteq Field
           /\ item.value \in Value
  BY DEF Item

\* The calls of a batch are the calls of the storage client.
LEMMA BatchCalls ==
    ASSUME IInv, NEW r \in Batcher, BatchStep(r)
    PROVE  \/ Step(r)
           \/ CallFails(r) /\ pc[r] \in Failing
           \/ UNCHANGED vars
  <1> USE ApiAssumption
  <1>1. CASE BatchMetadata(r)
    <2> DEFINE item == Head(updates[r])
    <2>1. item \in Item
      <3>1. updates[r] \in Seq(Item) /\ updates[r] # <<>>
        BY <1>1 DEF BatchMetadata, IInv, ApiTypeOK, BatchOf
      <3> QED
        BY <3>1, HeadTailProperties
    <2>2. CASE item.metadata # {}
      <3>1. item.file \in File /\ item.metadata \in (SUBSET Field) \ {{}} /\ item.value \in Value
        <4>1. item.file # Any
          BY <1>1 DEF BatchMetadata
        <4>2. item.file \in File \cup {Any} /\ item.metadata \subseteq Field /\ item.value \in Value
          BY <2>1, ItemFields
        <4> HIDE DEF item
        <4> QED
          BY <2>2, <4>1, <4>2
      <3>2. Call(r, "set", item.file, item.metadata, item.value, "hmset")
        BY <1>1, <2>2 DEF BatchMetadata, Call, Goto
      <3>3. CanRLock(r) /\ UNCHANGED <<hash, index, seen, todo>>
        BY <1>1, <2>2 DEF BatchMetadata
      <3>4. SetMetadataFlat(r)
        BY <3>1, <3>2, <3>3 DEF SetMetadataFlat
      <3> QED
        BY <3>4 DEF Step
    <2>3. CASE item.metadata = {}
      BY <1>1, <2>3 DEF BatchMetadata
    <2> QED
      BY <2>2, <2>3
  <1>2. CASE BatchProperty(r)
    <2> DEFINE item == Head(updates[r])
    <2>1. item \in Item /\ item.file # Any
      BY <1>2 DEF BatchProperty, IInv, ApiTypeOK, BatchOf
    <2>2. PICK p \in rest[r] : names' = [names EXCEPT ![r] = {p}]
      BY <1>2 DEF BatchProperty
    <2>3. p \in Field /\ item.file \in File /\ item.value \in Value
      BY <2>1, <2>2 DEF IInv, ApiTypeOK, Item
    <2>4. Call(r, "property", item.file, {p}, item.value, "hmset")
      BY <1>2, <2>2 DEF BatchProperty, Call, Goto
    <2>5. SetProperty(r)
      BY <1>2, <2>3, <2>4 DEF BatchProperty, SetProperty
    <2> QED
      BY <2>5 DEF Step
  <1>3. CASE BatchCall(r)
    BY <1>3 DEF BatchCall, Step
  <1>4. CASE BatchCallFails(r)
    BY <1>4 DEF BatchCallFails, CallFails
  <1>5. CASE handleBatchUpdate(r) \/ BatchNoHash(r) \/ BatchItemEnds(r) \/ BatchResponds(r)
    BY <1>5 DEF handleBatchUpdate, BatchNoHash, BatchItemEnds, BatchReport, BatchResponds
  <1> QED
    BY <1>1, <1>2, <1>3, <1>4, <1>5 DEF BatchStep

LEMMA ReaderCalls ==
    ASSUME NEW r \in Reader, ReaderStep(r)
    PROVE  UNCHANGED <<vars, batch, order>>
  BY DEF ReaderStep, WalkBegins, handleKVKeys, handleSearchMetadata, handleListMetadata,
         ReadIds, ReadMetadata, ReadMetadataFails, ReadEnds, Answered

\* Other requests stay where they are when a call goes on.
LEMMA OthersStay ==
    ASSUME CallInv, NEW r \in Request, Step(r) \/ CallFails(r) \/ UNCHANGED vars,
           NEW s \in Request, s # r
    PROVE  pc'[s] = pc[s]
  BY StepControl DEF CallInv, TypeOK, CallFails, Return, Goto, vars

-----------------------------------------------------------------------------
(* The store changes under readers                                         *)

LEMMA NoticedTypes ==
    ASSUME IInv, CallInv', Noticed
    PROVE  /\ order' \in Orders(index')
           /\ steady' \in [Reader -> BOOLEAN]
           /\ owed' \in [Reader -> SUBSET File]
  BY DEF Noticed, IInv, ApiTypeOK

LEMMA NoticedWalk ==
    ASSUME IInv, Noticed, UNCHANGED <<mode, cursor, got>>, NEW r \in Reader
    PROVE  WalkOf(r)'
  <1>1. WalkOf(r) /\ steady \in [Reader -> BOOLEAN]
    BY DEF IInv, ApiTypeOK
  <1>2. CASE index' = index
    BY <1>1, <1>2 DEF Noticed, WalkOf
  <1>3. CASE index' # index
    <2>1. ~steady'[r]
      BY <1>3 DEF Noticed
    <2> QED
      BY <1>1, <2>1 DEF WalkOf
  <1> QED
    BY <1>2, <1>3

LEMMA NoticedSearch ==
    ASSUME IInv, Noticed, UNCHANGED <<mode, query, limit, ids, hits>>, NEW r \in Reader
    PROVE  SearchOf(r)'
  <1>1. SearchOf(r)
    BY DEF IInv
  <1>2. owed'[r] = {f \in owed[r] : Matches(hash', f, query[r])}
    BY DEF Noticed
  <1> QED
    BY <1>1, <1>2 DEF SearchOf

\* A call of one request does not move the batch of another.
LEMMA BatchKept ==
    ASSUME IInv, NEW r \in Batcher,
           updates'[r] = updates[r], stage'[r] = stage[r], rest'[r] = rest[r],
           updateErr'[r] = updateErr[r], done'[r] = done[r], pc'[r] = pc[r]
    PROVE  BatchOf(r)'
  BY DEF IInv, BatchOf

LEMMA PlainKeeps ==
    ASSUME IInv, NEW r \in Request \ (Batcher \cup Reader), PlainStep(r),
           UNCHANGED company
    PROVE  IInv'
  <1>1. CallInv'
    BY StoreKept DEF PlainStep, IInv
  <1>2. ApiTypeOK'
    BY <1>1, NoticedTypes DEF PlainStep, ApiTypeOK, IInv, batch
  <1>3. \A b \in Batcher : BatchOf(b)'
    BY BatchKept, OthersStay, ApiAssumption DEF PlainStep, IInv, batch
  <1>4. \A s \in Reader : WalkOf(s)' /\ SearchOf(s)'
    BY NoticedWalk, NoticedSearch DEF PlainStep
  <1> QED
    BY <1>1, <1>2, <1>3, <1>4 DEF IInv

-----------------------------------------------------------------------------
(* The batch                                                               *)

LEMMA NextItem ==
    ASSUME IInv, NEW r \in Batcher, updates[r] # <<>>
    PROVE  /\ Head(updates[r]) \in Item
           /\ Tail(updates[r]) \in Seq(Item)
           /\ Len(updates[r]) # 1 => Tail(updates[r]) # <<>>
  <1>1. updates[r] \in Seq(Item)
    BY DEF IInv, ApiTypeOK
  <1>2. /\ Tail(updates[r]) \in Seq(Item) /\ Head(updates[r]) \in Item
        /\ Len(Tail(updates[r])) = Len(updates[r]) - 1
        /\ Len(updates[r]) \in Nat
    BY <1>1, HeadTailProperties
  <1>3. Len(updates[r]) # 1 => Len(Tail(updates[r])) # 0
    BY <1>2
  <1>4. Tail(updates[r]) = <<>> => Len(Tail(updates[r])) = 0
    <2>1. Len(<<>>) = 0
      BY EmptySeq
    <2> QED
      BY <2>1, Zenon
  <1> QED
    BY <1>2, <1>3, <1>4, Zenon

LEMMA ReportKeeps ==
    ASSUME IInv, NEW r \in Batcher, NEW status \in {"ok", "error"}, updates[r] # <<>>,
           pc[r] = "idle", BatchReport(r, status)
    PROVE  ApiTypeOK' /\ BatchOf(r)'
  <1>1. results'[r] \in Seq({"ok", "error"})
    BY DEF BatchReport, IInv, ApiTypeOK
  <1>2. ApiTypeOK'
    BY <1>1, NextItem DEF BatchReport, IInv, ApiTypeOK, vars, walk, search
  <1>3. BatchOf(r)'
    BY NextItem DEF BatchReport, IInv, ApiTypeOK, BatchOf, vars
  <1> QED
    BY <1>2, <1>3

\* What an item starts with adds up to its calls.
LEMMA MetadataKeeps ==
    ASSUME IInv, NEW r \in Batcher, BatchMetadata(r)
    PROVE  ApiTypeOK' /\ BatchOf(r)'
  <1> DEFINE item == Head(updates[r])
  <1>1. updates[r] # <<>> /\ ~updateErr[r] /\ done[r] = 0 /\ pc[r] = "idle"
    BY DEF BatchMetadata, IInv, BatchOf
  <1>2. item \in Item
    BY <1>1, NextItem
  <1>3. item.properties \subseteq Field
    BY <1>2, ItemFields
  <1>4. Cardinality(item.properties) \in Nat
    BY <1>3, FieldsFinite
  <1>5. index' = index
    BY DEF BatchMetadata, vars
  <1>6. ApiTypeOK'
    BY <1>3, <1>5 DEF BatchMetadata, IInv, ApiTypeOK, walk, search
  <1>7. /\ stage'[r] = "properties" /\ updates' = updates /\ rest'[r] = item.properties
        /\ updateErr'[r] = updateErr[r] /\ done'[r] = done[r] /\ item.file # Any
    BY DEF BatchMetadata, IInv, ApiTypeOK
  <1>8. pc'[r] = IF item.metadata = {} THEN "idle" ELSE "hmset"
    BY <1>1, ApiAssumption DEF BatchMetadata, IInv, CallInv, TypeOK, Goto, vars
  <1>9. BatchOf(r)'
    BY <1>1, <1>4, <1>7, <1>8 DEF BatchOf, Calls
  <1> QED
    BY <1>6, <1>9

LEMMA PropertyKeeps ==
    ASSUME IInv, NEW r \in Batcher, BatchProperty(r)
    PROVE  ApiTypeOK' /\ BatchOf(r)'
  <1> PICK p \in rest[r] : rest' = [rest EXCEPT ![r] = @ \ {p}]
    BY DEF BatchProperty
  <1>1. rest[r] \subseteq Field
    BY DEF IInv, ApiTypeOK
  <1>2. /\ Cardinality(rest[r] \ {p}) = Cardinality(rest[r]) - 1
        /\ Cardinality(rest[r]) \in Nat
    BY <1>1, OneLess, FieldsFinite
  <1>3. ApiTypeOK'
    BY <1>1 DEF BatchProperty, IInv, ApiTypeOK, walk, search
  <1>4. pc[r] = "idle" /\ pc'[r] = "hmset" /\ rest'[r] = rest[r] \ {p}
    BY ApiAssumption DEF BatchProperty, IInv, ApiTypeOK, CallInv, TypeOK, Goto
  <1>5. /\ BatchOf(r) /\ done[r] \in Nat /\ ~updateErr[r] /\ stage[r] = "properties"
        /\ UNCHANGED <<updates, stage, updateErr, done>>
    BY DEF IInv, ApiTypeOK, BatchProperty
  <1>6. Cardinality(rest'[r]) + 1 = Cardinality(rest[r])
    <2>1. Cardinality(rest'[r]) = Cardinality(rest[r] \ {p})
      BY <1>4, Zenon
    <2> QED
      BY <1>2, <2>1
  <1>7. Calls(Head(updates'[r])) = Calls(Head(updates[r]))
    BY <1>5, Zenon
  <1>8. done[r] + Cardinality(rest[r]) + 0 = Calls(Head(updates[r]))
    BY <1>4, <1>5 DEF BatchOf
  <1>9. Head(updates'[r]).file # Any
    BY <1>5 DEF BatchOf
  <1>10. Cardinality(rest'[r]) \in Int
    <2>1. rest'[r] \in SUBSET Field
      BY <1>3 DEF ApiTypeOK
    <2> QED
      BY <2>1, FieldsFinite
  <1>11. done'[r] + Cardinality(rest'[r]) + 1 = Calls(Head(updates'[r]))
    BY <1>2, <1>5, <1>6, <1>7, <1>8, <1>10
  <1>12. updates'[r] # <<>>
    BY <1>5 DEF BatchOf
  <1>13. BatchOf(r)'
    BY <1>4, <1>5, <1>9, <1>11, <1>12 DEF BatchOf
  <1> QED
    BY <1>3, <1>13

LEMMA CallKeeps ==
    ASSUME IInv, NEW r \in Batcher, BatchCall(r)
    PROVE  ApiTypeOK' /\ BatchOf(r)'
  <1>1. CallInv'
    BY StoreKept, ApiAssumption DEF BatchCall, Step, IInv
  <1>2. ApiTypeOK'
    BY <1>1, NoticedTypes DEF BatchCall, IInv, ApiTypeOK
  <1>3. /\ BatchOf(r) /\ done[r] \in Nat /\ stage[r] = "properties"
        /\ UNCHANGED <<updates, stage, rest, updateErr>>
        /\ pc[r] = IF HMSet(r) THEN "hmset" ELSE "sadd"
    BY DEF IInv, ApiTypeOK, BatchCall, BatchOf, HMSet, SAdd
  <1>4. rest[r] \in SUBSET Field /\ Cardinality(rest[r]) \in Nat
    BY FieldsFinite DEF IInv, ApiTypeOK
  <1>5. /\ ~updateErr[r]
        /\ done[r] + Cardinality(rest[r]) + 1 = Calls(Head(updates[r]))
    BY <1>3 DEF BatchOf
  <1>6. done'[r] = IF pc[r] = "sadd" THEN done[r] + 1 ELSE done[r]
    BY DEF BatchCall, IInv, ApiTypeOK
  <1>7. CASE HMSet(r)
    <2>1. pc'[r] = "sadd" /\ done'[r] = done[r]
      BY <1>3, <1>6, <1>7, ApiAssumption DEF HMSet, Goto, IInv, CallInv, TypeOK
    <2> QED
      BY <1>2, <1>3, <1>5, <2>1 DEF BatchOf
  <1>8. CASE ~HMSet(r)
    <2>1. SAdd(r)
      BY <1>8 DEF BatchCall
    <2>2. pc'[r] = "idle" /\ done'[r] = done[r] + 1
      BY <1>3, <1>6, <1>8, <2>1, ApiAssumption DEF SAdd, Return, Goto, IInv, CallInv, TypeOK
    <2>3. done'[r] + Cardinality(rest[r]) + 0 = Calls(Head(updates[r]))
      BY <1>3, <1>4, <1>5, <2>2
    <2> QED
      BY <1>2, <1>3, <1>5, <2>2, <2>3 DEF BatchOf
  <1> QED
    BY <1>7, <1>8

LEMMA FailureKeeps ==
    ASSUME IInv, NEW r \in Batcher, BatchCallFails(r)
    PROVE  ApiTypeOK' /\ BatchOf(r)'
  <1>1. ApiTypeOK'
    BY DEF BatchCallFails, IInv, ApiTypeOK, walk, search
  <1>2. /\ BatchOf(r) /\ stage[r] = "properties" /\ pc[r] # "idle"
        /\ UNCHANGED <<updates, stage, rest, done>> /\ updateErr'[r]
    BY ApiAssumption DEF BatchCallFails, IInv, ApiTypeOK
  <1>3. pc'[r] = "idle"
    BY ApiAssumption DEF BatchCallFails, Return, Goto, IInv, CallInv, TypeOK
  <1> QED
    BY <1>1, <1>2, <1>3 DEF BatchOf

LEMMA BatchKeeps ==
    ASSUME IInv, NEW r \in Batcher, BatchStep(r)
    PROVE  ApiTypeOK' /\ BatchOf(r)'
  <1>1. CASE handleBatchUpdate(r)
    <2>1. PICK items \in Batches : updates' = [updates EXCEPT ![r] = items]
      BY <1>1 DEF handleBatchUpdate
    <2>2. items \in Seq(Item) /\ items # <<>>
      BY ApiAssumption
    <2>3. ApiTypeOK'
      BY <1>1, <2>1, <2>2 DEF handleBatchUpdate, IInv, ApiTypeOK, vars, walk, search
    <2>4. BatchOf(r)'
      BY <1>1, <2>1, <2>2 DEF handleBatchUpdate, IInv, ApiTypeOK, BatchOf, vars
    <2> QED
      BY <2>3, <2>4
  <1>2. CASE BatchNoHash(r)
    BY <1>2, ReportKeeps DEF BatchNoHash, IInv, BatchOf
  <1>3. CASE BatchItemEnds(r)
    <2>1. BatchReport(r, "ok") \/ BatchReport(r, "error")
      BY <1>3 DEF BatchItemEnds
    <2>2. updates[r] # <<>> /\ pc[r] = "idle"
      BY <1>3 DEF BatchItemEnds, IInv, BatchOf
    <2> QED
      BY <2>1, <2>2, ReportKeeps
  <1>4. CASE BatchResponds(r)
    BY <1>4 DEF BatchResponds, IInv, ApiTypeOK, BatchOf, vars, walk, search
  <1> QED
    BY <1>1, <1>2, <1>3, <1>4, MetadataKeeps, PropertyKeeps, CallKeeps, FailureKeeps
    DEF BatchStep

LEMMA BatchLeavesOthers ==
    ASSUME IInv, NEW r \in Batcher, BatchStep(r)
    PROVE  /\ \A b \in Batcher : BatchOf(b)'
           /\ \A s \in Reader : WalkOf(s)' /\ SearchOf(s)'
  <1>1. Step(r) \/ CallFails(r) \/ UNCHANGED vars
    BY BatchCalls
  <1>2. \A b \in Batcher \ {r} :
            /\ updates'[b] = updates[b] /\ stage'[b] = stage[b] /\ rest'[b] = rest[b]
            /\ updateErr'[b] = updateErr[b] /\ done'[b] = done[b]
    BY DEF BatchStep, handleBatchUpdate, BatchNoHash, BatchMetadata, BatchProperty,
           BatchCall, BatchCallFails, BatchItemEnds, BatchResponds, BatchReport, IInv, ApiTypeOK
  <1>3. \A b \in Batcher : BatchOf(b)'
    BY <1>1, <1>2, BatchKeeps, BatchKept, OthersStay, ApiAssumption DEF IInv
  <1>4. CASE BatchCall(r)
    BY <1>3, <1>4, NoticedWalk, NoticedSearch DEF BatchCall
  <1>5. CASE ~BatchCall(r)
    <2>1. UNCHANGED <<hash, index, order, mode, walk, search>>
      BY <1>5 DEF BatchStep, handleBatchUpdate, BatchNoHash, BatchMetadata, BatchProperty,
                  BatchCallFails, BatchItemEnds, BatchResponds, BatchReport, vars
    <2> QED
      BY <1>3, <2>1 DEF IInv, WalkOf, SearchOf, Matches, walk, search
  <1> QED
    BY <1>3, <1>4, <1>5

-----------------------------------------------------------------------------
(* The readers                                                             *)

LEMMA WalkKeeps ==
    ASSUME IInv, NEW r \in Reader, handleKVKeys(r)
    PROVE  ApiTypeOK' /\ WalkOf(r)'
  <1> DEFINE keys == Page(cursor[r], PageSize)
             next == cursor[r] + Len(keys)
  <1>1. order \in Seq(File)
    BY OrderIsSeq DEF IInv, ApiTypeOK, CallInv, TypeOK
  <1>2. cursor[r] \in Nat /\ PageSize \in Nat /\ PageSize >= 1 /\ got[r] \in Seq(File)
    BY ApiAssumption DEF IInv, ApiTypeOK
  <1>3. /\ keys \in Seq(File) /\ Len(keys) \in Nat
        /\ cursor[r] <= Len(order) =>
               /\ next <= Len(order)
               /\ SubSeq(order, 1, cursor[r]) \o keys = SubSeq(order, 1, next)
    BY <1>1, <1>2, PageOfOrder
  <1>4. /\ got' = [got EXCEPT ![r] = @ \o keys]
        /\ cursor' = [cursor EXCEPT ![r] = IF HasMore(next) THEN next ELSE 0]
        /\ mode' = [mode EXCEPT ![r] = IF HasMore(next) THEN "keys" ELSE "whole"]
        /\ UNCHANGED <<vars, order, batch, steady, search>>
    BY DEF handleKVKeys
  <1> HIDE DEF keys
  <1>5. got[r] \o keys \in Seq(File)
    BY <1>2, <1>3
  <1>6. ApiTypeOK'
    BY <1>2, <1>3, <1>4, <1>5 DEF IInv, ApiTypeOK, vars, batch, search
  <1>7. /\ got'[r] = got[r] \o keys
        /\ cursor'[r] = IF HasMore(next) THEN next ELSE 0
        /\ mode'[r] = IF HasMore(next) THEN "keys" ELSE "whole"
    BY <1>4 DEF IInv, ApiTypeOK
  <1>8. mode[r] = "keys" /\ WalkOf(r)
    BY DEF handleKVKeys, IInv
  <1>9. CASE ~steady[r]
    BY <1>4, <1>6, <1>7, <1>9 DEF WalkOf
  <1>10. CASE steady[r]
    <2>1. got'[r] = SubSeq(order, 1, next) /\ next <= Len(order)
      BY <1>3, <1>7, <1>8, <1>10 DEF WalkOf
    <2>2. CASE HasMore(next)
      <3>1. /\ mode'[r] = "keys" /\ cursor'[r] = next /\ order' = order
            /\ got'[r] = SubSeq(order, 1, next)
        BY <1>4, <1>7, <2>1, <2>2
      <3> HIDE DEF next
      <3>2. got'[r] = SubSeq(order', 1, cursor'[r])
        BY <3>1, Zenon
      <3>3. cursor'[r] <= Len(order')
        BY <2>1, <3>1
      <3> QED
        BY <1>6, <3>1, <3>2, <3>3 DEF WalkOf
    <2>3. CASE ~HasMore(next)
      <3>1. next = Len(order)
        BY <1>1, <1>2, <1>3, <2>1, <2>3 DEF HasMore
      <3>2. got'[r] = order
        BY <1>1, <2>1, <3>1, SubSeqFull
      <3> QED
        BY <1>4, <1>6, <1>7, <2>3, <3>2 DEF WalkOf
    <2> QED
      BY <2>2, <2>3
  <1> QED
    BY <1>6, <1>9, <1>10

\* What a list or a search starts from; it begins with every file it owes
\* still ahead.
LEMMA IdsKeep ==
    ASSUME IInv, NEW r \in Reader, NEW list \in SUBSET File,
           NEW q \in Value \cup {Any}, NEW n \in Nat, ReadIds(r, list, q, n)
    PROVE  ApiTypeOK' /\ WalkOf(r)' /\ SearchOf(r)'
  <1>1. ApiTypeOK'
    BY DEF ReadIds, IInv, ApiTypeOK, vars, batch, walk
  <1>2. WalkOf(r)'
    BY DEF ReadIds, IInv, ApiTypeOK, WalkOf, walk
  <1>3. /\ mode'[r] = "reading" /\ query'[r] = q /\ ids'[r] = list /\ hash' = hash
        /\ owed'[r] = {f \in list : Matches(hash, f, q)}
    BY DEF ReadIds, IInv, ApiTypeOK, vars
  <1> QED
    BY <1>1, <1>2, <1>3 DEF SearchOf

LEMMA SearchKeeps ==
    ASSUME IInv, NEW r \in Reader,
           \/ handleSearchMetadata(r) \/ handleListMetadata(r)
           \/ ReadMetadata(r) \/ ReadMetadataFails(r) \/ ReadEnds(r)
    PROVE  ApiTypeOK' /\ WalkOf(r)' /\ SearchOf(r)'
  <1>0. index \in SUBSET File /\ order \in Seq(File)
    BY OrderIsSeq DEF IInv, ApiTypeOK, CallInv, TypeOK
  <1>1. CASE handleSearchMetadata(r)
    BY <1>0, <1>1, IdsKeep, ApiAssumption DEF handleSearchMetadata
  <1>2. CASE handleListMetadata(r)
    <2>1. PICK from \in 0..Cardinality(File), n \in Limits :
              LET page == Page(from, n)
              IN  ReadIds(r, {page[i] : i \in DOMAIN page}, Any, n)
      BY <1>2 DEF handleListMetadata
    <2>2. from \in Nat /\ n \in Nat /\ n >= 1
      BY IndexFinite, ApiAssumption
    <2>3. Page(from, n) \in Seq(File)
      BY <1>0, <2>2, PageOfOrder
    <2> DEFINE list == {Page(from, n)[i] : i \in DOMAIN Page(from, n)}
    <2>4. list \in SUBSET File
      BY <2>3, ElementOfSeq, LenProperties
    <2> QED
      BY <2>1, <2>2, <2>4, IdsKeep
  <1>3. CASE ReadMetadata(r) \/ ReadMetadataFails(r)
    <2>1. PICK f \in ids[r] :
              /\ ids' = [ids EXCEPT ![r] = @ \ {f}]
              /\ \/ /\ hits' = [hits EXCEPT ![r] = IF Matches(hash, f, query[r])
                                                   THEN @ \cup {f} ELSE @]
                    /\ UNCHANGED owed
                 \/ /\ owed' = [owed EXCEPT ![r] = @ \ {f}]
                    /\ UNCHANGED hits
      BY <1>3 DEF ReadMetadata, ReadMetadataFails
    <2>2. mode[r] = "reading" /\ UNCHANGED <<vars, order, batch, mode, walk, query, limit>>
      BY <1>3 DEF ReadMetadata, ReadMetadataFails
    <2>3. hits' \in [Reader -> SUBSET File] /\ owed' \in [Reader -> SUBSET File]
      <3>1. /\ hits \in [Reader -> SUBSET File] /\ owed \in [Reader -> SUBSET File]
            /\ f \in File
        BY DEF IInv, ApiTypeOK
      <3>2. CASE UNCHANGED owed /\ hits' = [hits EXCEPT ![r] = IF Matches(hash, f, query[r])
                                                             THEN @ \cup {f} ELSE @]
        BY <3>1, <3>2
      <3>3. CASE UNCHANGED hits /\ owed' = [owed EXCEPT ![r] = @ \ {f}]
        BY <3>1, <3>3
      <3> QED
        BY <2>1, <3>2, <3>3
    <2>4. ApiTypeOK'
      BY <2>1, <2>2, <2>3 DEF IInv, ApiTypeOK, vars, batch, walk
    <2>5. WalkOf(r)'
      BY <2>2 DEF IInv, WalkOf, walk
    <2>6. /\ ids'[r] = ids[r] \ {f} /\ hash' = hash
          /\ owed'[r] \subseteq owed[r] /\ hits[r] \subseteq hits'[r]
          /\ f \in owed'[r] => f \in hits'[r]
      <3>1. f \in owed[r] => Matches(hash, f, query[r])
        BY DEF IInv, SearchOf
      <3> QED
        BY <2>1, <2>2, <3>1 DEF IInv, ApiTypeOK, vars
    <2>7. SearchOf(r)'
      BY <2>2, <2>6 DEF IInv, SearchOf, Matches
    <2> QED
      BY <2>4, <2>5, <2>7
  <1>4. CASE ReadEnds(r)
    <2>1. ApiTypeOK' /\ WalkOf(r)'
      BY <1>4 DEF ReadEnds, IInv, ApiTypeOK, WalkOf, vars, batch, walk, search
    <2>2. /\ mode[r] = "reading" /\ mode'[r] = "found"
          /\ ids[r] = {} \/ Cardinality(hits[r]) >= limit[r]
          /\ UNCHANGED <<hash, query, limit, ids, hits, owed>>
      BY <1>4 DEF ReadEnds, IInv, ApiTypeOK, vars, search
    <2>3. SearchOf(r)'
      BY <2>2 DEF IInv, SearchOf, Matches
    <2> QED
      BY <2>1, <2>3
  <1> QED
    BY <1>1, <1>2, <1>3, <1>4

LEMMA ReaderKeeps ==
    ASSUME IInv, NEW r \in Reader, ReaderStep(r)
    PROVE  ApiTypeOK' /\ WalkOf(r)' /\ SearchOf(r)'
  <1>1. CASE WalkBegins(r)
    <2>1. ApiTypeOK'
      BY <1>1 DEF WalkBegins, IInv, ApiTypeOK, vars, batch, search
    <2>2. /\ mode[r] = "none" /\ mode'[r] = "keys" /\ steady'[r]
          /\ UNCHANGED <<order, cursor, got, hash, search>>
      BY <1>1 DEF WalkBegins, IInv, ApiTypeOK, vars
    <2>3. Len(order) \in Nat /\ SubSeq(order, 1, 0) = <<>>
      BY OrderIsSeq, SubSeqEmpty DEF IInv, ApiTypeOK, CallInv, TypeOK
    <2>4. cursor'[r] = 0 /\ got'[r] = <<>> /\ order' = order
      BY <2>2 DEF IInv, WalkOf
    <2>5. got'[r] = SubSeq(order', 1, cursor'[r])
      BY <2>3, <2>4, Zenon
    <2>6. WalkOf(r)'
      BY <2>2, <2>3, <2>4, <2>5 DEF WalkOf
    <2>7. SearchOf(r)'
      BY <2>2 DEF IInv, SearchOf, Matches, search
    <2> QED
      BY <2>1, <2>6, <2>7
  <1>2. CASE handleKVKeys(r)
    <2>1. SearchOf(r)'
      <3>1. mode'[r] \in {"keys", "whole"} /\ UNCHANGED <<hash, search>>
        BY <1>2 DEF handleKVKeys, IInv, ApiTypeOK, vars
      <3> QED
        BY <3>1 DEF IInv, SearchOf, Matches, search
    <2> QED
      BY <1>2, <2>1, WalkKeeps
  <1>3. CASE Answered(r)
    <2>1. ApiTypeOK'
      BY <1>3 DEF Answered, IInv, ApiTypeOK, vars, batch
    <2>2. WalkOf(r)' /\ SearchOf(r)'
      BY <1>3 DEF Answered, IInv, ApiTypeOK, WalkOf, SearchOf, vars
    <2> QED
      BY <2>1, <2>2
  <1> QED
    BY <1>1, <1>2, <1>3, SearchKeeps DEF ReaderStep

\* A reader works on its own variables, and changes nothing that is stored.
LEMMA ReaderLeavesOthers ==
    ASSUME IInv, NEW r \in Reader, ReaderStep(r)
    PROVE  /\ CallInv'
           /\ \A b \in Batcher : BatchOf(b)'
           /\ \A s \in Reader : WalkOf(s)' /\ SearchOf(s)'
  <1>1. UNCHANGED <<vars, batch, order>>
    BY ReaderCalls
  <1>2. CallInv'
    BY <1>1, StoreKept, ApiAssumption DEF IInv
  <1>3. \A b \in Batcher : BatchOf(b)'
    BY <1>1, BatchKept DEF vars, batch
  <1>4. \A s \in Reader \ {r} :
            /\ mode'[s] = mode[s] /\ cursor'[s] = cursor[s] /\ got'[s] = got[s]
            /\ steady'[s] = steady[s] /\ query'[s] = query[s] /\ limit'[s] = limit[s]
            /\ ids'[s] = ids[s] /\ hits'[s] = hits[s] /\ owed'[s] = owed[s]
    BY DEF ReaderStep, WalkBegins, handleKVKeys, handleSearchMetadata, handleListMetadata,
           ReadIds, ReadMetadata, ReadMetadataFails, ReadEnds, Answered, IInv, ApiTypeOK,
           walk, search
  <1>5. \A s \in Reader \ {r} : WalkOf(s)' /\ SearchOf(s)'
    BY <1>1, <1>4 DEF IInv, WalkOf, SearchOf, Matches, vars
  <1> QED
    BY <1>2, <1>3, <1>5, ReaderKeeps

-----------------------------------------------------------------------------
(* Theorems                                                                *)

LEMMA Initially == ApiInit => IInv
  <1> SUFFICES ASSUME ApiInit
               PROVE  IInv
    OBVIOUS
  <1>1. CallInv
    BY InitAtomic DEF ApiInit, AtomicInv, CallInv
  <1>2. order \in Orders(index)
    BY EmptyOrder DEF ApiInit, Init
  <1>3. ApiTypeOK
    BY <1>2 DEF ApiInit, ApiTypeOK
  <1>4. \A r \in Batcher : BatchOf(r)
    BY ApiAssumption DEF ApiInit, Init, BatchOf
  <1>5. \A r \in Reader : WalkOf(r) /\ SearchOf(r)
    BY DEF ApiInit, WalkOf, SearchOf
  <1> QED
    BY <1>1, <1>3, <1>4, <1>5 DEF IInv, ApiInit

LEMMA Inductive == IInv /\ [ApiNext]_apiVars => IInv'
  <1> SUFFICES ASSUME IInv, [ApiNext]_apiVars
               PROVE  IInv'
    OBVIOUS
  <1>1. CASE UNCHANGED apiVars
    BY <1>1 DEF apiVars, vars, args, batch, walk, search, IInv, ApiTypeOK, CallInv, TypeOK,
                ArgInv, BatchOf, WalkOf, SearchOf, Matches
  <1>2. ASSUME NEW r \in Request \ (Batcher \cup Reader), PlainStep(r), UNCHANGED company
        PROVE  IInv'
    BY <1>2, PlainKeeps
  <1>3. ASSUME NEW r \in Batcher, BatchStep(r), UNCHANGED company
        PROVE  IInv'
    <2>1. CallInv'
      BY <1>3, BatchCalls, StoreKept, ApiAssumption DEF IInv
    <2> QED
      BY <1>3, <2>1, BatchKeeps, BatchLeavesOthers DEF IInv
  <1>4. ASSUME NEW r \in Reader, ReaderStep(r), UNCHANGED company
        PROVE  IInv'
    BY <1>4, ReaderKeeps, ReaderLeavesOthers DEF IInv
  <1> QED
    BY <1>1, <1>2, <1>3, <1>4, ApiAssumption DEF ApiNext, IInv

\* The list of results grows only when an item is over.
LEMMA OnlyReportsReport ==
    ASSUME results \in [Batcher -> Seq({"ok", "error"})], ApiNext,
           NEW r \in Batcher, Len(results[r]') > Len(results[r])
    PROVE  BatchNoHash(r) \/ BatchItemEnds(r)
  <1>1. Len(results[r]) \in Nat
    BY EmptySeq
  <1>2. results' # results
    BY <1>1
  <1>3. PICK s \in Batcher : BatchStep(s)
    BY <1>2, ReaderCalls DEF ApiNext, PlainStep, batch
  <1>4. ~BatchResponds(s)
    BY <1>1 DEF BatchResponds
  <1>5. BatchNoHash(s) \/ BatchItemEnds(s)
    BY <1>2, <1>3, <1>4 DEF BatchStep, handleBatchUpdate, BatchMetadata, BatchProperty,
                            BatchCall, BatchCallFails
  <1>6. s = r
    BY <1>1, <1>5 DEF BatchNoHash, BatchItemEnds, BatchReport
  <1> QED
    BY <1>5, <1>6

THEOREM InvHolds == ApiSpec => []IInv
  BY Initially, Inductive, PTL DEF ApiSpec

\* A client that follows the cursor to the end has every key once, when the
\* index did not change meanwhile (handleKVKeys).
THEOREM WalkHolds == ApiSpec => []WalkIsWhole
  <1>1. IInv => WalkIsWhole
    <2> SUFFICES ASSUME IInv, NEW r \in Reader, mode[r] = "whole", steady[r]
                 PROVE  /\ Len(got[r]) = Cardinality(index)
                        /\ index = {got[r][i] : i \in DOMAIN got[r]}
      BY DEF WalkIsWhole
    <2>1. got[r] = order
      BY DEF IInv, WalkOf
    <2>2. /\ Len(order) = Cardinality(index)
          /\ index = {order[i] : i \in DOMAIN order}
      <3>1. index \in SUBSET File /\ order \in Orders(index)
        BY DEF IInv, ApiTypeOK, CallInv, TypeOK
      <3> QED
        BY <3>1, OrderIsSeq
    <2>3. Len(got[r]) = Cardinality(index)
      BY <2>1, <2>2, Zenon
    <2>4. index = {got[r][i] : i \in DOMAIN got[r]}
      BY <2>1, <2>2
    <2> QED
      BY <2>3, <2>4
  <1> QED
    BY <1>1, InvHolds, PTL

\* A list or a search names what matched all the time, whatever else it met
\* (handleSearchMetadata, handleListMetadata).
THEOREM SearchHolds == ApiSpec => []SearchFinds
  <1>1. IInv => SearchFinds
    BY DEF IInv, SearchOf, SearchFinds
  <1> QED
    BY <1>1, InvHolds, PTL

\* A batch reports "ok" for exactly the items all of whose calls went through
\* (handleBatchUpdate).
THEOREM BatchHolds == ApiSpec => BatchTellsTruth
  <1> DEFINE Told(r) ==
          Len(results[r]') > Len(results[r]) =>
              LET item == Head(updates[r])
              IN  results[r]'[Len(results[r]')] = "ok" <=>
                      item.file # Any /\ done[r] = Calls(item)
  <1>1. IInv /\ [ApiNext]_apiVars => [\A r \in Batcher : Told(r)]_apiVars
    <2> SUFFICES ASSUME IInv, ApiNext, NEW r \in Batcher, Len(results[r]') > Len(results[r])
                 PROVE  LET item == Head(updates[r])
                        IN  results[r]'[Len(results[r]')] = "ok" <=>
                                item.file # Any /\ done[r] = Calls(item)
      OBVIOUS
    <2> DEFINE item == Head(updates[r])
    <2>1. results \in [Batcher -> Seq({"ok", "error"})]
      BY DEF IInv, ApiTypeOK
    <2>2. BatchNoHash(r) \/ BatchItemEnds(r)
      BY <2>1, OnlyReportsReport
    <2>3. \A status : BatchReport(r, status) => results'[r][Len(results'[r])] = status
      BY <2>1, AppendProperties DEF BatchReport
    <2>4. CASE BatchNoHash(r)
      BY <2>3, <2>4 DEF BatchNoHash
    <2>5. CASE BatchItemEnds(r)
      <3>1. /\ item.file # Any
            /\ done[r] + Cardinality(rest[r]) + (IF updateErr[r] THEN 1 ELSE 0) = Calls(item)
        BY <2>5 DEF BatchItemEnds, IInv, BatchOf
      <3>2. done[r] \in Nat /\ Cardinality(rest[r]) \in Nat
        BY FieldsFinite DEF IInv, ApiTypeOK
      <3>3. ~updateErr[r] => Cardinality(rest[r]) = 0
        BY <2>5, FS_EmptySet DEF BatchItemEnds
      <3>4. done[r] = Calls(item) <=> ~updateErr[r]
        BY <3>1, <3>2, <3>3
      <3>5. BatchReport(r, IF updateErr[r] THEN "error" ELSE "ok")
        BY <2>5 DEF BatchItemEnds
      <3> QED
        BY <2>3, <3>1, <3>4, <3>5
    <2> QED
      BY <2>2, <2>4, <2>5
  <1> QED
    BY <1>1, InvHolds, PTL DEF ApiSpec, BatchTellsTruth

-----------------------------------------------------------------------------
(* The store under the API                                                 *)

\* Every step of the API is one of the storage client, a call that fails, or
\* none of the store's business.
LEMMA ApiCalls ==
    ASSUME IInv, [ApiNext]_apiVars
    PROVE  \/ \E r \in Request : Step(r)
           \/ \E r \in Request : CallFails(r) /\ pc[r] \in Failing
           \/ UNCHANGED vars
  <1>1. CASE UNCHANGED apiVars
    BY <1>1 DEF apiVars
  <1>2. ASSUME NEW r \in Request, PlainStep(r)
        PROVE  Step(r)
    BY <1>2 DEF PlainStep
  <1>3. ASSUME NEW r \in Reader, ReaderStep(r)
        PROVE  UNCHANGED vars
    BY <1>3, ReaderCalls
  <1>4. company \subseteq Request
    BY ApiAssumption DEF IInv
  <1> QED
    BY <1>1, <1>2, <1>3, <1>4, BatchCalls, ApiAssumption DEF ApiNext

\* The handlers change the store by calls of the storage client alone: where
\* its commands may fail, what holds of the client for all requests holds
\* under the API.
THEOREM CallsOnly == ASSUME MayFail PROVE ApiSpec => Spec
  <1>1. ApiInit => Init
    BY DEF ApiInit
  <1>2. IInv /\ [ApiNext]_apiVars => [Next]_vars
    <2> SUFFICES ASSUME IInv, [ApiNext]_apiVars
                 PROVE  [Next]_vars
      OBVIOUS
    <2>1. ASSUME NEW r \in Request, CallFails(r), pc[r] \in Failing
          PROVE  Step(r)
      BY <2>1, ApiAssumption DEF CallFails, CommandFails, Step
    <2> QED
      BY <2>1, ApiCalls DEF Next
  <1> QED
    BY <1>1, <1>2, InvHolds, PTL DEF ApiSpec, Spec

\* Under the handlers too each call of the client acts on the stored fields once,
\* in one step, as FieldStore says, and AddToSet removes no member that another
\* request has put in: with one process where clients add to sets or clear, with
\* any number where they do not.
THEOREM ApiAtomic ==
    ASSUME MayFail, LocksAlone
    PROVE  ApiSpec => ImplementsFieldStore /\ AddKeepsMembers
  <1>1. AddsAlone
    BY DEF LocksAlone, AddsAlone
  <1> QED
    BY <1>1, CallsOnly, Atomicity, AddKeeps, PTL

\* A call of a batch that fails in its SADD is one that IndexServed rules out.
LEMMA FailureLists ==
    ASSUME Apart, ListInv, IInv, NEW r \in Request, CallFails(r), pc[r] \in Failing,
           IndexServed
    PROVE  ListInv'
  <1>1. pc[r] \in {"hmset", "sadd"}
    BY ApiAssumption DEF IInv, CallInv, TypeOK, ReadPC, WritePC
  <1>2. /\ pc' = [pc EXCEPT ![r] = "idle"] /\ file' = [file EXCEPT ![r] = NoFile]
        /\ todo' = [todo EXCEPT ![r] = {}] /\ UNCHANGED <<hash, index>>
    BY DEF CallFails, Return, Goto
  <1>3. TypeOK' /\ ArgInv'
    BY StoreKept DEF ListInv, CallInv
  <1>4. MutexInv'
    BY <1>1, <1>2 DEF ListInv, MutexInv, TypeOK, WritePC
  <1>5. StoredIsListed'
    <2>1. pc[r] = "sadd" => file[r] \in index
      BY <1>2 DEF IndexServed, ListInv, TypeOK
    <2> QED
      BY <1>1, <1>2, <2>1 DEF ListInv, StoredIsListed, Stored, TypeOK
  <1>6. \A s \in Request :
            /\ pc'[s] = "srem" => ~Stored(file[s])'
            /\ pc'[s] = "clear" => \A f \in File : Stored(f)' => f \in todo'[s]
    BY <1>2 DEF ListInv, Stored, TypeOK
  <1>7. OfferedInv'
    BY <1>2 DEF ListInv, OfferedInv, TypeOK
  <1> QED
    BY <1>3, <1>4, <1>5, <1>6, <1>7 DEF ListInv

\* Every step of the handlers keeps the invariant of the index.
LEMMA ApiListStep ==
    ASSUME Apart, IInv, ListInv, [ApiNext]_apiVars, [IndexServed]_vars
    PROVE  ListInv'
  <1>1. CASE UNCHANGED vars
    BY <1>1, ListStep
  <1>2. ASSUME NEW r \in Request, Step(r)
        PROVE  ListInv'
    <2>1. Next
      BY <1>2 DEF Next
    <2> QED
      BY <2>1, ListStep
  <1>3. ASSUME NEW r \in Request, CallFails(r), pc[r] \in Failing, IndexServed
        PROVE  ListInv'
    BY <1>3, FailureLists
  <1> QED
    BY <1>1, <1>2, <1>3, ApiCalls

\* A batch may lose its HMSET without harm to the index, not its SADD.
IndexSafe == Undisturbed /\ "sadd" \notin Failing

LEMMA ApiServed ==
    ASSUME IndexSafe, IInv, ListInv, [ApiNext]_apiVars
    PROVE  [IndexServed]_vars
  <1>1. CASE UNCHANGED vars
    BY <1>1
  <1>2. ASSUME NEW r \in Request, Step(r)
        PROVE  [IndexServed]_vars
    <2>1. Next
      BY <1>2 DEF Next
    <2> QED
      BY <2>1, ServedWithoutFailure DEF IndexSafe
  <1>3. ASSUME NEW r \in Request, CallFails(r), pc[r] \in Failing
        PROVE  IndexServed
    <2>1. pc[r] = "hmset"
      BY <1>3, ApiAssumption DEF IndexSafe, IInv, CallInv, TypeOK, ReadPC, WritePC
    <2>2. pc' = [pc EXCEPT ![r] = "idle"] /\ \A s \in Request \ {r} : pc'[s] = pc[s] /\ todo'[s] = todo[s]
      BY <1>3 DEF CallFails, Return, Goto, IInv, CallInv, TypeOK
    <2> QED
      BY <2>1, <2>2 DEF IndexServed, IInv, CallInv, TypeOK
  <1> QED
    BY <1>1, <1>2, <1>3, ApiCalls

\* The index lists what is stored, however many calls of a batch or commands of
\* another request fail, as long as the two commands of IndexServed do their
\* work.
THEOREM ApiIndexDepends ==
    ASSUME Apart
    PROVE  ApiSpec /\ [][IndexServed]_vars => []StoredIsListed
  <1>1. ApiInit => ListInv
    BY InitListed DEF ApiInit
  <1>2. IInv /\ ListInv /\ [ApiNext]_apiVars /\ [IndexServed]_vars => ListInv'
    BY ApiListStep
  <1>3. ListInv => StoredIsListed
    BY DEF ListInv
  <1> QED
    BY <1>1, <1>2, <1>3, InvHolds, PTL DEF ApiSpec

THEOREM ListHolds == ASSUME IndexSafe PROVE ApiSpec => []ListInv
  <1>1. ApiInit => ListInv
    BY InitListed DEF ApiInit
  <1>2. IInv /\ ListInv /\ [ApiNext]_apiVars => ListInv'
    BY ApiListStep, ApiServed DEF IndexSafe, Undisturbed
  <1> QED
    BY <1>1, <1>2, InvHolds, PTL DEF ApiSpec

\* Where nothing else fails and deletions have the process to themselves, a
\* file with metadata is listed as soon as its call returns, that of a batch
\* whose HMSET may fail included.
THEOREM ListedHolds == ASSUME IndexSafe PROVE ApiSpec => []StoredIsListed
  <1>1. ListInv => StoredIsListed
    BY DEF ListInv
  <1> QED
    BY <1>1, ListHolds, PTL

\* Under the same conditions a clear leaves nothing behind, batches and pages
\* that are half way included.
THEOREM ClearHolds == ASSUME IndexSafe PROVE ApiSpec => ClearEmpties
  <1>1. ListInv => (\A r \in Request :
                        ClearIndex(r) => index' = {} /\ \A f \in File : ~Stored(f)')
    <2> SUFFICES ASSUME ListInv, NEW r \in Request, ClearIndex(r)
                 PROVE  index' = {} /\ \A f \in File : ~Stored(f)'
      OBVIOUS
    <2>1. \A f \in File : ~Stored(f)
      BY DEF ListInv, ClearIndex
    <2> QED
      BY <2>1 DEF ClearIndex, Stored, IndexSafe, Undisturbed
  <1>2. ListInv => [\A r \in Request :
                        ClearIndex(r) => index' = {} /\ \A f \in File : ~Stored(f)']_vars
    BY <1>1
  <1> QED
    BY <1>2, ListHolds, PTL DEF ClearEmpties
=============================================================================
