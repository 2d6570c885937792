---------------------------- MODULE MetadataStore ----------------------------
(***************************************************************************)
(* File metadata in Redis as storage.Client keeps it (internal/storage):   *)
(* one Redis hash per file and one set, file:__index__, of the files that  *)
(* have one. Each operation is a short sequence of Redis commands. A Redis *)
(* command is atomic, the sequence is not.                                 *)
(*                                                                         *)
(* A request is one HTTP handler of one meta-core process. Client.mu, a    *)
(* sync.RWMutex, belongs to the process; the processes that follow one     *)
(* leader share its Redis and nothing else. Who holds the mutex is read    *)
(* off the program counters: an operation holds it from its first command  *)
(* to its return. Requests whose process has no client return an error     *)
(* before any command and are left out.                                    *)
(*                                                                         *)
(* A field is the set of values in its pipe-delimited string, {} when the  *)
(* hash does not have it. Values are not empty and contain no "|".         *)
(***************************************************************************)
EXTENDS Naturals

CONSTANTS Process,   \* meta-core processes on one Redis
          Request,   \* HTTP requests that may be in flight at once
          Home,      \* the process that serves each request
          File, Field, Value,
          Workload,  \* the operations clients call
          MayFail    \* whether Redis commands can fail

Operations == {"set", "property", "delete", "deleteProperty", "add", "clear"}

ASSUME StoreAssumption ==
    /\ Home \in [Request -> Process]
    /\ Workload \subseteq Operations
    /\ MayFail \in BOOLEAN
    /\ File # {} /\ Value # {}

VARIABLES
    hash,   \* file:{hashId}
    index,  \* file:__index__
    pc,     \* the next Redis command of each request, or "idle"
    file, names, value,  \* its arguments
    seen,   \* what HGET returned to AddToSet
    todo    \* hash IDs ClearAllMetadata has still to delete

args == <<file, names, value>>
vars == <<hash, index, pc, file, names, value, seen, todo>>

NoFields == [p \in Field |-> {}]

\* The arguments of a request that is not in an operation mean nothing.
NoFile  == CHOOSE f \in File : TRUE
NoValue == CHOOSE v \in Value : TRUE

ReadPC  == {"hmset", "sadd", "del", "srem"}
WritePC == {"hget", "hset", "saddSet", "clear"}

TypeOK ==
    /\ hash \in [File -> [Field -> SUBSET Value]]
    /\ index \subseteq File
    /\ pc \in [Request -> {"idle"} \cup ReadPC \cup WritePC]
    /\ file \in [Request -> File]
    /\ names \in [Request -> SUBSET Field]
    /\ value \in [Request -> Value]
    /\ seen \in [Request -> SUBSET Value]
    /\ todo \in [Request -> SUBSET File]

Init ==
    /\ hash = [f \in File |-> NoFields]
    /\ index = {}
    /\ pc = [r \in Request |-> "idle"]
    /\ file = [r \in Request |-> NoFile]
    /\ names = [r \in Request |-> {}]
    /\ value = [r \in Request |-> NoValue]
    /\ seen = [r \in Request |-> {}]
    /\ todo = [r \in Request |-> {}]

Stored(f) == hash[f] # NoFields

\* sync.RWMutex of the process that serves r.
CanRLock(r) == \A s \in Request : Home[s] = Home[r] => pc[s] \notin WritePC

\* Mutant of CanLock: RLock where the code has Lock.
CanLockShared(r) == CanRLock(r)

CanLock(r) == \A s \in Request : Home[s] = Home[r] => pc[s] = "idle"

Goto(r, label) == pc' = [pc EXCEPT ![r] = label]

Call(r, op, f, ps, v, label) ==
    /\ op \in Workload
    /\ pc[r] = "idle"
    /\ file' = [file EXCEPT ![r] = f]
    /\ names' = [names EXCEPT ![r] = ps]
    /\ value' = [value EXCEPT ![r] = v]
    /\ Goto(r, label)

Return(r) ==
    /\ Goto(r, "idle")
    /\ file' = [file EXCEPT ![r] = NoFile]
    /\ value' = [value EXCEPT ![r] = NoValue]
    /\ names' = [names EXCEPT ![r] = {}]
    /\ seen' = [seen EXCEPT ![r] = {}]
    /\ todo' = [todo EXCEPT ![r] = {}]

-----------------------------------------------------------------------------
(* SetMetadataFlat, MergeMetadataFlat, SetProperty: HMSET, then SADD       *)

\* PUT and PATCH of a file's metadata: neither removes a field.
SetMetadataFlat(r) ==
    /\ CanRLock(r)
    /\ \E f \in File, ps \in (SUBSET Field) \ {{}}, v \in Value :
          Call(r, "set", f, ps, v, "hmset")
    /\ UNCHANGED <<hash, index, seen, todo>>

SetProperty(r) ==
    /\ CanRLock(r)
    /\ \E f \in File, p \in Field, v \in Value :
          Call(r, "property", f, {p}, v, "hmset")
    /\ UNCHANGED <<hash, index, seen, todo>>

\* Mutant of HMSet: property and value are swapped.
HMSetSwapped(r) ==
    /\ pc[r] = "hmset"
    /\ hash' = [hash EXCEPT ![file[r]] =
                   [p \in Field |-> IF p \in names[r] THEN {p} ELSE @[p]]]
    /\ Goto(r, "sadd")
    /\ UNCHANGED <<index, args, seen, todo>>

\* Mutant of HMSet: an HSET for each of the properties.
HMSetByField(r) ==
    /\ pc[r] = "hmset"
    /\ \E p \in names[r] :
          /\ hash' = [hash EXCEPT ![file[r]][p] = {value[r]}]
          /\ names' = [names EXCEPT ![r] = @ \ {p}]
          /\ Goto(r, IF names[r] = {p} THEN "sadd" ELSE "hmset")
    /\ UNCHANGED <<index, file, value, seen, todo>>

HMSet(r) ==
    /\ pc[r] = "hmset"
    /\ hash' = [hash EXCEPT ![file[r]] =
                   [p \in Field |-> IF p \in names[r] THEN {value[r]} ELSE @[p]]]
    /\ Goto(r, "sadd")
    /\ UNCHANGED <<index, args, seen, todo>>

SAdd(r) ==
    /\ pc[r] \in {"sadd", "saddSet"}
    /\ index' = index \cup {file[r]}
    /\ Return(r)
    /\ UNCHANGED hash

-----------------------------------------------------------------------------
(* DeleteMetadata: HLEN (only counted), DEL, then SREM; DeleteProperty     *)

DeleteMetadata(r) ==
    /\ CanRLock(r)
    /\ \E f \in File : Call(r, "delete", f, {}, NoValue, "del")
    /\ UNCHANGED <<hash, index, seen, todo>>

Del(r) ==
    /\ pc[r] = "del"
    /\ hash' = [hash EXCEPT ![file[r]] = NoFields]
    /\ Goto(r, "srem")
    /\ UNCHANGED <<index, args, seen, todo>>

SRem(r) ==
    /\ pc[r] = "srem"
    /\ index' = index \ {file[r]}
    /\ Return(r)
    /\ UNCHANGED hash

\* A single HDEL. The index keeps a file that loses its last field.
DeleteProperty(r) ==
    /\ "deleteProperty" \in Workload
    /\ pc[r] = "idle"
    /\ CanRLock(r)
    /\ \E f \in File, p \in Field : hash' = [hash EXCEPT ![f][p] = {}]
    /\ UNCHANGED <<index, pc, args, seen, todo>>

-----------------------------------------------------------------------------
(* AddToSet, under the exclusive lock: HGET, HSET, SADD                    *)

AddToSet(r) ==
    /\ CanLock(r)
    /\ \E f \in File, p \in Field, v \in Value : Call(r, "add", f, {p}, v, "hget")
    /\ UNCHANGED <<hash, index, seen, todo>>

FieldOf(r) == CHOOSE p \in Field : p \in names[r]

HGetNew(r) ==
    /\ pc[r] = "hget"
    /\ value[r] \notin hash[file[r]][FieldOf(r)]
    /\ seen' = [seen EXCEPT ![r] = hash[file[r]][FieldOf(r)]]
    /\ Goto(r, "hset")
    /\ UNCHANGED <<hash, index, args, todo>>

\* The value is there already: AddToSet returns false, without SADD.
HGetPresent(r) ==
    /\ pc[r] = "hget"
    /\ value[r] \in hash[file[r]][FieldOf(r)]
    /\ Return(r)
    /\ UNCHANGED <<hash, index>>

\* Mutant of HSet: AddToSet returns without its SADD.
HSetUnlisted(r) ==
    /\ pc[r] = "hset"
    /\ hash' = [hash EXCEPT ![file[r]] =
                   [p \in Field |->
                       IF p \in names[r] THEN seen[r] \cup {value[r]} ELSE @[p]]]
    /\ Return(r)
    /\ UNCHANGED index

HSet(r) ==
    /\ pc[r] = "hset"
    /\ hash' = [hash EXCEPT ![file[r]] =
                   [p \in Field |->
                       IF p \in names[r] THEN seen[r] \cup {value[r]} ELSE @[p]]]
    /\ Goto(r, "saddSet")
    /\ UNCHANGED <<index, args, seen, todo>>

-----------------------------------------------------------------------------
(* ClearAllMetadata, under the exclusive lock: SMEMBERS, DEL of each file, *)
(* DEL of the index                                                        *)

ClearAllMetadata(r) ==
    /\ "clear" \in Workload
    /\ pc[r] = "idle"
    /\ CanLock(r)
    /\ todo' = [todo EXCEPT ![r] = index]
    /\ Goto(r, "clear")
    /\ UNCHANGED <<hash, index, args, seen>>

\* A DEL that fails is logged and the next one tried.
ClearFile(r) ==
    /\ pc[r] = "clear"
    /\ \E f \in todo[r] :
          /\ todo' = [todo EXCEPT ![r] = @ \ {f}]
          /\ \/ hash' = [hash EXCEPT ![f] = NoFields]
             \/ MayFail /\ UNCHANGED hash
    /\ UNCHANGED <<index, pc, args, seen>>

ClearIndex(r) ==
    /\ pc[r] = "clear"
    /\ todo[r] = {}
    /\ \/ index' = {}
       \/ MayFail /\ UNCHANGED index
    /\ Return(r)
    /\ UNCHANGED hash

-----------------------------------------------------------------------------
\* A command fails, by itself or because the process ends: the operation
\* returns where it is, and what its earlier commands did stays done.
CommandFails(r) ==
    /\ MayFail
    /\ pc[r] # "idle"
    /\ Return(r)
    /\ UNCHANGED <<hash, index>>

Step(r) ==
    \/ SetMetadataFlat(r) \/ SetProperty(r) \/ HMSet(r) \/ SAdd(r)
    \/ DeleteMetadata(r) \/ Del(r) \/ SRem(r) \/ DeleteProperty(r)
    \/ AddToSet(r) \/ HGetNew(r) \/ HGetPresent(r) \/ HSet(r)
    \/ ClearAllMetadata(r) \/ ClearFile(r) \/ ClearIndex(r)
    \/ CommandFails(r)

Next == \E r \in Request : Step(r)

Spec == Init /\ [][Next]_vars

-----------------------------------------------------------------------------
(* What is required of it                                                  *)

\* Between the HGET and the HSET of AddToSet nothing changes the field, so
\* that what is written back still stands for what is stored.
ReadIsFresh ==
    \A r \in Request :
        pc[r] = "hset" =>
            /\ seen[r] = hash[file[r]][FieldOf(r)]
            /\ value[r] \notin seen[r]

\* client.go: "AddToSet adds a value to a set-type field". Adding a value
\* never removes another one.
AddKeepsMembers ==
    [][\A r \in Request :
          HSet(r) => \A p \in Field : hash[file[r]][p] \subseteq hash'[file[r]][p]]_vars

\* client.go: "GetAllHashIDs returns all unique file hash IDs stored". A file
\* with metadata is in the index, or the request that stored it is about to
\* put it there.
StoredIsListed ==
    \A f \in File :
        Stored(f) => \/ f \in index
                     \/ \E r \in Request : file[r] = f /\ pc[r] \in {"sadd", "saddSet"}

\* client.go: "ClearAllMetadata deletes all file metadata and index".
ClearEmpties ==
    [][\A r \in Request :
          ClearIndex(r) => index' = {} /\ \A f \in File : ~Stored(f)']_vars

\* What a request has still to do to the fields, as its caller sees it.
CallOf(r) ==
    CASE pc[r] = "idle"  -> [op |-> "none"]
      [] pc[r] = "hmset" -> [op |-> "put", file |-> file[r], names |-> names[r],
                             value |-> value[r]]
      [] pc[r] \in {"hget", "hset"} ->
                            [op |-> "add", file |-> file[r], field |-> FieldOf(r),
                             value |-> value[r]]
      [] pc[r] = "del"   -> [op |-> "drop", file |-> file[r]]
      [] pc[r] = "clear" -> [op |-> "clear", left |-> todo[r]]
      [] OTHER           -> [op |-> "over"]
CallsNow == [r \in Request |-> CallOf(r)]

\* Every call acts on the stored fields at most once before it returns, in one
\* step, and exactly once if no command fails: a map of metadata is stored
\* whole, a value is added to the field as it is when it is written. A clear
\* drops file by file, and no other call acts in between.
Atomic == INSTANCE FieldStore WITH fields <- hash, call <- CallsNow
ImplementsFieldStore == Atomic!FSpec
=============================================================================
