---------------------------------- MODULE Api ----------------------------------
(***************************************************************************)
(* The handlers of the HTTP API that make several calls of storage.Client  *)
(* (internal/api/metadata.go, kv.go), beside those that make one, which    *)
(* are the requests of MetadataStore. A batch update calls SetMetadataFlat *)
(* and SetProperty in turn; a client pages through the keys, with a        *)
(* position that it brings along; a list and a search first ask for all    *)
(* hash IDs, then for the metadata of one after the other. Between two     *)
(* calls a handler holds no lock and other requests change what it works   *)
(* on.                                                                     *)
(***************************************************************************)
EXTENDS MetadataStore, Sequences, FiniteSets

CONSTANTS Batcher,   \* requests of POST /api/metadata/batch
          Batches,   \* the updates they may bring
          Reader,    \* clients that page, list or search, one request at a time
          PageSize,  \* of the key listing
          Limits,    \* of lists and searches
          Any,       \* the search without a query
          Failing,   \* commands of a batch or a search that may fail
          Companies  \* who is there at once: see company

Item == [file : File \cup {Any}, metadata : SUBSET Field, properties : SUBSET Field,
         value : Value]

ASSUME ApiAssumption ==
    /\ IsFiniteSet(File) /\ IsFiniteSet(Field)
    /\ {"set", "property"} \subseteq Workload
    /\ Batcher \subseteq Request /\ Reader \subseteq Request
    /\ Batcher \cap Reader = {}
    /\ Batches \subseteq Seq(Item) \ {<<>>}
    /\ PageSize \in Nat \ {0}
    /\ Limits \subseteq Nat \ {0}
    /\ Any \notin File \cup Value
    /\ Failing \subseteq {"hmset", "sadd", "hgetall"}
    /\ Companies \subseteq SUBSET Request

VARIABLES
    company,    \* requests there are; chosen at first, for TLC to take them in turn
    order,      \* the order in which SMEMBERS returns the index
    \* of a batch
    updates,    \* items left, the present one first
    stage,      \* "none", "metadata", "properties", "respond"
    rest,       \* properties of the item still to set
    updateErr,  \* whether a call for the item has failed
    done,       \* history: how many calls for the item have gone through
    results,    \* "ok" or "error", item by item
    \* of a reader
    mode,       \* "none", "keys", "reading"; "whole" and "found" when it is over
    cursor,
    got,        \* the keys of the pages so far
    steady,     \* history: the index has not changed since the first page
    query, limit,
    ids,        \* hash IDs still to look at
    hits,
    owed        \* history: IDs of the list whose metadata has matched all along

batch == <<updates, stage, rest, updateErr, done, results>>
walk == <<cursor, got, steady>>
search == <<query, limit, ids, hits, owed>>
apiVars == <<vars, company, order, batch, mode, walk, search>>

ApiInit ==
    /\ Init
    /\ company \in Companies
    /\ order = <<>>
    /\ updates = [r \in Batcher |-> <<>>]
    /\ stage = [r \in Batcher |-> "none"]
    /\ rest = [r \in Batcher |-> {}]
    /\ updateErr = [r \in Batcher |-> FALSE]
    /\ done = [r \in Batcher |-> 0]
    /\ results = [r \in Batcher |-> <<>>]
    /\ mode = [r \in Reader |-> "none"]
    /\ cursor = [r \in Reader |-> 0]
    /\ got = [r \in Reader |-> <<>>]
    /\ steady = [r \in Reader |-> FALSE]
    /\ query = [r \in Reader |-> Any]
    /\ limit = [r \in Reader |-> 0]
    /\ ids = [r \in Reader |-> {}]
    /\ hits = [r \in Reader |-> {}]
    /\ owed = [r \in Reader |-> {}]

\* strings.Contains on the search fields: some field has what is asked for.
Matches(h, f, q) ==
    IF q = Any THEN h[f] # NoFields ELSE \E p \in Field : q \in h[f][p]

\* SMEMBERS promises no order. It keeps one while the set does not change.
Orders(s) == {o \in [1..Cardinality(s) -> s] : \A f \in s : \E i \in DOMAIN o : o[i] = f}

\* What a change of the store means to readers who are under way.
Noticed ==
    /\ IF index' = index THEN UNCHANGED order ELSE order' \in Orders(index')
    /\ steady' = IF index' = index THEN steady ELSE [r \in Reader |-> FALSE]
    /\ owed' = [r \in Reader |-> {f \in owed[r] : Matches(hash', f, query[r])}]

-----------------------------------------------------------------------------
(* handleBatchUpdate                                                       *)

handleBatchUpdate(r) ==
    /\ stage[r] = "none"
    /\ \E items \in Batches : updates' = [updates EXCEPT ![r] = items]
    /\ stage' = [stage EXCEPT ![r] = "metadata"]
    /\ UNCHANGED <<vars, order, rest, updateErr, done, results, mode, walk, search>>

BatchReport(r, status) ==
    /\ results' = [results EXCEPT ![r] = Append(@, status)]
    /\ updates' = [updates EXCEPT ![r] = Tail(@)]
    /\ stage' = [stage EXCEPT ![r] = IF Len(updates[r]) = 1 THEN "respond" ELSE "metadata"]
    /\ rest' = [rest EXCEPT ![r] = {}]
    /\ updateErr' = [updateErr EXCEPT ![r] = FALSE]
    /\ done' = [done EXCEPT ![r] = 0]
    /\ UNCHANGED <<vars, order, mode, walk, search>>

BatchNoHash(r) ==
    /\ stage[r] = "metadata"
    /\ Head(updates[r]).file = Any
    /\ BatchReport(r, "error")

\* An item without metadata, or with an empty map, makes no Redis command.
BatchMetadata(r) ==
    /\ stage[r] = "metadata"
    /\ Head(updates[r]).file # Any
    /\ LET item == Head(updates[r])
       IN  /\ IF item.metadata # {}
              THEN /\ CanRLock(r)
                   /\ pc[r] = "idle"
                   /\ file' = [file EXCEPT ![r] = item.file]
                   /\ names' = [names EXCEPT ![r] = item.metadata]
                   /\ value' = [value EXCEPT ![r] = item.value]
                   /\ Goto(r, "hmset")
                   /\ UNCHANGED <<hash, index, seen, todo>>
              ELSE UNCHANGED vars
           /\ rest' = [rest EXCEPT ![r] = item.properties]
    /\ stage' = [stage EXCEPT ![r] = "properties"]
    /\ UNCHANGED <<order, updates, updateErr, done, results, mode, walk, search>>

BatchProperty(r) ==
    /\ stage[r] = "properties"
    /\ pc[r] = "idle"
    /\ ~updateErr[r]
    /\ CanRLock(r)
    /\ \E p \in rest[r] :
          /\ rest' = [rest EXCEPT ![r] = @ \ {p}]
          /\ names' = [names EXCEPT ![r] = {p}]
    /\ file' = [file EXCEPT ![r] = Head(updates[r]).file]
    /\ value' = [value EXCEPT ![r] = Head(updates[r]).value]
    /\ Goto(r, "hmset")
    /\ UNCHANGED <<hash, index, seen, todo, order, updates, stage, updateErr, done,
                   results, mode, walk, search>>

\* The storage client goes on with the call.
BatchCall(r) ==
    /\ stage[r] = "properties"
    /\ HMSet(r) \/ SAdd(r)
    /\ done' = [done EXCEPT ![r] = IF pc[r] = "sadd" THEN @ + 1 ELSE @]
    /\ Noticed
    /\ UNCHANGED <<updates, stage, rest, updateErr, results, mode, cursor, got,
                   query, limit, ids, hits>>

\* Mutant of BatchCallFails: the error of a property stays in the loop's err.
BatchErrorShadowed(r) ==
    /\ stage[r] = "properties"
    /\ pc[r] \in Failing
    /\ Return(r)
    /\ updateErr' = [updateErr EXCEPT ![r] = rest[r] = Head(updates[r]).properties]
    /\ UNCHANGED <<hash, index, order, updates, stage, rest, done, results, mode, walk,
                   search>>

BatchCallFails(r) ==
    /\ stage[r] = "properties"
    /\ pc[r] \in Failing
    /\ Return(r)
    /\ updateErr' = [updateErr EXCEPT ![r] = TRUE]
    /\ UNCHANGED <<hash, index, order, updates, stage, rest, done, results, mode, walk,
                   search>>

\* After an error the properties that are left are not tried.
BatchItemEnds(r) ==
    /\ stage[r] = "properties"
    /\ pc[r] = "idle"
    /\ updateErr[r] \/ rest[r] = {}
    /\ BatchReport(r, IF updateErr[r] THEN "error" ELSE "ok")

BatchResponds(r) ==
    /\ stage[r] = "respond"
    /\ stage' = [stage EXCEPT ![r] = "none"]
    /\ results' = [results EXCEPT ![r] = <<>>]
    /\ UNCHANGED <<vars, order, updates, rest, updateErr, done, mode, walk, search>>

-----------------------------------------------------------------------------
(* handleKVKeys, called until hasMore is false                             *)

WalkBegins(r) ==
    /\ mode[r] = "none"
    /\ mode' = [mode EXCEPT ![r] = "keys"]
    /\ steady' = [steady EXCEPT ![r] = TRUE]
    /\ UNCHANGED <<vars, order, batch, cursor, got, search>>

\* allHashIDs[from:end], end being cut to the length.
Page(from, count) ==
    SubSeq(order, from + 1, IF from + count > Len(order) THEN Len(order) ELSE from + count)

\* Mutant of HasMore: it counts to the last key, not past it.
HasMoreEarly(next) == next + 1 < Len(order)

HasMore(next) == next < Len(order)

handleKVKeys(r) ==
    /\ mode[r] = "keys"
    /\ CanRLock(r)
    /\ LET keys == Page(cursor[r], PageSize)
           next == cursor[r] + Len(keys)
       IN  /\ got' = [got EXCEPT ![r] = @ \o keys]
           /\ cursor' = [cursor EXCEPT ![r] = IF HasMore(next) THEN next ELSE 0]
           /\ mode' = [mode EXCEPT ![r] = IF HasMore(next) THEN "keys" ELSE "whole"]
    /\ UNCHANGED <<vars, order, batch, steady, search>>

-----------------------------------------------------------------------------
(* handleSearchMetadata, handleListMetadata                                *)

ReadIds(r, list, q, n) ==
    /\ mode[r] = "none"
    /\ CanRLock(r)
    /\ mode' = [mode EXCEPT ![r] = "reading"]
    /\ query' = [query EXCEPT ![r] = q]
    /\ limit' = [limit EXCEPT ![r] = n]
    /\ ids' = [ids EXCEPT ![r] = list]
    /\ owed' = [owed EXCEPT ![r] = {f \in list : Matches(hash, f, q)}]
    /\ UNCHANGED <<vars, order, batch, walk, hits>>

handleSearchMetadata(r) ==
    \E q \in Value \cup {Any}, n \in Limits : ReadIds(r, index, q, n)

handleListMetadata(r) ==
    \E from \in 0..Cardinality(File), n \in Limits :
        LET page == Page(from, n)
        IN  ReadIds(r, {page[i] : i \in DOMAIN page}, Any, n)

\* Mutant of ReadMetadata: an ID without metadata ends the search.
ReadMetadataOrEnd(r) ==
    /\ mode[r] = "reading"
    /\ CanRLock(r)
    /\ Cardinality(hits[r]) < limit[r]
    /\ \E f \in ids[r] :
          /\ ids' = [ids EXCEPT ![r] = IF hash[f] = NoFields THEN {} ELSE @ \ {f}]
          /\ hits' = [hits EXCEPT ![r] = IF Matches(hash, f, query[r]) THEN @ \cup {f} ELSE @]
    /\ UNCHANGED <<vars, order, batch, mode, walk, query, limit, owed>>

\* GetMetadataFlat of the next; one without metadata is passed over.
ReadMetadata(r) ==
    /\ mode[r] = "reading"
    /\ CanRLock(r)
    /\ Cardinality(hits[r]) < limit[r]
    /\ \E f \in ids[r] :
          /\ ids' = [ids EXCEPT ![r] = @ \ {f}]
          /\ hits' = [hits EXCEPT ![r] = IF Matches(hash, f, query[r]) THEN @ \cup {f} ELSE @]
    /\ UNCHANGED <<vars, order, batch, mode, walk, query, limit, owed>>

\* And so is one that cannot be read.
ReadMetadataFails(r) ==
    /\ mode[r] = "reading"
    /\ "hgetall" \in Failing
    /\ Cardinality(hits[r]) < limit[r]
    /\ \E f \in ids[r] :
          /\ ids' = [ids EXCEPT ![r] = @ \ {f}]
          /\ owed' = [owed EXCEPT ![r] = @ \ {f}]
    /\ UNCHANGED <<vars, order, batch, mode, walk, query, limit, hits>>

ReadEnds(r) ==
    /\ mode[r] = "reading"
    /\ ids[r] = {} \/ Cardinality(hits[r]) >= limit[r]
    /\ mode' = [mode EXCEPT ![r] = "found"]
    /\ UNCHANGED <<vars, order, batch, walk, search>>

\* The client has its answer.
Answered(r) ==
    /\ mode[r] \in {"whole", "found"}
    /\ mode' = [mode EXCEPT ![r] = "none"]
    /\ got' = [got EXCEPT ![r] = <<>>]
    /\ steady' = [steady EXCEPT ![r] = FALSE]
    /\ query' = [query EXCEPT ![r] = Any]
    /\ limit' = [limit EXCEPT ![r] = 0]
    /\ ids' = [ids EXCEPT ![r] = {}]
    /\ hits' = [hits EXCEPT ![r] = {}]
    /\ owed' = [owed EXCEPT ![r] = {}]
    /\ UNCHANGED <<vars, order, batch, cursor>>

-----------------------------------------------------------------------------
PlainStep(r) ==
    /\ Step(r)
    /\ Noticed
    /\ UNCHANGED <<batch, mode, cursor, got, query, limit, ids, hits>>

BatchStep(r) ==
    \/ handleBatchUpdate(r) \/ BatchNoHash(r) \/ BatchMetadata(r) \/ BatchProperty(r)
    \/ BatchCall(r) \/ BatchCallFails(r) \/ BatchItemEnds(r) \/ BatchResponds(r)

ReaderStep(r) ==
    \/ WalkBegins(r) \/ handleKVKeys(r)
    \/ handleSearchMetadata(r) \/ handleListMetadata(r)
    \/ ReadMetadata(r) \/ ReadMetadataFails(r) \/ ReadEnds(r) \/ Answered(r)

ApiNext ==
    /\ \/ \E r \in company \ (Batcher \cup Reader) : PlainStep(r)
       \/ \E r \in company \cap Batcher : BatchStep(r)
       \/ \E r \in company \cap Reader : ReaderStep(r)
    /\ UNCHANGED company

ApiSpec == ApiInit /\ [][ApiNext]_apiVars

-----------------------------------------------------------------------------
(* Properties. StoredIsListed and ClearEmpties of MetadataStore hold too.  *)

\* What an item takes: a call for its metadata, and one for each property.
Calls(item) == (IF item.metadata = {} THEN 0 ELSE 1) + Cardinality(item.properties)

\* An item of a batch is reported "ok" exactly when all its calls went
\* through, fields stored and file listed. No error is lost on the way, to a
\* later call or to the next item.
BatchTellsTruth ==
    [][\A r \in Batcher :
          Len(results[r]') > Len(results[r]) =>
              LET item == Head(updates[r])
              IN  results[r]'[Len(results[r]')] = "ok" <=>
                      item.file # Any /\ done[r] = Calls(item)]_apiVars

\* A client that follows the cursor to the end has every key, and has it
\* once, when the index did not change meanwhile. (When it did, it may miss
\* keys and have others twice: the cursor is a position.)
WalkIsWhole ==
    \A r \in Reader :
        mode[r] = "whole" /\ steady[r] =>
            /\ Len(got[r]) = Cardinality(index)
            /\ index = {got[r][i] : i \in DOMAIN got[r]}

\* A list or a search names every file of its IDs whose metadata matched all
\* the time, whatever it met on the way: index entries without metadata,
\* which DeleteProperty leaves, and files that come and go.
SearchFinds ==
    \A r \in Reader :
        mode[r] = "found" => owed[r] \subseteq hits[r] \/ Cardinality(hits[r]) >= limit[r]
=============================================================================
