----------------------------- MODULE FieldStore -----------------------------
(***************************************************************************)
(* What the callers of storage.Client may assume of file metadata. A call  *)
(* says what it is about when it begins, and between its beginning and its *)
(* return it acts on the stored fields once, in one step, as they are at   *)
(* that moment; if it fails, once or not at all. Only a clear takes a step *)
(* for each of the files it began with, and no other call acts in between. *)
(***************************************************************************)
CONSTANTS Request, File, Field, Value,
          MayFail

VARIABLES fields,  \* per file and field, the values it holds; {} is no field
          call     \* what each request has still to do

fvars == <<fields, call>>

None == [op |-> "none"]
Over == [op |-> "over"]  \* it has acted and not returned

Calls ==
    [op : {"put"}, file : File, names : SUBSET Field, value : Value]
        \cup [op : {"add"}, file : File, field : Field, value : Value]
        \cup [op : {"drop"}, file : File]
        \cup [op : {"clear"}, left : SUBSET File]

FInit ==
    /\ fields = [f \in File |-> [p \in Field |-> {}]]
    /\ call = [r \in Request |-> None]

Goes(r, c) == call' = [call EXCEPT ![r] = c]

Begin(r) ==
    /\ call[r] = None
    /\ \E c \in Calls : Goes(r, c)
    /\ UNCHANGED fields

\* No clear of another request is under way.
Undivided(r) == \A s \in Request : call[s].op = "clear" => s = r

\* A plain value is stored over a group of fields of a file.
Put(r) ==
    /\ call[r].op = "put"
    /\ Undivided(r)
    /\ fields' = [fields EXCEPT ![call[r].file] =
                     [p \in Field |-> IF p \in call[r].names THEN {call[r].value} ELSE @[p]]]
    /\ Goes(r, Over)

\* A value is added to a field, whatever this holds.
Add(r) ==
    /\ call[r].op = "add"
    /\ Undivided(r)
    /\ fields' = [fields EXCEPT ![call[r].file][call[r].field] = @ \cup {call[r].value}]
    /\ Goes(r, Over)

\* It is there already.
AddPresent(r) ==
    /\ call[r].op = "add"
    /\ call[r].value \in fields[call[r].file][call[r].field]
    /\ Goes(r, None)
    /\ UNCHANGED fields

Without(f) == fields' = [fields EXCEPT ![f] = [p \in Field |-> {}]]

Drop(r) ==
    /\ call[r].op = "drop"
    /\ Undivided(r)
    /\ Without(call[r].file)
    /\ Goes(r, Over)

\* It begins and returns in the same step.
DropField(r) ==
    /\ call[r] = None
    /\ Undivided(r)
    /\ \E f \in File, p \in Field : fields' = [fields EXCEPT ![f][p] = {}]
    /\ UNCHANGED call

ClearNext(r) ==
    /\ call[r].op = "clear"
    /\ Undivided(r)
    /\ \E f \in call[r].left :
          /\ Without(f) \/ (MayFail /\ UNCHANGED fields)
          /\ Goes(r, [op |-> "clear", left |-> call[r].left \ {f}])

Return(r) ==
    /\ call[r] = Over \/ (call[r].op = "clear" /\ call[r].left = {})
    /\ Goes(r, None)
    /\ UNCHANGED fields

Fail(r) ==
    /\ MayFail
    /\ call[r] # None
    /\ Goes(r, None)
    /\ UNCHANGED fields

FNext ==
    \E r \in Request :
        \/ Begin(r) \/ Return(r) \/ Fail(r)
        \/ Put(r) \/ Add(r) \/ AddPresent(r) \/ Drop(r) \/ DropField(r) \/ ClearNext(r)

FSpec == FInit /\ [][FNext]_fvars
=============================================================================
