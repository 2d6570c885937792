------------------------------- MODULE Mounts -------------------------------
(***************************************************************************)
(* Remote mounts: mounts.Manager (internal/mounts) of every meta-core      *)
(* process changes mounts.json on the shared volume, and the script        *)
(* mount-watcher.sh of every container makes the mount table of its        *)
(* container follow it.                                                    *)
(*                                                                         *)
(* Every change is a cycle of its own: readConfig under the read lock of   *)
(* the process, the change in memory, writeConfig under its write lock.    *)
(* os.WriteFile truncates and then writes; other processes and the script  *)
(* take no lock and may read in between. DeleteMount runs two cycles on    *)
(* one reading, with up to 15 s between them.                              *)
(*                                                                         *)
(* What to mount (server, share, options) is left out, and so are the      *)
(* three mount types: an entry has its id, its path and its two flags. The *)
(* order of the entries matters to nobody, so a document is a set.         *)
(***************************************************************************)
EXTENDS Naturals

CONSTANTS Process,  \* meta-core processes
          Request,  \* HTTP requests that may be in flight at once
          Home,     \* the process that serves each request
          Watcher,  \* containers that run mount-watcher.sh
          Id, Path,
          None      \* no mount

ASSUME MountsAssumption ==
    /\ Home \in [Request -> Process]
    /\ None \notin Id

VARIABLES
    config,   \* the document last written to mounts.json
    file,     \* what mounts.json holds: it, or nothing that parses
    fresh,    \* UUIDs not given out yet
    pc,       \* of each request
    after,    \* what the request does once its write is done
    target,   \* the id the request is about
    draft,    \* the document it is about to write
    running,  \* containers whose script runs
    plan,     \* entries the script's present pass has still to look at
    attempt,  \* the id whose mount the script has made and not yet reported
    mounted,  \* findmnt: what is mounted on each path of each container
    error     \* ids with an error file

cycle == <<pc, after, target, draft>>
script == <<running, plan, attempt>>
table == <<script, mounted>>
vars  == <<config, file, fresh, pc, after, target, draft,
           running, plan, attempt, mounted, error>>

Entry == [id : Id, path : Path, enabled : BOOLEAN, desired : BOOLEAN]

TypeOK ==
    /\ config \subseteq Entry
    /\ file \in {"whole", "empty", "mixed"}
    /\ fresh \subseteq Id
    /\ pc \in [Request -> {"idle", "truncate", "fill", "await", "cleanup"}]
    /\ after \in [Request -> {"idle", "await", "cleanup"}]
    /\ target \in [Request -> Id \cup {None}]
    /\ draft \in [Request -> SUBSET Entry]
    /\ running \subseteq Watcher
    /\ plan \in [Watcher -> SUBSET Entry]
    /\ attempt \in [Watcher -> Id \cup {None}]
    /\ mounted \in [Watcher -> [Path -> Id \cup {None}]]
    /\ error \subseteq Id

\* entrypoint.sh writes an empty document before anything else runs.
Init ==
    /\ config = {}
    /\ file = "whole"
    /\ fresh = Id
    /\ pc = [r \in Request |-> "idle"]
    /\ after = [r \in Request |-> "idle"]
    /\ target = [r \in Request |-> None]
    /\ draft = [r \in Request |-> {}]
    /\ running = Watcher
    /\ plan = [w \in Watcher |-> {}]
    /\ attempt = [w \in Watcher |-> None]
    /\ mounted = [w \in Watcher |-> [p \in Path |-> None]]
    /\ error = {}

Wanted(e) == e.enabled /\ e.desired

-----------------------------------------------------------------------------
(* The manager                                                             *)

\* The RWMutex of the process. Without it file could not be read half-way
\* by the process itself; other processes are not kept out.
NoWriterAt(r) == \A s \in Request : Home[s] = Home[r] => pc[s] # "fill"

\* readConfig succeeds. A document that does not parse is an error, and the
\* request returns without an effect.
Reads(r) == pc[r] = "idle" /\ NoWriterAt(r) /\ file = "whole"

\* r goes on to writeConfig with doc, and from there to label.
Writes(r, id, doc, label) ==
    /\ pc' = [pc EXCEPT ![r] = "truncate"]
    /\ after' = [after EXCEPT ![r] = label]
    /\ target' = [target EXCEPT ![r] = id]
    /\ draft' = [draft EXCEPT ![r] = doc]

Return(S) ==
    /\ pc' = [r \in Request |-> IF r \in S THEN "idle" ELSE pc[r]]
    /\ after' = [r \in Request |-> IF r \in S THEN "idle" ELSE after[r]]
    /\ target' = [r \in Request |-> IF r \in S THEN None ELSE target[r]]
    /\ draft' = [r \in Request |-> IF r \in S THEN {} ELSE draft[r]]

WithDesired(e, flag) == (config \ {e}) \cup {[e EXCEPT !.desired = flag]}

\* Mutant of CreateMount: the path is not looked up.
CreateMountUnchecked(r) ==
    /\ Reads(r)
    /\ \E id \in fresh, p \in Path, flag \in BOOLEAN :
          /\ fresh' = fresh \ {id}
          /\ Writes(r, id, config \cup
                {[id |-> id, path |-> p, enabled |-> flag, desired |-> flag]}, "idle")
    /\ UNCHANGED <<config, file, table, error>>

CreateMount(r) ==
    /\ Reads(r)
    /\ \E id \in fresh, p \in Path, flag \in BOOLEAN :
          /\ \A e \in config : e.path # p
          /\ fresh' = fresh \ {id}
          /\ Writes(r, id, config \cup
                {[id |-> id, path |-> p, enabled |-> flag, desired |-> flag]}, "idle")
    /\ UNCHANGED <<config, file, table, error>>

RequestMount(r) ==
    /\ Reads(r)
    /\ \E e \in config : Writes(r, e.id, WithDesired(e, TRUE), "idle")
    /\ UNCHANGED <<config, file, fresh, table, error>>

\* Also the safe-unmount of the handlers, whose wait decides on the answer
\* and on nothing else.
RequestUnmount(r) ==
    /\ Reads(r)
    /\ \E e \in config : Writes(r, e.id, WithDesired(e, FALSE), "idle")
    /\ UNCHANGED <<config, file, fresh, table, error>>

DeleteMount(r) ==
    /\ Reads(r)
    /\ \E e \in config : Writes(r, e.id, WithDesired(e, FALSE), "await")
    /\ UNCHANGED <<config, file, fresh, table, error>>

\* WaitForUnmount: the path is free, or 15 s are over; its result is not
\* used. What is written next still comes from the first reading.
AwaitUnmount(r) ==
    /\ pc[r] = "await"
    /\ Writes(r, target[r], {e \in draft[r] : e.id # target[r]}, "cleanup")
    /\ UNCHANGED <<config, file, fresh, table, error>>

\* writeConfig: os.WriteFile opens with O_TRUNC ...
Truncate(r) ==
    /\ pc[r] = "truncate"
    /\ NoWriterAt(r)
    /\ file' = "empty"
    /\ pc' = [pc EXCEPT ![r] = "fill"]
    /\ UNCHANGED <<config, fresh, after, target, draft, table, error>>

\* ... and writes from offset 0. If another process has written since, the
\* end of a longer document stays behind a shorter one.
Fill(r) ==
    /\ pc[r] = "fill"
    /\ config' = draft[r]
    /\ file' \in IF file = "empty" THEN {"whole"} ELSE {"whole", "mixed"}
    /\ pc' = [pc EXCEPT ![r] = after[r]]
    /\ UNCHANGED <<fresh, after, target, draft, table, error>>

WriteFails(r) ==
    /\ pc[r] \in {"truncate", "fill"}
    /\ Return({r})
    /\ UNCHANGED <<config, file, fresh, table, error>>

CleanUp(r) ==
    /\ pc[r] = "cleanup"
    /\ error' = error \ {target[r]}
    /\ Return({r})
    /\ UNCHANGED <<config, file, fresh, table>>

\* A process dies with the requests it serves.
ProcessCrash(p) ==
    /\ \E r \in Request : Home[r] = p /\ pc[r] # "idle"
    /\ Return({r \in Request : Home[r] = p})
    /\ UNCHANGED <<config, file, fresh, table, error>>

-----------------------------------------------------------------------------
(* mount-watcher.sh                                                        *)

\* A pass begins with one reading; a document that does not parse is as good
\* as none.
ReadMounts(w) ==
    /\ w \in running
    /\ plan[w] = {}
    /\ attempt[w] = None
    /\ file = "whole"
    /\ config # {}
    /\ plan' = [plan EXCEPT ![w] = config]
    /\ UNCHANGED <<config, file, fresh, cycle, running, attempt, mounted, error>>

\* The script takes an entry when it is through with the one before.
Done(w, e) ==
    /\ attempt[w] = None
    /\ e \in plan[w]
    /\ plan' = [plan EXCEPT ![w] = @ \ {e}]

IsMounted(w, p) == mounted[w][p] # None

LeaveAsIs(w) ==
    /\ \E e \in plan[w] : Wanted(e) = IsMounted(w, e.path) /\ Done(w, e)
    /\ UNCHANGED <<config, file, fresh, cycle, running, attempt, mounted, error>>

\* Mutant of DoMount: no second attempt after an error.
DoMountOnce(w, p) ==
    /\ ~IsMounted(w, p)
    /\ \E e \in plan[w] :
          /\ e.path = p
          /\ Wanted(e)
          /\ e.id \notin error
          /\ Done(w, e)
          /\ mounted' = [mounted EXCEPT ![w][p] = e.id]
          /\ attempt' = [attempt EXCEPT ![w] = e.id]
    /\ UNCHANGED <<config, file, fresh, cycle, running, error>>

\* mount or the call of rclone has made the mount; an earlier error is still
\* there.
DoMount(w, p) ==
    /\ ~IsMounted(w, p)
    /\ \E e \in plan[w] :
          /\ e.path = p
          /\ Wanted(e)
          /\ Done(w, e)
          /\ mounted' = [mounted EXCEPT ![w][p] = e.id]
          /\ attempt' = [attempt EXCEPT ![w] = e.id]
    /\ UNCHANGED <<config, file, fresh, cycle, running, error>>

\* Mutant of ClearError: a success is reported, and the error left.
ClearErrorSkipped(w) ==
    /\ attempt[w] # None
    /\ attempt' = [attempt EXCEPT ![w] = None]
    /\ UNCHANGED <<config, file, fresh, cycle, running, plan, mounted, error>>

\* clear_error, at once or after a look at the mount table (rclone).
ClearError(w) ==
    /\ attempt[w] # None
    /\ error' = error \ {attempt[w]}
    /\ attempt' = [attempt EXCEPT ![w] = None]
    /\ UNCHANGED <<config, file, fresh, cycle, running, plan, mounted>>

\* What rclone has mounted is gone when the script looks for it.
MountVanished(w) ==
    /\ attempt[w] # None
    /\ \A p \in Path : mounted[w][p] # attempt[w]
    /\ error' = error \cup {attempt[w]}
    /\ attempt' = [attempt EXCEPT ![w] = None]
    /\ UNCHANGED <<config, file, fresh, cycle, running, plan, mounted>>

\* Mutant of DoMountFails: two fields of the line are swapped.
DoMountFailsSwapped(w) ==
    /\ \E e \in plan[w] :
          /\ Wanted(e)
          /\ ~IsMounted(w, e.path)
          /\ Done(w, e)
          /\ error' = error \cup {e.path}
    /\ UNCHANGED <<config, file, fresh, cycle, running, attempt, mounted>>

DoMountFails(w) ==
    /\ \E e \in plan[w] :
          /\ Wanted(e)
          /\ ~IsMounted(w, e.path)
          /\ Done(w, e)
          /\ error' = error \cup {e.id}
    /\ UNCHANGED <<config, file, fresh, cycle, running, attempt, mounted>>

\* Mutant of DoUnmount: only what is disabled is unmounted.
DoUnmountDisabled(w, p) ==
    /\ IsMounted(w, p)
    /\ \E e \in plan[w] : e.path = p /\ ~e.enabled /\ Done(w, e)
    /\ mounted' = [mounted EXCEPT ![w][p] = None]
    /\ UNCHANGED <<config, file, fresh, cycle, running, attempt, error>>

DoUnmount(w, p) ==
    /\ IsMounted(w, p)
    /\ \E e \in plan[w] : e.path = p /\ ~Wanted(e) /\ Done(w, e)
    /\ mounted' = [mounted EXCEPT ![w][p] = None]
    /\ UNCHANGED <<config, file, fresh, cycle, running, attempt, error>>

DoUnmountFails(w) ==
    /\ \E e \in plan[w] : ~Wanted(e) /\ IsMounted(w, e.path) /\ Done(w, e)
    /\ UNCHANGED <<config, file, fresh, cycle, running, attempt, mounted, error>>

\* The script ends, between two entries or between a mount and its report;
\* mounts and error files stay ...
WatcherEnds(w) ==
    /\ w \in running
    /\ running' = running \ {w}
    /\ plan' = [plan EXCEPT ![w] = {}]
    /\ attempt' = [attempt EXCEPT ![w] = None]
    /\ UNCHANGED <<config, file, fresh, cycle, mounted, error>>

\* ... and supervisord starts it again.
WatcherStarts(w) ==
    /\ w \notin running
    /\ running' = running \cup {w}
    /\ UNCHANGED <<config, file, fresh, cycle, plan, attempt, mounted, error>>

\* A mount ends by itself, as those of rclone do with its daemon.
MountLost(w, p) ==
    /\ IsMounted(w, p)
    /\ mounted' = [mounted EXCEPT ![w][p] = None]
    /\ UNCHANGED <<config, file, fresh, cycle, running, plan, attempt, error>>

-----------------------------------------------------------------------------
Manager(r) ==
    \/ CreateMount(r) \/ RequestMount(r) \/ RequestUnmount(r) \/ DeleteMount(r)
    \/ AwaitUnmount(r) \/ Truncate(r) \/ Fill(r) \/ WriteFails(r) \/ CleanUp(r)

ProcessMounts(w) ==
    \/ ReadMounts(w) \/ LeaveAsIs(w) \/ DoMountFails(w) \/ DoUnmountFails(w)
    \/ ClearError(w) \/ MountVanished(w)
    \/ \E p \in Path : DoMount(w, p) \/ DoUnmount(w, p)

Next ==
    \/ \E r \in Request : Manager(r)
    \/ \E p \in Process : ProcessCrash(p)
    \/ \E w \in Watcher :
          \/ ProcessMounts(w) \/ WatcherEnds(w) \/ WatcherStarts(w)
          \/ \E p \in Path : MountLost(w, p)

\* The script is restarted and polls for ever, and is not ended each time before
\* it reads; a mount or an unmount that is tried again and again succeeds at
\* last. Nothing makes clients, processes or mounts fail.
Fairness == \A w \in Watcher :
    /\ WF_vars(ProcessMounts(w))
    /\ WF_vars(WatcherStarts(w))
    /\ SF_vars(ReadMounts(w))
    /\ \A p \in Path : SF_vars(DoMount(w, p)) /\ SF_vars(DoUnmount(w, p))

Spec == Init /\ [][Next]_vars
FairSpec == Spec /\ Fairness

-----------------------------------------------------------------------------
(* What is required of it                                                  *)

UniqueEntries(doc) ==
    \A d, e \in doc : d.id = e.id \/ d.path = e.path => d = e

\* No two entries have one id or one path, neither in mounts.json nor in what
\* any process is about to write, although requests of different processes
\* check their paths against readings of their own and overwrite each other
\* (CreateMount: "mount path %s already configured").
PathsUnique ==
    /\ UniqueEntries(config)
    /\ \A r \in Request : UniqueEntries(draft[r])
    /\ \A w \in Watcher : UniqueEntries(plan[w])

\* A path is mounted, what is mounted there has an error file, and the script is
\* not about to remove it: a pass leaves alone what is mounted.
LeftOver(w, p) == mounted[w][p] \in error /\ attempt[w] # mounted[w][p]

\* Where one script runs, only its end between a mount and the clear_error that
\* follows leaves an error at what is mounted, whatever attempts failed before
\* and whichever requests came and went (IsMounted and ReadError make one
\* MountStatus). Such an error may stay.
OnlyRestartLeavesError ==
    [][\A w \in Watcher, p \in Path :
          LeftOver(w, p)' => LeftOver(w, p) \/ w \in running \ running']_vars

Lists(p)  == \E e \in config : e.path = p
Wants(p)  == \E e \in config : e.path = p /\ Wanted(e)
Settled   == file = "whole"

\* A path that stays wanted is mounted again and again, whatever pass on an
\* older reading was under way, and whatever mounts were lost
\* (mount-watcher.sh, "Should be mounted").
WantedGetsMounted ==
    \A w \in Watcher, p \in Path :
        <>[](Settled /\ Wants(p)) => []<>IsMounted(w, p)

\* A path that stays listed and unwanted is in the end not mounted any more,
\* also when an older reading still says so ("Should be unmounted").
UnwantedGetsUnmounted ==
    \A w \in Watcher, p \in Path :
        <>[](Settled /\ Lists(p) /\ ~Wants(p)) => <>[]~IsMounted(w, p)

-----------------------------------------------------------------------------
(* What the comments say and the code does not do                          *)

\* DeleteMount: "Request unmount first", "Wait for unmount (15 seconds max)",
\* "Remove from config". What was mounted for a deleted entry goes away.
DeletedGetsUnmounted ==
    \A w \in Watcher, p \in Path :
        <>[](Settled /\ ~Lists(p)) => []<>~IsMounted(w, p)

\* Why it fails: what is mounted on a path that no document anywhere has an
\* entry for goes only by itself, or after somebody has created an entry.
Forgotten(w, p) ==
    /\ IsMounted(w, p)
    /\ \A e \in config : e.path # p
    /\ \A r \in Request : \A e \in draft[r] : e.path # p
    /\ \A v \in Watcher : \A e \in plan[v] : e.path # p
ForgottenStays ==
    [][\A w \in Watcher, p \in Path : Forgotten(w, p) =>
          \/ Forgotten(w, p)'
          \/ MountLost(w, p)
          \/ \E r \in Request : CreateMount(r)]_vars
=============================================================================
