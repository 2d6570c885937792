---------------------------- MODULE Mounts_proofs ----------------------------
(***************************************************************************)
(* Proofs about Mounts, for any processes, requests, watchers, ids, paths. *)
(*                                                                         *)
(* The argument: every document anywhere - in mounts.json, in a draft, in  *)
(* a plan - is made from one earlier document, whole, by changing a flag,  *)
(* by leaving entries out, or by adding one entry with a new id and a path *)
(* that this document does not have. Hence each document has unique ids    *)
(* and paths, and an id keeps its path in all of them.                     *)
(***************************************************************************)
EXTENDS Mounts, TLAPS

\* Every entry that some document still holds.
Known == {e \in Entry : \/ e \in config
                        \/ \E r \in Request : e \in draft[r]
                        \/ \E w \in Watcher : e \in plan[w]}

\* An id that is in use was given out before.
Issued ==
    /\ \A e \in Known : e.id \notin fresh
    /\ \A w \in Watcher, p \in Path : mounted[w][p] \notin fresh

\* One id has one path, in all documents and in every mount table.
OnePath ==
    /\ \A d, e \in Known : d.id = e.id => d.path = e.path
    /\ \A w \in Watcher, p \in Path, e \in Known :
          mounted[w][p] = e.id => e.path = p

IInv == TypeOK /\ PathsUnique /\ Issued /\ OnePath

-----------------------------------------------------------------------------
(* How documents are made                                                  *)

\* Entry by entry, new has the ids and paths of old.
SameIds(new, old) == \A e \in new : \E d \in old : d.id = e.id /\ d.path = e.path

\* A flag changes, nothing else.
LEMMA DesiredKeeps ==
    ASSUME TypeOK, UniqueEntries(config), NEW e \in config, NEW flag \in BOOLEAN
    PROVE  /\ WithDesired(e, flag) \subseteq Entry
           /\ UniqueEntries(WithDesired(e, flag))
           /\ SameIds(WithDesired(e, flag), config)
  <1> DEFINE f == [e EXCEPT !.desired = flag]
  <1>1. e \in Entry
    BY DEF TypeOK
  <1>2. f \in Entry /\ f.id = e.id /\ f.path = e.path
    BY <1>1 DEF Entry
  <1>3. WithDesired(e, flag) = (config \ {e}) \cup {f}
    BY DEF WithDesired
  <1> HIDE DEF f
  <1>4. UniqueEntries(WithDesired(e, flag))
    BY <1>2, <1>3 DEF UniqueEntries
  <1> QED
    BY <1>2, <1>3, <1>4 DEF SameIds, TypeOK

\* What an entry to be created looks like, and what it does to a document
\* that has neither its id nor its path.
LEMMA CreateKeeps ==
    ASSUME TypeOK, UniqueEntries(config), NEW e \in Entry,
           \A d \in config : d.id # e.id /\ d.path # e.path
    PROVE  UniqueEntries(config \cup {e})
  BY DEF UniqueEntries

\* A step that gives out no id, and after which every document comes from
\* Known, keeps the invariant about ids.
LEMMA IdsKept ==
    ASSUME Issued, OnePath,
           SameIds(Known', Known), fresh' = fresh,
           \A w \in Watcher, p \in Path :
               \/ mounted'[w][p] = mounted[w][p]
               \/ mounted'[w][p] = None
               \/ \E e \in Known : mounted'[w][p] = e.id /\ e.path = p,
           TypeOK
    PROVE  Issued' /\ OnePath'
  <1>1. \A e \in Known' : e.id \notin fresh'
    BY DEF Issued, SameIds
  <1>2. None \notin fresh
    BY MountsAssumption DEF TypeOK
  <1>3. \A w \in Watcher, p \in Path : mounted'[w][p] \notin fresh'
    BY <1>2 DEF Issued
  <1>4. \A d, e \in Known' : d.id = e.id => d.path = e.path
    <2> SUFFICES ASSUME NEW d \in Known', NEW e \in Known', d.id = e.id
                 PROVE  d.path = e.path
      OBVIOUS
    <2>1. PICK d0 \in Known : d0.id = d.id /\ d0.path = d.path
      BY DEF SameIds
    <2>2. PICK e0 \in Known : e0.id = e.id /\ e0.path = e.path
      BY DEF SameIds
    <2> QED
      BY <2>1, <2>2 DEF OnePath
  <1>5. \A w \in Watcher, p \in Path, e \in Known' :
            mounted'[w][p] = e.id => e.path = p
    <2> SUFFICES ASSUME NEW w \in Watcher, NEW p \in Path, NEW e \in Known',
                        mounted'[w][p] = e.id
                 PROVE  e.path = p
      OBVIOUS
    <2>1. PICK e0 \in Known : e0.id = e.id /\ e0.path = e.path
      BY DEF SameIds
    <2>2. e0.id # None
      BY MountsAssumption DEF Known, Entry
    <2> QED
      BY <2>1, <2>2 DEF OnePath
  <1> QED
    BY <1>1, <1>3, <1>4, <1>5 DEF Issued, OnePath

-----------------------------------------------------------------------------
(* The steps                                                               *)

LEMMA Initially == Init => IInv
  <1> SUFFICES ASSUME Init PROVE IInv
    OBVIOUS
  <1>1. TypeOK
    BY MountsAssumption DEF Init, TypeOK
  <1>2. PathsUnique
    BY DEF Init, PathsUnique, UniqueEntries
  <1>3. Known = {}
    BY DEF Init, Known
  <1>4. Issued /\ OnePath
    BY <1>3, MountsAssumption DEF Init, Issued, OnePath
  <1> QED
    BY <1>1, <1>2, <1>4 DEF IInv

\* A request starts a write of a document that stems from one entry set it
\* knows.
LEMMA WriteStarts ==
    ASSUME IInv, NEW r \in Request, NEW id \in Id \cup {None},
           NEW doc \in SUBSET Entry,
           NEW label \in {"idle", "await", "cleanup"},
           UniqueEntries(doc), SameIds(doc, Known), Writes(r, id, doc, label),
           UNCHANGED <<config, file, fresh, running, plan, attempt, mounted, error>>
    PROVE  IInv'
  <1>1. TypeOK'
    BY DEF IInv, TypeOK, Writes
  <1>2. \A s \in Request : draft'[s] = IF s = r THEN doc ELSE draft[s]
    BY DEF IInv, TypeOK, Writes
  <1>3. PathsUnique'
    BY <1>2 DEF IInv, PathsUnique, UniqueEntries
  <1>4. SameIds(Known', Known)
    BY <1>2 DEF Known, SameIds
  <1>5. Issued' /\ OnePath'
    BY <1>4, IdsKept DEF IInv
  <1> QED
    BY <1>1, <1>3, <1>5 DEF IInv

LEMMA ChangeDesired ==
    ASSUME IInv, NEW r \in Request, NEW e \in config, NEW flag \in BOOLEAN,
           NEW label \in {"idle", "await", "cleanup"},
           Writes(r, e.id, WithDesired(e, flag), label),
           UNCHANGED <<config, file, fresh, running, plan, attempt, mounted, error>>
    PROVE  IInv'
  <1>1. TypeOK /\ UniqueEntries(config) /\ e.id \in Id
    BY DEF IInv, PathsUnique, TypeOK, Entry
  <1>2. /\ WithDesired(e, flag) \in SUBSET Entry
        /\ UniqueEntries(WithDesired(e, flag))
        /\ SameIds(WithDesired(e, flag), config)
    BY <1>1, DesiredKeeps
  <1>3. SameIds(WithDesired(e, flag), Known)
    BY <1>1, <1>2 DEF SameIds, Known, TypeOK
  <1> QED
    BY <1>1, <1>2, <1>3, WriteStarts

LEMMA CreateStep ==
    ASSUME IInv, NEW r \in Request, CreateMount(r)
    PROVE  IInv'
  <1>1. PICK id \in fresh, p \in Path, flag \in BOOLEAN :
          /\ \A e \in config : e.path # p
          /\ fresh' = fresh \ {id}
          /\ Writes(r, id, config \cup
                {[id |-> id, path |-> p, enabled |-> flag, desired |-> flag]}, "idle")
    BY DEF CreateMount
  <1> DEFINE e == [id |-> id, path |-> p, enabled |-> flag, desired |-> flag]
  <1>2. e \in Entry /\ e.id = id /\ e.path = p
    BY DEF IInv, TypeOK, Entry
  <1>3. Writes(r, id, config \cup {e}, "idle")
    BY <1>1
  <1> HIDE DEF e
  <1>4. UNCHANGED <<config, file, running, plan, attempt, mounted, error>>
    BY DEF CreateMount, table, script
  <1>5. \A d \in config : d.id # e.id /\ d.path # e.path
    BY <1>1, <1>2 DEF IInv, TypeOK, Issued, Known
  <1>6. UniqueEntries(config \cup {e})
    BY <1>2, <1>5, CreateKeeps DEF IInv, PathsUnique
  <1>7. \A s \in Request : draft'[s] = IF s = r THEN config \cup {e} ELSE draft[s]
    BY <1>3 DEF IInv, TypeOK, Writes
  <1>8. TypeOK'
    BY <1>1, <1>2, <1>3, <1>4 DEF IInv, TypeOK, Writes
  <1>9. PathsUnique'
    BY <1>4, <1>6, <1>7 DEF IInv, PathsUnique, UniqueEntries
  <1>10. Known' \subseteq Known \cup {e}
    BY <1>4, <1>7 DEF Known
  <1>11. Issued'
    BY <1>1, <1>2, <1>4, <1>10 DEF IInv, Issued
  <1>12. OnePath'
    BY <1>1, <1>2, <1>4, <1>10 DEF IInv, Issued, OnePath
  <1> QED
    BY <1>8, <1>9, <1>11, <1>12 DEF IInv

\* Requests that return drop their drafts.
LEMMA ReturnStep ==
    ASSUME IInv, NEW S \in SUBSET Request, Return(S), error' \subseteq error,
           UNCHANGED <<config, file, fresh, running, plan, attempt, mounted>>
    PROVE  IInv'
  <1>1. TypeOK'
    BY DEF IInv, TypeOK, Return
  <1>2. \A s \in Request : draft'[s] = IF s \in S THEN {} ELSE draft[s]
    BY DEF Return
  <1>3. PathsUnique'
    BY <1>2 DEF IInv, PathsUnique, UniqueEntries
  <1>4. SameIds(Known', Known)
    BY <1>2 DEF Known, SameIds
  <1>5. Issued' /\ OnePath'
    BY <1>4, IdsKept DEF IInv
  <1> QED
    BY <1>1, <1>3, <1>5 DEF IInv

LEMMA ManagerStep ==
    ASSUME IInv, NEW r \in Request, Manager(r)
    PROVE  IInv'
  <1>1. CASE CreateMount(r)
    BY <1>1, CreateStep
  <1>2. CASE RequestMount(r)
    <2>1. PICK e \in config : Writes(r, e.id, WithDesired(e, TRUE), "idle")
      BY <1>2 DEF RequestMount
    <2>2. UNCHANGED <<config, file, fresh, running, plan, attempt, mounted, error>>
      BY <1>2 DEF RequestMount, table, script
    <2> QED
      BY <2>1, <2>2, ChangeDesired
  <1>3. CASE RequestUnmount(r)
    <2>1. PICK e \in config : Writes(r, e.id, WithDesired(e, FALSE), "idle")
      BY <1>3 DEF RequestUnmount
    <2>2. UNCHANGED <<config, file, fresh, running, plan, attempt, mounted, error>>
      BY <1>3 DEF RequestUnmount, table, script
    <2> QED
      BY <2>1, <2>2, ChangeDesired
  <1>4. CASE DeleteMount(r)
    <2>1. PICK e \in config : Writes(r, e.id, WithDesired(e, FALSE), "await")
      BY <1>4 DEF DeleteMount
    <2>2. UNCHANGED <<config, file, fresh, running, plan, attempt, mounted, error>>
      BY <1>4 DEF DeleteMount, table, script
    <2> QED
      BY <2>1, <2>2, ChangeDesired
  <1>5. CASE AwaitUnmount(r)
    <2> DEFINE doc == {e \in draft[r] : e.id # target[r]}
    <2>1. Writes(r, target[r], doc, "cleanup")
      BY <1>5 DEF AwaitUnmount
    <2>2. UNCHANGED <<config, file, fresh, running, plan, attempt, mounted, error>>
      BY <1>5 DEF AwaitUnmount, table, script
    <2>3. doc \in SUBSET Entry /\ UniqueEntries(doc) /\ SameIds(doc, Known)
      BY DEF IInv, TypeOK, PathsUnique, UniqueEntries, SameIds, Known
    <2> HIDE DEF doc
    <2>4. target[r] \in Id \cup {None}
      BY DEF IInv, TypeOK
    <2> QED
      BY <2>1, <2>2, <2>3, <2>4, WriteStarts
  <1>6. CASE Truncate(r)
    <2>1. TypeOK'
      BY <1>6 DEF IInv, TypeOK, Truncate, table, script
    <2>2. UNCHANGED <<config, fresh, draft, plan, mounted>>
      BY <1>6 DEF Truncate, table, script
    <2>3. Known' = Known
      BY <2>2 DEF Known
    <2> QED
      BY <2>1, <2>2, <2>3 DEF IInv, PathsUnique, Issued, OnePath
  <1>7. CASE Fill(r)
    <2>1. TypeOK'
      BY <1>7 DEF IInv, TypeOK, Fill, table, script
    <2>2. config' = draft[r] /\ UNCHANGED <<fresh, draft, plan, mounted>>
      BY <1>7 DEF Fill, table, script
    <2>3. PathsUnique'
      BY <2>2 DEF IInv, PathsUnique
    <2>4. SameIds(Known', Known)
      BY <2>2 DEF Known, SameIds
    <2> QED
      BY <2>1, <2>2, <2>3, <2>4, IdsKept DEF IInv
  <1>8. CASE WriteFails(r)
    BY <1>8, ReturnStep DEF WriteFails, table, script
  <1>9. CASE CleanUp(r)
    BY <1>9, ReturnStep DEF CleanUp, table, script
  <1> QED
    BY <1>1, <1>2, <1>3, <1>4, <1>5, <1>6, <1>7, <1>8, <1>9 DEF Manager

\* Entries leave a plan, and a mount is made from an entry or goes away.
LEMMA PlanStep ==
    ASSUME IInv, NEW w \in Watcher, NEW rest \in SUBSET Entry,
           UniqueEntries(rest), SameIds(rest, Known),
           plan' = [plan EXCEPT ![w] = rest],
           running' \subseteq Watcher,
           attempt' \in [Watcher -> Id \cup {None}],
           mounted' \in [Watcher -> [Path -> Id \cup {None}]],
           \A v \in Watcher, p \in Path :
               \/ mounted'[v][p] = mounted[v][p]
               \/ mounted'[v][p] = None
               \/ \E e \in Known : mounted'[v][p] = e.id /\ e.path = p,
           error' \subseteq Id,
           UNCHANGED <<config, file, fresh, pc, after, target, draft>>
    PROVE  IInv'
  <1>1. TypeOK'
    BY DEF IInv, TypeOK
  <1>2. \A v \in Watcher : plan'[v] = IF v = w THEN rest ELSE plan[v]
    BY DEF IInv, TypeOK
  <1>3. PathsUnique'
    BY <1>2 DEF IInv, PathsUnique, UniqueEntries
  <1>4. SameIds(Known', Known)
    BY <1>2 DEF Known, SameIds
  <1>5. Issued' /\ OnePath'
    BY <1>4, IdsKept DEF IInv
  <1> QED
    BY <1>1, <1>3, <1>5 DEF IInv

\* An entry of a plan, and the plan without it.
LEMMA PlanFacts ==
    ASSUME IInv, NEW w \in Watcher, NEW e \in plan[w]
    PROVE  /\ e \in Entry /\ e \in Known
           /\ plan[w] \ {e} \in SUBSET Entry
           /\ UniqueEntries(plan[w] \ {e})
           /\ SameIds(plan[w] \ {e}, Known)
  BY DEF IInv, TypeOK, PathsUnique, UniqueEntries, Known, SameIds

\* Nothing happens to the mount table.
LEMMA LookStep ==
    ASSUME IInv, NEW w \in Watcher, NEW e \in plan[w], Done(w, e),
           error' \subseteq Id,
           UNCHANGED <<config, file, fresh, pc, after, target, draft, running, attempt, mounted>>
    PROVE  IInv'
  <1>1. plan' = [plan EXCEPT ![w] = plan[w] \ {e}]
    BY DEF Done
  <1>2. /\ mounted' \in [Watcher -> [Path -> Id \cup {None}]]
        /\ running' \subseteq Watcher
        /\ attempt' \in [Watcher -> Id \cup {None}]
    BY DEF IInv, TypeOK
  <1> QED
    BY <1>1, <1>2, PlanFacts, PlanStep

LEMMA DoMountStep ==
    ASSUME IInv, NEW w \in Watcher, NEW p \in Path, DoMount(w, p)
    PROVE  IInv'
  <1>1. PICK e \in plan[w] :
          /\ e.path = p
          /\ Done(w, e)
          /\ mounted' = [mounted EXCEPT ![w][p] = e.id]
          /\ attempt' = [attempt EXCEPT ![w] = e.id]
    BY DEF DoMount
  <1>2. UNCHANGED <<config, file, fresh, pc, after, target, draft, running, error>>
    BY DEF DoMount, cycle
  <1>3. e \in Known /\ e.id \in Id
    BY PlanFacts DEF Entry
  <1>4. mounted' \in [Watcher -> [Path -> Id \cup {None}]]
    BY <1>1, <1>3 DEF IInv, TypeOK
  <1>5. \A v \in Watcher, q \in Path :
            mounted'[v][q] = IF v = w /\ q = p THEN e.id ELSE mounted[v][q]
    BY <1>1 DEF IInv, TypeOK
  <1>6. plan' = [plan EXCEPT ![w] = plan[w] \ {e}]
    BY <1>1 DEF Done
  <1>7. /\ error' \subseteq Id
        /\ running' \subseteq Watcher
        /\ attempt' \in [Watcher -> Id \cup {None}]
    BY <1>1, <1>2, <1>3 DEF IInv, TypeOK
  <1>8. \A v \in Watcher, q \in Path :
            \/ mounted'[v][q] = mounted[v][q]
            \/ mounted'[v][q] = None
            \/ \E d \in Known : mounted'[v][q] = d.id /\ d.path = q
    BY <1>1, <1>3, <1>5
  <1> QED
    BY <1>2, <1>4, <1>6, <1>7, <1>8, PlanFacts, PlanStep

\* The mount of a path goes away; an entry may leave the plan.
LEMMA UnmountStep ==
    ASSUME IInv, NEW w \in Watcher, NEW p \in Path,
           mounted' = [mounted EXCEPT ![w][p] = None],
           \/ plan' = plan
           \/ \E e \in plan[w] : Done(w, e),
           UNCHANGED <<config, file, fresh, pc, after, target, draft, running, attempt, error>>
    PROVE  IInv'
  <1>1. mounted' \in [Watcher -> [Path -> Id \cup {None}]]
    BY DEF IInv, TypeOK
  <1>2. \A v \in Watcher, q \in Path :
            mounted'[v][q] = mounted[v][q] \/ mounted'[v][q] = None
    BY DEF IInv, TypeOK
  <1>3. /\ error' \subseteq Id
        /\ running' \subseteq Watcher
        /\ attempt' \in [Watcher -> Id \cup {None}]
    BY DEF IInv, TypeOK
  <1>4. CASE plan' = plan
    <2>1. plan' = [plan EXCEPT ![w] = plan[w]]
      BY <1>4 DEF IInv, TypeOK
    <2>2. /\ plan[w] \in SUBSET Entry
          /\ UniqueEntries(plan[w])
          /\ SameIds(plan[w], Known)
      BY DEF IInv, TypeOK, PathsUnique, Known, SameIds
    <2> QED
      BY <2>1, <2>2, <1>1, <1>2, <1>3, PlanStep
  <1>5. CASE \E e \in plan[w] : Done(w, e)
    <2>1. PICK e \in plan[w] : plan' = [plan EXCEPT ![w] = plan[w] \ {e}]
      BY <1>5 DEF Done
    <2> QED
      BY <2>1, <1>1, <1>2, <1>3, PlanFacts, PlanStep
  <1> QED
    BY <1>4, <1>5

\* The script reports or starts: no document and no mount changes.
LEMMA ReportStep ==
    ASSUME IInv,
           running' \subseteq Watcher,
           attempt' \in [Watcher -> Id \cup {None}],
           error' \subseteq Id,
           UNCHANGED <<config, file, fresh, pc, after, target, draft, plan, mounted>>
    PROVE  IInv'
  <1>1. Known' = Known
    BY DEF Known
  <1>2. TypeOK'
    BY DEF IInv, TypeOK
  <1> QED
    BY <1>1, <1>2 DEF IInv, PathsUnique, Issued, OnePath

LEMMA WatcherStep ==
    ASSUME IInv, NEW w \in Watcher,
           \/ ProcessMounts(w) \/ WatcherEnds(w) \/ WatcherStarts(w)
           \/ \E p \in Path : MountLost(w, p)
    PROVE  IInv'
  <1>1. CASE ReadMounts(w) \/ WatcherEnds(w)
    <2>1. PICK rest \in {config, {}} : plan' = [plan EXCEPT ![w] = rest]
      BY <1>1 DEF ReadMounts, WatcherEnds
    <2>2. UNCHANGED <<config, file, fresh, pc, after, target, draft, mounted, error>>
      BY <1>1 DEF ReadMounts, WatcherEnds, cycle
    <2>3. /\ rest \in SUBSET Entry
          /\ UniqueEntries(rest)
          /\ SameIds(rest, Known)
      BY DEF IInv, TypeOK, PathsUnique, UniqueEntries, Known, SameIds
    <2>4. /\ mounted' \in [Watcher -> [Path -> Id \cup {None}]]
          /\ error' \subseteq Id
      BY <2>2 DEF IInv, TypeOK
    <2>5. running' \subseteq Watcher /\ attempt' \in [Watcher -> Id \cup {None}]
      BY <1>1 DEF ReadMounts, WatcherEnds, IInv, TypeOK
    <2> QED
      BY <2>1, <2>2, <2>3, <2>4, <2>5, PlanStep
  <1>2. CASE LeaveAsIs(w)
    <2>1. PICK e \in plan[w] : Done(w, e)
      BY <1>2 DEF LeaveAsIs
    <2>2. UNCHANGED <<config, file, fresh, pc, after, target, draft, running, attempt, mounted>>
      BY <1>2 DEF LeaveAsIs, cycle
    <2>3. error' \subseteq Id
      BY <1>2 DEF LeaveAsIs, IInv, TypeOK
    <2> QED
      BY <2>1, <2>2, <2>3, LookStep
  <1>3. CASE DoMountFails(w)
    <2>1. PICK e \in plan[w] : Done(w, e) /\ error' = error \cup {e.id}
      BY <1>3 DEF DoMountFails
    <2>2. UNCHANGED <<config, file, fresh, pc, after, target, draft, running, attempt, mounted>>
      BY <1>3 DEF DoMountFails, cycle
    <2>3. error' \subseteq Id
      BY <2>1, PlanFacts DEF IInv, TypeOK, Entry
    <2> QED
      BY <2>1, <2>2, <2>3, LookStep
  <1>4. CASE DoUnmountFails(w)
    <2>1. PICK e \in plan[w] : Done(w, e)
      BY <1>4 DEF DoUnmountFails
    <2>2. UNCHANGED <<config, file, fresh, pc, after, target, draft, running, attempt, mounted>>
      BY <1>4 DEF DoUnmountFails, cycle
    <2>3. error' \subseteq Id
      BY <1>4 DEF DoUnmountFails, IInv, TypeOK
    <2> QED
      BY <2>1, <2>2, <2>3, LookStep
  <1>5. ASSUME NEW p \in Path, DoMount(w, p)
        PROVE  IInv'
    BY <1>5, DoMountStep
  <1>6. ASSUME NEW p \in Path, DoUnmount(w, p)
        PROVE  IInv'
    <2>1. /\ mounted' = [mounted EXCEPT ![w][p] = None]
          /\ \E e \in plan[w] : Done(w, e)
          /\ UNCHANGED <<config, file, fresh, pc, after, target, draft, running, attempt, error>>
      BY <1>6 DEF DoUnmount, cycle
    <2> QED
      BY <2>1, UnmountStep
  <1>7. ASSUME NEW p \in Path, MountLost(w, p)
        PROVE  IInv'
    <2>1. /\ mounted' = [mounted EXCEPT ![w][p] = None]
          /\ plan' = plan
          /\ UNCHANGED <<config, file, fresh, pc, after, target, draft, running, attempt, error>>
      BY <1>7 DEF MountLost, cycle
    <2> QED
      BY <2>1, UnmountStep
  <1>8. CASE ClearError(w) \/ MountVanished(w)
    <2>1. UNCHANGED <<config, file, fresh, pc, after, target, draft, running, plan, mounted>>
      BY <1>8 DEF ClearError, MountVanished, cycle
    <2>2. attempt[w] \in Id /\ attempt' = [attempt EXCEPT ![w] = None]
      BY <1>8 DEF ClearError, MountVanished, IInv, TypeOK
    <2>3. error' \subseteq Id
      BY <1>8, <2>2 DEF ClearError, MountVanished, IInv, TypeOK
    <2>4. running' \subseteq Watcher /\ attempt' \in [Watcher -> Id \cup {None}]
      BY <2>1, <2>2 DEF IInv, TypeOK
    <2> QED
      BY <2>1, <2>3, <2>4, ReportStep
  <1>9. CASE WatcherStarts(w)
    <2>1. UNCHANGED <<config, file, fresh, pc, after, target, draft, plan, attempt, mounted, error>>
      BY <1>9 DEF WatcherStarts, cycle
    <2>2. running' \subseteq Watcher
      BY <1>9 DEF WatcherStarts, IInv, TypeOK
    <2> QED
      BY <2>1, <2>2, ReportStep DEF IInv, TypeOK
  <1> QED
    BY <1>1, <1>2, <1>3, <1>4, <1>5, <1>6, <1>7, <1>8, <1>9 DEF ProcessMounts

LEMMA Inductive == IInv /\ [Next]_vars => IInv'
  <1> SUFFICES ASSUME IInv, [Next]_vars PROVE IInv'
    OBVIOUS
  <1>1. ASSUME NEW r \in Request, Manager(r) PROVE IInv'
    BY <1>1, ManagerStep
  <1>2. ASSUME NEW p \in Process, ProcessCrash(p) PROVE IInv'
    BY <1>2, ReturnStep DEF ProcessCrash, table, script
  <1>3. ASSUME NEW w \in Watcher,
               \/ ProcessMounts(w) \/ WatcherEnds(w) \/ WatcherStarts(w)
               \/ \E p \in Path : MountLost(w, p)
        PROVE  IInv'
    BY <1>3, WatcherStep
  <1>4. CASE UNCHANGED vars
    BY <1>4 DEF vars, IInv, TypeOK, PathsUnique, UniqueEntries, Issued, OnePath, Known
  <1> QED
    BY <1>1, <1>2, <1>3, <1>4 DEF Next

-----------------------------------------------------------------------------
(* The theorems                                                            *)

\* The invariant of the argument above holds of the managers and the script.
THEOREM Invariance == Spec => []IInv
  BY Initially, Inductive, PTL DEF Spec

\* Every variable keeps its type.
THEOREM TypeCorrect == Spec => []TypeOK
  <1>1. IInv => TypeOK
    BY DEF IInv
  <1> QED
    BY <1>1, Invariance, PTL

\* However many processes overwrite each other's mounts.json, no document in
\* the file, in a request or in a pass of the script has an id or a path twice
\* (CreateMount refuses a path that is configured already).
THEOREM UniquePaths == Spec => []PathsUnique
  <1>1. IInv => PathsUnique
    BY DEF IInv
  <1> QED
    BY <1>1, Invariance, PTL

\* What one step does to mounts, attempts and errors.
LEMMA StillLeft ==
    ASSUME IInv, NEW w \in Watcher, NEW p \in Path,
           LeftOver(w, p)', mounted'[w][p] = mounted[w][p],
           attempt' = attempt, error' \subseteq error
    PROVE  LeftOver(w, p)
  BY DEF LeftOver

\* A step of the only script, except its end.
LEMMA PassLeavesNothing ==
    ASSUME IInv, NEW w \in Watcher, NEW p \in Path, LeftOver(w, p)',
           ProcessMounts(w)
    PROVE  LeftOver(w, p)
  <1> USE DEF LeftOver
  <1>1. /\ mounted \in [Watcher -> [Path -> Id \cup {None}]]
        /\ attempt \in [Watcher -> Id \cup {None}]
        /\ None \notin error
    BY MountsAssumption DEF IInv, TypeOK
  <1>2. CASE ReadMounts(w) \/ LeaveAsIs(w) \/ DoUnmountFails(w)
    BY <1>2, StillLeft DEF ReadMounts, LeaveAsIs, DoUnmountFails
  <1>3. CASE DoMountFails(w)
    <2>1. PICK e \in plan[w] : /\ ~IsMounted(w, e.path)
                               /\ error' = error \cup {e.id}
                               /\ mounted' = mounted /\ attempt' = attempt
      BY <1>3 DEF DoMountFails
    <2>2. e \in Known /\ e.id # None
      BY PlanFacts, MountsAssumption DEF Entry
    <2>3. mounted[w][p] # e.id
      BY <2>1, <2>2 DEF IInv, OnePath, IsMounted
    <2> QED
      BY <2>1, <2>3
  <1>4. CASE ClearError(w)
    BY <1>1, <1>4 DEF ClearError
  <1>5. CASE MountVanished(w)
    BY <1>1, <1>5 DEF MountVanished
  <1>6. ASSUME NEW q \in Path, DoMount(w, q)
        PROVE  LeftOver(w, p)
    <2>1. PICK e \in plan[w] : /\ mounted' = [mounted EXCEPT ![w][q] = e.id]
                               /\ attempt' = [attempt EXCEPT ![w] = e.id]
                               /\ error' = error
                               /\ attempt[w] = None
      BY <1>6 DEF DoMount, Done
    <2> QED
      BY <1>1, <2>1
  <1>7. ASSUME NEW q \in Path, DoUnmount(w, q)
        PROVE  LeftOver(w, p)
    <2>1. /\ mounted' = [mounted EXCEPT ![w][q] = None]
          /\ error' = error /\ attempt' = attempt
      BY <1>7 DEF DoUnmount
    <2> QED
      BY <1>1, <2>1
  <1> QED
    BY <1>2, <1>3, <1>4, <1>5, <1>6, <1>7 DEF ProcessMounts

\* With one script, whatever the requests do and however often a mount fails or
\* is lost, only the end of the script in the middle of a pass leaves an error
\* at what is mounted.
THEOREM CleanMounts ==
    ASSUME \A v, w \in Watcher : v = w
    PROVE  Spec => OnlyRestartLeavesError
  <1>1. ASSUME IInv, [Next]_vars, NEW w \in Watcher, NEW p \in Path,
               LeftOver(w, p)', ~(w \in running \ running')
        PROVE  LeftOver(w, p)
    <2>1. CASE \E r \in Request : Manager(r)
      <3>1. mounted' = mounted /\ attempt' = attempt /\ error' \subseteq error
        BY <2>1 DEF Manager, CreateMount, RequestMount, RequestUnmount, DeleteMount,
                    AwaitUnmount, Truncate, Fill, WriteFails, CleanUp, table, script
      <3> QED
        BY <1>1, <3>1, StillLeft
    <2>2. CASE \E q \in Process : ProcessCrash(q)
      BY <1>1, <2>2, StillLeft DEF ProcessCrash, table, script
    <2>3. CASE \E v \in Watcher : ProcessMounts(v)
      BY <1>1, <2>3, PassLeavesNothing
    <2>4. CASE \E v \in Watcher : WatcherEnds(v)
      BY <1>1, <2>4 DEF WatcherEnds
    <2>5. CASE \E v \in Watcher : WatcherStarts(v)
      BY <1>1, <2>5, StillLeft DEF WatcherStarts
    <2>6. CASE \E v \in Watcher, q \in Path : MountLost(v, q)
      <3>1. PICK q \in Path : mounted' = [mounted EXCEPT ![w][q] = None]
        BY <1>1, <2>6 DEF MountLost
      <3>2. error' = error /\ attempt' = attempt
        BY <2>6 DEF MountLost
      <3>3. mounted \in [Watcher -> [Path -> Id \cup {None}]] /\ None \notin error
        BY <1>1, MountsAssumption DEF IInv, TypeOK
      <3> QED
        BY <1>1, <3>1, <3>2, <3>3 DEF LeftOver
    <2>7. CASE UNCHANGED vars
      BY <1>1, <2>7, StillLeft DEF vars
    <2> QED
      BY <1>1, <2>1, <2>2, <2>3, <2>4, <2>5, <2>6, <2>7 DEF Next
  <1>2. IInv /\ [Next]_vars
          => [\A w \in Watcher, p \in Path :
                 LeftOver(w, p)' => LeftOver(w, p) \/ w \in running \ running']_vars
    BY <1>1
  <1> QED
    BY <1>2, Invariance, PTL DEF Spec, OnlyRestartLeavesError

-----------------------------------------------------------------------------
(* What a deletion can leave behind                                        *)

LEMMA DocumentsOf ==
    ASSUME SameIds(config', Known),
           \A r \in Request : SameIds(draft'[r], Known),
           \A w \in Watcher : SameIds(plan'[w], Known)
    PROVE  SameIds(Known', Known)
  BY DEF Known, SameIds

\* Only CreateMount brings an id or a path into the documents.
LEMMA NothingNew ==
    ASSUME IInv, [Next]_vars
    PROVE  SameIds(Known', Known) \/ \E r \in Request : CreateMount(r)
  <1>0. /\ SameIds(config, Known)
        /\ \A r \in Request : SameIds(draft[r], Known)
        /\ \A w \in Watcher : SameIds(plan[w], Known)
    BY DEF IInv, TypeOK, Known, SameIds
  <1>a. draft \in [Request -> SUBSET Entry] /\ plan \in [Watcher -> SUBSET Entry]
    BY DEF IInv, TypeOK
  <1>1. ASSUME UNCHANGED <<config, plan>>, NEW r \in Request, NEW doc, SameIds(doc, Known),
               draft' = [draft EXCEPT ![r] = doc]
        PROVE  SameIds(Known', Known)
    <2>1. \A q \in Request : SameIds(draft'[q], Known)
      BY <1>0, <1>a, <1>1
    <2> QED
      BY <1>0, <1>1, <2>1, DocumentsOf
  <1>2. ASSUME UNCHANGED <<config, draft>>, NEW w \in Watcher, NEW doc, SameIds(doc, Known),
               plan' = [plan EXCEPT ![w] = doc]
        PROVE  SameIds(Known', Known)
    <2>1. \A v \in Watcher : SameIds(plan'[v], Known)
      BY <1>0, <1>a, <1>2
    <2> QED
      BY <1>0, <1>2, <2>1, DocumentsOf
  <1>3. ASSUME NEW r \in Request, NEW e \in config, NEW flag \in BOOLEAN, NEW label,
               Writes(r, e.id, WithDesired(e, flag), label), UNCHANGED <<config, plan>>
        PROVE  SameIds(Known', Known)
    <2>1. SameIds(WithDesired(e, flag), config)
      BY DesiredKeeps DEF IInv, PathsUnique
    <2>2. SameIds(WithDesired(e, flag), Known)
      BY <1>0, <2>1 DEF SameIds
    <2> QED
      BY <1>1, <1>3, <2>2 DEF Writes
  <1>4. ASSUME NEW r \in Request, RequestMount(r) \/ RequestUnmount(r) \/ DeleteMount(r)
        PROVE  SameIds(Known', Known)
    BY <1>3, <1>4 DEF RequestMount, RequestUnmount, DeleteMount, table, script
  <1>5. ASSUME NEW r \in Request, AwaitUnmount(r)
        PROVE  SameIds(Known', Known)
    <2>1. SameIds({e \in draft[r] : e.id # target[r]}, Known)
      BY <1>0 DEF SameIds
    <2> QED
      BY <1>1, <1>5, <2>1 DEF AwaitUnmount, Writes, table, script
  <1>6. ASSUME NEW r \in Request, Fill(r)
        PROVE  SameIds(Known', Known)
    BY <1>0, <1>6, DocumentsOf DEF Fill, table, script
  <1>7. ASSUME NEW S \in SUBSET Request, Return(S), UNCHANGED <<config, plan>>
        PROVE  SameIds(Known', Known)
    <2>1. \A q \in Request : SameIds(draft'[q], Known)
      BY <1>0, <1>7 DEF Return, SameIds
    <2> QED
      BY <1>0, <1>7, <2>1, DocumentsOf
  <1>8. ASSUME NEW r \in Request, WriteFails(r) \/ CleanUp(r)
        PROVE  SameIds(Known', Known)
    BY <1>7, <1>8 DEF WriteFails, CleanUp, table, script
  <1>9. ASSUME NEW p \in Process, ProcessCrash(p)
        PROVE  SameIds(Known', Known)
    BY <1>7, <1>9 DEF ProcessCrash, table, script
  <1>10. ASSUME UNCHANGED <<config, draft, plan>>
         PROVE  SameIds(Known', Known)
    BY <1>0, <1>10, DocumentsOf
  <1>11. ASSUME NEW w \in Watcher, ReadMounts(w) \/ WatcherEnds(w)
         PROVE  SameIds(Known', Known)
    <2>1. SameIds({}, Known)
      BY DEF SameIds
    <2> QED
      BY <1>0, <1>2, <1>11, <2>1 DEF ReadMounts, WatcherEnds, cycle
  <1>12. ASSUME NEW w \in Watcher, NEW e \in plan[w], Done(w, e), UNCHANGED <<config, draft>>
         PROVE  SameIds(Known', Known)
    <2>1. SameIds(plan[w] \ {e}, Known)
      BY <1>0 DEF SameIds
    <2> QED
      BY <1>2, <1>12, <2>1 DEF Done
  <1>13. ASSUME NEW w \in Watcher, \/ LeaveAsIs(w) \/ DoMountFails(w) \/ DoUnmountFails(w)
                                   \/ \E p \in Path : DoMount(w, p) \/ DoUnmount(w, p)
         PROVE  SameIds(Known', Known)
    BY <1>12, <1>13 DEF LeaveAsIs, DoMountFails, DoUnmountFails, DoMount, DoUnmount, cycle
  <1>14. ASSUME \/ \E r \in Request : Truncate(r)
                \/ \E w \in Watcher, p \in Path : MountLost(w, p)
                \/ \E w \in Watcher : \/ WatcherStarts(w) \/ ClearError(w)
                                       \/ MountVanished(w)
                \/ UNCHANGED vars
         PROVE  SameIds(Known', Known)
    BY <1>10, <1>14 DEF Truncate, MountLost, WatcherStarts, ClearError, MountVanished,
                        cycle, table, script, vars
  <1> QED
    BY <1>4, <1>5, <1>6, <1>8, <1>9, <1>11, <1>13, <1>14 DEF Next, Manager, ProcessMounts

\* What is mounted where no document has an entry stays for good: the script
\* looks at listed entries only. This is what a deletion can leave behind.
THEOREM NobodyUnmounts == Spec => ForgottenStays
  <1>1. ASSUME IInv, [Next]_vars, NEW w \in Watcher, NEW p \in Path, Forgotten(w, p),
               ~MountLost(w, p), \A r \in Request : ~CreateMount(r)
        PROVE  Forgotten(w, p)'
    <2>1. \A e \in Known : e.path # p
      BY <1>1 DEF Forgotten, Known
    <2>2. \A e \in Known' : e.path # p
      BY <1>1, <2>1, NothingNew DEF SameIds
    <2>3. IInv'
      BY <1>1, Inductive
    <2>4. /\ \A e \in config' : e.path # p
          /\ \A r \in Request : \A e \in draft'[r] : e.path # p
          /\ \A v \in Watcher : \A e \in plan'[v] : e.path # p
      BY <2>2, <2>3 DEF IInv, TypeOK, Known
    <2>5. mounted \in [Watcher -> [Path -> Id \cup {None}]] /\ mounted[w][p] # None
      BY <1>1 DEF IInv, TypeOK, Forgotten, IsMounted
    <2>6. mounted'[w][p] = mounted[w][p]
      <3>1. ASSUME NEW v \in Watcher, NEW q \in Path, DoMount(v, q)
            PROVE  mounted'[w][p] = mounted[w][p]
        <4>1. v # w \/ q # p
          BY <2>5, <3>1 DEF DoMount, IsMounted
        <4>2. PICK e \in plan[v] : mounted' = [mounted EXCEPT ![v][q] = e.id]
          BY <3>1 DEF DoMount
        <4> QED
          BY <2>5, <4>1, <4>2
      <3>2. ASSUME NEW v \in Watcher, NEW q \in Path, DoUnmount(v, q) \/ MountLost(v, q)
            PROVE  mounted'[w][p] = mounted[w][p]
        <4>1. v # w \/ q # p
          <5>1. CASE DoUnmount(v, q)
            BY <1>1, <5>1 DEF DoUnmount, Forgotten
          <5>2. CASE MountLost(v, q)
            BY <1>1, <5>2
          <5> QED
            BY <3>2, <5>1, <5>2
        <4>2. mounted' = [mounted EXCEPT ![v][q] = None]
          BY <3>2 DEF DoUnmount, MountLost
        <4> QED
          BY <2>5, <4>1, <4>2
      <3>3. ASSUME NEW r \in Request, Manager(r)
            PROVE  mounted' = mounted
        BY <1>1, <3>3 DEF Manager, RequestMount, RequestUnmount, DeleteMount, AwaitUnmount,
                          Truncate, Fill, WriteFails, CleanUp, table
      <3>4. ASSUME NEW q \in Process, ProcessCrash(q)
            PROVE  mounted' = mounted
        BY <3>4 DEF ProcessCrash, table
      <3>5. ASSUME NEW v \in Watcher,
                   \/ ReadMounts(v) \/ LeaveAsIs(v) \/ DoMountFails(v) \/ DoUnmountFails(v)
                   \/ WatcherEnds(v) \/ WatcherStarts(v)
                   \/ ClearError(v) \/ MountVanished(v)
            PROVE  mounted' = mounted
        BY <3>5 DEF ReadMounts, LeaveAsIs, DoMountFails, DoUnmountFails, WatcherEnds,
                    WatcherStarts, ClearError, MountVanished
      <3>6. CASE UNCHANGED vars
        BY <3>6 DEF vars
      <3> QED
        BY <1>1, <3>1, <3>2, <3>3, <3>4, <3>5, <3>6 DEF Next, ProcessMounts
    <2> QED
      BY <2>4, <2>5, <2>6 DEF Forgotten, IsMounted
  <1>2. IInv /\ [Next]_vars
          => [\A w \in Watcher, p \in Path : Forgotten(w, p) =>
                \/ Forgotten(w, p)'
                \/ MountLost(w, p)
                \/ \E r \in Request : CreateMount(r)]_vars
    BY <1>1
  <1> QED
    BY <1>2, Invariance, PTL DEF Spec, ForgottenStays
=============================================================================
