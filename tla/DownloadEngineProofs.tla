------------------------ MODULE DownloadEngineProofs ------------------------
(***************************************************************************)
(* Theorems about DownloadEngine, for every value of its constants.        *)
(***************************************************************************)
EXTENDS DownloadEngine, FiniteSetTheorems, TLAPS

----------------------------------------------------------------------------
(* Finite sets and their sizes.                                            *)

\* The threads of the pool are finitely many.
LEMMA PoolSize ==
    Cardinality(Workers) \in Nat /\ Cardinality(Workers) > 0
  <1>1. IsFiniteSet(Workers) /\ Workers # {}
    BY ThreadsAssumption
  <1>2. Cardinality(Workers) \in Nat
    BY <1>1, FS_CardinalityType
  <1>3. Cardinality(Workers) # 0
    BY <1>1, FS_EmptySet
  <1> QED
    BY <1>2, <1>3

\* Any set of threads has a size.
LEMMA ThreadSetSize ==
    ASSUME NEW S \in SUBSET Workers
    PROVE  IsFiniteSet(S) /\ Cardinality(S) \in Nat
  BY ThreadsAssumption, FS_Subset, FS_CardinalityType

\* The finished chunks of a table are finitely many.
LEMMA FinishedSize ==
    ASSUME NEW r
    PROVE  IsFiniteSet(FinishedIn(r)) /\ Cardinality(FinishedIn(r)) \in Nat
  <1>1. IsFiniteSet(Chunks)
    BY SizesAssumption, FS_Interval DEF Chunks
  <1>2. FinishedIn(r) \in SUBSET Chunks
    BY DEF FinishedIn
  <1> QED
    BY <1>1, <1>2, FS_Subset, FS_CardinalityType

\* The counters a step that moves one worker between two points leaves alone
\* keep their meaning if the worker neither takes nor returns anything.
LEMMA SameRoles ==
    ASSUME TypeOK, NEW w \in Workers, NEW here, NEW there,
           WorkerAt(w, here, there),
           here \notin {"idle", "leave", "last", "reap"},
           there \notin {"idle", "leave", "last", "reap"}
    PROVE  SlotHolders' = SlotHolders /\ Connected' = Connected
  BY DEF TypeOK, WorkerAt, SlotHolders, Connected

----------------------------------------------------------------------------
(* Types, and the accounting of connections.  The two are proved together: *)
(* that nConnections_ stays a natural number needs that it counts open     *)
(* connections.                                                            *)

AccountingInv == TypeOK /\ ConnectionAccounting

LEMMA AccountingInit == Init => AccountingInv
  <1> SUFFICES ASSUME Init PROVE AccountingInv
    OBVIOUS
  <1> USE SizesAssumption, EnvironmentAssumption DEF Init
  <1>1. received \in [Chunks -> Nat]
    OBVIOUS
  <1>2. file \in [Chunks -> SUBSET Units]
    OBVIOUS
  <1>3. nDownloaded \in Nat
    BY FinishedSize
  <1>4. desired \in 1..MaxConnections /\ releaseBudget \in Nat
    BY DEF Smaller, Larger
  <1>5. TypeOK
    BY <1>1, <1>2, <1>3, <1>4
    DEF TypeOK, States, WorkerSteps, CallerSteps, ControllerSteps, NoImage, NoItem, Work, Items
  <1>6. SlotHolders = {} /\ Connected = {}
    BY DEF SlotHolders, Connected
  <1>7. ConnectionAccounting
    BY <1>6, FS_EmptySet DEF ConnectionAccounting
  <1> QED
    BY <1>5, <1>7 DEF AccountingInv

\* What the workers do to the items they hold.
LEMMA ItemTypes ==
    /\ NoItem \in Items
    /\ \A c \in {0} \union Chunks, o, s \in Nat : Work(c, o, s) \in Items
    /\ \A it \in Items : /\ it.chunk \in {0} \union Chunks
                         /\ it.off \in Nat /\ it.src \in Nat
                         /\ it.off + 1 \in Nat /\ it.src + 1 \in Nat
  BY DEF Items, NoItem, Work

\* A step of a worker between two points where it holds its slot and its
\* connection.
LEMMA WorkerTypes ==
    ASSUME AccountingInv, NEW w \in Workers, WorkerStep(w)
    PROVE  TypeOK'
  <1> USE SizesAssumption
      DEF WorkerAt, counters, progress, disk, spent
  <1> TypeOK
    BY DEF AccountingInv

  <1>1. CASE Begin(w)
    <2>1. wpc' \in [Workers -> WorkerSteps]
      BY <1>1 DEF Begin, Suffer, TypeOK, WorkerSteps
    <2>2. item' \in [Workers -> Items]
      BY <1>1 DEF Begin, Suffer, TypeOK
    <2> QED
      BY <1>1, <2>1, <2>2 DEF Begin, Suffer, TypeOK, States
  <1>2. CASE ReleaseOrTake(w)
    <2>1. wpc' \in [Workers -> WorkerSteps]
      BY <1>2 DEF ReleaseOrTake, TypeOK, WorkerSteps
    <2>2. item' \in [Workers -> Items]
      BY <1>2, ItemTypes DEF ReleaseOrTake, TypeOK
    <2> QED
      BY <1>2, <2>1, <2>2 DEF ReleaseOrTake, TypeOK, States
  <1>3. CASE TakeItem(w)
    <2>1. wpc' \in [Workers -> WorkerSteps]
      BY <1>3 DEF TakeItem, TypeOK, WorkerSteps
    <2>2. item' \in [Workers -> Items]
      <3>1. CASE item' = item
        BY <3>1, ItemTypes DEF TypeOK
      <3>2. CASE \E c \in backlog : item' = [item EXCEPT ![w] = Work(c, rangeStart[c], 0)]
        <4>1. PICK c \in backlog : item' = [item EXCEPT ![w] = Work(c, rangeStart[c], 0)]
          BY <3>2
        <4>2. c \in {0} \union Chunks /\ rangeStart[c] \in Nat
          BY DEF TypeOK
        <4>3. Work(c, rangeStart[c], 0) \in Items
          BY <4>2, ItemTypes
        <4> QED
          BY <4>1, <4>3 DEF TypeOK
      <3> QED
        BY <1>3, <3>1, <3>2 DEF TakeItem, TypeOK
    <2> QED
      BY <1>3, <2>1, <2>2 DEF TakeItem, TypeOK, States
  <1>4. CASE ReleaseOrCheck(w)
    <2>1. wpc' \in [Workers -> WorkerSteps]
      BY <1>4 DEF ReleaseOrCheck, TypeOK, WorkerSteps
    <2>2. item' \in [Workers -> Items]
      BY <1>4, ItemTypes DEF ReleaseOrCheck, TypeOK
    <2> QED
      BY <1>4, <2>1, <2>2 DEF ReleaseOrCheck, TypeOK, States
  <1>5. CASE Request(w)
    <2>1. wpc' \in [Workers -> WorkerSteps]
      BY <1>5 DEF Request, Suffer, TypeOK, WorkerSteps
    <2>2. item' \in [Workers -> Items]
      <3>1. CASE item' \in {item, [item EXCEPT ![w] = NoItem]}
        BY <3>1, ItemTypes DEF TypeOK
      <3>2. CASE item' = [item EXCEPT ![w] = Work(item[w].chunk, item[w].off,
                                         IF Ranged THEN item[w].off ELSE 0)]
        <4>1. item[w] \in Items
          BY DEF TypeOK
        <4>2. Work(item[w].chunk, item[w].off,
                                         IF Ranged THEN item[w].off ELSE 0) \in Items
          BY <4>1, ItemTypes
        <4> QED
          BY <3>2, <4>2 DEF TypeOK
      <3> QED
        BY <1>5, <3>1, <3>2 DEF Request, Suffer, TypeOK
    <2> QED
      BY <1>5, <2>1, <2>2 DEF Request, Suffer, TypeOK, States
  <1>6. CASE Read(w)
    BY <1>6 DEF Read, GiveUp, TypeOK, WorkerSteps, States, NoItem, NoImage
  <1>7. CASE Receive(w)
    <2>1. wpc' \in [Workers -> WorkerSteps]
      BY <1>7 DEF Receive, GiveUp, Suffer, TypeOK, WorkerSteps
    <2>2. item' \in [Workers -> Items]
      <3>1. CASE item' = item
        BY <3>1, ItemTypes DEF TypeOK
      <3>2. CASE item' = [item EXCEPT ![w] = Work(item[w].chunk, item[w].off + 1,
                                         item[w].src + 1)]
        <4>1. item[w] \in Items
          BY DEF TypeOK
        <4>2. Work(item[w].chunk, item[w].off + 1,
                                         item[w].src + 1) \in Items
          BY <4>1, ItemTypes
        <4> QED
          BY <3>2, <4>2 DEF TypeOK
      <3> QED
        BY <1>7, <3>1, <3>2 DEF Receive, GiveUp, Suffer, TypeOK
    <2> QED
      BY <1>7, <2>1, <2>2 DEF Receive, GiveUp, Suffer, TypeOK, States
  <1>8. CASE Notify(w)
    <2>1. wpc' \in [Workers -> WorkerSteps]
      BY <1>8 DEF Notify, AfterCount, Resting, TypeOK, WorkerSteps
    <2>2. received' \in [Chunks -> Nat]
      <3>1. received' = [received EXCEPT ![item[w].chunk] =
                           received[item[w].chunk] + 1]
        BY <1>8 DEF Notify
      <3>2. CASE item[w].chunk \in Chunks
        BY <3>1, <3>2 DEF TypeOK
      <3>3. CASE item[w].chunk \notin Chunks
        BY <3>1, <3>3 DEF TypeOK
      <3> QED
        BY <3>2, <3>3
    <2> QED
      BY <1>8, <2>1, <2>2 DEF Notify, TypeOK
  <1>9. CASE PeriodicStore(w)
    BY <1>9 DEF PeriodicStore, AfterCount, Resting, Store, TypeOK, WorkerSteps, States, NoItem,
       NoImage
  <1>10. CASE CountChunk(w)
    BY <1>10 DEF CountChunk, Resting, TypeOK, WorkerSteps, States, NoItem, NoImage
  <1>11. CASE Complete(w)
    BY <1>11 DEF Complete, Resting, TypeOK, WorkerSteps, States, NoItem, NoImage
  <1>12. CASE ForceComplete(w)
    BY <1>12 DEF ForceComplete, TypeOK, WorkerSteps, States, NoItem, NoImage
  <1>13. CASE FinalStore(w)
    BY <1>13 DEF FinalStore, Store, TypeOK, WorkerSteps, States, NoItem, NoImage
  <1>14. CASE FinalCleanup(w)
    BY <1>14 DEF FinalCleanup, Resting, CleanupArtifacts, TypeOK, WorkerSteps, States, NoItem,
       NoImage
  <1>15. CASE Fail(w)
    <2>1. wpc' \in [Workers -> WorkerSteps]
      BY <1>15 DEF Fail, TypeOK, WorkerSteps
    <2>2. item' \in [Workers -> Items]
      BY <1>15, ItemTypes DEF Fail, TypeOK
    <2> QED
      BY <1>15, <2>1, <2>2 DEF Fail, TypeOK, States
  <1>16. CASE FailStore(w)
    <2>1. wpc' \in [Workers -> WorkerSteps]
      BY <1>16 DEF FailStore, Store, TypeOK, WorkerSteps
    <2>2. item' \in [Workers -> Items]
      BY <1>16, ItemTypes DEF FailStore, Store, TypeOK
    <2> QED
      BY <1>16, <2>1, <2>2 DEF FailStore, Store, TypeOK, States
  <1>17. CASE Open(w)
    BY <1>17 DEF Open, TypeOK, WorkerSteps, States, NoItem, NoImage
  <1>18. CASE Close(w)
    BY <1>18 DEF Close, Larger, TypeOK, WorkerSteps, States, NoItem, NoImage
  <1>19. CASE Leave(w)
    <2>1. w \in Connected
      BY <1>19 DEF Leave, Connected
    <2>2. IsFiniteSet(Connected) /\ Cardinality(Connected) # 0
      BY <2>1, ThreadSetSize, FS_EmptySet DEF Connected
    <2>3. nConnections - 1 \in Nat
      BY <2>2, ThreadSetSize DEF AccountingInv, ConnectionAccounting, TypeOK, Connected
    <2> QED
      BY <1>19, <2>3 DEF Leave, TypeOK, WorkerSteps
  <1>20. CASE LastLeaves(w)
    BY <1>20 DEF LastLeaves, TypeOK, WorkerSteps, States, NoItem, NoImage
  <1>21. CASE Reap(w)
    BY <1>21 DEF Reap, CleanupArtifacts, TypeOK, WorkerSteps, States, NoItem, NoImage
  <1> QED
    BY <1>1, <1>2, <1>3, <1>4, <1>5, <1>6, <1>7, <1>8, <1>9, <1>10, <1>11, <1>12, <1>13, <1>14,
       <1>15, <1>16, <1>17, <1>18, <1>19, <1>20, <1>21 DEF WorkerStep

\* Steps of the callers and of the controller.
LEMMA CallerTypes ==
    ASSUME TypeOK, NEW u \in Callers, CallerStep(u) \/ CallerBegins(u)
    PROVE  TypeOK'
  <1> USE SizesAssumption
      DEF CallerAt, counters, progress, disk, spent
  <1>1. CASE Resume(u)
    BY <1>1 DEF Resume, Call, TypeOK, CallerSteps, States, NoImage
  <1>2. CASE Pause(u)
    BY <1>2 DEF Pause, Call, TypeOK, CallerSteps, States, NoImage
  <1>3. CASE Cancel(u)
    BY <1>3 DEF Cancel, Call, TypeOK, CallerSteps, States, NoImage
  <1>4. CASE Terminate(u)
    BY <1>4 DEF Terminate, Call, TypeOK, CallerSteps, States, NoImage
  <1>5. CASE Drained(u)
    BY <1>5 DEF Drained, TypeOK, CallerSteps, States, NoImage
  <1>6. CASE Rebuild(u)
    BY <1>6, FinishedSize DEF Rebuild, TypeOK, CallerSteps, States, NoImage
  <1>7. CASE CallerPlan(u)
    BY <1>7 DEF CallerPlan, TypeOK, CallerSteps, States, NoImage
  <1>8. CASE CallerAdmit(u)
    BY <1>8, PoolSize DEF CallerAdmit, AdmitWorkers, Smaller, TypeOK, CallerSteps, States, NoImage
  <1>9. CASE Quiesce(u)
    BY <1>9 DEF Quiesce, TypeOK, CallerSteps, States, NoImage
  <1>10. CASE Discard(u)
    BY <1>10 DEF Discard, CleanupArtifacts, TypeOK, CallerSteps, States, NoImage
  <1>11. CASE TerminateStore(u)
    BY <1>11 DEF TerminateStore, Store, TypeOK, CallerSteps, States, NoImage
  <1>12. CASE TerminatePause(u)
    BY <1>12 DEF TerminatePause, TypeOK, CallerSteps, States, NoImage
  <1> QED
    BY <1>1, <1>2, <1>3, <1>4, <1>5, <1>6, <1>7, <1>8, <1>9, <1>10, <1>11, <1>12
       DEF CallerStep, CallerBegins

LEMMA ControllerTypes ==
    ASSUME TypeOK, Sample \/ ControllerStep
    PROVE  TypeOK'
  <1> USE SizesAssumption
      DEF ControllerAt, counters, progress, disk, spent
  <1>1. CASE Sample
    BY <1>1 DEF Sample, TypeOK, ControllerSteps
  <1>2. CASE SetDesiredConnections
    BY <1>2, EnvironmentAssumption
    DEF SetDesiredConnections, Larger, Smaller, TypeOK, ControllerSteps
  <1>3. CASE ControllerPlan
    BY <1>3 DEF ControllerPlan, TypeOK, ControllerSteps
  <1>4. CASE ControllerAdmit
    BY <1>4, PoolSize
    DEF ControllerAdmit, AdmitWorkers, Smaller, TypeOK, ControllerSteps
  <1> QED
    BY <1>1, <1>2, <1>3, <1>4 DEF ControllerStep

\* The steps a worker takes while it holds its slot and its connection.
InnerStep(w) ==
    \/ Begin(w) \/ ReleaseOrTake(w) \/ TakeItem(w) \/ ReleaseOrCheck(w)
    \/ Request(w) \/ Read(w) \/ Receive(w) \/ Notify(w) \/ PeriodicStore(w)
    \/ CountChunk(w) \/ Complete(w) \/ ForceComplete(w) \/ FinalStore(w)
    \/ FinalCleanup(w) \/ Fail(w) \/ FailStore(w)

LEMMA InnerRoles ==
    ASSUME TypeOK, NEW w \in Workers, InnerStep(w)
    PROVE  /\ SlotHolders' = SlotHolders /\ Connected' = Connected
           /\ UNCHANGED <<scheduled, nConnections, queue>>
  <1> DEFINE Inside == WorkerSteps \ {"idle", "leave", "last", "reap"}
             Moves == \E here, there \in Inside : WorkerAt(w, here, there)
  <1> USE DEF WorkerSteps
  <1>1. ASSUME Begin(w)
        PROVE  Moves /\ UNCHANGED <<scheduled, nConnections, queue>>
    BY <1>1 DEF Begin, counters
  <1>2. ASSUME ReleaseOrTake(w)
        PROVE  Moves /\ UNCHANGED <<scheduled, nConnections, queue>>
    BY <1>2 DEF ReleaseOrTake, counters
  <1>3. ASSUME TakeItem(w)
        PROVE  Moves /\ UNCHANGED <<scheduled, nConnections, queue>>
    BY <1>3 DEF TakeItem, counters
  <1>4. ASSUME ReleaseOrCheck(w)
        PROVE  Moves /\ UNCHANGED <<scheduled, nConnections, queue>>
    BY <1>4 DEF ReleaseOrCheck, counters
  <1>5. ASSUME Request(w)
        PROVE  Moves /\ UNCHANGED <<scheduled, nConnections, queue>>
    BY <1>5 DEF Request, counters
  <1>6. ASSUME Read(w)
        PROVE  Moves /\ UNCHANGED <<scheduled, nConnections, queue>>
    BY <1>6 DEF Read, GiveUp, counters
  <1>7. ASSUME Receive(w)
        PROVE  Moves /\ UNCHANGED <<scheduled, nConnections, queue>>
    BY <1>7 DEF Receive, GiveUp, counters
  <1>8. ASSUME Notify(w)
        PROVE  Moves /\ UNCHANGED <<scheduled, nConnections, queue>>
    BY <1>8 DEF Notify, AfterCount, Resting, counters
  <1>9. ASSUME PeriodicStore(w)
        PROVE  Moves /\ UNCHANGED <<scheduled, nConnections, queue>>
    BY <1>9 DEF PeriodicStore, AfterCount, Resting, counters
  <1>10. ASSUME CountChunk(w)
        PROVE  Moves /\ UNCHANGED <<scheduled, nConnections, queue>>
    BY <1>10 DEF CountChunk, Resting, counters
  <1>11. ASSUME Complete(w)
        PROVE  Moves /\ UNCHANGED <<scheduled, nConnections, queue>>
    BY <1>11 DEF Complete, Resting, counters
  <1>12. ASSUME ForceComplete(w)
        PROVE  Moves /\ UNCHANGED <<scheduled, nConnections, queue>>
    BY <1>12 DEF ForceComplete, counters
  <1>13. ASSUME FinalStore(w)
        PROVE  Moves /\ UNCHANGED <<scheduled, nConnections, queue>>
    BY <1>13 DEF FinalStore, counters
  <1>14. ASSUME FinalCleanup(w)
        PROVE  Moves /\ UNCHANGED <<scheduled, nConnections, queue>>
    BY <1>14 DEF FinalCleanup, Resting, counters
  <1>15. ASSUME Fail(w)
        PROVE  Moves /\ UNCHANGED <<scheduled, nConnections, queue>>
    BY <1>15 DEF Fail, counters
  <1>16. ASSUME FailStore(w)
        PROVE  Moves /\ UNCHANGED <<scheduled, nConnections, queue>>
    BY <1>16 DEF FailStore, counters
  <1>17. Moves /\ UNCHANGED <<scheduled, nConnections, queue>>
    BY <1>1, <1>2, <1>3, <1>4, <1>5, <1>6, <1>7, <1>8, <1>9, <1>10, <1>11, <1>12, <1>13, <1>14,
       <1>15, <1>16 DEF InnerStep
  <1>18. PICK here \in Inside, there \in Inside : WorkerAt(w, here, there)
    BY <1>17
  <1>19. SlotHolders' = SlotHolders /\ Connected' = Connected
    BY <1>18, SameRoles
  <1> QED
    BY <1>17, <1>19

LEMMA WorkerAccounting ==
    ASSUME AccountingInv, NEW w \in Workers, WorkerStep(w)
    PROVE  ConnectionAccounting'
  <1> TypeOK /\ ConnectionAccounting
    BY DEF AccountingInv
  <1>1. /\ IsFiniteSet(SlotHolders) /\ Cardinality(SlotHolders) \in Nat
        /\ IsFiniteSet(Connected) /\ Cardinality(Connected) \in Nat
    BY ThreadSetSize DEF SlotHolders, Connected
  <1>2. CASE InnerStep(w)
    BY <1>2, InnerRoles DEF ConnectionAccounting
  <1>3. CASE Open(w)
    <2>1. /\ SlotHolders' = SlotHolders \union {w} /\ w \notin SlotHolders
          /\ Connected' = Connected \union {w} /\ w \notin Connected
      BY <1>3 DEF Open, WorkerAt, SlotHolders, Connected, TypeOK
    <2>2. /\ Cardinality(SlotHolders') = Cardinality(SlotHolders) + 1
          /\ Cardinality(Connected') = Cardinality(Connected) + 1
      BY <1>1, <2>1, FS_AddElement
    <2> QED
      BY <1>1, <1>3, <2>2 DEF Open, ConnectionAccounting, TypeOK
  <1>4. CASE Close(w)
    <2>1. /\ SlotHolders' = SlotHolders \ {w} /\ w \in SlotHolders
          /\ Connected' = Connected
      BY <1>4 DEF Close, WorkerAt, SlotHolders, Connected, TypeOK
    <2>2. /\ Cardinality(SlotHolders') = Cardinality(SlotHolders) - 1
          /\ Cardinality(SlotHolders) # 0
      BY <1>1, <2>1, FS_RemoveElement, FS_EmptySet
    <2>3. scheduled' = scheduled - 1
      BY <1>1, <1>4, <2>2 DEF Close, Larger, ConnectionAccounting, TypeOK
    <2> QED
      BY <1>1, <1>4, <2>1, <2>2, <2>3, SizesAssumption
      DEF Close, ConnectionAccounting, TypeOK
  <1>5. CASE Leave(w)
    <2>1. /\ Connected' = Connected \ {w} /\ w \in Connected
          /\ SlotHolders' = SlotHolders
      BY <1>5 DEF Leave, WorkerAt, SlotHolders, Connected, TypeOK
    <2>2. Cardinality(Connected') = Cardinality(Connected) - 1
      BY <1>1, <2>1, FS_RemoveElement
    <2> QED
      BY <1>1, <1>5, <2>1, <2>2 DEF Leave, ConnectionAccounting, TypeOK
  <1>6. CASE LastLeaves(w) \/ Reap(w)
    <2>1. SlotHolders' = SlotHolders /\ Connected' = Connected
      BY <1>6 DEF LastLeaves, Reap, WorkerAt, SlotHolders, Connected, TypeOK
    <2> QED
      BY <1>6, <2>1 DEF LastLeaves, Reap, counters, ConnectionAccounting
  <1> QED
    BY <1>2, <1>3, <1>4, <1>5, <1>6 DEF WorkerStep, InnerStep

\* What the callers and the controller do to the counters: nothing, but for
\* AdmitWorkers.
LEMMA AdmissionAccounting ==
    ASSUME AccountingInv, AdmitWorkers, UNCHANGED wpc
    PROVE  ConnectionAccounting'
  <1> TypeOK /\ ConnectionAccounting
    BY DEF AccountingInv
  <1>1. SlotHolders' = SlotHolders /\ Connected' = Connected
    BY DEF SlotHolders, Connected
  <1>2. Cardinality(SlotHolders) \in Nat
    BY ThreadSetSize DEF SlotHolders
  <1> DEFINE granted == Smaller(desired - scheduled, Cardinality(Workers))
  <1>3. CASE granted > 0
    <2>1. granted <= desired - scheduled /\ granted \in Int
      BY PoolSize DEF Smaller, TypeOK
    <2>2. /\ scheduled' = scheduled + granted /\ queue' = queue + granted
          /\ UNCHANGED nConnections
      BY <1>3 DEF AdmitWorkers
    <2> HIDE DEF granted
    <2> QED
      BY <1>1, <1>2, <2>1, <2>2, SizesAssumption DEF ConnectionAccounting, TypeOK
  <1>4. CASE ~(granted > 0)
    BY <1>1, <1>4 DEF AdmitWorkers, counters, ConnectionAccounting
  <1> QED
    BY <1>3, <1>4

LEMMA IdleAccounting ==
    ASSUME ConnectionAccounting, UNCHANGED <<wpc, scheduled, nConnections, queue>>
    PROVE  ConnectionAccounting'
  BY DEF ConnectionAccounting, SlotHolders, Connected

LEMMA OthersAccounting ==
    ASSUME AccountingInv,
           \/ \E u \in Callers : CallerStep(u) \/ CallerBegins(u)
           \/ Sample \/ ControllerStep
    PROVE  ConnectionAccounting'
  <1> ConnectionAccounting
    BY DEF AccountingInv
  <1>1. ASSUME NEW u \in Callers, CallerStep(u), ~CallerAdmit(u)
        PROVE  UNCHANGED <<wpc, scheduled, nConnections, queue>>
    BY <1>1
    DEF CallerStep, Drained, Rebuild, CallerPlan, Quiesce, Discard,
        TerminateStore, TerminatePause, counters
  <1>2. ASSUME NEW u \in Callers, CallerBegins(u)
        PROVE  UNCHANGED <<wpc, scheduled, nConnections, queue>>
    BY <1>2 DEF CallerBegins, Resume, Pause, Cancel, Terminate, counters
  <1>3. ASSUME NEW u \in Callers, CallerAdmit(u)
        PROVE  AdmitWorkers /\ UNCHANGED wpc
    BY <1>3 DEF CallerAdmit
  <1>4. ASSUME Sample \/ SetDesiredConnections \/ ControllerPlan
        PROVE  UNCHANGED <<wpc, scheduled, nConnections, queue>>
    BY <1>4 DEF Sample, SetDesiredConnections, ControllerPlan, counters
  <1>5. ASSUME ControllerAdmit
        PROVE  AdmitWorkers /\ UNCHANGED wpc
    BY <1>5 DEF ControllerAdmit
  <1> QED
    BY <1>1, <1>2, <1>3, <1>4, <1>5, IdleAccounting, AdmissionAccounting
    DEF ControllerStep

LEMMA AccountingNext == AccountingInv /\ [Next]_vars => AccountingInv'
  <1> SUFFICES ASSUME AccountingInv, [Next]_vars PROVE AccountingInv'
    OBVIOUS
  <1> TypeOK
    BY DEF AccountingInv
  <1>1. CASE \E w \in Workers : WorkerStep(w)
    BY <1>1, WorkerTypes, WorkerAccounting DEF AccountingInv
  <1>2. CASE \E u \in Callers : CallerStep(u) \/ CallerBegins(u)
    BY <1>2, CallerTypes, OthersAccounting DEF AccountingInv
  <1>3. CASE Sample \/ ControllerStep
    BY <1>3, ControllerTypes, OthersAccounting DEF AccountingInv
  <1>4. CASE UNCHANGED vars
    BY <1>4
    DEF AccountingInv, TypeOK, ConnectionAccounting, SlotHolders, Connected,
        vars, counters, progress, disk, spent
  <1> QED
    BY <1>1, <1>2, <1>3, <1>4 DEF Next

\* For any number of workers, callers, chunks and connections: the variables
\* have their types, and scheduledConnections_ and nConnections_ count exactly
\* the slots and the connections in use, within maxConnections_.
THEOREM TypeCorrect == Spec => []TypeOK
  <1>1. Spec => []AccountingInv
    BY AccountingInit, AccountingNext, PTL DEF Spec
  <1>2. AccountingInv => TypeOK
    BY DEF AccountingInv
  <1> QED
    BY <1>1, <1>2, PTL

\* No interleaving of PlanNewWorkers and NotifyConnectionClose loses or leaks a
\* slot, or grants more than maxConnections_.
THEOREM AccountingCorrect == Spec => []ConnectionAccounting
  <1>1. Spec => []AccountingInv
    BY AccountingInit, AccountingNext, PTL DEF Spec
  <1>2. AccountingInv => ConnectionAccounting
    BY DEF AccountingInv
  <1> QED
    BY <1>1, <1>2, PTL
----------------------------------------------------------------------------
(* Who holds which chunk.                                                  *)

\* A worker holds no chunk where it may not have one: in particular not when
\* it has given its slot back.
HeldInside ==
    \A w \in Workers : item[w].chunk # 0 =>
        wpc[w] \notin {"idle", "begin", "take", "close", "leave", "last", "reap"}

AssignmentInv == AccountingInv /\ HeldInside /\ ExclusiveAssignment

\* The only ways in which a step changes who holds what.
Keeps ==
    /\ backlog' = backlog
    /\ \A v \in Workers : item'[v].chunk = item[v].chunk
Drops(w) ==
    /\ backlog' = backlog
    /\ \A v \in Workers : item'[v].chunk = IF v = w THEN 0 ELSE item[v].chunk
Takes(w) ==
    \E c \in backlog :
        /\ backlog' = backlog \ {c}
        /\ \A v \in Workers : item'[v].chunk = IF v = w THEN c ELSE item[v].chunk

\* Each of them preserves the assignment.
LEMMA AssignmentMoves ==
    ASSUME TypeOK, ExclusiveAssignment, NEW w \in Workers,
           Keeps \/ Drops(w) \/ Takes(w)
    PROVE  ExclusiveAssignment'
  <1>1. CASE Keeps
    BY <1>1 DEF Keeps, ExclusiveAssignment
  <1>2. CASE Drops(w)
    BY <1>2 DEF Drops, ExclusiveAssignment
  <1>3. CASE Takes(w)
    <2>1. PICK c \in backlog :
            /\ backlog' = backlog \ {c}
            /\ \A v \in Workers : item'[v].chunk = IF v = w THEN c ELSE item[v].chunk
      BY <1>3 DEF Takes
    <2> QED
      BY <2>1 DEF ExclusiveAssignment
  <1> QED
    BY <1>1, <1>2, <1>3

\* What a step of a worker does to the items, and where it leaves the worker.
LEMMA WorkerHolds ==
    ASSUME TypeOK, HeldInside, NEW w \in Workers, WorkerStep(w)
    PROVE  (Keeps \/ Drops(w) \/ Takes(w)) /\ HeldInside'
  <1> USE DEF WorkerAt, progress, NoItem, Work, HeldInside, Keeps, Drops
  <1>1. item \in [Workers -> Items] /\ wpc \in [Workers -> WorkerSteps]
    BY DEF TypeOK
  <1>2. CASE Begin(w) \/ Open(w) \/ Close(w) \/ Leave(w) \/ LastLeaves(w) \/ Reap(w)
    BY <1>1, <1>2 DEF Begin, Open, Close, Leave, LastLeaves, Reap
  <1>3. CASE ReleaseOrTake(w) \/ ReleaseOrCheck(w) \/ Fail(w) \/ FailStore(w)
    BY <1>1, <1>3 DEF ReleaseOrTake, ReleaseOrCheck, Fail, FailStore
  <1>4. CASE TakeItem(w)
    BY <1>1, <1>4 DEF TakeItem, Takes
  <1>5. CASE Request(w)
    BY <1>1, <1>5 DEF Request
  <1>6. CASE Read(w)
    BY <1>1, <1>6 DEF Read, GiveUp
  <1>7. CASE Receive(w)
    BY <1>1, <1>7 DEF Receive, GiveUp
  <1>8. CASE Notify(w) \/ PeriodicStore(w) \/ CountChunk(w) \/ Complete(w)
    BY <1>1, <1>8
    DEF Notify, PeriodicStore, CountChunk, Complete, AfterCount, Resting
  <1>9. CASE ForceComplete(w) \/ FinalStore(w) \/ FinalCleanup(w)
    BY <1>1, <1>9 DEF ForceComplete, FinalStore, FinalCleanup, Resting
  <1> QED
    BY <1>2, <1>3, <1>4, <1>5, <1>6, <1>7, <1>8, <1>9 DEF WorkerStep

\* BuildPendingWork runs when no slot is taken, so nobody holds a chunk.
LEMMA NobodyHolds ==
    ASSUME AccountingInv, HeldInside, scheduled = 0
    PROVE  \A w \in Workers : item[w].chunk = 0
  <1>1. IsFiniteSet(SlotHolders) /\ Cardinality(SlotHolders) \in Nat
    BY ThreadSetSize DEF SlotHolders
  <1>2. Cardinality(SlotHolders) = 0
    BY <1>1 DEF AccountingInv, ConnectionAccounting, TypeOK
  <1>3. SlotHolders = {}
    BY <1>1, <1>2, FS_EmptySet
  <1> QED
    BY <1>3 DEF SlotHolders, HeldInside

LEMMA CallerHolds ==
    ASSUME AssignmentInv, NEW u \in Callers, CallerStep(u) \/ CallerBegins(u)
    PROVE  HeldInside' /\ ExclusiveAssignment'
  <1> AccountingInv /\ TypeOK /\ HeldInside /\ ExclusiveAssignment
    BY DEF AssignmentInv, AccountingInv
  <1>1. UNCHANGED <<wpc, item>>
    BY DEF CallerStep, CallerBegins, Drained, Rebuild, CallerPlan, CallerAdmit,
           Quiesce, Discard, TerminateStore, TerminatePause, Resume, Pause,
           Cancel, Terminate
  <1>2. HeldInside'
    BY <1>1 DEF HeldInside
  <1>3. CASE UNCHANGED backlog
    BY <1>1, <1>2, <1>3 DEF ExclusiveAssignment
  <1>4. CASE Rebuild(u) /\ scheduled = 0
    BY <1>1, <1>2, <1>4, NobodyHolds DEF ExclusiveAssignment
  <1>5. UNCHANGED backlog \/ (Rebuild(u) /\ scheduled = 0)
    BY DEF CallerStep, CallerBegins, Drained, Rebuild, CallerPlan, CallerAdmit,
           Quiesce, Discard, TerminateStore, TerminatePause, Resume, Pause,
           Cancel, Terminate, progress
  <1> QED
    BY <1>2, <1>3, <1>4, <1>5

LEMMA AssignmentNext == AssignmentInv /\ [Next]_vars => AssignmentInv'
  <1> SUFFICES ASSUME AssignmentInv, [Next]_vars PROVE AssignmentInv'
    OBVIOUS
  <1> AccountingInv /\ TypeOK /\ HeldInside /\ ExclusiveAssignment
    BY DEF AssignmentInv, AccountingInv
  <1>1. AccountingInv'
    BY AccountingNext
  <1>2. CASE \E w \in Workers : WorkerStep(w)
    BY <1>1, <1>2, WorkerHolds, AssignmentMoves DEF AssignmentInv
  <1>3. CASE \E u \in Callers : CallerStep(u) \/ CallerBegins(u)
    BY <1>1, <1>3, CallerHolds DEF AssignmentInv
  <1>4. CASE Sample \/ ControllerStep \/ UNCHANGED vars
    <2>1. UNCHANGED <<wpc, item, backlog>>
      BY <1>4
      DEF Sample, ControllerStep, SetDesiredConnections, ControllerPlan,
          ControllerAdmit, vars, progress
    <2> QED
      BY <1>1, <2>1 DEF AssignmentInv, HeldInside, ExclusiveAssignment
  <1> QED
    BY <1>2, <1>3, <1>4 DEF Next

\* Across any number of pauses, failures and resumes, and with any number of
\* workers, no chunk is ever in the hands of two of them, or of one and still
\* in pendingWork_: GetNextWorkItem hands out every item once, and a rebuild
\* that is not a data race finds nobody with an item.
THEOREM AssignmentCorrect == Spec => []ExclusiveAssignment
  <1>1. Init => AssignmentInv
    <2> SUFFICES ASSUME Init PROVE AssignmentInv
      OBVIOUS
    <2>1. \A w \in Workers : item[w].chunk = 0
      BY DEF Init, NoItem, Work
    <2> QED
      BY <2>1, AccountingInit DEF AssignmentInv, HeldInside, ExclusiveAssignment
  <1>2. Spec => []AssignmentInv
    BY <1>1, AssignmentNext, PTL DEF Spec
  <1>3. AssignmentInv => ExclusiveAssignment
    BY DEF AssignmentInv
  <1> QED
    BY <1>2, <1>3, PTL

----------------------------------------------------------------------------
(* Who removes the files.                                                  *)

\* The worker that cleans up after a completion finds the job Completed.
Final == (\E w \in Workers : wpc[w] \in {"final", "cleanup"}) => state = "Completed"

\* After a cleanup there is no image, and an output only of a completed job.
Removal == ~writerOpen => image = NoImage /\ (outputFile => state = "Completed")

\* While a canceled job has its files, somebody is on the way to remove them: a
\* connection that will be the last one to close, the worker that closed the
\* last one, or the thread that called Cancel.
Reaper ==
    \/ Connected # {}
    \/ \E w \in Workers : wpc[w] \in {"last", "reap"}
    \/ \E u \in Callers : upc[u] \in {"quiesce", "discard"}
Reaping == state = "Canceled" /\ writerOpen => Reaper

ReapInv == AccountingInv /\ Final /\ Removal /\ Reaping

\* What a step does to the files and to the state, as far as it matters here.
FilesStay == UNCHANGED <<image, writerOpen, outputFile>>

LEMMA WorkerRemoval ==
    ASSUME TypeOK, Final, Removal, NEW w \in Workers, WorkerStep(w)
    PROVE  Final' /\ Removal'
  <1> USE DEF WorkerAt, progress, disk
  <1> wpc \in [Workers -> WorkerSteps]
    BY DEF TypeOK
  <1>1. CASE PeriodicStore(w) \/ FinalStore(w) \/ FailStore(w)
    BY <1>1
    DEF PeriodicStore, FinalStore, FailStore, AfterCount, Resting, Store, Final, Removal
  <1>2. CASE FinalCleanup(w) \/ Reap(w)
    BY <1>2 DEF FinalCleanup, Reap, CleanupArtifacts, Resting, Final, Removal
  <1>3. CASE Complete(w) \/ ForceComplete(w)
    BY <1>3 DEF Complete, ForceComplete, Resting, Final, Removal
  <1>4. CASE /\ FilesStay /\ wpc'[w] \notin {"final", "cleanup"}
             /\ \A v \in Workers \ {w} : wpc'[v] = wpc[v]
             /\ state = "Completed" => state' = "Completed"
    BY <1>4 DEF FilesStay, Final, Removal
  <1>5. CASE Begin(w) \/ Open(w) \/ Close(w) \/ Leave(w) \/ LastLeaves(w) \/ Fail(w)
    BY <1>4, <1>5 DEF Begin, Open, Close, Leave, LastLeaves, Fail, FailFrom, FilesStay
  <1>6. CASE ReleaseOrTake(w) \/ ReleaseOrCheck(w) \/ TakeItem(w) \/ Request(w)
    BY <1>4, <1>6 DEF ReleaseOrTake, ReleaseOrCheck, TakeItem, Request, FilesStay
  <1>7. CASE Read(w) \/ Receive(w) \/ Notify(w) \/ CountChunk(w)
    BY <1>4, <1>7
    DEF Read, Receive, GiveUp, Notify, AfterCount, CountChunk, Resting, FilesStay
  <1> QED
    BY <1>1, <1>2, <1>3, <1>5, <1>6, <1>7 DEF WorkerStep

LEMMA WorkerReaps ==
    ASSUME AccountingInv, Reaping, NEW w \in Workers, WorkerStep(w)
    PROVE  Reaping'
  <1> TypeOK /\ ConnectionAccounting
    BY DEF AccountingInv
  <1> wpc \in [Workers -> WorkerSteps]
    BY DEF TypeOK
  <1> SUFFICES ASSUME state' = "Canceled", writerOpen' PROVE Reaper'
    BY DEF Reaping
  <1> USE DEF WorkerAt, disk
  <1>1. CASE InnerStep(w)
    <2>1. w \in Connected
      BY <1>1
      DEF InnerStep, Begin, ReleaseOrTake, TakeItem, ReleaseOrCheck, Request,
          Read, Receive, Notify, PeriodicStore, CountChunk, Complete,
          ForceComplete, FinalStore, FinalCleanup, Fail, FailStore, Connected
    <2> QED
      BY <1>1, <2>1, InnerRoles DEF Reaper
  <1>2. CASE Open(w) \/ Close(w)
    <2>1. w \in Connected'
      BY <1>2 DEF Open, Close, Connected
    <2> QED
      BY <2>1 DEF Reaper
  <1>3. CASE Leave(w)
    <2>1. CASE nConnections = 1
      BY <1>3, <2>1 DEF Leave, Reaper
    <2>2. CASE nConnections # 1
      <3>1. w \in Connected /\ Connected' = Connected \ {w}
        BY <1>3 DEF Leave, Connected
      <3>2. IsFiniteSet(Connected) /\ Cardinality(Connected) # 1
        BY <2>2, ThreadSetSize DEF Connected, ConnectionAccounting
      <3>3. Connected # {w}
        BY <3>2, FS_Singleton
      <3> QED
        BY <3>1, <3>3 DEF Reaper
    <2> QED
      BY <2>1, <2>2
  <1>4. CASE LastLeaves(w)
    BY <1>4 DEF LastLeaves, Reaper
  <1>5. CASE Reap(w)
    BY <1>5 DEF Reap, CleanupArtifacts
  <1> QED
    BY <1>1, <1>2, <1>3, <1>4, <1>5 DEF WorkerStep, InnerStep

LEMMA CallerReaps ==
    ASSUME ReapInv, NEW u \in Callers, CallerStep(u) \/ CallerBegins(u)
    PROVE  Final' /\ Removal' /\ Reaping'
  <1>1. /\ TypeOK /\ ConnectionAccounting /\ Final /\ Removal /\ Reaping
        /\ upc \in [Callers -> CallerSteps]
    BY DEF ReapInv, AccountingInv, TypeOK
  <1> USE DEF CallerAt, disk
  <1>2. UNCHANGED wpc
    BY DEF CallerStep, CallerBegins, Drained, Rebuild, CallerPlan, CallerAdmit,
           Quiesce, Discard, TerminateStore, TerminatePause, Resume, Pause,
           Cancel, Terminate
  <1>3. CASE Cancel(u)
    BY <1>1, <1>2, <1>3
    DEF Cancel, Call, CancelFrom, Final, Removal, Reaping, Reaper
  <1>4. CASE Quiesce(u)
    <2>1. nConnections # 0 => Connected # {}
      BY <1>1, FS_EmptySet DEF ConnectionAccounting
    <2> QED
      BY <1>1, <1>2, <1>4, <2>1
      DEF Quiesce, Final, Removal, Reaping, Reaper, Connected
  <1>5. CASE Discard(u)
    BY <1>1, <1>2, <1>5 DEF Discard, CleanupArtifacts, Final, Removal, Reaping
  <1>6. CASE TerminateStore(u)
    BY <1>1, <1>2, <1>6
    DEF TerminateStore, Store, Final, Removal, Reaping, Reaper, Connected
  <1>7. CASE /\ FilesStay
             /\ \A v \in Callers :
                  upc[v] \in {"quiesce", "discard"} => upc'[v] = upc[v]
             /\ state = "Completed" => state' = "Completed"
             /\ state' = "Canceled" => state = "Canceled"
    BY <1>1, <1>2, <1>7
    DEF FilesStay, Final, Removal, Reaping, Reaper, Connected
  <1>8. CASE Resume(u) \/ Pause(u) \/ Terminate(u)
    BY <1>1, <1>7, <1>8
    DEF Resume, ResumeFrom, Pause, PauseFrom, Terminate, Call, FilesStay
  <1>9. CASE Drained(u) \/ Rebuild(u) \/ CallerPlan(u) \/ CallerAdmit(u) \/ TerminatePause(u)
    BY <1>1, <1>7, <1>9
    DEF Drained, Rebuild, CallerPlan, CallerAdmit, TerminatePause, PauseFrom, FilesStay
  <1> QED
    BY <1>3, <1>4, <1>5, <1>6, <1>8, <1>9 DEF CallerStep, CallerBegins

LEMMA ReapNext == ReapInv /\ [Next]_vars => ReapInv'
  <1> SUFFICES ASSUME ReapInv, [Next]_vars PROVE ReapInv'
    OBVIOUS
  <1>1. AccountingInv'
    BY AccountingNext DEF ReapInv
  <1>2. AccountingInv /\ TypeOK /\ Final /\ Removal /\ Reaping
    BY DEF ReapInv, AccountingInv
  <1>3. CASE \E w \in Workers : WorkerStep(w)
    BY <1>1, <1>2, <1>3, WorkerRemoval, WorkerReaps DEF ReapInv
  <1>4. CASE \E u \in Callers : CallerStep(u) \/ CallerBegins(u)
    BY <1>1, <1>4, CallerReaps DEF ReapInv
  <1>5. CASE Sample \/ ControllerStep \/ UNCHANGED vars
    <2>1. UNCHANGED <<state, wpc, upc, disk>>
      BY <1>5
      DEF Sample, ControllerStep, SetDesiredConnections, ControllerPlan,
          ControllerAdmit, vars
    <2> QED
      BY <1>1, <1>2, <2>1
      DEF ReapInv, Final, Removal, Reaping, Reaper, Connected, disk
  <1> QED
    BY <1>3, <1>4, <1>5 DEF Next

\* For any number of connections and callers, and also when a canceled job is
\* resumed and canceled again: when Cancel is over and the last connection is
\* closed, somebody has removed the output and the image.
THEOREM ReapCorrect == Spec => []CanceledIsReaped
  <1>1. Init => ReapInv
    BY AccountingInit DEF Init, ReapInv, Final, Removal, Reaping
  <1>2. Spec => []ReapInv
    BY <1>1, ReapNext, PTL DEF Spec
  <1>3. ReapInv => CanceledIsReaped
    <2> SUFFICES ASSUME ReapInv, state = "Canceled",
                        \A w \in Workers : wpc[w] = "idle",
                        \A u \in Callers : upc[u] \notin {"quiesce", "discard"}
                 PROVE  ~outputFile /\ image = NoImage /\ ~writerOpen
      BY DEF CanceledIsReaped
    <2>1. ~Reaper
      BY DEF Reaper, Connected
    <2> QED
      BY <2>1 DEF ReapInv, Reaping, Removal, AccountingInv, TypeOK
  <1> QED
    BY <1>2, <1>3, PTL

----------------------------------------------------------------------------
(* The rebuild of the work list.                                           *)

\* While no tick has come, nobody grants a slot behind the back of a single
\* caller between its drain loop and its rebuild.
DrainInv ==
    /\ ticks = 0 => cpc = "idle"
    /\ ticks = 0 /\ Rebuilding # {} => scheduled = 0
    /\ RebuildAfterDrain

LEMMA WorkerDrained ==
    ASSUME AccountingInv, DrainInv, NEW w \in Workers, WorkerStep(w)
    PROVE  DrainInv'
  <1> USE DEF WorkerAt, spent
  <1>1. UNCHANGED <<upc, cpc, ticks>>
    BY DEF WorkerStep, Begin, ReleaseOrTake, TakeItem, ReleaseOrCheck, Request,
           Read, Receive, Notify, PeriodicStore, CountChunk, Complete,
           ForceComplete, FinalStore, FinalCleanup, Fail, FailStore, Open,
           Close, Leave, LastLeaves, Reap, Suffer
  <1>2. scheduled' = scheduled \/ Close(w)
    BY InnerRoles DEF AccountingInv, InnerStep, WorkerStep, Open, Leave, LastLeaves, Reap,
       counters
  <1>3. scheduled = 0 => scheduled' = 0
    BY <1>2 DEF Close, Larger
  <1>4. w \in SlotHolders => scheduled # 0
    <2>1. IsFiniteSet(SlotHolders) /\ Cardinality(SlotHolders) \in Nat
      BY ThreadSetSize DEF SlotHolders
    <2> QED
      BY <2>1, FS_EmptySet DEF AccountingInv, ConnectionAccounting, TypeOK
  <1>5. fault' = "race" => TakeItem(w) /\ Rebuilding # {}
    BY DEF WorkerStep, Begin, ReleaseOrTake, TakeItem, ReleaseOrCheck, Request,
           Read, Receive, Notify, PeriodicStore, CountChunk, Complete,
           ForceComplete, FinalStore, FinalCleanup, Fail, FailStore, Open,
           Close, Leave, LastLeaves, Reap, Store, disk
  <1>6. TakeItem(w) => w \in SlotHolders
    BY DEF TakeItem, SlotHolders
  <1>7. Rebuilding' = Rebuilding
    BY <1>1 DEF Rebuilding
  <1> QED
    BY <1>1, <1>3, <1>4, <1>5, <1>6, <1>7 DEF DrainInv, RebuildAfterDrain

LEMMA CallerDrained ==
    ASSUME \A u, v \in Callers : u = v, AccountingInv, DrainInv,
           NEW u \in Callers, CallerStep(u) \/ CallerBegins(u)
    PROVE  DrainInv'
  <1> USE DEF CallerAt, spent, counters
  <1> upc \in [Callers -> CallerSteps] /\ fault \in {"none", "null", "race"}
    BY DEF AccountingInv, TypeOK
  <1>1. UNCHANGED <<cpc, ticks>>
    BY DEF CallerStep, CallerBegins, Drained, Rebuild, CallerPlan, CallerAdmit,
           Quiesce, Discard, TerminateStore, TerminatePause, Resume, Pause,
           Cancel, Terminate, Call
  <1>2. CASE Drained(u)
    BY <1>1, <1>2 DEF Drained, DrainInv, RebuildAfterDrain
  <1>3. CASE Rebuild(u)
    <2>1. Rebuilding = {u}
      BY <1>3 DEF Rebuild, Rebuilding
    <2> QED
      BY <1>1, <1>3, <2>1 DEF Rebuild, Rebuilding, DrainInv, RebuildAfterDrain, CallerStep,
         CallerBegins
  <1>4. CASE ~(Drained(u) \/ Rebuild(u))
    <2>1. upc[u] # "rebuild" /\ upc'[u] # "rebuild" /\ fault' # "race"
      BY <1>4
      DEF CallerStep, CallerBegins, CallerPlan, CallerAdmit, Quiesce, Discard,
          TerminateStore, TerminatePause, Resume, Pause, Cancel, Terminate, Call,
          Store, disk
    <2>2. Rebuilding' = {}
      BY <2>1 DEF Rebuilding
    <2> QED
      BY <1>1, <2>1, <2>2 DEF DrainInv, RebuildAfterDrain
  <1> QED
    BY <1>2, <1>3, <1>4

\* For one calling thread and until the controller ticks, BuildPendingWork never
\* overlaps another use of pendingWork_: the drain loop of Resume waits for every
\* worker that was scheduled before, for any number of them.
THEOREM RebuildCorrect == (\A u, v \in Callers : u = v) => (Spec => []RebuildAfterDrain)
  <1> SUFFICES ASSUME \A u, v \in Callers : u = v PROVE Spec => []RebuildAfterDrain
    OBVIOUS
  <1>1. Init => AccountingInv /\ DrainInv
    BY AccountingInit DEF Init, DrainInv, RebuildAfterDrain
  <1>2. AccountingInv /\ DrainInv /\ [Next]_vars => (AccountingInv /\ DrainInv)'
    <2> SUFFICES ASSUME AccountingInv, DrainInv, [Next]_vars PROVE DrainInv'
      BY AccountingNext
    <2>1. CASE \E w \in Workers : WorkerStep(w)
      BY <2>1, WorkerDrained
    <2>2. CASE \E u \in Callers : CallerStep(u) \/ CallerBegins(u)
      BY <2>2, CallerDrained
    <2>3. CASE Sample \/ ControllerStep
      BY <2>3
      DEF Sample, ControllerStep, ControllerAt, SetDesiredConnections,
          ControllerPlan, ControllerAdmit, DrainInv, RebuildAfterDrain, Rebuilding,
          counters, spent, AccountingInv, TypeOK
    <2>4. CASE UNCHANGED vars
      BY <2>4 DEF vars, counters, spent, DrainInv, RebuildAfterDrain, Rebuilding
    <2> QED
      BY <2>1, <2>2, <2>3, <2>4 DEF Next
  <1> QED
    BY <1>1, <1>2, PTL DEF Spec, DrainInv

----------------------------------------------------------------------------
(***************************************************************************)
(* The bytes and the counts, and that DownloadEngine implements            *)
(* DownloadJob, for a server with Range support and otherwise any value of *)
(* the constants.                                                          *)
(***************************************************************************)

----------------------------------------------------------------------------
(* The inductive invariant, first half: where a worker is in its chunk.    *)

\* Where a worker has a chunk whose next unit it does not have yet, where it has
\* all of it, and where the body it reads is at the offset it writes to.
Wanting == {"check", "status", "read", "recv", "notify", "fail", "failstore"}
Filled == {"loop", "count", "complete", "force", "final", "cleanup"}
Aligned == WorkerSteps \ {"check", "status", "fail", "failstore"}
Occupied == (Wanting \union Filled \union {"store"}) \ {"loop", "fail", "failstore"}

\* The offset of a worker that holds a chunk is the chunk's count, or one more
\* when a unit is written and not counted yet.
Position(w) ==
    /\ wpc[w] \in Occupied => item[w].chunk # 0
    /\ item[w].chunk # 0 =>
        /\ wpc[w] \in Wanting => received[item[w].chunk] < ChunkUnits
        /\ wpc[w] \in Filled => received[item[w].chunk] = ChunkUnits
        /\ wpc[w] \in Aligned => item[w].src = item[w].off
        /\ wpc[w] = "notify" => /\ item[w].off = received[item[w].chunk] + 1
                                /\ received[item[w].chunk] \in file[item[w].chunk]
        /\ wpc[w] # "notify" => item[w].off = received[item[w].chunk]

Positions == \A w \in Workers : Position(w)

\* The items that wait begin where their chunk's count is.
Listed == \A c \in backlog : rangeStart[c] = received[c] /\ received[c] < ChunkUnits

\* What is counted is on disk, and what is stored is counted.
Backed ==
    /\ \A c \in Chunks : received[c] <= ChunkUnits
    /\ \A c \in Chunks : \A k \in Units : k < received[c] => k \in file[c]
    /\ image # NoImage => \A c \in Chunks : image[c] <= received[c]

DataInv == AssignmentInv /\ Positions /\ Listed /\ Backed

----------------------------------------------------------------------------
(* What a step of one worker leaves to the others.                         *)

Local(w) ==
    /\ \A v \in Workers \ {w} : wpc'[v] = wpc[v] /\ item'[v] = item[v]
    /\ \A c \in Chunks \ {item[w].chunk} :
        received'[c] = received[c] /\ file'[c] = file[c]
    /\ backlog' \subseteq backlog /\ rangeStart' = rangeStart

\* A worker touches only the chunk it holds.
LEMMA WorkerIsLocal ==
    ASSUME TypeOK, NEW w \in Workers, WorkerStep(w)
    PROVE  Local(w)
  <1> USE DEF Local, WorkerAt, progress, disk, TypeOK
  <1>1. CASE Begin(w) \/ Open(w) \/ Close(w) \/ Leave(w) \/ LastLeaves(w)
    BY <1>1 DEF Begin, Open, Close, Leave, LastLeaves
  <1>2. CASE ReleaseOrTake(w) \/ ReleaseOrCheck(w) \/ Request(w) \/ Read(w)
    BY <1>2 DEF ReleaseOrTake, ReleaseOrCheck, Request, Read
  <1>3. CASE TakeItem(w)
    BY <1>3 DEF TakeItem
  <1>4. CASE Receive(w)
    BY <1>4 DEF Receive
  <1>5. CASE Notify(w)
    BY <1>5 DEF Notify
  <1>6. CASE PeriodicStore(w) \/ FinalStore(w) \/ FailStore(w)
    BY <1>6 DEF PeriodicStore, FinalStore, FailStore, Store
  <1>7. CASE CountChunk(w) \/ Complete(w) \/ ForceComplete(w) \/ Fail(w)
    BY <1>7 DEF CountChunk, Complete, ForceComplete, Fail
  <1>8. CASE FinalCleanup(w) \/ Reap(w)
    BY <1>8 DEF FinalCleanup, Reap, CleanupArtifacts
  <1> QED
    BY <1>1, <1>2, <1>3, <1>4, <1>5, <1>6, <1>7, <1>8 DEF WorkerStep

\* So the others stay where they are in their chunks.
LEMMA OthersStay ==
    ASSUME TypeOK, ExclusiveAssignment, Positions, Listed,
           NEW w \in Workers, Local(w), Position(w)'
    PROVE  Positions' /\ Listed'
  <1>1. ASSUME NEW v \in Workers, v # w PROVE Position(v)'
    <2>1. wpc'[v] = wpc[v] /\ item'[v] = item[v]
      BY <1>1 DEF Local
    <2>2. CASE item[v].chunk = 0
      BY <2>1, <2>2 DEF Positions, Position
    <2>3. CASE item[v].chunk # 0
      <3>1. item[v].chunk \in Chunks /\ item[v].chunk # item[w].chunk
        BY <1>1, <2>3 DEF ExclusiveAssignment, TypeOK, Items
      <3>2. /\ received'[item[v].chunk] = received[item[v].chunk]
            /\ file'[item[v].chunk] = file[item[v].chunk]
        BY <3>1 DEF Local
      <3> QED
        BY <2>1, <3>2 DEF Positions, Position
    <2> QED
      BY <2>2, <2>3
  <1>2. ASSUME NEW c \in backlog' PROVE rangeStart'[c] = received'[c] /\ received'[c] < ChunkUnits
    <2>1. c \in backlog /\ c \in Chunks /\ c # item[w].chunk /\ rangeStart'[c] = rangeStart[c]
      BY <1>2 DEF Local, ExclusiveAssignment, TypeOK, Chunks
    <2> QED
      BY <2>1 DEF Local, Listed
  <1> QED
    BY <1>1, <1>2 DEF Positions, Listed

----------------------------------------------------------------------------
(* Where each step leaves the worker that makes it.                        *)

\* A worker that has no chunk has no position to lose.
LEMMA Unplaced ==
    ASSUME NEW w \in Workers, item'[w].chunk = 0, wpc'[w] \notin Occupied
    PROVE  Position(w)'
  BY DEF Position

\* Every step of a worker leaves it at the offset its chunk's count is at.
LEMMA WorkerPosition ==
    ASSUME Ranged, TypeOK, HeldInside, Positions, Listed, Backed,
           NEW w \in Workers, WorkerStep(w)
    PROVE  Position(w)'
  <1>1. /\ Position(w) /\ item \in [Workers -> Items] /\ wpc \in [Workers -> WorkerSteps]
        /\ item[w].chunk \in {0} \union Chunks /\ item[w].off \in Nat
        /\ item[w].src \in Nat /\ received \in [Chunks -> Nat] /\ ChunkUnits \in Nat \ {0}
        /\ file \in [Chunks -> SUBSET Units] /\ 0 \notin Chunks
    <2>1. /\ item \in [Workers -> Items] /\ wpc \in [Workers -> WorkerSteps]
          /\ received \in [Chunks -> Nat] /\ file \in [Chunks -> SUBSET Units]
      BY DEF TypeOK
    <2>2. ChunkUnits \in Nat \ {0} /\ 0 \notin Chunks
      BY SizesAssumption DEF Chunks
    <2>3. Position(w)
      BY DEF Positions
    <2> QED
      BY <2>1, <2>2, <2>3 DEF Items
  <1> USE DEF WorkerAt, progress, disk, Position, Occupied, Wanting, Filled
  <1>2. item[w].chunk # 0 =>
            wpc[w] \notin {"idle", "begin", "take", "close", "leave", "last", "reap"}
    BY DEF HeldInside
  <1> HIDE DEF Position
  <1>3. CASE Begin(w) \/ Open(w) \/ Close(w) \/ Leave(w) \/ LastLeaves(w) \/ Reap(w)
    <2>1. wpc'[w] \in {"loop", "fail", "begin", "leave", "last", "idle", "reap"} /\ item' = item
          /\ wpc[w] \in {"begin", "idle", "close", "leave", "last", "reap"}
      BY <1>1, <1>3 DEF Begin, Open, Close, Leave, LastLeaves, Reap
    <2> QED
      BY <1>2, <2>1, Unplaced
  <1>4. CASE ReleaseOrTake(w) \/ FailStore(w)
    BY <1>1, <1>4, Unplaced DEF ReleaseOrTake, FailStore, NoItem, Work
  <1>5. CASE TakeItem(w)
    <2>1. CASE wpc'[w] # "check"
      <3>1. wpc'[w] \in {"take", "close"} /\ wpc[w] = "take" /\ item' = item
        BY <1>1, <1>5, <2>1 DEF TakeItem
      <3> QED
        BY <1>2, <3>1, Unplaced
    <2>2. CASE wpc'[w] = "check"
      <3>1. PICK c \in backlog : item'[w] = Work(c, rangeStart[c], 0)
        BY <1>1, <1>5, <2>2 DEF TakeItem
      <3>2. c \in Chunks /\ rangeStart[c] = received[c] /\ received[c] < ChunkUnits
        BY <3>1 DEF Listed, TypeOK
      <3>3. /\ item'[w].chunk = c /\ item'[w].off = received'[c]
            /\ received' = received /\ c # 0
        BY <1>5, <3>1, <3>2 DEF TakeItem, Work, Chunks
      <3> QED
        BY <2>2, <3>1, <3>2, <3>3 DEF Position, Aligned
    <2> QED
      BY <2>1, <2>2
  <1>6. CASE ReleaseOrCheck(w)
    BY <1>1, <1>6 DEF ReleaseOrCheck, Position, Aligned, NoItem, Work
  <1>7. CASE Request(w)
    BY <1>1, <1>7 DEF Request, Position, Aligned, NoItem, Work
  <1>8. CASE Read(w)
    BY <1>1, <1>8 DEF Read, GiveUp, Position, Aligned
  <1>9. CASE Receive(w)
    <2>1. wpc[w] = "recv"
      BY <1>9 DEF Receive
    <2>2. /\ item[w].chunk \in Chunks /\ item[w].src = item[w].off
          /\ item[w].off = received[item[w].chunk]
          /\ received[item[w].chunk] < ChunkUnits
      BY <1>1, <2>1 DEF Position, Aligned, WorkerSteps
    <2>3. received' = received
      BY <1>9 DEF Receive
    <2>4. CASE wpc'[w] = "notify"
      <3>1. /\ item'[w] = Work(item[w].chunk, item[w].off + 1, item[w].src + 1)
            /\ file' = [file EXCEPT ![item[w].chunk] =
                           @ \union ({item[w].off} \intersect Units)]
        BY <1>1, <1>9, <2>2, <2>4 DEF Receive, GiveUp
      <3>2. item[w].off \in Units
        BY <1>1, <2>2 DEF Units
      <3>3. item[w].off \in file'[item[w].chunk]
        BY <1>1, <2>2, <3>1, <3>2
      <3>4. /\ item'[w].chunk = item[w].chunk /\ item'[w].off = item[w].off + 1
            /\ item'[w].src = item[w].src + 1
        BY <3>1 DEF Work
      <3> QED
        BY <1>1, <2>2, <2>3, <2>4, <3>3, <3>4 DEF Position, Aligned, WorkerSteps
    <2>5. CASE wpc'[w] # "notify"
      <3>1. item' = item /\ wpc'[w] \in {"recv", "check", "fail"}
        BY <1>1, <1>9, <2>5 DEF Receive, GiveUp
      <3> QED
        BY <1>1, <2>2, <2>3, <3>1 DEF Position, Aligned, WorkerSteps
    <2> QED
      BY <2>4, <2>5
  <1>10. CASE Notify(w)
    <2>1. wpc[w] = "notify"
      BY <1>10 DEF Notify
    <2>2. /\ item[w].chunk \in Chunks /\ item[w].src = item[w].off
          /\ item[w].off = received[item[w].chunk] + 1
          /\ received[item[w].chunk] < ChunkUnits
      BY <1>1, <2>1 DEF Position, Aligned, WorkerSteps
    <2>3. received'[item[w].chunk] = received[item[w].chunk] + 1 /\ item' = item
      BY <1>1, <1>10, <2>2 DEF Notify
    <2>4. /\ wpc'[w] \in {"store", "count", "loop", "read"}
          /\ wpc'[w] = "count" => received'[item[w].chunk] >= ChunkUnits
          /\ wpc'[w] = "loop" => item[w].src = ChunkUnits
          /\ wpc'[w] = "read" => ~(received'[item[w].chunk] >= ChunkUnits)
      BY <1>1, <1>10, <2>3 DEF Notify, AfterCount, Resting
    <2> QED
      BY <1>1, <2>2, <2>3, <2>4 DEF Position, Aligned, WorkerSteps
  <1>11. CASE PeriodicStore(w)
    <2>1. /\ item[w].chunk \in Chunks /\ item[w].src = item[w].off
          /\ item[w].off = received[item[w].chunk]
          /\ received[item[w].chunk] <= ChunkUnits
      BY <1>1, <1>11 DEF PeriodicStore, Position, Aligned, WorkerSteps, Backed
    <2>2. /\ wpc'[w] \in {"count", "loop", "read"} /\ item' = item /\ received' = received
          /\ wpc'[w] = "count" => received[item[w].chunk] >= ChunkUnits
          /\ wpc'[w] = "loop" => item[w].src = ChunkUnits
          /\ wpc'[w] = "read" => ~(received[item[w].chunk] >= ChunkUnits)
      BY <1>1, <1>11 DEF PeriodicStore, AfterCount, Resting
    <2> QED
      BY <1>1, <2>1, <2>2 DEF Position, Aligned, WorkerSteps
  <1>12. CASE CountChunk(w) \/ Complete(w) \/ ForceComplete(w) \/ FinalStore(w) \/ FinalCleanup(w)
    <2>1. wpc[w] \in {"count", "complete", "force", "final", "cleanup"}
      BY <1>12 DEF CountChunk, Complete, ForceComplete, FinalStore, FinalCleanup
    <2>2. /\ item[w].chunk \in Chunks /\ item[w].src = item[w].off
          /\ item[w].off = received[item[w].chunk]
          /\ received[item[w].chunk] = ChunkUnits
      BY <1>1, <2>1 DEF Position, Aligned, WorkerSteps
    <2>3. /\ wpc'[w] \in {"loop", "complete", "force", "final", "cleanup"}
          /\ item' = item /\ received' = received
      BY <1>1, <1>12, <2>2
      DEF CountChunk, Complete, ForceComplete, FinalStore, FinalCleanup, Resting
    <2> QED
      BY <1>1, <2>2, <2>3 DEF Position, Aligned, WorkerSteps
  <1>13. CASE Fail(w)
    BY <1>1, <1>13 DEF Fail, Position, Aligned, NoItem, Work
  <1> QED
    BY <1>3, <1>4, <1>5, <1>6, <1>7, <1>8, <1>9, <1>10, <1>11, <1>12, <1>13 DEF WorkerStep

----------------------------------------------------------------------------
(* What is on disk, counted and stored.                                    *)

\* A Store writes the counts of now; a cleanup leaves no image.
LEMMA StoreBacks ==
    ASSUME TypeOK, Backed, Store \/ (\E b \in BOOLEAN : CleanupArtifacts(b)),
           UNCHANGED received
    PROVE  Backed'
  <1>1. UNCHANGED file /\ image' \in {image, received, NoImage}
    BY DEF Store, CleanupArtifacts, disk
  <1>2. received \in [Chunks -> Nat]
    BY DEF TypeOK
  <1> QED
    BY <1>1, <1>2 DEF Backed

\* A unit is written before it is counted, and counted before it is stored.
LEMMA WorkerBacks ==
    ASSUME Ranged, TypeOK, Positions, Backed, NEW w \in Workers, WorkerStep(w)
    PROVE  Backed'
  <1> USE DEF WorkerAt, progress, disk
  <1>1. /\ Position(w) /\ item[w] \in Items /\ received \in [Chunks -> Nat]
        /\ ChunkUnits \in Nat \ {0} /\ file \in [Chunks -> SUBSET Units]
        /\ 0 \notin Chunks /\ image \in {NoImage} \union [Chunks -> Nat]
    BY SizesAssumption DEF TypeOK, Positions, Chunks
  <1>2. CASE UNCHANGED <<received, file, image>>
    BY <1>2 DEF Backed
  <1>3. CASE PeriodicStore(w) \/ FinalStore(w) \/ FailStore(w)
    BY <1>3, StoreBacks DEF PeriodicStore, FinalStore, FailStore
  <1>4. CASE FinalCleanup(w) \/ Reap(w)
    BY <1>4, StoreBacks DEF FinalCleanup, Reap
  <1>5. CASE Receive(w)
    <2>1. item[w].src = item[w].off /\ item[w].chunk \in Chunks
      BY <1>1, <1>5
      DEF Receive, Position, Items, Occupied, Wanting, Aligned, WorkerSteps
    <2>2. /\ received' = received /\ image' = image
          /\ \A c \in Chunks : file[c] \subseteq file'[c]
      BY <1>1, <1>5, <2>1 DEF Receive
    <2> QED
      BY <2>2 DEF Backed
  <1>6. CASE Notify(w)
    <2>1. /\ item[w].chunk \in Chunks
          /\ received[item[w].chunk] < ChunkUnits
          /\ received[item[w].chunk] \in file[item[w].chunk]
      BY <1>1, <1>6 DEF Notify, Position, Items, Occupied, Wanting
    <2>2. /\ received' = [received EXCEPT ![item[w].chunk] =
                                           received[item[w].chunk] + 1]
          /\ UNCHANGED <<file, image>>
      BY <1>6 DEF Notify
    <2>3. \A c \in Chunks : /\ received'[c] >= received[c]
                             /\ received'[c] <= ChunkUnits
      BY <1>1, <2>1, <2>2 DEF Backed
    <2>4. ASSUME NEW c \in Chunks, NEW k \in Units, k < received'[c]
          PROVE  k \in file[c]
      <3>1. CASE k < received[c]
        BY <3>1 DEF Backed
      <3>2. CASE ~(k < received[c])
        BY <1>1, <2>1, <2>2, <2>4, <3>2 DEF Units
      <3> QED
        BY <3>1, <3>2
    <2>5. image # NoImage => \A c \in Chunks : image[c] <= received'[c]
      <3> SUFFICES ASSUME image # NoImage, NEW c \in Chunks
                   PROVE  image[c] <= received'[c]
        OBVIOUS
      <3>1. image[c] \in Nat /\ received[c] \in Nat /\ received'[c] \in Nat
        BY <1>1, <2>1, <2>2
      <3> QED
        BY <2>3, <3>1 DEF Backed
    <2> QED
      BY <2>2, <2>3, <2>4, <2>5 DEF Backed
  <1>7. CASE Begin(w) \/ Open(w) \/ Close(w) \/ Leave(w) \/ LastLeaves(w) \/ Fail(w)
    BY <1>2, <1>7 DEF Begin, Open, Close, Leave, LastLeaves, Fail
  <1>8. CASE ReleaseOrTake(w) \/ ReleaseOrCheck(w) \/ TakeItem(w) \/ Request(w) \/ Read(w)
    BY <1>2, <1>8 DEF ReleaseOrTake, ReleaseOrCheck, TakeItem, Request, Read
  <1>9. CASE CountChunk(w) \/ Complete(w) \/ ForceComplete(w)
    BY <1>2, <1>9 DEF CountChunk, Complete, ForceComplete
  <1> QED
    BY <1>3, <1>4, <1>5, <1>6, <1>7, <1>8, <1>9 DEF WorkerStep

\* A caller moves no unit; a rebuild lists what is missing, where it is missing.
LEMMA CallerData ==
    ASSUME DataInv, NEW u \in Callers, CallerStep(u) \/ CallerBegins(u)
    PROVE  Positions' /\ Listed' /\ Backed'
  <1> USE DEF progress, disk
  <1>1. TypeOK /\ Positions /\ Listed /\ Backed
    BY DEF DataInv, AssignmentInv, AccountingInv
  <1>2. UNCHANGED <<wpc, item, received, file>>
    BY DEF CallerStep, CallerBegins, Drained, Rebuild, CallerPlan, CallerAdmit,
           Quiesce, Discard, TerminateStore, TerminatePause, Resume, Pause,
           Cancel, Terminate, Store, CleanupArtifacts
  <1>3. Positions'
    BY <1>1, <1>2 DEF Positions, Position
  <1>4. Listed'
    <2>1. CASE UNCHANGED <<backlog, rangeStart>>
      BY <1>1, <1>2, <2>1 DEF Listed
    <2>2. CASE backlog' = Chunks \ FinishedIn(received) /\ rangeStart' = received
      BY <1>1, <1>2, <2>2, SizesAssumption DEF Listed, FinishedIn, TypeOK
    <2>3. \/ UNCHANGED <<backlog, rangeStart>>
          \/ backlog' = Chunks \ FinishedIn(received) /\ rangeStart' = received
      BY DEF CallerStep, CallerBegins, Drained, Rebuild, CallerPlan, CallerAdmit,
             Quiesce, Discard, TerminateStore, TerminatePause, Resume, Pause,
             Cancel, Terminate
    <2> QED
      BY <2>1, <2>2, <2>3
  <1>5. Backed'
    <2>1. CASE TerminateStore(u) \/ Discard(u)
      BY <1>1, <1>2, <2>1, StoreBacks DEF TerminateStore, Discard
    <2>2. CASE ~(TerminateStore(u) \/ Discard(u))
      <3>1. UNCHANGED image
        BY <2>2
        DEF CallerStep, CallerBegins, Drained, Rebuild, CallerPlan, CallerAdmit,
            Quiesce, TerminatePause, Resume, Pause, Cancel, Terminate
      <3> QED
        BY <1>1, <1>2, <3>1 DEF Backed
    <2> QED
      BY <2>1, <2>2
  <1> QED
    BY <1>3, <1>4, <1>5

LEMMA DataInit == Init => DataInv
  <1> SUFFICES ASSUME Init PROVE DataInv
    OBVIOUS
  <1>1. AccountingInv /\ TypeOK
    BY AccountingInit DEF AccountingInv
  <1>2. \A w \in Workers : item[w].chunk = 0 /\ wpc[w] = "idle"
    BY DEF Init, NoItem, Work
  <1>3. HeldInside /\ ExclusiveAssignment
    BY <1>2 DEF HeldInside, ExclusiveAssignment
  <1>4. Positions /\ Listed
    BY <1>2 DEF Positions, Position, Occupied, Wanting, Filled, Listed, Init
  <1>5. received \in [Chunks -> 0..ChunkUnits]
    BY EnvironmentAssumption DEF Init
  <1>6. Backed
    BY <1>5, SizesAssumption DEF Backed, Init
  <1> QED
    BY <1>1, <1>3, <1>4, <1>6 DEF DataInv, AssignmentInv

LEMMA DataNext == Ranged /\ DataInv /\ [Next]_vars => DataInv'
  <1> SUFFICES ASSUME Ranged, DataInv, [Next]_vars PROVE DataInv'
    OBVIOUS
  <1>1. AssignmentInv'
    BY AssignmentNext DEF DataInv
  <1>2. /\ TypeOK /\ HeldInside /\ ExclusiveAssignment
        /\ Positions /\ Listed /\ Backed
    BY DEF DataInv, AssignmentInv, AccountingInv
  <1>3. CASE \E w \in Workers : WorkerStep(w)
    BY <1>1, <1>2, <1>3, WorkerIsLocal, WorkerPosition, OthersStay, WorkerBacks
    DEF DataInv
  <1>4. CASE \E u \in Callers : CallerStep(u) \/ CallerBegins(u)
    BY <1>1, <1>4, CallerData DEF DataInv
  <1>5. CASE Sample \/ ControllerStep \/ UNCHANGED vars
    <2>1. UNCHANGED <<wpc, item, progress, disk>>
      BY <1>5
      DEF Sample, ControllerStep, SetDesiredConnections, ControllerPlan,
          ControllerAdmit, vars
    <2> QED
      BY <1>1, <1>2, <2>1
      DEF DataInv, Positions, Position, Listed, Backed, progress, disk
  <1> QED
    BY <1>3, <1>4, <1>5 DEF Next

\* On a server with Range support, for any number of workers and callers and
\* whatever is paused, canceled, lost or terminated: no byte is counted that is
\* not right on disk, and no byte is in the .muld file that is not counted.  A
\* resume in this process, or after a crash, skips nothing.  (Without Range
\* support it is not so: the run engine_plain_resume.)
THEOREM ResumeCorrect == Ranged => (Spec => []ResumePointSound)
  <1> SUFFICES ASSUME Ranged PROVE Spec => []ResumePointSound
    OBVIOUS
  <1>1. Spec => []DataInv
    BY DataInit, DataNext, PTL DEF Spec
  <1>2. DataInv => ResumePointSound
    <2> SUFFICES ASSUME DataInv, NEW c \in Chunks, NEW k \in Units
                 PROVE  /\ k < received[c] => k \in file[c]
                        /\ image # NoImage /\ k < image[c] => k \in file[c]
      BY DEF ResumePointSound
    <2>1. Backed /\ received[c] \in Nat /\ (image # NoImage => image[c] \in Nat)
      BY DEF DataInv, AssignmentInv, AccountingInv, TypeOK
    <2> QED
      BY <2>1, SizesAssumption DEF Backed, Units
  <1> QED
    BY <1>1, <1>2, PTL

----------------------------------------------------------------------------
(* The inductive invariant, second half: what is counted.                  *)

\* Workers that counted the last chunk and have not left its completion yet.
Completing == {w \in Workers : wpc[w] \in {"complete", "force", "final", "cleanup"}}

\* Only the count of all the chunks completes the job, and one worker does it.
Counted == Completing # {} \/ state = "Completed" => nDownloaded = NChunks
Sole == \A v, w \in Completing : v = w

CountInv == DataInv /\ CompletionCountExact /\ Counted /\ Sole

LEMMA ChunksCounted ==
    /\ IsFiniteSet(Chunks) /\ Cardinality(Chunks) = NChunks
    /\ \A r : /\ Cardinality(FinishedIn(r)) <= NChunks
              /\ Cardinality(FinishedIn(r)) = NChunks => FinishedIn(r) = Chunks
  <1>1. IsFiniteSet(Chunks) /\ Cardinality(Chunks) = NChunks
    BY SizesAssumption, FS_Interval DEF Chunks
  <1>2. \A r : FinishedIn(r) \in SUBSET Chunks
    BY DEF FinishedIn
  <1> QED
    BY <1>1, <1>2, FS_Subset

\* When every chunk is counted, every chunk is finished and nobody is about to
\* count one.
LEMMA AllCounted ==
    ASSUME TypeOK, CompletionCountExact, nDownloaded = NChunks
    PROVE  FinishedIn(received) = Chunks /\ Uncounted = {}
  <1>1. IsFiniteSet(Uncounted) /\ Cardinality(Uncounted) \in Nat
    BY ThreadSetSize DEF Uncounted
  <1>2. Cardinality(FinishedIn(received)) = NChunks /\ Cardinality(Uncounted) = 0
    BY <1>1, ChunksCounted, FinishedSize, SizesAssumption DEF CompletionCountExact
  <1> QED
    BY <1>1, <1>2, ChunksCounted, FS_EmptySet

\* A step that neither counts a unit nor a chunk.
LEMMA QuietCount ==
    ASSUME CompletionCountExact, UNCHANGED <<received, nDownloaded>>,
           Uncounted' = Uncounted
    PROVE  CompletionCountExact'
  BY DEF CompletionCountExact, FinishedIn

\* The last unit of a chunk finishes it, and the worker has yet to count it.
LEMMA NotifyCounts ==
    ASSUME TypeOK, ExclusiveAssignment, Positions, CompletionCountExact,
           NEW w \in Workers, Notify(w)
    PROVE  CompletionCountExact'
  <1> DEFINE c == item[w].chunk
             r == received[c] + 1
  <1>1. /\ c \in Chunks /\ received[c] \in Nat /\ received[c] < ChunkUnits
        /\ wpc[w] = "notify" /\ ChunkUnits \in Nat
    BY SizesAssumption
    DEF Notify, WorkerAt, Positions, Position, TypeOK, Items, Occupied, Wanting
  <1>2. /\ received' = [received EXCEPT ![c] = r]
        /\ UNCHANGED <<nDownloaded, item>>
        /\ \A v \in Workers \ {w} : wpc'[v] = wpc[v] /\ item[v].chunk # c
        /\ wpc'[w] = "store" \/ wpc'[w] = AfterCount(w, received')
    BY <1>1 DEF Notify, WorkerAt, ExclusiveAssignment, TypeOK, Chunks
  <1>3. \A v \in Workers \ {w} : v \in Uncounted' <=> v \in Uncounted
    BY <1>1, <1>2 DEF Uncounted, FinishedIn, TypeOK
  <1>4. w \notin Uncounted
    BY <1>1 DEF Uncounted
  <1>5. IsFiniteSet(Uncounted) /\ Cardinality(Uncounted) \in Nat
    BY ThreadSetSize DEF Uncounted
  <1>6. CASE r >= ChunkUnits
    <2>1. FinishedIn(received') = FinishedIn(received) \union {c} /\ c \notin FinishedIn(received)
      BY <1>1, <1>2, <1>6 DEF FinishedIn, TypeOK
    <2>2. wpc'[w] \in {"store", "count"}
      BY <1>1, <1>2, <1>6 DEF AfterCount, TypeOK
    <2>3. Uncounted' = Uncounted \union {w}
      BY <1>2, <1>3, <2>1, <2>2 DEF Uncounted
    <2>4. /\ Cardinality(Uncounted') = Cardinality(Uncounted) + 1
          /\ Cardinality(FinishedIn(received')) = Cardinality(FinishedIn(received)) + 1
      BY <1>4, <1>5, <2>1, <2>3, FS_AddElement, FinishedSize
    <2> QED
      BY <1>2, <1>5, <2>4, FinishedSize DEF CompletionCountExact, TypeOK
  <1>7. CASE ~(r >= ChunkUnits)
    <2>1. FinishedIn(received') = FinishedIn(received) /\ c \notin FinishedIn(received')
      BY <1>1, <1>2, <1>7 DEF FinishedIn, TypeOK
    <2>2. Uncounted' = Uncounted
      BY <1>2, <1>3, <1>4, <2>1 DEF Uncounted
    <2> QED
      BY <1>2, <2>1, <2>2 DEF CompletionCountExact
  <1> QED
    BY <1>6, <1>7

\* The fetch_add counts the chunk the worker had yet to count.
LEMMA CountCounts ==
    ASSUME TypeOK, Positions, CompletionCountExact, NEW w \in Workers, CountChunk(w)
    PROVE  w \in Uncounted /\ CompletionCountExact'
  <1>1. w \in Uncounted
    BY SizesAssumption
    DEF CountChunk, WorkerAt, Positions, Position, TypeOK, Items, Occupied,
        Wanting, Filled, Uncounted, FinishedIn
  <1>2. Uncounted' = Uncounted \ {w}
    BY DEF CountChunk, WorkerAt, Resting, Uncounted, FinishedIn, TypeOK
  <1>3. /\ IsFiniteSet(Uncounted) /\ Cardinality(Uncounted) \in Nat
        /\ Cardinality(Uncounted \ {w}) = Cardinality(Uncounted) - 1
    BY <1>1, ThreadSetSize, FS_RemoveElement DEF Uncounted
  <1>4. nDownloaded' = nDownloaded + 1 /\ FinishedIn(received') = FinishedIn(received)
    BY DEF CountChunk, FinishedIn
  <1> QED
    BY <1>1, <1>2, <1>3, <1>4 DEF CompletionCountExact, TypeOK

LEMMA WorkerCounts ==
    ASSUME TypeOK, ExclusiveAssignment, Positions, CompletionCountExact,
           NEW w \in Workers, WorkerStep(w)
    PROVE  CompletionCountExact'
  <1> USE DEF WorkerAt, progress, Uncounted, FinishedIn, TypeOK
  <1>1. CASE Notify(w)
    BY <1>1, NotifyCounts
  <1>2. CASE CountChunk(w)
    BY <1>2, CountCounts
  <1>3. CASE PeriodicStore(w)
    <2>1. Uncounted' = Uncounted
      <3>1. Position(w) /\ wpc[w] = "store" /\ received[item[w].chunk] \in Nat
        BY <1>3 DEF PeriodicStore, Positions, Position, Occupied, Items
      <3>2. /\ wpc' = [wpc EXCEPT ![w] = AfterCount(w, received)]
            /\ UNCHANGED <<item, received>>
        BY <1>3 DEF PeriodicStore
      <3>3. AfterCount(w, received) \in {"store", "count"} <=>
               received[item[w].chunk] >= ChunkUnits
        BY DEF AfterCount, Resting
      <3> QED
        BY <3>1, <3>2, <3>3
    <2> QED
      BY <1>3, <2>1, QuietCount DEF PeriodicStore
  <1>4. ASSUME NEW v \in Workers PROVE wpc[v] \in WorkerSteps
    OBVIOUS
  <1>5. CASE Begin(w) \/ Open(w) \/ Close(w) \/ Leave(w) \/ LastLeaves(w) \/ Reap(w)
    <2>1. Uncounted' = Uncounted /\ UNCHANGED <<received, nDownloaded>>
      BY <1>5 DEF Begin, Open, Close, Leave, LastLeaves, Reap
    <2> QED
      BY <2>1, QuietCount
  <1>6. CASE ReleaseOrTake(w) \/ ReleaseOrCheck(w) \/ Request(w) \/ Read(w) \/ TakeItem(w)
    <2>1. Uncounted' = Uncounted /\ UNCHANGED <<received, nDownloaded>>
      BY <1>6 DEF ReleaseOrTake, ReleaseOrCheck, Request, Read, TakeItem, GiveUp
    <2> QED
      BY <2>1, QuietCount
  <1>7. CASE Receive(w) \/ Fail(w) \/ FailStore(w)
    <2>1. Uncounted' = Uncounted /\ UNCHANGED <<received, nDownloaded>>
      BY <1>7 DEF Receive, GiveUp, Fail, FailStore
    <2> QED
      BY <2>1, QuietCount
  <1>8. CASE Complete(w) \/ ForceComplete(w) \/ FinalStore(w) \/ FinalCleanup(w)
    <2>1. Uncounted' = Uncounted /\ UNCHANGED <<received, nDownloaded>>
      BY <1>8 DEF Complete, ForceComplete, FinalStore, FinalCleanup, Resting
    <2> QED
      BY <2>1, QuietCount
  <1> QED
    BY <1>1, <1>2, <1>3, <1>5, <1>6, <1>7, <1>8 DEF WorkerStep

\* What completes: nobody enters the completion but by the last fetch_add.
LEMMA WorkerCompletes ==
    ASSUME TypeOK, ExclusiveAssignment, Positions, CompletionCountExact, Counted,
           Sole, NEW w \in Workers, WorkerStep(w)
    PROVE  Counted' /\ Sole'
  <1> USE DEF WorkerAt, progress, Completing
  <1> wpc \in [Workers -> WorkerSteps]
    BY DEF TypeOK
  <1>1. CASE CountChunk(w)
    <2>1. nDownloaded # NChunks
      BY <1>1, AllCounted, CountCounts
    <2>2. Completing = {} /\ state' = state /\ state # "Completed" /\ nDownloaded' = nDownloaded + 1
      BY <1>1, <2>1 DEF Counted, CountChunk
    <2>3. CASE nDownloaded = NChunks - 1
      BY <1>1, <2>2, <2>3, SizesAssumption DEF CountChunk, Counted, Sole
    <2>4. CASE nDownloaded # NChunks - 1
      BY <1>1, <2>2, <2>4 DEF CountChunk, Counted, Sole, Resting
    <2> QED
      BY <2>3, <2>4
  <1>2. CASE Complete(w) \/ ForceComplete(w) \/ FinalStore(w) \/ FinalCleanup(w)
    <2>1. /\ w \in Completing /\ Completing' \subseteq Completing
          /\ nDownloaded' = nDownloaded
      BY <1>2 DEF Complete, ForceComplete, FinalStore, FinalCleanup, Resting
    <2> QED
      BY <2>1 DEF Counted, Sole
  <1>3. CASE UNCHANGED nDownloaded /\ Completing' = Completing
              /\ (state' = "Completed" => state = "Completed")
    BY <1>3 DEF Counted, Sole
  <1>4. CASE Begin(w) \/ Open(w) \/ Close(w) \/ Leave(w) \/ LastLeaves(w) \/ Reap(w)
    BY <1>3, <1>4 DEF Begin, Open, Close, Leave, LastLeaves, Reap
  <1>5. CASE ReleaseOrTake(w) \/ ReleaseOrCheck(w) \/ Request(w) \/ Read(w) \/ TakeItem(w)
    BY <1>3, <1>5 DEF ReleaseOrTake, ReleaseOrCheck, Request, Read, TakeItem, GiveUp
  <1>6. CASE Receive(w) \/ Fail(w) \/ FailStore(w) \/ Notify(w) \/ PeriodicStore(w)
    BY <1>3, <1>6
    DEF Receive, GiveUp, Fail, FailStore, Notify, PeriodicStore, AfterCount, Resting
  <1> QED
    BY <1>1, <1>2, <1>4, <1>5, <1>6 DEF WorkerStep

\* A rebuild counts the finished chunks anew, when nobody has one to count.
LEMMA CallerCounts ==
    ASSUME CountInv, NEW u \in Callers, CallerStep(u) \/ CallerBegins(u)
    PROVE  CompletionCountExact' /\ Counted' /\ Sole'
  <1>1. /\ AccountingInv /\ TypeOK /\ HeldInside
        /\ CompletionCountExact /\ Counted /\ Sole
    BY DEF CountInv, DataInv, AssignmentInv, AccountingInv
  <1>2. /\ UNCHANGED <<wpc, item, received>>
        /\ state' = "Completed" => state = "Completed"
    BY DEF CallerStep, CallerBegins, Drained, Rebuild, CallerPlan, CallerAdmit,
           Quiesce, Discard, TerminateStore, TerminatePause, Resume, Pause,
           Cancel, Terminate, progress
  <1>3. CASE UNCHANGED nDownloaded
    BY <1>1, <1>2, <1>3
    DEF CompletionCountExact, Uncounted, FinishedIn, Counted, Sole, Completing
  <1>4. CASE Rebuild(u) /\ scheduled = 0 /\ nDownloaded' = Cardinality(FinishedIn(received))
    <2>1. \A w \in Workers : item[w].chunk = 0
      BY <1>1, <1>4, NobodyHolds
    <2>2. Uncounted = {} /\ Uncounted' = {} /\ FinishedIn(received') = FinishedIn(received)
      BY <1>2, <2>1 DEF Uncounted, FinishedIn, Chunks
    <2>3. Cardinality(Uncounted) = 0 /\ Cardinality(Uncounted') = 0
      BY <2>2, FS_EmptySet
    <2>4. CompletionCountExact' /\ nDownloaded' = nDownloaded
      BY <1>1, <1>4, <2>2, <2>3, FinishedSize DEF CompletionCountExact, TypeOK
    <2> QED
      BY <1>1, <1>2, <2>4 DEF Counted, Sole, Completing
  <1>5. \/ UNCHANGED nDownloaded
        \/ Rebuild(u) /\ scheduled = 0 /\ nDownloaded' = Cardinality(FinishedIn(received))
    BY DEF CallerStep, CallerBegins, Drained, Rebuild, CallerPlan, CallerAdmit,
           Quiesce, Discard, TerminateStore, TerminatePause, Resume, Pause,
           Cancel, Terminate, progress
  <1> QED
    BY <1>3, <1>4, <1>5

LEMMA CountInit == Init => CountInv
  <1> SUFFICES ASSUME Init PROVE CountInv
    OBVIOUS
  <1>1. Uncounted = {} /\ Completing = {}
    BY DEF Init, Uncounted, Completing
  <1>2. CompletionCountExact
    BY <1>1, FS_EmptySet, FinishedSize DEF Init, CompletionCountExact
  <1> QED
    BY <1>1, <1>2, DataInit DEF CountInv, Counted, Sole, Init

LEMMA CountNext == Ranged /\ CountInv /\ [Next]_vars => CountInv'
  <1> SUFFICES ASSUME Ranged, CountInv, [Next]_vars PROVE CountInv'
    OBVIOUS
  <1>1. DataInv'
    BY DataNext DEF CountInv
  <1>2. /\ TypeOK /\ ExclusiveAssignment /\ Positions
        /\ CompletionCountExact /\ Counted /\ Sole
    BY DEF CountInv, DataInv, AssignmentInv, AccountingInv
  <1>3. CASE \E w \in Workers : WorkerStep(w)
    BY <1>1, <1>2, <1>3, WorkerCounts, WorkerCompletes DEF CountInv
  <1>4. CASE \E u \in Callers : CallerStep(u) \/ CallerBegins(u)
    BY <1>1, <1>4, CallerCounts DEF CountInv
  <1>5. CASE Sample \/ ControllerStep \/ UNCHANGED vars
    <2>1. UNCHANGED <<state, wpc, item, progress>>
      BY <1>5
      DEF Sample, ControllerStep, SetDesiredConnections, ControllerPlan,
          ControllerAdmit, vars
    <2> QED
      BY <1>1, <1>2, <2>1
      DEF CountInv, CompletionCountExact, Uncounted, FinishedIn, Counted, Sole,
          Completing, progress
  <1> QED
    BY <1>3, <1>4, <1>5 DEF Next

\* On a server with Range support, nDownloadedChunks_ is the number of finished
\* chunks up to the workers that have yet to count theirs, across any number of
\* pauses, failures and rebuilds.
THEOREM CountCorrect == Ranged => (Spec => []CompletionCountExact)
  <1> SUFFICES ASSUME Ranged PROVE Spec => []CompletionCountExact
    OBVIOUS
  <1>1. Spec => []CountInv
    BY CountInit, CountNext, PTL DEF Spec
  <1>2. CountInv => CompletionCountExact
    BY DEF CountInv
  <1> QED
    BY <1>1, <1>2, PTL

\* On a server with Range support, a job that reports Completed wrote the
\* server's file, whatever pauses, cancels, failures and resumes came before.
THEOREM CompletedCorrect == Ranged => (Spec => []CompletedFileIntact)
  <1> SUFFICES ASSUME Ranged PROVE Spec => []CompletedFileIntact
    OBVIOUS
  <1>1. Spec => []CountInv
    BY CountInit, CountNext, PTL DEF Spec
  <1>2. CountInv => CompletedFileIntact
    <2> SUFFICES ASSUME CountInv, state = "Completed", NEW c \in Chunks
                 PROVE  file[c] = Units
      BY DEF CompletedFileIntact
    <2>1. TypeOK /\ Backed
      BY DEF CountInv, DataInv, AssignmentInv, AccountingInv
    <2>2. c \in FinishedIn(received)
      BY <2>1, AllCounted DEF CountInv, Counted
    <2>3. received[c] >= ChunkUnits /\ received[c] \in Nat /\ file[c] \subseteq Units
      BY <2>1, <2>2 DEF FinishedIn, TypeOK
    <2>4. \A k \in Units : k \in file[c]
      BY <2>1, <2>3, SizesAssumption DEF Backed, Units
    <2> QED
      BY <2>3, <2>4
  <1> QED
    BY <1>1, <1>2, PTL

----------------------------------------------------------------------------
(* The job follows the lifecycle of DownloadJob.                           *)

\* Before the first Resume no slot is taken and nobody is in the code but a
\* Terminate.
Started ==
    state = "Initialized" =>
        /\ scheduled = 0 /\ cpc = "idle"
        /\ \A u \in Callers : upc[u] \in {"idle", "tstore", "tpause"}

LEMMA StartedInit == Init => Started
  BY DEF Init, Started

LEMMA StartedNext == AccountingInv /\ Started /\ [Next]_vars => Started'
  <1> SUFFICES ASSUME AccountingInv, Started, [Next]_vars, state' = "Initialized"
               PROVE  Started'
    BY DEF Started
  <1> USE DEF WorkerAt, CallerAt, ControllerAt, counters
  <1>1. CASE \E w \in Workers : WorkerStep(w)
    <2> PICK w \in Workers : WorkerStep(w)
      BY <1>1
    <2>1. CASE InnerStep(w) \/ Open(w) \/ LastLeaves(w) \/ Reap(w) \/ Leave(w)
      <3>1. scheduled' = scheduled
        BY <2>1, InnerRoles DEF Open, LastLeaves, Reap, Leave, AccountingInv
      <3>2. state' = state \/ state' \in {"Downloading", "Completed", "Failed"}
        BY <2>1
        DEF InnerStep, Begin, ReleaseOrTake, TakeItem, ReleaseOrCheck, Request,
            Read, Receive, Notify, PeriodicStore, CountChunk, Complete,
            ForceComplete, FinalStore, FinalCleanup, Fail, FailStore,
            Open, LastLeaves, Reap, Leave
      <3>3. UNCHANGED <<upc, cpc>>
        BY <2>1
        DEF InnerStep, Begin, ReleaseOrTake, TakeItem, ReleaseOrCheck, Request,
            Read, Receive, Notify, PeriodicStore, CountChunk, Complete,
            ForceComplete, FinalStore, FinalCleanup, Fail, FailStore,
            Open, LastLeaves, Reap, Leave
      <3> QED
        BY <3>1, <3>2, <3>3 DEF Started
    <2>2. CASE Close(w)
      BY <2>2 DEF Close, Larger, Started
    <2> QED
      BY <2>1, <2>2 DEF WorkerStep, InnerStep
  <1>2. CASE \E u \in Callers : CallerStep(u) \/ CallerBegins(u)
    <2> PICK u \in Callers : CallerStep(u) \/ CallerBegins(u)
      BY <1>2
    <2> upc \in [Callers -> CallerSteps]
      BY DEF AccountingInv, TypeOK
    <2>1. CASE Terminate(u) \/ TerminateStore(u) \/ TerminatePause(u)
      BY <2>1 DEF Terminate, Call, TerminateStore, TerminatePause, Started
    <2>2. CASE Resume(u) \/ Pause(u) \/ Cancel(u)
      BY <2>2 DEF Resume, Pause, Cancel
    <2>3. CASE Drained(u) \/ Rebuild(u) \/ CallerPlan(u) \/ CallerAdmit(u) \/ Quiesce(u) \/ Discard(u)
      BY <2>3 DEF Drained, Rebuild, CallerPlan, CallerAdmit, Quiesce, Discard, Started
    <2> QED
      BY <2>1, <2>2, <2>3 DEF CallerStep, CallerBegins
  <1>3. CASE Sample \/ ControllerStep
    BY <1>3
    DEF Sample, ControllerStep, SetDesiredConnections, ControllerPlan,
        ControllerAdmit, Active, Started
  <1>4. CASE UNCHANGED vars
    BY <1>4 DEF vars, Started
  <1> QED
    BY <1>1, <1>2, <1>3, <1>4 DEF Next

\* A worker that holds a slot has been scheduled by a Resume.
LEMMA SlotStarted ==
    ASSUME AccountingInv, Started, NEW w \in SlotHolders
    PROVE  state # "Initialized"
  <1>1. IsFiniteSet(SlotHolders) /\ Cardinality(SlotHolders) \in Nat
    BY ThreadSetSize DEF SlotHolders
  <1>2. Cardinality(SlotHolders) # 0
    BY <1>1, FS_EmptySet
  <1> QED
    BY <1>1, <1>2 DEF AccountingInv, ConnectionAccounting, TypeOK, Started

JobInv == CountInv /\ Started

\* Every step of the engine is a step of the job or changes nothing of it.
LEMMA JobStep ==
    ASSUME Ranged, JobInv, Next
    PROVE  [Job!Next]_<<state, FinishedIn(received)>>
  <1> DEFINE fetched == FinishedIn(received)
  <1>1. /\ AccountingInv /\ TypeOK /\ Positions /\ CompletionCountExact
        /\ Counted /\ Started
    BY DEF JobInv, CountInv, DataInv, AssignmentInv, AccountingInv
  <1>2. CASE UNCHANGED <<state, received>>
    BY <1>2 DEF FinishedIn
  <1>3. ASSUME NEW w \in Workers, WorkerStep(w)
        PROVE  [Job!Next]_<<state, fetched>>
    <2> USE DEF WorkerAt, progress
    <2>1. CASE Begin(w)
      BY <2>1 DEF Begin, FinishedIn, Job!Next, Job!Begin, Job!Move
    <2>2. CASE Notify(w)
      <3> DEFINE c == item[w].chunk
      <3>1. /\ wpc[w] = "notify" /\ c \in Chunks /\ received[c] < ChunkUnits
            /\ received[c] \in Nat
        BY <1>1, <2>2
        DEF Notify, Positions, Position, Occupied, Wanting, TypeOK, Items
      <3>2. state # "Initialized"
        <4>1. w \in SlotHolders
          BY <3>1 DEF SlotHolders
        <4> QED
          BY <1>1, <4>1, SlotStarted
      <3>3. c \in Chunks \ fetched
        BY <3>1, SizesAssumption DEF FinishedIn
      <3>4. state # "Completed"
        BY <1>1, <3>3, AllCounted DEF Counted
      <3>5. fetched' \in {fetched, fetched \union {c}} /\ state' = state
        <4>1. received' = [received EXCEPT ![c] = received[c] + 1]
          BY <2>2 DEF Notify
        <4>2. \A d \in Chunks \ {c} : d \in fetched' <=> d \in fetched
          BY <1>1, <3>1, <4>1 DEF FinishedIn, TypeOK
        <4>3. fetched \subseteq Chunks /\ fetched' \subseteq Chunks
          BY DEF FinishedIn
        <4>4. state' = state
          BY <2>2 DEF Notify
        <4> HIDE DEF fetched
        <4>5. CASE c \in fetched'
          BY <3>3, <4>2, <4>3, <4>4, <4>5
        <4>6. CASE c \notin fetched'
          BY <3>3, <4>2, <4>3, <4>4, <4>6
        <4> QED
          BY <4>5, <4>6
      <3> HIDE DEF fetched, c
      <3>6. Job!Fetch \/ UNCHANGED <<state, fetched>>
        BY <3>2, <3>3, <3>4, <3>5 DEF Job!Fetch, fetched
      <3> QED
        BY <3>6 DEF Job!Next, fetched
    <2>3. CASE Complete(w) \/ ForceComplete(w)
      <3>1. w \in Completing /\ w \in SlotHolders /\ UNCHANGED received
        BY <2>3 DEF Complete, ForceComplete, Completing, SlotHolders
      <3>2. FinishedIn(received) = Chunks
        BY <1>1, <3>1, AllCounted DEF Counted
      <3>3. state \in States \ {"Initialized"}
        BY <1>1, <3>1, SlotStarted DEF TypeOK
      <3>4. state' \in {state, "Completed"}
        BY <2>3 DEF Complete, ForceComplete
      <3>5. fetched' = fetched
        BY <3>1 DEF FinishedIn
      <3> QED
        BY <3>2, <3>3, <3>4, <3>5 DEF States, Job!Next, Job!Finish, Job!Move
    <2>4. CASE Fail(w)
      BY <2>4 DEF Fail, FailFrom, FinishedIn, Job!Next, Job!Break, Job!Move
    <2>5. CASE UNCHANGED <<state, received>>
      BY <1>2, <2>5
    <2>6. CASE Open(w) \/ Close(w) \/ Leave(w) \/ LastLeaves(w) \/ Reap(w)
      BY <2>5, <2>6 DEF Open, Close, Leave, LastLeaves, Reap
    <2>7. CASE ReleaseOrTake(w) \/ ReleaseOrCheck(w) \/ TakeItem(w) \/ Request(w) \/ Read(w) \/ Receive(w)
      BY <2>5, <2>7 DEF ReleaseOrTake, ReleaseOrCheck, TakeItem, Request, Read, Receive
    <2>8. CASE PeriodicStore(w) \/ CountChunk(w) \/ FinalStore(w) \/ FinalCleanup(w) \/ FailStore(w)
      BY <2>5, <2>8 DEF PeriodicStore, CountChunk, FinalStore, FinalCleanup, FailStore
    <2> QED
      BY <1>3, <2>1, <2>2, <2>3, <2>4, <2>6, <2>7, <2>8 DEF WorkerStep
  <1>4. ASSUME NEW u \in Callers, CallerStep(u) \/ CallerBegins(u)
        PROVE  [Job!Next]_<<state, fetched>>
    <2> USE DEF progress
    <2>1. CASE Resume(u)
      BY <2>1 DEF Resume, ResumeFrom, FinishedIn, Job!Next, Job!Enqueue, Job!Move
    <2>2. CASE Pause(u) \/ TerminatePause(u)
      BY <2>2
      DEF Pause, TerminatePause, PauseFrom, FinishedIn, Job!Next, Job!Suspend, Job!Move
    <2>3. CASE Cancel(u)
      BY <2>3 DEF Cancel, CancelFrom, FinishedIn, Job!Next, Job!Cancel, Job!Move
    <2>4. CASE UNCHANGED <<state, received>>
      BY <1>2, <2>4
    <2>5. CASE Drained(u) \/ Rebuild(u) \/ CallerPlan(u) \/ CallerAdmit(u) \/ Quiesce(u)
               \/ Discard(u) \/ TerminateStore(u) \/ Terminate(u)
      BY <2>4, <2>5
      DEF Drained, Rebuild, CallerPlan, CallerAdmit, Quiesce, Discard,
          TerminateStore, Terminate
    <2> QED
      BY <1>4, <2>1, <2>2, <2>3, <2>5 DEF CallerStep, CallerBegins
  <1>5. CASE Sample \/ ControllerStep
    BY <1>2, <1>5
    DEF Sample, ControllerStep, SetDesiredConnections, ControllerPlan,
        ControllerAdmit, progress
  <1> QED
    BY <1>3, <1>4, <1>5 DEF Next

\* On a server with Range support the engine implements DownloadJob: whatever
\* the threads do, the state changes only as the lifecycle allows, chunks are
\* only added, and only the complete file completes the job.
THEOREM EngineImplementsJob == Ranged => (Spec => JobRefinement)
  <1> SUFFICES ASSUME Ranged PROVE Spec => JobRefinement
    OBVIOUS
  <1>1. Init => JobInv /\ Job!Init
    BY CountInit, StartedInit DEF JobInv, Init, Job!Init, FinishedIn
  <1>2. JobInv /\ [Next]_vars => JobInv'
    BY CountNext, StartedNext DEF JobInv, CountInv, DataInv, AssignmentInv
  <1>3. JobInv /\ [Next]_vars => [Job!Next]_<<state, FinishedIn(received)>>
    <2> SUFFICES ASSUME JobInv, [Next]_vars
                 PROVE  [Job!Next]_<<state, FinishedIn(received)>>
      OBVIOUS
    <2>1. CASE Next
      BY <2>1, JobStep
    <2>2. CASE UNCHANGED vars
      BY <2>2 DEF vars, progress, FinishedIn
    <2> QED
      BY <2>1, <2>2
  <1> QED
    BY <1>1, <1>2, <1>3, PTL DEF Spec, JobRefinement, Job!Spec

----------------------------------------------------------------------------
(* No chunk is lost while connections are only added.                      *)

\* The controller asks for as many connections as the job may have, so that it
\* takes none away (the run engine_lost_item shows what happens else).
OnlyAdds == \A d \in Decisions : d >= MaxConnections

Draining == \E u \in Callers : upc[u] \in {"drain", "rebuild"}
Missing == Chunks \ FinishedIn(received)
Held == {item[w].chunk : w \in Workers}

\* While an active job is not in the hands of a Resume, nobody is told to leave,
\* a missing chunk waits or is held, and no worker from before the Resume is left.
Conserved ==
    Active /\ ~Draining =>
        /\ releaseBudget = 0
        /\ Missing \subseteq backlog \union Held
        /\ \A w \in Workers : wpc[w] # "failstore"
        /\ state = "Queued" => \A w \in SlotHolders : wpc[w] = "begin"

\* The budget of the previous run is gone when the list is rebuilt.
Reset == (\E u \in Callers : upc[u] = "rebuild") => releaseBudget = 0

WorkInv == DataInv /\ Conserved /\ Reset

\* A worker that keeps its chunk, or has finished it, loses nothing.
LEMMA KeepsWork ==
    ASSUME TypeOK, Missing \subseteq backlog \union Held, NEW w \in Workers,
           \A c \in Chunks : received'[c] >= received[c],
           received' \in [Chunks -> Nat],
           \A v \in Workers \ {w} : item'[v] = item[v],
           \/ backlog' = backlog /\ item'[w].chunk = item[w].chunk
           \/ backlog' = backlog /\ item[w].chunk \notin Missing
           \/ /\ backlog' = backlog \ {item'[w].chunk}
              /\ item[w].chunk \notin Missing
    PROVE  Missing' \subseteq (backlog \union Held)'
  <1>1. Missing' \subseteq Missing
    BY SizesAssumption DEF Missing, FinishedIn, TypeOK
  <1>2. ASSUME NEW c \in Missing PROVE c \in backlog' \/ c \in Held'
    <2>1. CASE c \in backlog
      BY <2>1 DEF Held
    <2>2. CASE c \notin backlog
      <3>1. PICK v \in Workers : c = item[v].chunk
        BY <1>2, <2>2 DEF Held
      <3>2. item'[v].chunk = c
        BY <1>2, <2>2, <3>1
      <3> QED
        BY <3>2 DEF Held
    <2> QED
      BY <2>1, <2>2
  <1> QED
    BY <1>1, <1>2

\* What workers do to the rest of Conserved.
LEMMA WorkerConserves ==
    ASSUME Ranged, TypeOK, HeldInside, Positions, Listed, Backed, Conserved, Reset,
           NEW w \in Workers, WorkerStep(w)
    PROVE  Conserved' /\ Reset'
  <1> USE DEF WorkerAt, progress, counters, Reset
  <1>1. /\ Position(w) /\ item \in [Workers -> Items] /\ wpc \in [Workers -> WorkerSteps]
        /\ received \in [Chunks -> Nat] /\ releaseBudget \in Nat /\ ChunkUnits \in Nat \ {0}
        /\ 0 \notin Chunks
    BY SizesAssumption DEF TypeOK, Positions, Chunks
  <1>2. UNCHANGED upc /\ Draining' = Draining
    BY DEF WorkerStep, Begin, ReleaseOrTake, TakeItem, ReleaseOrCheck, Request,
           Read, Receive, Notify, PeriodicStore, CountChunk, Complete,
           ForceComplete, FinalStore, FinalCleanup, Fail, FailStore, Open,
           Close, Leave, LastLeaves, Reap, Draining
  <1>3. releaseBudget' \in Nat /\ releaseBudget' <= releaseBudget
    <2>1. CASE ReleaseOrTake(w) \/ ReleaseOrCheck(w)
      BY <1>1, <2>1 DEF ReleaseOrTake, ReleaseOrCheck
    <2>2. CASE UNCHANGED releaseBudget
      BY <1>1, <2>2
    <2>3. UNCHANGED releaseBudget \/ ReleaseOrTake(w) \/ ReleaseOrCheck(w)
      BY DEF WorkerStep, Begin, TakeItem, Request, Read, Receive, Notify,
             PeriodicStore, CountChunk, Complete, ForceComplete, FinalStore,
             FinalCleanup, Fail, FailStore, Open, Close, Leave, LastLeaves, Reap
    <2> QED
      BY <2>1, <2>2, <2>3
  <1>4. Reset'
    BY <1>1, <1>2, <1>3
  <1> SUFFICES ASSUME Active', ~Draining PROVE Conserved'
    BY <1>2, <1>4 DEF Conserved
  <1>5. Active /\ (state' = "Queued" => state = "Queued" /\ ~Begin(w))
    BY DEF WorkerStep, Begin, ReleaseOrTake, TakeItem, ReleaseOrCheck, Request,
           Read, Receive, Notify, PeriodicStore, CountChunk, Complete,
           ForceComplete, FinalStore, FinalCleanup, Fail, FailStore, Open,
           Close, Leave, LastLeaves, Reap, Active
  <1>6. /\ releaseBudget = 0 /\ Missing \subseteq backlog \union Held
        /\ \A v \in Workers : wpc[v] # "failstore"
        /\ state = "Queued" => \A v \in SlotHolders : wpc[v] = "begin"
    BY <1>5 DEF Conserved
  <1>7. releaseBudget' = 0
    BY <1>3, <1>6
  <1>8. wpc'[w] # "failstore" /\ \A v \in Workers \ {w} : wpc'[v] = wpc[v] /\ item'[v] = item[v]
    <2>1. \A v \in Workers \ {w} : wpc'[v] = wpc[v] /\ item'[v] = item[v]
      BY WorkerIsLocal DEF Local
    <2>2. CASE Fail(w)
      BY <1>1, <2>2 DEF Fail, FailFrom, Active
    <2>3. CASE ~Fail(w)
      BY <1>1, <2>3
      DEF WorkerStep, Begin, ReleaseOrTake, TakeItem, ReleaseOrCheck, Request,
          Read, Receive, GiveUp, Notify, AfterCount, PeriodicStore, CountChunk,
          Complete, ForceComplete, FinalStore, FinalCleanup, Resting, FailStore,
          Open, Close, Leave, LastLeaves, Reap
    <2> QED
      BY <2>1, <2>2, <2>3
  <1>9. \A v \in Workers : wpc'[v] # "failstore"
    BY <1>6, <1>8
  <1>10. ASSUME state' = "Queued", NEW v \in SlotHolders' PROVE wpc'[v] = "begin"
    <2>1. CASE v # w
      BY <1>5, <1>6, <1>8, <1>10, <2>1 DEF SlotHolders
    <2>2. CASE v = w
      <3>1. w \notin SlotHolders \/ wpc[w] = "begin"
        BY <1>5, <1>6, <1>10
      <3>2. wpc[w] \in {"idle", "leave", "last", "reap"}
        <4>1. wpc[w] \in {"idle", "leave", "last", "reap", "begin"}
          BY <1>1, <3>1 DEF SlotHolders
        <4>2. wpc[w] # "begin"
          BY <1>5, <1>10
          DEF WorkerStep, Begin, ReleaseOrTake, TakeItem, ReleaseOrCheck, Request,
              Read, Receive, Notify, PeriodicStore, CountChunk, Complete,
              ForceComplete, FinalStore, FinalCleanup, Fail, FailStore, Open,
              Close, Leave, LastLeaves, Reap
        <4> QED
          BY <4>1, <4>2
      <3>3. Open(w) \/ Leave(w) \/ LastLeaves(w) \/ Reap(w)
        BY <3>2
        DEF WorkerStep, Begin, ReleaseOrTake, TakeItem, ReleaseOrCheck, Request,
            Read, Receive, Notify, PeriodicStore, CountChunk, Complete,
            ForceComplete, FinalStore, FinalCleanup, Fail, FailStore, Close
      <3> QED
        BY <1>1, <1>10, <2>2, <3>3 DEF Open, Leave, LastLeaves, Reap, SlotHolders
    <2> QED
      BY <2>1, <2>2
  <1>11. (Missing \subseteq backlog \union Held)'
    <2> DEFINE Grown == /\ \A c \in Chunks : received'[c] >= received[c]
                        /\ received' \in [Chunks -> Nat]
    <2>1. CASE Grown /\ backlog' = backlog /\ item'[w].chunk = item[w].chunk
      BY <1>6, <1>8, <2>1, KeepsWork DEF Held
    <2>2. CASE Grown /\ backlog' = backlog /\ item[w].chunk \notin Missing
      BY <1>6, <1>8, <2>2, KeepsWork DEF Held
    <2>3. CASE UNCHANGED <<received, backlog, item>>
      BY <1>1, <2>1, <2>3
    <2>4. CASE Begin(w) \/ Open(w) \/ Close(w) \/ Leave(w) \/ LastLeaves(w) \/ Reap(w)
      BY <2>3, <2>4 DEF Begin, Open, Close, Leave, LastLeaves, Reap
    <2>5. CASE ReleaseOrTake(w)
      <3>1. item[w].chunk \notin Missing
        BY <1>1, <2>5
        DEF ReleaseOrTake, Position, Filled, Missing, FinishedIn, Items
      <3> QED
        BY <1>1, <2>2, <2>5, <3>1 DEF ReleaseOrTake
    <2>6. CASE TakeItem(w)
      <3>1. wpc[w] = "take" /\ item[w].chunk \notin Missing
        BY <2>6, <1>1 DEF TakeItem, HeldInside, Missing
      <3>2. CASE backlog' = backlog
        BY <1>1, <2>2, <2>6, <3>1, <3>2 DEF TakeItem
      <3>3. CASE backlog' # backlog
        <4>1. PICK c \in backlog : backlog' = backlog \ {c} /\ item'[w].chunk = c
          BY <1>1, <2>6, <3>3 DEF TakeItem, Work
        <4>2. Grown
          BY <1>1, <2>6 DEF TakeItem
        <4> QED
          BY <1>6, <1>8, <3>1, <4>1, <4>2, KeepsWork DEF Held
      <3> QED
        BY <3>2, <3>3
    <2>7. CASE ReleaseOrCheck(w)
      BY <1>1, <1>6, <2>1, <2>7 DEF ReleaseOrCheck
    <2>8. CASE Request(w)
      <3>1. state = "Downloading"
        BY <1>5, <1>6, <2>8 DEF Request, Active, SlotHolders
      <3> QED
        BY <1>1, <2>1, <2>8, <3>1 DEF Request, Work
    <2>9. CASE Read(w) \/ CountChunk(w) \/ Complete(w) \/ ForceComplete(w)
      BY <2>3, <2>9 DEF Read, CountChunk, Complete, ForceComplete
    <2>10. CASE PeriodicStore(w) \/ FinalStore(w) \/ FinalCleanup(w)
      BY <2>3, <2>10 DEF PeriodicStore, FinalStore, FinalCleanup
    <2>11. CASE Receive(w)
      BY <1>1, <2>1, <2>11 DEF Receive, Work
    <2>12. CASE Notify(w)
      <3>1. item[w].chunk \in Chunks
        BY <1>1, <2>12 DEF Notify, Position, Occupied, Wanting, Items
      <3> QED
        BY <1>1, <2>1, <2>12, <3>1 DEF Notify
    <2>13. CASE Fail(w)
      BY <2>13, <1>5 DEF Fail, FailFrom, Active
    <2>14. CASE FailStore(w)
      BY <1>6, <2>14 DEF FailStore
    <2> QED
      BY <2>4, <2>5, <2>6, <2>7, <2>8, <2>9, <2>10, <2>11, <2>12, <2>13, <2>14 DEF WorkerStep
  <1> QED
    BY <1>7, <1>9, <1>10, <1>11 DEF Conserved

\* A Resume lists what is missing when nobody is left and the budget is gone.
LEMMA CallerConserves ==
    ASSUME WorkInv, NEW u \in Callers, CallerStep(u) \/ CallerBegins(u)
    PROVE  Conserved' /\ Reset'
  <1> USE DEF CallerAt, counters, progress
  <1>1. /\ AccountingInv /\ TypeOK /\ Conserved /\ Reset
        /\ upc \in [Callers -> CallerSteps]
    BY DEF WorkInv, DataInv, AssignmentInv, AccountingInv, TypeOK
  <1>2. UNCHANGED <<wpc, item, received>>
    BY DEF CallerStep, CallerBegins, Drained, Rebuild, CallerPlan, CallerAdmit,
           Quiesce, Discard, TerminateStore, TerminatePause, Resume, Pause,
           Cancel, Terminate
  <1>3. CASE Drained(u)
    <2>1. Draining' /\ Reset'
      BY <1>1, <1>3 DEF Drained, Draining, Reset
    <2> QED
      BY <2>1 DEF Conserved
  <1>4. CASE Resume(u)
    <2>1. Draining' /\ Reset'
      BY <1>1, <1>4 DEF Resume, Call, Draining, Reset
    <2> QED
      BY <2>1 DEF Conserved
  <1>5. CASE Rebuild(u) /\ fault' = "race"
    <2>1. UNCHANGED <<upc, releaseBudget>> /\ upc[u] = "rebuild"
      BY <1>1, <1>5 DEF Rebuild, CallerStep, CallerBegins
    <2> QED
      BY <1>1, <2>1 DEF Conserved, Reset, Draining
  <1>6. CASE Rebuild(u) /\ fault' # "race"
    <2>1. /\ scheduled = 0 /\ upc[u] = "rebuild" /\ UNCHANGED <<state, releaseBudget>>
          /\ backlog' = Missing
      BY <1>6 DEF Rebuild, Missing
    <2>2. releaseBudget' = 0 /\ Missing' = Missing
      BY <1>1, <1>2, <2>1 DEF Reset, Missing, FinishedIn
    <2>3. SlotHolders = {}
      <3>1. IsFiniteSet(SlotHolders) /\ Cardinality(SlotHolders) \in Nat
        BY ThreadSetSize DEF SlotHolders
      <3>2. Cardinality(SlotHolders) = 0
        BY <1>1, <2>1, <3>1 DEF AccountingInv, ConnectionAccounting, TypeOK
      <3> QED
        BY <3>1, <3>2, FS_EmptySet
    <2> QED
      BY <1>2, <2>1, <2>2, <2>3 DEF Conserved, Reset, SlotHolders
  <1>7. CASE /\ UNCHANGED <<releaseBudget, backlog>>
             /\ Active' => Active /\ state' = state
             /\ Draining' <=> Draining
             /\ \A v \in Callers : upc'[v] = "rebuild" => upc[v] = "rebuild"
    BY <1>1, <1>2, <1>7
    DEF Conserved, Reset, Missing, FinishedIn, Held, SlotHolders
  <1>8. CASE Pause(u) \/ Cancel(u) \/ Terminate(u)
    BY <1>1, <1>7, <1>8 DEF Pause, Cancel, Terminate, Call, Active, Draining
  <1>9. CASE CallerPlan(u) \/ Quiesce(u) \/ Discard(u)
    BY <1>1, <1>7, <1>9 DEF CallerPlan, Quiesce, Discard, Active, Draining
  <1>10. CASE CallerAdmit(u)
    BY <1>1, <1>7, <1>10 DEF CallerAdmit, AdmitWorkers, Active, Draining
  <1>11. CASE TerminateStore(u) \/ TerminatePause(u)
    BY <1>1, <1>7, <1>11
    DEF TerminateStore, TerminatePause, PauseFrom, Active, Draining
  <1> QED
    BY <1>3, <1>4, <1>5, <1>6, <1>8, <1>9, <1>10, <1>11 DEF CallerStep, CallerBegins

LEMMA ControllerConserves ==
    ASSUME OnlyAdds, TypeOK, Conserved, Reset, Sample \/ ControllerStep
    PROVE  Conserved' /\ Reset'
  <1>1. UNCHANGED <<state, progress, wpc, item, upc>>
    BY DEF Sample, ControllerStep, SetDesiredConnections, ControllerPlan, ControllerAdmit
  <1>2. releaseBudget' = releaseBudget
    <2>1. CASE SetDesiredConnections
      <3>1. PICK d \in Decisions :
              releaseBudget' = releaseBudget +
                Larger(desired - Larger(1, Smaller(d, MaxConnections)), 0)
        BY <2>1 DEF SetDesiredConnections
      <3>2. d \in Nat /\ d >= MaxConnections /\ MaxConnections \in Nat \ {0}
        BY EnvironmentAssumption, SizesAssumption DEF OnlyAdds
      <3> QED
        BY <3>1, <3>2 DEF Larger, Smaller, TypeOK
    <2>2. CASE Sample \/ ControllerPlan \/ ControllerAdmit
      BY <2>2 DEF Sample, ControllerPlan, ControllerAdmit, AdmitWorkers, counters
    <2> QED
      BY <2>1, <2>2 DEF ControllerStep
  <1> QED
    BY <1>1, <1>2
    DEF Conserved, Reset, Active, Draining, Missing, FinishedIn, Held,
        SlotHolders, progress

\* On a server with Range support, and as long as the controller takes no
\* connection away: while a job is Downloading and no Resume is rebuilding the
\* list, every chunk that is not finished waits in the list or is in the hands
\* of a worker, whatever breaks and whoever pauses and resumes.
THEOREM WorkCorrect == Ranged /\ OnlyAdds => (Spec => []WorkConserved)
  <1> SUFFICES ASSUME Ranged, OnlyAdds PROVE Spec => []WorkConserved
    OBVIOUS
  <1>1. Init => WorkInv
    BY DataInit DEF Init, WorkInv, Conserved, Reset, Active
  <1>2. WorkInv /\ [Next]_vars => WorkInv'
    <2> SUFFICES ASSUME WorkInv, [Next]_vars PROVE WorkInv'
      OBVIOUS
    <2>1. DataInv'
      BY DataNext DEF WorkInv
    <2>2. /\ TypeOK /\ HeldInside /\ Positions /\ Listed /\ Backed
          /\ Conserved /\ Reset
      BY DEF WorkInv, DataInv, AssignmentInv, AccountingInv
    <2>3. CASE \E w \in Workers : WorkerStep(w)
      BY <2>1, <2>2, <2>3, WorkerConserves DEF WorkInv
    <2>4. CASE \E u \in Callers : CallerStep(u) \/ CallerBegins(u)
      BY <2>1, <2>4, CallerConserves DEF WorkInv
    <2>5. CASE Sample \/ ControllerStep
      BY <2>1, <2>2, <2>5, ControllerConserves DEF WorkInv
    <2>6. CASE UNCHANGED vars
      BY <2>1, <2>2, <2>6
      DEF WorkInv, vars, counters, progress, Conserved, Reset, Active, Draining,
          Missing, FinishedIn, Held, SlotHolders
    <2> QED
      BY <2>3, <2>4, <2>5, <2>6 DEF Next
  <1>3. WorkInv => WorkConserved
    BY DEF WorkInv, Conserved, WorkConserved, Active, Draining, Missing, Held
  <1> QED
    BY <1>1, <1>2, <1>3, PTL DEF Spec

----------------------------------------------------------------------------
(* The end of the writer.                                                  *)

\* No Terminate is under way, and no host fails to resolve: a Terminate that
\* began before a completion stores after it, and so does a worker that fails
\* without a chunk.
NoLateStore == "Terminate" \notin ClientOps /\ "resolve" \notin FaultKinds

\* A writer that is gone while there is an output was closed by a completion
\* that is over; whoever fails holds a chunk.
WriterInv ==
    /\ ~writerOpen /\ outputFile => nDownloaded = NChunks /\ Completing = {}
    /\ \A w \in Workers : wpc[w] \in {"fail", "failstore"} => item[w].chunk # 0
    /\ \A u \in Callers : upc[u] \notin {"tstore", "tpause"}
    /\ WriterOutlivesCompletion

\* After a completion nobody is left who would use the writer.
LEMMA NobodyWrites ==
    ASSUME Ranged, CountInv, WriterInv, ~writerOpen, outputFile, NEW w \in Workers
    PROVE  /\ item[w].chunk # 0 => wpc[w] \notin Wanting \union {"store"}
           /\ wpc[w] \notin {"recv", "notify", "store", "count", "complete", "force",
                             "final", "cleanup", "fail", "failstore"}
  <1>1. TypeOK /\ Position(w) /\ CompletionCountExact /\ nDownloaded = NChunks /\ Completing = {}
    BY DEF CountInv, DataInv, AssignmentInv, AccountingInv, Positions, WriterInv
  <1>2. FinishedIn(received) = Chunks /\ Uncounted = {}
    BY <1>1, AllCounted
  <1>3. item[w].chunk # 0 => received[item[w].chunk] >= ChunkUnits /\ received[item[w].chunk] \in Nat
    BY <1>1, <1>2 DEF FinishedIn, TypeOK, Items
  <1>4. item[w].chunk # 0 => wpc[w] \notin Wanting \union {"store", "count"}
    <2>1. item[w].chunk # 0 => wpc[w] \notin {"store", "count"}
      BY <1>1, <1>2 DEF Uncounted, TypeOK, Items
    <2>2. item[w].chunk # 0 => wpc[w] \notin Wanting
      BY <1>1, <1>3, SizesAssumption DEF Position
    <2> QED
      BY <2>1, <2>2
  <1> QED
    BY <1>1, <1>4 DEF Position, Occupied, Wanting, Filled, Completing, WriterInv

LEMMA WorkerClosesWriter ==
    ASSUME Ranged, NoLateStore, CountInv, WriterInv, NEW w \in Workers, WorkerStep(w)
    PROVE  WriterInv'
  <1>1. /\ TypeOK /\ Positions /\ CompletionCountExact /\ Counted /\ Sole /\ HeldInside
        /\ wpc \in [Workers -> WorkerSteps] /\ item \in [Workers -> Items] /\ 0 \notin Chunks
    BY DEF CountInv, DataInv, AssignmentInv, AccountingInv, TypeOK, Chunks
  <1>2. Position(w) /\ fault = "none"
    BY <1>1 DEF Positions, WorkerStep
  <1> USE DEF WorkerAt, progress, disk
  <1>3. \A v \in Workers \ {w} : wpc'[v] = wpc[v] /\ item'[v] = item[v]
    BY <1>1, WorkerIsLocal DEF Local
  <1>4. UNCHANGED upc
    BY DEF WorkerStep, Begin, ReleaseOrTake, TakeItem, ReleaseOrCheck, Request,
           Read, Receive, Notify, PeriodicStore, CountChunk, Complete,
           ForceComplete, FinalStore, FinalCleanup, Fail, FailStore, Open,
           Close, Leave, LastLeaves, Reap
  <1>5. wpc'[w] \in {"fail", "failstore"} => item'[w].chunk # 0
    <2>1. CASE Begin(w)
      BY <1>1, <2>1 DEF Begin, Suffer, NoLateStore
    <2>2. CASE Request(w) \/ Read(w) \/ Receive(w)
      BY <1>1, <1>2, <2>2
      DEF Request, Read, Receive, GiveUp, Position, Occupied, Wanting
    <2>3. CASE Fail(w)
      BY <1>1, <2>3 DEF Fail, WriterInv
    <2>4. CASE ~(Begin(w) \/ Request(w) \/ Read(w) \/ Receive(w) \/ Fail(w))
      BY <1>1, <2>4
      DEF WorkerStep, ReleaseOrTake, TakeItem, ReleaseOrCheck, Notify, AfterCount,
          Resting, PeriodicStore, CountChunk, Complete, ForceComplete, FinalStore,
          FinalCleanup, FailStore, Open, Close, Leave, LastLeaves, Reap
    <2> QED
      BY <2>1, <2>2, <2>3, <2>4
  <1>6. ~writerOpen' /\ outputFile' => nDownloaded' = NChunks /\ Completing' = {}
    <2>1. CASE FinalCleanup(w)
      <3>1. w \in Completing /\ Completing' = Completing \ {w} /\ UNCHANGED nDownloaded
        BY <1>1, <2>1 DEF FinalCleanup, Resting, Completing
      <3> QED
        BY <1>1, <3>1 DEF Counted, Sole
    <2>2. CASE Reap(w)
      BY <1>1, <2>2 DEF Reap, CleanupArtifacts, WriterInv, Completing
    <2>3. CASE ~(FinalCleanup(w) \/ Reap(w))
      <3> SUFFICES ASSUME ~writerOpen', outputFile'
                   PROVE  nDownloaded' = NChunks /\ Completing' = {}
        OBVIOUS
      <3>1. ~writerOpen /\ outputFile
        <4>1. writerOpen' = writerOpen /\ outputFile' = outputFile
          <5>1. CASE PeriodicStore(w) \/ FinalStore(w) \/ FailStore(w)
            BY <5>1 DEF PeriodicStore, FinalStore, FailStore, Store
          <5>2. CASE ~(PeriodicStore(w) \/ FinalStore(w) \/ FailStore(w))
            BY <2>3, <5>2
            DEF WorkerStep, Begin, ReleaseOrTake, TakeItem, ReleaseOrCheck, Request,
                Read, Receive, Notify, CountChunk, Complete, ForceComplete, Fail,
                Open, Close, Leave, LastLeaves
          <5> QED
            BY <5>1, <5>2
        <4> QED
          BY <4>1
      <3>2. wpc[w] \notin {"recv", "notify", "store", "count", "complete", "force",
                          "final", "cleanup", "fail", "failstore"}
        BY <3>1, NobodyWrites
      <3>3. nDownloaded = NChunks /\ Completing = {}
        BY <3>1 DEF WriterInv
      <3>4. Begin(w) \/ ReleaseOrTake(w) \/ TakeItem(w) \/ ReleaseOrCheck(w)
            \/ Request(w) \/ Read(w) \/ Open(w) \/ Close(w) \/ Leave(w) \/ LastLeaves(w)
        BY <1>1, <2>3, <3>2
        DEF WorkerStep, Receive, Notify, PeriodicStore, CountChunk, Complete,
            ForceComplete, FinalStore, Fail, FailStore
      <3>5. /\ wpc'[w] \notin {"complete", "force", "final", "cleanup"}
            /\ UNCHANGED nDownloaded
        BY <1>1, <3>4
        DEF Begin, ReleaseOrTake, TakeItem, ReleaseOrCheck, Request, Read, GiveUp,
            Open, Close, Leave, LastLeaves
      <3> QED
        BY <1>3, <3>3, <3>5 DEF Completing
    <2> QED
      BY <2>1, <2>2, <2>3
  <1>7. fault' = "null" => ~outputFile'
    <2> SUFFICES ASSUME fault' = "null", outputFile' PROVE FALSE
      OBVIOUS
    <2>1. Receive(w) \/ PeriodicStore(w) \/ FinalStore(w) \/ FailStore(w)
      BY <1>2
      DEF WorkerStep, Begin, ReleaseOrTake, TakeItem, ReleaseOrCheck, Request,
          Read, Notify, CountChunk, Complete, ForceComplete, FinalCleanup, Fail,
          Open, Close, Leave, LastLeaves, Reap
    <2>2. /\ wpc[w] \in {"recv", "store", "final", "failstore"}
          /\ ~writerOpen /\ outputFile
      BY <1>2, <2>1 DEF Receive, PeriodicStore, FinalStore, FailStore, Store
    <2> QED
      BY <2>2, NobodyWrites
  <1>8. WriterOutlivesCompletion'
    BY <1>7 DEF WriterOutlivesCompletion
  <1>9. \A v \in Workers : wpc'[v] \in {"fail", "failstore"} => item'[v].chunk # 0
    BY <1>3, <1>5 DEF WriterInv
  <1>10. \A u \in Callers : upc'[u] \notin {"tstore", "tpause"}
    BY <1>4 DEF WriterInv
  <1> QED
    BY <1>6, <1>8, <1>9, <1>10 DEF WriterInv

LEMMA CallerClosesWriter ==
    ASSUME NoLateStore, CountInv, WriterInv,
           NEW u \in Callers, CallerStep(u) \/ CallerBegins(u)
    PROVE  WriterInv'
  <1> USE DEF CallerAt, progress, disk
  <1>1. /\ AccountingInv /\ TypeOK /\ HeldInside /\ CompletionCountExact
        /\ upc \in [Callers -> CallerSteps] /\ fault = "none"
    BY DEF CountInv, DataInv, AssignmentInv, AccountingInv, TypeOK, CallerStep,
           CallerBegins
  <1>2. UNCHANGED <<wpc, item>>
    BY DEF CallerStep, CallerBegins, Drained, Rebuild, CallerPlan, CallerAdmit,
           Quiesce, Discard, TerminateStore, TerminatePause, Resume, Pause,
           Cancel, Terminate
  <1>3. ~Terminate(u) /\ ~TerminateStore(u) /\ ~TerminatePause(u)
    BY DEF NoLateStore, Terminate, Call, TerminateStore, TerminatePause, WriterInv
  <1>4. \A v \in Callers : upc'[v] \notin {"tstore", "tpause"}
    BY <1>1, <1>3
    DEF CallerStep, CallerBegins, Drained, Rebuild, CallerPlan, CallerAdmit,
        Quiesce, Discard, Resume, Pause, Cancel, Call, WriterInv
  <1>5. fault' # "null"
    BY <1>1, <1>3
    DEF CallerStep, CallerBegins, Drained, Rebuild, CallerPlan, CallerAdmit,
        Quiesce, Discard, Resume, Pause, Cancel
  <1>6. ~writerOpen' /\ outputFile' => ~writerOpen /\ outputFile
    BY <1>1, <1>3
    DEF CallerStep, CallerBegins, Drained, Rebuild, CallerPlan, CallerAdmit,
        Quiesce, Discard, CleanupArtifacts, Resume, Pause, Cancel
  <1>7. nDownloaded' = nDownloaded
        \/ (scheduled = 0 /\ nDownloaded' = Cardinality(FinishedIn(received)))
    BY <1>3
    DEF CallerStep, CallerBegins, Drained, Rebuild, CallerPlan, CallerAdmit,
        Quiesce, Discard, Resume, Pause, Cancel
  <1>8. nDownloaded = NChunks => nDownloaded' = NChunks
    BY <1>1, <1>7, AllCounted, ChunksCounted
  <1> QED
    BY <1>2, <1>4, <1>5, <1>6, <1>8
    DEF WriterInv, WriterOutlivesCompletion, Completing

\* On a server with Range support, with no Terminate and no failing resolution:
\* nobody goes through writer_ after a completion reset it, in whatever order the
\* other workers arrive; if it is used after its reset, a Cancel reset it.
THEOREM WriterCorrect ==
    Ranged /\ NoLateStore => (Spec => []WriterOutlivesCompletion)
  <1> SUFFICES ASSUME Ranged, NoLateStore PROVE Spec => []WriterOutlivesCompletion
    OBVIOUS
  <1>1. Init => CountInv /\ WriterInv
    BY CountInit DEF Init, WriterInv, WriterOutlivesCompletion
  <1>2. CountInv /\ WriterInv /\ [Next]_vars => (CountInv /\ WriterInv)'
    <2> SUFFICES ASSUME CountInv, WriterInv, [Next]_vars PROVE WriterInv'
      BY CountNext
    <2>1. CASE \E w \in Workers : WorkerStep(w)
      BY <2>1, WorkerClosesWriter
    <2>2. CASE \E u \in Callers : CallerStep(u) \/ CallerBegins(u)
      BY <2>2, CallerClosesWriter
    <2>3. CASE Sample \/ ControllerStep \/ UNCHANGED vars
      <3>1. UNCHANGED <<wpc, item, upc, fault, progress, disk>>
        BY <2>3
        DEF Sample, ControllerStep, SetDesiredConnections, ControllerPlan,
            ControllerAdmit, vars
      <3> QED
        BY <3>1 DEF WriterInv, WriterOutlivesCompletion, Completing, progress, disk
    <2> QED
      BY <2>1, <2>2, <2>3 DEF Next
  <1> QED
    BY <1>1, <1>2, PTL DEF Spec, WriterInv
=============================================================================
