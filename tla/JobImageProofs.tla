--------------------------- MODULE JobImageProofs ---------------------------
(***************************************************************************)
(* What JobImage promises of the two files, for any workers, sizes,        *)
(* servers, sessions and disk faults.                                      *)
(***************************************************************************)
EXTENDS JobImage, SumTheorems

Steps == StoreSteps \union {"idle", "notify", "account", "count", "cleanup", "tpause"}

\* The parts of the types the argument needs; a field without a set of its own is
\* only said to be there.
ImageShape(i) ==
    i \in [form : {"none", "torn", "whole"}, validators : {i.validators},
           received : [Chunks -> Counts]]

JobShape(j) ==
    j \in [state : JobStates, received : [Chunks -> Counts],
           nDownloaded : {j.nDownloaded}, validators : {j.validators},
           known : BOOLEAN, loaded : BOOLEAN, imageStored : BOOLEAN,
           indexed : BOOLEAN, sinceStore : {j.sinceStore}, cleaned : BOOLEAN]

Shape ==
    /\ ImageShape(image) /\ ImageShape(snapshot) /\ JobShape(job)
    /\ output \in [Chunks -> [Units -> {0} \union Versions]]
    /\ version \in Versions
    /\ pc \in [Actors -> Steps]
    /\ chunk \in [Workers -> {0} \union Chunks]

\* No thread is in the engine of a session that has not begun.
Quiet == Running \/ \A a \in Actors : pc[a] = "idle"

\* Who holds disk_mtx_ in Store is in Store.
Inside == \A a \in diskLock : a \in Actors /\ pc[a] \in StoreSteps

\* disk_mtx_ is held for a job whose files are there, and what was read under it
\* counts no more than the job does.
Locked ==
    /\ Running /\ ~job.cleaned => outputExists
    /\ diskLock # {} => Running /\ ~job.cleaned
    /\ diskLock # {} => \A c \in Chunks : snapshot.received[c] <= job.received[c]

\* A unit that is written and not yet counted is the next one of its chunk, which
\* no other worker has.
Held ==
    /\ \A w \in Workers : pc[w] = "notify" =>
        /\ chunk[w] \in Chunks
        /\ job.received[chunk[w]] < ChunkUnits
        /\ output[chunk[w]][job.received[chunk[w]]] # 0
    /\ \A v, w \in Workers : v # w /\ chunk[v] = chunk[w] => chunk[v] = 0

ImageBacked == image.form = "whole" /\ ~orphan => Backed(image.received)
JobBacked == outputExists /\ ~(orphan /\ job.loaded) => Backed(job.received)

Inv == Shape /\ Quiet /\ Inside /\ Locked /\ Held /\ ImageBacked /\ JobBacked

----------------------------------------------------------------------------

LEMMA Numbers ==
    /\ NChunks \in Nat \ {0} /\ ChunkUnits \in Nat \ {0}
    /\ 0 \notin Versions
    /\ Zero \in [Chunks -> Counts]
    /\ \A c \in Chunks : Zero[c] = 0
<1>1. NChunks \in Nat \ {0} /\ ChunkUnits \in Nat \ {0}
    BY SizesAssumption
<1>2. 0 \notin Versions
  <2>1. Cardinality(Versions) \in Nat
    BY ServerAssumption, FS_CardinalityType
  <2>2. Versions = 1..Cardinality(Versions)
    BY ServerAssumption
  <2> QED BY <2>1, <2>2
<1>3. Zero \in [Chunks -> Counts] /\ \A c \in Chunks : Zero[c] = 0
    BY <1>1 DEF Zero, Counts
<1> QED BY <1>1, <1>2, <1>3

LEMMA ZeroBacked == Backed(Zero)
BY Numbers DEF Backed, Units

\* What counts less is backed if what counts more is.
LEMMA BackedBelow ==
    ASSUME NEW more \in [Chunks -> Counts], NEW less \in [Chunks -> Counts],
           Backed(more), \A c \in Chunks : less[c] <= more[c]
    PROVE  Backed(less)
BY Numbers DEF Backed, Units, Counts

LEMMA NoJobShape == JobShape(NoJob) /\ NoJob.state = "none" /\ NoJob.received = Zero
                    /\ ~NoJob.loaded /\ ~NoJob.cleaned
BY Numbers DEF JobShape, NoJob, Engine, JobStates

LEMMA InitInv == Init => Inv
<1> SUFFICES ASSUME Init PROVE Inv
    OBVIOUS
<1>1. Shape
  <2>1. ImageShape(NoImage)
    BY Numbers DEF ImageShape, NoImage, Image
  <2>2. JobShape(NoJob)
    BY NoJobShape
  <2>3. Blank \in [Chunks -> [Units -> {0} \union Versions]]
    BY DEF Blank
  <2>4. 1 \in Versions
    BY ServerAssumption
  <2> QED BY <2>1, <2>2, <2>3, <2>4 DEF Init, Shape, Steps
<1>2. Quiet /\ Inside /\ Locked
    BY NoJobShape DEF Init, Quiet, Inside, Locked, Running
<1>3. Held
    BY DEF Init, Held, Actors
<1>4. ImageBacked /\ JobBacked
    BY NoJobShape DEF Init, ImageBacked, JobBacked, NoImage, Image
<1> QED BY <1>1, <1>2, <1>3, <1>4 DEF Inv

----------------------------------------------------------------------------
(* Steps that touch neither file, nor what is counted.                     *)

SameFiles == UNCHANGED <<image, output, outputExists, orphan, diskLock, snapshot>>
SameCounts ==
    /\ job'.received = job.received /\ job'.loaded = job.loaded
    /\ job'.cleaned = job.cleaned
    /\ Running' <=> Running

LEMMA CalmStep ==
    ASSUME Inv, SameFiles, SameCounts, Shape', Quiet', Inside', Held'
    PROVE  Inv'
BY DEF Inv, SameFiles, SameCounts, Locked, ImageBacked, JobBacked, Backed

\* A thread goes on, not to where a unit is written; it lets go of its chunk, or
\* it does not.
LEMMA MoveOn ==
    ASSUME Inv, NEW a \in Actors, NEW here \in Steps, here \notin StoreSteps,
           NEW there \in Steps, there # "notify",
           At(a, here, there), output' = output, job'.received = job.received,
           diskLock' = diskLock, Running',
           chunk' = chunk \/ chunk' = [chunk EXCEPT ![a] = 0]
    PROVE  /\ pc' \in [Actors -> Steps]
           /\ chunk' \in [Workers -> {0} \union Chunks]
           /\ Quiet' /\ Inside' /\ Held'
<1>1. /\ pc \in [Actors -> Steps] /\ chunk \in [Workers -> {0} \union Chunks]
      /\ pc[a] = here /\ pc' = [pc EXCEPT ![a] = there]
    BY DEF Inv, Shape, At
<1>2. pc' \in [Actors -> Steps] /\ chunk' \in [Workers -> {0} \union Chunks]
    BY <1>1
<1>3. Quiet' /\ Inside'
    BY <1>1 DEF Inv, Quiet, Inside
<1>4. Workers \subseteq Actors
    BY DEF Actors
<1>5. \A w \in Workers : pc'[w] = "notify" => pc[w] = "notify" /\ chunk'[w] = chunk[w]
    BY <1>1, <1>4
<1>6. \A v, w \in Workers : v # w /\ chunk'[v] = chunk'[w] => chunk'[v] = 0
    BY <1>1 DEF Inv, Held
<1>7. Held'
    BY <1>5, <1>6 DEF Inv, Held
<1> QED BY <1>2, <1>3, <1>7

LEMMA StayPut ==
    ASSUME Inv, UNCHANGED <<pc, chunk, diskLock, output>>,
           job'.received = job.received, Running' <=> Running
    PROVE  /\ pc' \in [Actors -> Steps]
           /\ chunk' \in [Workers -> {0} \union Chunks]
           /\ Quiet' /\ Inside' /\ Held'
BY DEF Inv, Shape, Quiet, Inside, Held

\* A change of the job that counts no byte keeps its shape.
LEMMA JobKeepsShape ==
    ASSUME JobShape(job), NEW state \in JobStates,
           \/ job' = [job EXCEPT !.state = state]
           \/ \E n : job' = [job EXCEPT !.state = state, !.nDownloaded = n]
           \/ \E n : job' = [job EXCEPT !.nDownloaded = n, !.state = state]
           \/ \E n : job' = [job EXCEPT !.sinceStore = n]
           \/ \E v : job' = [job EXCEPT !.validators = v, !.known = TRUE]
           \/ \E b \in BOOLEAN : job' = [job EXCEPT !.imageStored = b,
                                         !.indexed = TRUE, !.sinceStore = 0]
           \/ job' = job
    PROVE  /\ JobShape(job')
           /\ job'.received = job.received /\ job'.loaded = job.loaded
           /\ job'.cleaned = job.cleaned
           /\ job'.state \in {job.state, state}
BY DEF JobShape

LEMMA ServerChangesInv == Inv /\ ServerChanges => Inv'
<1> SUFFICES ASSUME Inv, ServerChanges PROVE Inv'
    OBVIOUS
<1>1. SameFiles /\ SameCounts
    BY DEF ServerChanges, disk, storing, history, SameFiles, SameCounts, Running
<1>2. UNCHANGED <<pc, chunk, diskLock, output, job>> /\ (Running' <=> Running)
    BY DEF ServerChanges, disk, storing, Running
<1>3. Quiet' /\ Inside' /\ Held'
    BY <1>2, StayPut
<1>4. Shape'
    BY <1>2 DEF ServerChanges, Inv, Shape, disk, storing, ImageShape, JobShape
<1> QED BY <1>1, <1>3, <1>4, CalmStep

LEMMA JobCallsInv == Inv /\ (SetValidators \/ Resume \/ Pause \/ Cancel) => Inv'
<1> SUFFICES ASSUME Inv, SetValidators \/ Resume \/ Pause \/ Cancel PROVE Inv'
    OBVIOUS
<1>1. SameFiles /\ UNCHANGED <<pc, chunk, version>>
    BY DEF SetValidators, Resume, Pause, Cancel, disk, storing, history, SameFiles
<1>2. /\ JobShape(job') /\ SameCounts /\ Running /\ Running'
      /\ job'.received = job.received
  <2>0. JobShape(job)
      BY DEF Inv, Shape
  <2>1. CASE SetValidators
    <3>1. job' = [job EXCEPT !.validators = Probe[version], !.known = TRUE]
        BY <2>1 DEF SetValidators
    <3>2. job.state \in JobStates
        BY <2>0 DEF JobShape
    <3> QED BY <2>0, <2>1, <3>1, <3>2, JobKeepsShape
            DEF SetValidators, Running, SameCounts
  <2>2. CASE Resume
    <3>1. job.state \in JobStates /\ "Downloading" \in JobStates
        BY <2>0 DEF JobShape, JobStates
    <3>2. \E n : job' = [job EXCEPT !.state = "Downloading", !.nDownloaded = n]
        BY <2>2 DEF Resume
    <3> QED BY <2>0, <2>2, <3>1, <3>2, JobKeepsShape
            DEF Resume, Running, SameCounts, JobStates
  <2>3. CASE Pause
    <3> "Paused" \in JobStates
        BY DEF JobStates
    <3> QED BY <2>0, <2>3, JobKeepsShape DEF Pause, Running, SameCounts
  <2>4. CASE Cancel
    <3> "Canceled" \in JobStates
        BY DEF JobStates
    <3> QED BY <2>0, <2>4, JobKeepsShape DEF Cancel, Running, SameCounts
  <2> QED BY <2>1, <2>2, <2>3, <2>4
<1>3. Quiet' /\ Inside' /\ Held'
    BY <1>1, <1>2, StayPut DEF SameFiles
<1>4. Shape'
    BY <1>1, <1>2 DEF Inv, Shape, SameFiles, ImageShape
<1> QED BY <1>1, <1>2, <1>3, <1>4, CalmStep

\* A step of a thread that is past the count, or before the write.
LEMMA ThreadInv ==
    ASSUME Inv, NEW a \in Actors,
           \/ a \in Workers /\ (Account(a) \/ Count(a) \/ Fail(a))
           \/ a = User /\ (Terminate \/ TerminatePause)
    PROVE  Inv'
<1>0. JobShape(job) /\ pc \in [Actors -> Steps] /\ job.state \in JobStates
    BY DEF Inv, Shape, JobShape
<1>1. SameFiles /\ UNCHANGED version
    BY DEF Account, Count, Fail, Terminate, TerminatePause, disk, storing, history,
           SameFiles
<1>2. /\ JobShape(job') /\ job'.received = job.received /\ job'.loaded = job.loaded
      /\ job'.cleaned = job.cleaned /\ job'.state \in JobStates
      /\ job.state # "none" => job'.state # "none"
  <2> {"Completed", "Failed", "Paused"} \subseteq JobStates
      BY DEF JobStates
  <2>1. CASE a \in Workers /\ Account(a)
      BY <2>1, <1>0, JobKeepsShape DEF Account
  <2>2. CASE a \in Workers /\ Count(a)
    <3>1. \/ job' = job
          \/ \E n : job' = [job EXCEPT !.nDownloaded = n, !.state = "Completed"]
          \/ \E n : job' = [job EXCEPT !.nDownloaded = n, !.state = job.state]
        BY <2>2 DEF Count
    <3> QED BY <3>1, <1>0, JobKeepsShape
  <2>3. CASE a \in Workers /\ Fail(a)
      BY <2>3, <1>0, JobKeepsShape DEF Fail
  <2>4. CASE a = User /\ Terminate
      BY <2>4, <1>0 DEF Terminate
  <2>5. CASE a = User /\ TerminatePause
    <3>1. \/ job' = [job EXCEPT !.state = "Paused"]
          \/ job' = [job EXCEPT !.state = job.state]
        BY <2>5 DEF TerminatePause
    <3> QED BY <3>1, <1>0, JobKeepsShape
  <2> QED BY <2>1, <2>2, <2>3, <2>4, <2>5
<1>3. Running
  <2>1. CASE pc[a] # "idle"
      BY <2>1 DEF Inv, Quiet
  <2>2. CASE pc[a] = "idle"
      BY <2>2 DEF Account, Count, Fail, Terminate, TerminatePause, At, Running
  <2> QED BY <2>1, <2>2
<1>4. Running' /\ SameCounts
    BY <1>2, <1>3 DEF Running, SameCounts
<1>5. /\ chunk' = chunk \/ chunk' = [chunk EXCEPT ![a] = 0]
      /\ \E here \in Steps \ StoreSteps : \E there \in Steps \ {"notify"} :
             At(a, here, there)
    BY DEF Account, Count, Fail, Terminate, TerminatePause, Steps, StoreSteps
<1>6. /\ pc' \in [Actors -> Steps] /\ chunk' \in [Workers -> {0} \union Chunks]
      /\ Quiet' /\ Inside' /\ Held'
    BY <1>1, <1>2, <1>4, <1>5, MoveOn DEF SameFiles
<1>7. Shape'
    BY <1>1, <1>2, <1>6 DEF Inv, Shape, SameFiles, ImageShape
<1> QED BY <1>1, <1>4, <1>6, <1>7, CalmStep

----------------------------------------------------------------------------
(* The write of a unit and its count.                                      *)

\* A write adds a unit and takes none away.
LEMMA WriteKeepsBacked ==
    ASSUME output \in [Chunks -> [Units -> {0} \union Versions]],
           NEW c \in Chunks, NEW k, NEW v \in Versions,
           output' = [output EXCEPT ![c][k] = v],
           NEW counts, Backed(counts)
    PROVE  Backed(counts)'
BY Numbers DEF Backed

LEMMA ReceiveInv == ASSUME Inv, NEW w \in Workers, Receive(w) PROVE Inv'
<1>0. /\ pc \in [Actors -> Steps] /\ chunk \in [Workers -> {0} \union Chunks]
      /\ output \in [Chunks -> [Units -> {0} \union Versions]]
      /\ job.received \in [Chunks -> Counts] /\ version \in Versions
    BY DEF Inv, Shape, JobShape
<1>1. PICK c \in Chunks \ (FinishedIn(job.received) \union InHand) :
        /\ output' = [output EXCEPT ![c][job.received[c]] = version]
        /\ chunk' = [chunk EXCEPT ![w] = c]
    BY DEF Receive
<1>2. /\ pc[w] = "idle" /\ pc' = [pc EXCEPT ![w] = "notify"] /\ Running /\ Running'
      /\ UNCHANGED <<image, outputExists, version, job, diskLock, snapshot, orphan>>
    BY DEF Receive, At, Running, storing, history
<1>3. w \in Actors /\ Workers \subseteq Actors
    BY DEF Actors
<1>4. job.received[c] \in Units /\ job.received[c] < ChunkUnits
    BY <1>0, <1>1, Numbers DEF FinishedIn, Counts, Units
<1>5. Shape'
  <2>1. output' \in [Chunks -> [Units -> {0} \union Versions]]
      BY <1>0, <1>1, <1>4
  <2>2. chunk' \in [Workers -> {0} \union Chunks] /\ pc' \in [Actors -> Steps]
      BY <1>0, <1>1, <1>2, <1>3 DEF Steps
  <2> QED BY <1>2, <2>1, <2>2 DEF Inv, Shape, ImageShape, JobShape
<1>6. Quiet' /\ Inside'
    BY <1>0, <1>2, <1>3 DEF Inv, Quiet, Inside, StoreSteps
<1>7. Locked'
    BY <1>2 DEF Inv, Locked, Running
<1>8. Held'
  <2>1. chunk'[w] = c /\ \A v \in Workers \ {w} : chunk'[v] = chunk[v] /\ chunk[v] # c
      BY <1>0, <1>1 DEF InHand
  <2>2. \A v \in Workers \ {w} : pc'[v] = pc[v]
      BY <1>0, <1>2, <1>3
  <2>3. output'[c][job.received[c]] = version /\ \A d \in Chunks \ {c} : output'[d] = output[d]
      BY <1>0, <1>1, <1>4
  <2>4. version # 0
      BY <1>0, Numbers
  <2>5. \A v \in Workers : pc'[v] = "notify" =>
            /\ chunk'[v] \in Chunks
            /\ job'.received[chunk'[v]] < ChunkUnits
            /\ output'[chunk'[v]][job'.received[chunk'[v]]] # 0
    <3> SUFFICES ASSUME NEW v \in Workers, pc'[v] = "notify"
                 PROVE  /\ chunk'[v] \in Chunks
                        /\ job'.received[chunk'[v]] < ChunkUnits
                        /\ output'[chunk'[v]][job'.received[chunk'[v]]] # 0
        OBVIOUS
    <3>1. CASE v = w
        BY <3>1, <1>2, <1>4, <2>1, <2>3, <2>4
    <3>2. CASE v # w
        BY <3>2, <1>2, <2>1, <2>2, <2>3 DEF Inv, Held
    <3> QED BY <3>1, <3>2
  <2>6. \A u, v \in Workers : u # v /\ chunk'[u] = chunk'[v] => chunk'[u] = 0
      BY <2>1 DEF Inv, Held
  <2> QED BY <2>5, <2>6 DEF Held
<1>9. ImageBacked' /\ JobBacked'
  <2>1. ASSUME NEW counts, Backed(counts) PROVE Backed(counts)'
      BY <2>1, <1>0, <1>1, WriteKeepsBacked
  <2> QED BY <1>2, <2>1 DEF Inv, ImageBacked, JobBacked, Backed
<1> QED BY <1>5, <1>6, <1>7, <1>8, <1>9 DEF Inv

LEMMA NotifyInv == ASSUME Inv, NEW w \in Workers, Notify(w) PROVE Inv'
<1> DEFINE c == chunk[w]
<1>0. /\ pc \in [Actors -> Steps] /\ chunk \in [Workers -> {0} \union Chunks]
      /\ JobShape(job) /\ job.received \in [Chunks -> Counts]
    BY DEF Inv, Shape, JobShape
<1>1. /\ pc[w] = "notify" /\ pc' = [pc EXCEPT ![w] = "account"]
      /\ job' = [job EXCEPT !.received[c] = @ + 1]
      /\ UNCHANGED <<image, output, outputExists, version, diskLock, snapshot, chunk,
                     orphan>>
    BY DEF Notify, At, disk, storing, history
<1>2. /\ c \in Chunks /\ job.received[c] < ChunkUnits
      /\ output[c][job.received[c]] # 0
    BY <1>1 DEF Inv, Held
<1>3. w \in Actors /\ Workers \subseteq Actors
    BY DEF Actors
<1>4. /\ job'.received = [job.received EXCEPT ![c] = @ + 1]
      /\ job'.received \in [Chunks -> Counts]
  <2>1. job.received[c] \in Nat /\ job.received[c] + 1 \in Counts
      BY <1>0, <1>2, Numbers DEF Counts
  <2> QED BY <1>0, <1>1, <1>2, <2>1 DEF JobShape
<1>5. /\ JobShape(job') /\ job'.state = job.state /\ job'.loaded = job.loaded
      /\ job'.cleaned = job.cleaned
    BY <1>0, <1>1, <1>4 DEF JobShape
<1>6. \A d \in Chunks : job.received[d] <= job'.received[d]
    BY <1>0, <1>2, <1>4, Numbers DEF Counts
<1>7. Shape'
  <2>1. pc' \in [Actors -> Steps]
      BY <1>0, <1>1, <1>3 DEF Steps
  <2> QED BY <1>1, <1>5, <2>1 DEF Inv, Shape, ImageShape
<1>8. Quiet' /\ Inside'
    BY <1>0, <1>1, <1>3, <1>5 DEF Inv, Quiet, Inside, StoreSteps, Running
<1>9. Locked'
  <2>1. diskLock # {} => \A d \in Chunks : snapshot'.received[d] <= job'.received[d]
    <3> SUFFICES ASSUME diskLock # {}, NEW d \in Chunks
                 PROVE  snapshot'.received[d] <= job'.received[d]
        OBVIOUS
    <3>1. snapshot.received[d] <= job.received[d]
        BY DEF Inv, Locked
    <3>2. snapshot.received[d] \in Counts /\ job.received[d] \in Counts
          /\ job'.received[d] \in Counts
        BY <1>0, <1>4 DEF Inv, Shape, ImageShape
    <3> QED BY <1>1, <1>6, <3>1, <3>2, Numbers DEF Counts
  <2> QED BY <1>1, <1>5, <2>1 DEF Inv, Locked, Running
<1>10. Held'
  <2>1. \A v \in Workers : pc'[v] = "notify" => v # w /\ pc[v] = "notify" /\ chunk[v] # c
    <3>1. \A v \in Workers : pc'[v] = "notify" => v # w /\ pc[v] = "notify"
        BY <1>0, <1>1, <1>3
    <3>2. c # 0
        BY <1>2 DEF Chunks
    <3> QED BY <3>1, <3>2, <1>2 DEF Inv, Held
  <2>2. \A d \in Chunks \ {c} : job'.received[d] = job.received[d]
      BY <1>0, <1>4
  <2> QED BY <1>1, <2>1, <2>2 DEF Inv, Held
<1>11. JobBacked'
  <2>1. ASSUME Backed(job.received) PROVE Backed(job'.received)
    <3> SUFFICES ASSUME NEW d \in Chunks, NEW k \in Units, k < job'.received[d]
                 PROVE  output[d][k] # 0
        BY DEF Backed
    <3>1. CASE d = c /\ k = job.received[c]
        BY <3>1, <1>2
    <3>2. CASE d # c \/ k # job.received[c]
      <4>1. k < job.received[d]
          BY <3>2, <1>0, <1>2, <1>4, Numbers DEF Counts, Units
      <4> QED BY <4>1, <2>1 DEF Backed
    <3> QED BY <3>1, <3>2
  <2> QED BY <1>1, <1>5, <2>1 DEF Inv, JobBacked, Backed
<1>12. ImageBacked'
    BY <1>1 DEF Inv, ImageBacked, Backed
<1> QED BY <1>7, <1>8, <1>9, <1>10, <1>11, <1>12 DEF Inv

----------------------------------------------------------------------------
(* Sessions begin.                                                         *)

LEMMA RemoveOutputInv == Inv /\ RemoveOutput => Inv'
<1> SUFFICES ASSUME Inv, RemoveOutput PROVE Inv'
    OBVIOUS
<1>1. /\ ~Running /\ job' = job /\ outputExists' = FALSE /\ output' = Blank
      /\ orphan' = (orphan \/ image.form = "whole")
      /\ UNCHANGED <<image, version, pc, chunk, diskLock, snapshot>>
    BY DEF RemoveOutput, storing
<1>2. Blank \in [Chunks -> [Units -> {0} \union Versions]]
    BY DEF Blank
<1>3. Shape'
    BY <1>1, <1>2 DEF Inv, Shape, ImageShape, JobShape
<1>4. Quiet' /\ Inside' /\ Locked'
    BY <1>1 DEF Inv, Quiet, Inside, Locked, Running
<1>5. Held'
  <2>1. \A w \in Workers : pc[w] = "idle"
      BY <1>1 DEF Inv, Quiet, Actors
  <2> QED BY <1>1, <2>1 DEF Inv, Held
<1>6. ImageBacked' /\ JobBacked'
    BY <1>1 DEF ImageBacked, JobBacked
<1> QED BY <1>3, <1>4, <1>5, <1>6 DEF Inv

\* A new engine counts what it is given, over an output file that is there.
LEMMA BeginInv ==
    ASSUME Inv, ~Running, NEW received \in [Chunks -> Counts],
           NEW validators, NEW fromImage \in BOOLEAN,
           job' = Engine("Initialized", received, validators, fromImage),
           outputExists', UNCHANGED <<image, output, version, pc, chunk, diskLock,
                                      snapshot, orphan>>,
           ~(orphan /\ fromImage) => Backed(received)
    PROVE  Inv'
<1>1. /\ JobShape(job') /\ Running' /\ job'.received = received
      /\ job'.loaded = fromImage /\ ~job'.cleaned
    BY DEF Engine, JobShape, JobStates, Running
<1>2. diskLock = {} /\ \A w \in Workers : pc[w] = "idle"
    BY DEF Inv, Locked, Quiet, Actors
<1>3. Shape'
    BY <1>1 DEF Inv, Shape, ImageShape
<1>4. Quiet' /\ Inside' /\ Locked'
    BY <1>1, <1>2 DEF Quiet, Inside, Locked
<1>5. Held'
    BY <1>2 DEF Inv, Held
<1>6. ImageBacked' /\ JobBacked'
    BY <1>1 DEF Inv, ImageBacked, JobBacked, Backed
<1> QED BY <1>3, <1>4, <1>5, <1>6 DEF Inv

LEMMA DownloadInv == Inv /\ Download => Inv'
<1> SUFFICES ASSUME Inv, Download PROVE Inv'
    OBVIOUS
<1>1. /\ ~Running /\ outputExists'
      /\ job' = Engine("Initialized", Zero, NoValidators, FALSE)
      /\ UNCHANGED <<image, output, version, pc, chunk, diskLock, snapshot, orphan>>
    BY DEF Download, storing
<1> QED BY <1>1, Numbers, ZeroBacked, BeginInv

LEMMA LoadInv == Inv /\ Load => Inv'
<1> SUFFICES ASSUME Inv, Load PROVE Inv'
    OBVIOUS
<1>1. /\ ~Running /\ outputExists'
      /\ UNCHANGED <<image, output, version, pc, chunk, diskLock, snapshot, orphan>>
    BY DEF Load, disk, storing
<1>2. /\ image.form = "whole"
      /\ job' = Engine("Initialized", image.received, Probe[version], TRUE)
    BY DEF Load, ReadImageFromDisk
<1>3. image.received \in [Chunks -> Counts]
    BY DEF Inv, Shape, ImageShape
<1>4. ~orphan => Backed(image.received)
    BY <1>2 DEF Inv, ImageBacked
<1> QED BY <1>1, <1>2, <1>3, <1>4, BeginInv

----------------------------------------------------------------------------
(* Store.                                                                  *)

LEMMA BeginStoreInv == ASSUME Inv, NEW a \in Actors, BeginStore(a) PROVE Inv'
<1>1. /\ pc[a] \in StoreSteps /\ diskLock = {} /\ ~job.cleaned
      /\ diskLock' = {a}
      /\ snapshot' = Image("whole", job.validators, job.received)
      /\ UNCHANGED <<output, outputExists, version, job, pc, chunk>>
      /\ \/ UNCHANGED <<image, orphan>>
         \/ image' = Torn /\ orphan' = (orphan /\ job.loaded)
    BY DEF BeginStore
<1>2. Running /\ outputExists
    BY <1>1 DEF Inv, Quiet, Locked, StoreSteps
<1>3. ImageShape(snapshot') /\ ImageShape(image') /\ snapshot'.received = job.received
    BY <1>1, Numbers DEF Inv, Shape, ImageShape, JobShape, Image, Torn
<1>4. Shape'
    BY <1>1, <1>3 DEF Inv, Shape, JobShape
<1>5. Quiet' /\ Inside' /\ Held'
    BY <1>1 DEF Inv, Quiet, Inside, Held, Running
<1>6. Locked'
  <2>1. \A c \in Chunks : job.received[c] <= job.received[c]
      BY Numbers DEF Inv, Shape, JobShape, Counts
  <2> QED BY <1>1, <1>2, <1>3, <2>1 DEF Locked, Running
<1>7. ImageBacked'
    BY <1>1 DEF Inv, ImageBacked, Backed, Torn, Image
<1>8. JobBacked'
  <2>1. ASSUME ~(orphan' /\ job.loaded) PROVE ~(orphan /\ job.loaded)
      BY <1>1, <2>1
  <2> QED BY <1>1, <2>1 DEF Inv, JobBacked, Backed
<1> QED BY <1>4, <1>5, <1>6, <1>7, <1>8 DEF Inv

\* What a Store holds is in the output file, unless it comes from an orphan.
LEMMA SnapshotBacked ==
    ASSUME Inv, diskLock # {}, ~(orphan /\ job.loaded)
    PROVE  Backed(snapshot.received)
<1>1. outputExists /\ \A c \in Chunks : snapshot.received[c] <= job.received[c]
    BY DEF Inv, Locked
<1>2. Backed(job.received)
    BY <1>1 DEF Inv, JobBacked
<1>3. snapshot.received \in [Chunks -> Counts] /\ job.received \in [Chunks -> Counts]
    BY DEF Inv, Shape, ImageShape, JobShape
<1> QED BY <1>1, <1>2, <1>3, BackedBelow

\* A table of which a part is replaced counts nothing else.
LEMMA UpdatedImage ==
    ASSUME Inv, diskLock # {}, NEW n
    PROVE  /\ ImageShape(Updated(n))
           /\ Updated(n).form = "whole" /\ ~orphan => Backed(Updated(n).received)
<1>0. ImageShape(image) /\ ImageShape(snapshot)
    BY DEF Inv, Shape
<1>1. CASE image.form = "whole"
  <2> DEFINE r == [c \in Chunks |-> IF c <= n THEN snapshot.received[c]
                                    ELSE image.received[c]]
  <2>1. Updated(n) = [image EXCEPT !.received = r]
      BY <1>1 DEF Updated
  <2>2. r \in [Chunks -> Counts]
      BY <1>0 DEF ImageShape
  <2>3. ImageShape(Updated(n)) /\ Updated(n).received = r
      BY <1>0, <2>1, <2>2 DEF ImageShape
  <2>4. ASSUME ~orphan PROVE Backed(r)
    <3>1. Backed(snapshot.received) /\ Backed(image.received)
        BY <1>1, <2>4, SnapshotBacked DEF Inv, ImageBacked
    <3> QED BY <3>1 DEF Backed
  <2> QED BY <2>3, <2>4
<1>2. CASE image.form # "whole"
    BY <1>0, <1>2 DEF Updated
<1> QED BY <1>1, <1>2

\* Whatever a Store leaves in the file, if that counts nothing that is missing.
LEMMA UnlockInv ==
    ASSUME Inv, NEW a \in diskLock, NEW stored \in BOOLEAN, Unlock(a, stored),
           ImageShape(image'),
           image'.form = "whole" /\ ~orphan => Backed(image'.received)
    PROVE  Inv'
<1>1. /\ job' = [job EXCEPT !.imageStored = stored, !.indexed = TRUE, !.sinceStore = 0]
      /\ diskLock' = {} /\ snapshot' = NoImage
      /\ pc' = [pc EXCEPT ![a] = AfterStore(@)]
      /\ UNCHANGED <<output, outputExists, version, chunk, orphan>>
    BY DEF Unlock, history
<1>2. a \in Actors /\ pc[a] \in StoreSteps /\ Workers \subseteq Actors
    BY DEF Inv, Inside, Actors
<1>3. Running
    BY DEF Inv, Locked
<1>4. /\ JobShape(job') /\ job'.received = job.received /\ job'.loaded = job.loaded
      /\ job'.cleaned = job.cleaned /\ job'.state = job.state
  <2>1. JobShape(job) /\ job.state \in JobStates
      BY DEF Inv, Shape, JobShape
  <2> QED BY <2>1, <1>1, JobKeepsShape
<1>5. AfterStore(pc[a]) \in {"count", "cleanup", "idle", "tpause"}
    BY <1>2 DEF AfterStore, StoreSteps
<1>6. Shape'
  <2>1. ImageShape(NoImage)
      BY Numbers DEF ImageShape, NoImage, Image
  <2>2. pc' \in [Actors -> Steps]
      BY <1>1, <1>5 DEF Inv, Shape, Steps
  <2> QED BY <1>1, <1>4, <2>1, <2>2 DEF Inv, Shape
<1>7. Quiet' /\ Inside' /\ Locked'
    BY <1>1, <1>3, <1>4 DEF Inv, Quiet, Inside, Locked, Running
<1>8. Held'
  <2>1. \A w \in Workers : pc'[w] = "notify" => pc[w] = "notify"
      BY <1>1, <1>2, <1>5 DEF Inv, Shape
  <2> QED BY <1>1, <1>4, <2>1 DEF Inv, Held
<1>9. ImageBacked' /\ JobBacked'
    BY <1>1, <1>4 DEF Inv, ImageBacked, JobBacked, Backed
<1> QED BY <1>6, <1>7, <1>8, <1>9 DEF Inv

LEMMA FinishStoreInv == ASSUME Inv, NEW a, FinishStore(a) PROVE Inv'
<1>1. a \in diskLock /\ Unlock(a, TRUE)
    BY DEF FinishStore
<1>2. CASE image' = Updated(NChunks)
    BY <1>1, <1>2, UpdatedImage, UnlockInv
<1>3. CASE image' = snapshot
  <2>1. ImageShape(snapshot)
      BY DEF Inv, Shape
  <2>2. ~orphan => Backed(snapshot.received)
      BY <1>1, SnapshotBacked
  <2> QED BY <1>1, <1>3, <2>1, <2>2, UnlockInv
<1> QED BY <1>2, <1>3 DEF FinishStore

LEMMA StoreFailsInv == ASSUME Inv, NEW a, StoreFails(a) PROVE Inv'
<1>1. PICK stored \in BOOLEAN : Unlock(a, stored)
    BY DEF StoreFails
<1>2. a \in diskLock /\ image' = image
    BY DEF StoreFails
<1>3. ImageShape(image) /\ (image.form = "whole" /\ ~orphan => Backed(image.received))
    BY DEF Inv, Shape, ImageBacked
<1> QED BY <1>1, <1>2, <1>3, UnlockInv

----------------------------------------------------------------------------
(* The files are removed.                                                  *)

LEMMA CleanupInv == ASSUME Inv, NEW w \in Workers, Cleanup(w) PROVE Inv'
<1>1. /\ pc[w] = "cleanup" /\ pc' = [pc EXCEPT ![w] = "idle"]
      /\ diskLock = {} /\ diskLock' = {} /\ snapshot' = snapshot
      /\ job' = [job EXCEPT !.cleaned = TRUE] /\ image' = NoImage
      /\ UNCHANGED <<output, outputExists, version, chunk, orphan>>
    BY DEF Cleanup, At, CleanupArtifacts, storing
<1>2. w \in Actors /\ Workers \subseteq Actors
    BY DEF Actors
<1>3. Running
    BY <1>1, <1>2 DEF Inv, Quiet
<1>4. /\ JobShape(job') /\ job'.received = job.received /\ job'.loaded = job.loaded
      /\ job'.cleaned /\ job'.state = job.state
    BY <1>1 DEF Inv, Shape, JobShape
<1>5. Shape'
  <2>1. ImageShape(NoImage)
      BY Numbers DEF ImageShape, NoImage, Image
  <2>2. pc' \in [Actors -> Steps]
      BY <1>1 DEF Inv, Shape, Steps
  <2> QED BY <1>1, <1>4, <2>1, <2>2 DEF Inv, Shape, ImageShape
<1>6. Quiet' /\ Inside' /\ Locked'
    BY <1>1, <1>3, <1>4 DEF Quiet, Inside, Locked, Running
<1>7. Held'
  <2>1. \A v \in Workers : pc'[v] = "notify" => pc[v] = "notify"
      BY <1>1, <1>2 DEF Inv, Shape
  <2> QED BY <1>1, <1>4, <2>1 DEF Inv, Held
<1>8. ImageBacked'
    BY <1>1 DEF ImageBacked, NoImage, Image
<1>9. JobBacked'
    BY <1>1, <1>4 DEF Inv, JobBacked, Backed
<1> QED BY <1>5, <1>6, <1>7, <1>8, <1>9 DEF Inv

LEMMA ReapInv == Inv /\ Reap => Inv'
<1> SUFFICES ASSUME Inv, Reap PROVE Inv'
    OBVIOUS
<1>1. /\ job.state = "Canceled" /\ \A w \in Workers : pc[w] = "idle"
      /\ diskLock = {} /\ diskLock' = {} /\ snapshot' = snapshot
      /\ job' = [job EXCEPT !.cleaned = TRUE] /\ image' = NoImage
      /\ output' = Blank /\ outputExists' = FALSE
      /\ UNCHANGED <<version, pc, chunk>>
    BY DEF Reap, CleanupArtifacts, storing
<1>2. /\ JobShape(job') /\ job'.received = job.received
      /\ job'.cleaned /\ job'.state = job.state
    BY <1>1 DEF Inv, Shape, JobShape
<1>3. Shape'
  <2>1. ImageShape(NoImage)
      BY Numbers DEF ImageShape, NoImage, Image
  <2>2. Blank \in [Chunks -> [Units -> {0} \union Versions]]
      BY DEF Blank
  <2> QED BY <1>1, <1>2, <2>1, <2>2 DEF Inv, Shape, ImageShape
<1>4. Quiet' /\ Inside' /\ Locked'
    BY <1>1, <1>2 DEF Quiet, Inside, Locked, Running
<1>5. Held'
    BY <1>1 DEF Inv, Held
<1>6. ImageBacked' /\ JobBacked'
    BY <1>1 DEF ImageBacked, JobBacked, NoImage, Image
<1> QED BY <1>3, <1>4, <1>5, <1>6 DEF Inv

----------------------------------------------------------------------------
(* The process ends.                                                       *)

LEMMA DieInv ==
    ASSUME Inv, Die, ImageShape(image'),
           image'.form = "whole" /\ ~orphan => Backed(image'.received)
    PROVE  Inv'
<1>1. /\ job' = NoJob /\ diskLock' = {} /\ snapshot' = NoImage
      /\ pc' = [a \in Actors |-> "idle"] /\ chunk' = [w \in Workers |-> 0]
      /\ UNCHANGED <<output, outputExists, version, orphan>>
    BY DEF Die
<1>2. Shape'
  <2>1. ImageShape(NoImage)
      BY Numbers DEF ImageShape, NoImage, Image
  <2> QED BY <1>1, <2>1, NoJobShape DEF Inv, Shape, Steps
<1>3. Quiet' /\ Inside' /\ Locked'
    BY <1>1, NoJobShape DEF Quiet, Inside, Locked, Running
<1>4. Held'
    BY <1>1 DEF Held, Actors
<1>5. ImageBacked'
    BY <1>1 DEF ImageBacked, Backed
<1>6. JobBacked'
    BY <1>1, NoJobShape, ZeroBacked DEF JobBacked, Backed
<1> QED BY <1>2, <1>3, <1>4, <1>5, <1>6 DEF Inv

LEMMA EndInv ==
    ASSUME Inv, Crash \/ \E a \in Actors : StoreWithoutWriter(a)
    PROVE  Inv'
<1>1. Die
    BY DEF Crash, StoreWithoutWriter
<1>2. CASE image' = image
  <2>1. ImageShape(image) /\ (image.form = "whole" /\ ~orphan => Backed(image.received))
      BY DEF Inv, Shape, ImageBacked
  <2> QED BY <1>1, <1>2, <2>1, DieInv
<1>3. CASE diskLock # {} /\ \E n \in 0..NChunks : image' = Updated(n)
    BY <1>1, <1>3, UpdatedImage, DieInv
<1> QED BY <1>2, <1>3 DEF Crash, StoreWithoutWriter

----------------------------------------------------------------------------

LEMMA NextInv == Inv /\ [Next]_vars => Inv'
<1> SUFFICES ASSUME Inv, [Next]_vars PROVE Inv'
    OBVIOUS
<1>1. CASE \E w \in Workers : WorkerStep(w)
  <2>1. PICK w \in Workers : WorkerStep(w)
      BY <1>1
  <2>2. w \in Actors
      BY DEF Actors
  <2> QED BY <2>1, <2>2, ReceiveInv, NotifyInv, ThreadInv, CleanupInv DEF WorkerStep
<1>2. CASE \E a \in Actors : StoreStep(a)
    BY <1>2, BeginStoreInv, FinishStoreInv, StoreFailsInv, EndInv DEF StoreStep
<1>3. CASE SessionStep
    BY <1>3, ServerChangesInv, RemoveOutputInv, DownloadInv, LoadInv, JobCallsInv,
       EndInv DEF SessionStep
<1>4. CASE UserStep
  <2>1. User \in Actors
      BY DEF Actors
  <2> QED BY <1>4, <2>1, JobCallsInv, ReapInv, ThreadInv DEF UserStep
<1>5. CASE UNCHANGED vars
  <2>1. SameFiles /\ SameCounts /\ Shape' /\ Quiet' /\ Inside' /\ Held'
      BY <1>5 DEF vars, disk, storing, history, SameFiles, SameCounts, Running,
                  Inv, Shape, ImageShape, JobShape, Quiet, Inside, Held
  <2> QED BY <2>1, CalmStep
<1> QED BY <1>1, <1>2, <1>3, <1>4, <1>5 DEF Next

\* In every session, however the ones before ended, the image and the running job
\* count only units that are in the output file (StoreUnlocked, ReadImageFromDisk,
\* UpdateReceived, CleanupArtifacts).
THEOREM ImageCorrect == Spec => []ImageSound
<1>1. Inv => ImageSound
    BY DEF Inv, ImageSound, ImageBacked, JobBacked
<1> QED BY <1>1, InitInv, NextInv, PTL DEF Spec

----------------------------------------------------------------------------
(* A file that was removed stays away.                                     *)

\* No engine begins with its files removed.
LEMMA BeginsUncleaned ==
    ASSUME NEW state, NEW received, NEW validators, NEW fromImage
    PROVE  ~Engine(state, received, validators, fromImage).cleaned
BY DEF Engine

LEMMA StaysAway == Inv /\ NothingComesBack /\ [Next]_vars => NothingComesBack'
<1> SUFFICES ASSUME Inv, NothingComesBack, [Next]_vars, job'.cleaned
             PROVE  image' = NoImage
    BY DEF NothingComesBack
<1>0. JobShape(job) /\ ~NoJob.cleaned
    BY NoJobShape DEF Inv, Shape
<1>1. CASE CleanupArtifacts
    BY <1>1 DEF CleanupArtifacts
<1>2. CASE job'.cleaned = job.cleaned /\ image' = image
    BY <1>2 DEF NothingComesBack
<1>3. ASSUME NEW w \in Workers, WorkerStep(w)
      PROVE  CleanupArtifacts \/ (job'.cleaned = job.cleaned /\ image' = image)
    BY <1>0, <1>3 DEF WorkerStep, Receive, Notify, Account, Count, Fail, Cleanup, disk,
                      JobShape
<1>4. ASSUME NEW a \in Actors, StoreStep(a)
      PROVE  ~job'.cleaned
  <2>1. CASE BeginStore(a)
      BY <2>1 DEF BeginStore
  <2>2. CASE FinishStore(a) \/ StoreFails(a)
    <3>1. a \in diskLock /\ \E stored : Unlock(a, stored)
        BY <2>2 DEF FinishStore, StoreFails
    <3>2. ~job.cleaned
        BY <3>1 DEF Inv, Locked
    <3> QED BY <1>0, <3>1, <3>2 DEF Unlock, JobShape
  <2>3. CASE StoreWithoutWriter(a)
      BY <1>0, <2>3 DEF StoreWithoutWriter, Die
  <2> QED BY <1>4, <2>1, <2>2, <2>3 DEF StoreStep
<1>5. CASE SessionStep
  <2>1. CASE Download \/ Load
      BY <2>1, BeginsUncleaned DEF Download, Load
  <2>2. CASE Crash
      BY <1>0, <2>2 DEF Crash, Die
  <2>3. CASE ServerChanges \/ RemoveOutput \/ SetValidators
      BY <1>0, <1>2, <2>3 DEF ServerChanges, RemoveOutput, SetValidators, disk, JobShape
  <2> QED BY <1>5, <2>1, <2>2, <2>3 DEF SessionStep
<1>6. CASE UserStep
  <2>1. CleanupArtifacts \/ (job'.cleaned = job.cleaned /\ image' = image)
      BY <1>0, <1>6 DEF UserStep, Resume, Pause, Cancel, Reap, Terminate,
                        TerminatePause, disk, JobShape
  <2> QED BY <1>1, <1>2, <2>1
<1>7. CASE UNCHANGED vars
    BY <1>2, <1>7 DEF vars, disk
<1> QED BY <1>1, <1>2, <1>3, <1>4, <1>5, <1>6, <1>7 DEF Next

\* The image of a job that is over is never written again (CleanupArtifacts and
\* Store exclude each other through disk_mtx_ and artifactsCleaned_).
THEOREM NothingComesBackHolds == Spec => []NothingComesBack
<1>1. Init => NothingComesBack
    BY NoJobShape DEF Init, NothingComesBack
<1> QED BY <1>1, InitInv, NextInv, StaysAway, PTL DEF Spec

----------------------------------------------------------------------------
(* What Terminate stored is kept.                                          *)

AtMost(less, more) == \A c \in Chunks : less[c] <= more[c]

\* An image this process has written once, and the disk has always taken, is
\* whole: it is updated in place from then on.
Recorded ==
    /\ diskLock # {} => snapshot.form = "whole"
    /\ Running /\ job.indexed /\ ~job.cleaned /\ diskFaults = 0 =>
           job.imageStored /\ image.form = "whole"

\* The Store of Terminate is behind it.
Settled == terminated \/ (pc[User] = "tpause" /\ ~job.cleaned)

\* From the call of Terminate on nothing that is stored counts less than is owed.
Owing ==
    /\ owed \in [Chunks -> Counts]
    /\ terminated => ~job.cleaned
    /\ pc[User] \in {"tstore", "tpause"} \/ (terminated /\ Running) =>
           AtMost(owed, job.received)
    /\ User \in diskLock => AtMost(owed, snapshot.received)
    /\ Settled /\ diskFaults = 0 =>
           /\ image.form = "whole" /\ AtMost(owed, image.received)
           /\ Running => job.indexed
           /\ diskLock # {} => AtMost(owed, snapshot.received)

\* The user's thread stores for Terminate only.
Place == pc[User] \in {"idle", "tstore", "tpause"} /\ diskFaults \in Nat

Persist == Recorded /\ Owing /\ Place

\* Nothing is stored, promised or removed.
PersistSame ==
    /\ UNCHANGED <<image, snapshot, diskLock, diskFaults, owed, terminated>>
    /\ job'.cleaned = job.cleaned /\ job'.indexed = job.indexed
    /\ job'.imageStored = job.imageStored
    /\ Running' <=> Running
    /\ pc'[User] = pc[User]

LEMMA PersistCalm ==
    ASSUME Persist, PersistSame, AtMost(owed, job.received) => AtMost(owed, job'.received)
    PROVE  Persist'
<1>1. Recorded'
    BY DEF Persist, Recorded, PersistSame
<1>2. Settled' <=> Settled
    BY DEF Settled, PersistSame
<1>3. Owing' /\ Place'
    BY <1>2 DEF Persist, Owing, Place, PersistSame, AtMost
<1> QED BY <1>1, <1>3 DEF Persist

\* The user's thread is not a worker: its place changes in its own steps only.
LEMMA UserPlace ==
    ASSUME Inv, NEW w \in Workers, NEW step, pc' = [pc EXCEPT ![w] = step]
    PROVE  pc'[User] = pc[User]
BY ThreadsAssumption DEF Inv, Shape, Actors

LEMMA WorkerPersists ==
    ASSUME Inv, Persist, NEW w \in Workers,
           Receive(w) \/ Notify(w) \/ Account(w) \/ Count(w) \/ Fail(w)
    PROVE  Persist'
<1>0. JobShape(job)
    BY DEF Inv, Shape
<1>1. \E step : pc' = [pc EXCEPT ![w] = step]
    BY DEF Receive, Notify, Account, Count, Fail, At
<1>2. pc'[User] = pc[User]
    BY <1>1, UserPlace
<1>3. UNCHANGED <<image, snapshot, diskLock, diskFaults, owed, terminated>>
    BY DEF Receive, Notify, Account, Count, Fail, disk, storing, history, spent
<1>4. CASE Receive(w)
  <2>1. job' = job
      BY <1>4 DEF Receive
  <2> QED BY <1>2, <1>3, <2>1, PersistCalm DEF PersistSame, Running, AtMost
<1>5. CASE Notify(w)
  <2>1. job' = [job EXCEPT !.received[chunk[w]] = @ + 1] /\ pc[w] = "notify"
      BY <1>5 DEF Notify, At
  <2>2. chunk[w] \in Chunks
      BY <2>1 DEF Inv, Held
  <2>3. PersistSame
      BY <1>0, <1>2, <1>3, <2>1 DEF PersistSame, Running, JobShape
  <2>4. ASSUME AtMost(owed, job.received) PROVE AtMost(owed, job'.received)
    <3>1. job'.received = [job.received EXCEPT ![chunk[w]] = @ + 1]
        BY <1>0, <2>1 DEF JobShape
    <3>2. job.received \in [Chunks -> Counts] /\ owed \in [Chunks -> Counts]
        BY <1>0 DEF JobShape, Persist, Owing
    <3> QED BY <2>2, <2>4, <3>1, <3>2, Numbers DEF AtMost, Counts
  <2> QED BY <2>3, <2>4, PersistCalm
<1>6. CASE Account(w) \/ Count(w) \/ Fail(w)
  <2>1. /\ job'.received = job.received /\ job'.cleaned = job.cleaned
        /\ job'.indexed = job.indexed /\ job'.imageStored = job.imageStored
    <3>1. CASE Account(w)
        BY <1>0, <3>1 DEF Account, JobShape
    <3>2. CASE Count(w)
        BY <1>0, <3>2 DEF Count, JobShape
    <3>3. CASE Fail(w)
        BY <1>0, <3>3 DEF Fail, JobShape
    <3> QED BY <1>6, <3>1, <3>2, <3>3
  <2>2. Running' <=> Running
    <3>1. CASE Account(w)
        BY <1>0, <3>1 DEF Account, JobShape, Running
    <3>2. CASE Count(w)
        BY <1>0, <3>2 DEF Count, JobShape, Running
    <3>3. CASE Fail(w)
        BY <1>0, <3>3 DEF Fail, JobShape, Running
    <3> QED BY <1>6, <3>1, <3>2, <3>3
  <2> QED BY <1>2, <1>3, <2>1, <2>2, PersistCalm DEF PersistSame, AtMost
<1> QED BY <1>4, <1>5, <1>6

LEMMA CallPersists ==
    ASSUME Inv, Persist,
           ServerChanges \/ RemoveOutput \/ SetValidators \/ Resume \/ Pause \/ Cancel
    PROVE  Persist'
<1>0. JobShape(job)
    BY DEF Inv, Shape
<1>1. UNCHANGED <<image, snapshot, diskLock, diskFaults, owed, terminated, pc>>
    BY DEF ServerChanges, RemoveOutput, SetValidators, Resume, Pause, Cancel, disk,
           storing, history, spent, CallOfUser
<1>2. /\ job'.received = job.received /\ job'.cleaned = job.cleaned
      /\ job'.indexed = job.indexed /\ job'.imageStored = job.imageStored
  <2>1. CASE ServerChanges \/ RemoveOutput
      BY <2>1 DEF ServerChanges, RemoveOutput
  <2>2. CASE SetValidators
      BY <1>0, <2>2 DEF SetValidators, JobShape
  <2>3. CASE Resume
      BY <1>0, <2>3 DEF Resume, JobShape
  <2>4. CASE Pause \/ Cancel
      BY <1>0, <2>4 DEF Pause, Cancel, JobShape
  <2> QED BY <2>1, <2>2, <2>3, <2>4
<1>3. Running' <=> Running
  <2>1. CASE ServerChanges \/ RemoveOutput
      BY <2>1 DEF ServerChanges, RemoveOutput, Running
  <2>2. CASE SetValidators
      BY <1>0, <2>2 DEF SetValidators, JobShape, Running
  <2>3. CASE Resume
      BY <1>0, <2>3 DEF Resume, JobShape, Running
  <2>4. CASE Pause \/ Cancel
      BY <1>0, <2>4 DEF Pause, Cancel, JobShape, Running
  <2> QED BY <2>1, <2>2, <2>3, <2>4
<1> QED BY <1>1, <1>2, <1>3, PersistCalm DEF PersistSame, AtMost

LEMMA TerminatePersistsStep ==
    ASSUME Inv, Persist, Terminate \/ TerminatePause
    PROVE  Persist'
<1>0. JobShape(job) /\ pc \in [Actors -> Steps] /\ User \in Actors
    BY DEF Inv, Shape, Actors
<1>1. CASE Terminate
  <2>1. /\ pc[User] = "idle" /\ pc'[User] = "tstore"
        /\ owed' = job.received /\ ~terminated'
        /\ UNCHANGED <<image, job, snapshot, diskLock, diskFaults>>
      BY <1>0, <1>1 DEF Terminate, At, CallOfUser, disk, storing
  <2>2. Recorded'
      BY <2>1 DEF Persist, Recorded, Running
  <2>3. ~Settled' /\ User \notin diskLock
      BY <2>1 DEF Settled, Inv, Inside, StoreSteps
  <2>4. AtMost(owed', job'.received) /\ owed' \in [Chunks -> Counts]
      BY <1>0, <2>1, Numbers DEF JobShape, AtMost, Counts
  <2> QED BY <2>1, <2>2, <2>3, <2>4 DEF Persist, Owing, AtMost, Place
<1>2. CASE TerminatePause
  <2>1. /\ pc[User] = "tpause" /\ pc'[User] = "idle"
        /\ UNCHANGED <<image, snapshot, diskLock, diskFaults>>
      BY <1>0, <1>2 DEF TerminatePause, At, disk, storing, spent
  <2>2. /\ job'.received = job.received /\ job'.cleaned = job.cleaned
        /\ job'.indexed = job.indexed /\ job'.imageStored = job.imageStored
      BY <1>0, <1>2 DEF TerminatePause, JobShape
  <2>3. Running' <=> Running
      BY <1>0, <1>2 DEF TerminatePause, JobShape, Running
  <2>4. Recorded'
      BY <2>1, <2>2, <2>3 DEF Persist, Recorded
  <2>5. CASE job.cleaned
    <3>1. owed' = Zero /\ ~terminated'
        BY <1>2, <2>5 DEF TerminatePause, NothingOwed
    <3>2. owed' \in [Chunks -> Counts]
        BY <3>1, Numbers
    <3>3. User \notin diskLock
        BY <2>1 DEF Inv, Inside, StoreSteps
    <3> QED BY <2>1, <2>4, <3>1, <3>2, <3>3 DEF Persist, Owing, Settled, Place
  <2>6. CASE ~job.cleaned
    <3>1. owed' = owed /\ terminated'
        BY <1>2, <2>6 DEF TerminatePause
    <3>2. Settled
        BY <2>1, <2>6 DEF Settled
    <3> QED BY <2>1, <2>2, <2>3, <2>4, <2>6, <3>1, <3>2 DEF Persist, Owing, AtMost, Place
  <2> QED BY <2>5, <2>6
<1> QED BY <1>1, <1>2

LEMMA StorePersists ==
    ASSUME Inv, Persist, NEW a \in Actors, BeginStore(a) \/ FinishStore(a) \/ StoreFails(a)
    PROVE  Persist'
<1>0. JobShape(job) /\ pc \in [Actors -> Steps] /\ User \in Actors
    BY DEF Inv, Shape, Actors
<1>1. CASE BeginStore(a)
  <2>1. /\ pc[a] \in StoreSteps /\ diskLock = {} /\ diskLock' = {a} /\ ~job.cleaned
        /\ snapshot' = Image("whole", job.validators, job.received)
        /\ UNCHANGED <<job, pc, owed, terminated, diskFaults>>
        /\ InPlace => image' = image
      BY <1>1 DEF BeginStore, spent
  <2>2. snapshot'.form = "whole" /\ snapshot'.received = job.received
      BY <2>1 DEF Image
  <2>3. Running
      BY <2>1 DEF Inv, Quiet, StoreSteps
  <2>4. job.indexed /\ diskFaults = 0 => InPlace
      BY <2>1, <2>3 DEF Persist, Recorded, InPlace
  <2>5. Recorded'
      BY <2>1, <2>2, <2>4 DEF Persist, Recorded, Running
  <2>6. Settled' <=> Settled
      BY <2>1 DEF Settled
  <2>7. User \in diskLock' => pc[User] \in {"tstore", "tpause"} \/ a = User
      BY <2>1
  <2>8. User \in diskLock' => AtMost(owed, snapshot'.received)
    <3> SUFFICES ASSUME a = User PROVE AtMost(owed, job.received)
        BY <2>1, <2>2
    <3>1. pc[User] = "tstore"
        BY <2>1 DEF Persist, Place, StoreSteps
    <3> QED BY <3>1 DEF Persist, Owing
  <2>9. Settled /\ diskFaults = 0 =>
            /\ image' = image /\ job.indexed
            /\ AtMost(owed, snapshot'.received)
    <3> SUFFICES ASSUME Settled, diskFaults = 0
                 PROVE  image' = image /\ job.indexed /\ AtMost(owed, job.received)
        BY <2>2
    <3> QED BY <2>1, <2>3, <2>4 DEF Persist, Owing, Settled, Place
  <2> QED BY <2>1, <2>5, <2>6, <2>8, <2>9 DEF Persist, Owing, AtMost, Running, Place
<1>2. ASSUME NEW stored \in BOOLEAN, a \in diskLock, Unlock(a, stored)
      PROVE  /\ diskLock' = {} /\ job'.received = job.received /\ job'.indexed
             /\ job'.cleaned = job.cleaned /\ ~job.cleaned /\ job'.imageStored = stored
             /\ UNCHANGED <<owed, terminated>> /\ Running /\ Running'
             /\ pc'[User] = IF a = User THEN AfterStore(pc[User]) ELSE pc[User]
    BY <1>0, <1>2 DEF Unlock, history, JobShape, Inv, Locked, Running
<1>3. CASE FinishStore(a)
  <2>1. /\ a \in diskLock /\ Unlock(a, TRUE) /\ diskFaults' = diskFaults
        /\ image' = IF InPlace THEN Updated(NChunks) ELSE snapshot
      BY <1>3 DEF FinishStore
  <2>2. ~InPlace => image'.form = "whole" /\ image'.received = snapshot.received
      BY <2>1 DEF Persist, Recorded
  <2>3. InPlace /\ diskFaults = 0 =>
            image'.form = "whole" /\ AtMost(snapshot.received, image'.received)
    <3> SUFFICES ASSUME InPlace, diskFaults = 0
                 PROVE  /\ image'.form = "whole"
                        /\ AtMost(snapshot.received, image'.received)
        OBVIOUS
    <3>1. image.form = "whole"
        BY <1>2, <2>1 DEF InPlace, Persist, Recorded
    <3>2. /\ image'.form = "whole"
          /\ image'.received = [c \in Chunks |-> IF c <= NChunks THEN snapshot.received[c]
                                                ELSE image.received[c]]
        BY <2>1, <3>1 DEF Updated, Inv, Shape, ImageShape
    <3>3. \A c \in Chunks : c <= NChunks
        BY Numbers DEF Chunks
    <3>4. \A c \in Chunks : snapshot.received[c] \in Int
        BY Numbers DEF Inv, Shape, ImageShape, Counts
    <3> QED BY <3>2, <3>3, <3>4 DEF AtMost
  <2>4. diskFaults = 0 => image'.form = "whole" /\ AtMost(snapshot.received, image'.received)
    <3>1. \A c \in Chunks : snapshot.received[c] \in Int
        BY Numbers DEF Inv, Shape, ImageShape, Counts
    <3> QED BY <2>2, <2>3, <3>1 DEF AtMost
  <2>5. Recorded'
      BY <1>2, <2>1, <2>4 DEF Recorded
  <2>6. Settled' => AtMost(owed, snapshot.received) \/ diskFaults # 0
    <3>1. CASE a = User
        BY <2>1, <3>1 DEF Persist, Owing
    <3>2. CASE a # User
      <4>1. Settled' <=> Settled
          BY <1>2, <2>1, <3>2 DEF Settled
      <4> QED BY <2>1, <4>1 DEF Persist, Owing
    <3> QED BY <3>1, <3>2
  <2>7. Settled' /\ diskFaults = 0 => AtMost(owed, image'.received)
    <3> SUFFICES ASSUME Settled', diskFaults = 0 PROVE AtMost(owed, image'.received)
        OBVIOUS
    <3>1. AtMost(owed, snapshot.received) /\ AtMost(snapshot.received, image'.received)
        BY <2>4, <2>6
    <3>2. ImageShape(image')
        BY <1>3, FinishStoreInv DEF Inv, Shape
    <3>3. \A c \in Chunks : /\ owed[c] \in Int /\ snapshot.received[c] \in Int
                           /\ image'.received[c] \in Int
        BY <3>2, Numbers DEF Inv, Shape, ImageShape, Counts, Persist, Owing
    <3> QED BY <3>1, <3>3 DEF AtMost
  <2>8. pc'[User] \in {"tstore", "tpause"} => pc[User] \in {"tstore", "tpause"}
    <3>1. a = User => pc[User] = "tstore"
        BY <2>1, <1>0 DEF Inv, Inside, Persist, Place, StoreSteps
    <3> QED BY <1>2, <2>1, <3>1
  <2>9. Place'
      BY <1>0, <1>2, <2>1 DEF Persist, Place, Inv, Inside, StoreSteps, AfterStore
  <2> QED BY <1>2, <2>1, <2>4, <2>5, <2>7, <2>8, <2>9 DEF Persist, Owing, AtMost
<1>4. CASE StoreFails(a)
  <2>1. PICK stored \in BOOLEAN : Unlock(a, stored)
      BY <1>4 DEF StoreFails
  <2>2. a \in diskLock /\ diskFaults' = diskFaults + 1 /\ diskFaults < MaxDiskFaults
      BY <1>4 DEF StoreFails
  <2>3. diskFaults' # 0
      BY <2>2 DEF Persist, Place
  <2>4. pc'[User] \in {"tstore", "tpause"} => pc[User] \in {"tstore", "tpause"}
    <3>1. a = User => pc[User] = "tstore"
        BY <2>2, <1>0 DEF Inv, Inside, Persist, Place, StoreSteps
    <3> QED BY <1>2, <2>1, <2>2, <3>1
  <2>5. Place'
      BY <1>0, <1>2, <2>1, <2>2 DEF Persist, Place, Inv, Inside, StoreSteps, AfterStore
  <2> QED BY <1>2, <2>1, <2>2, <2>3, <2>4, <2>5 DEF Persist, Recorded, Owing, AtMost
<1> QED BY <1>1, <1>3, <1>4

\* A session begins: nobody is in the engine.
LEMMA SessionPersists == Inv /\ Persist /\ (Download \/ Load) => Persist'
<1> SUFFICES ASSUME Inv, Persist, Download \/ Load PROVE Persist'
    OBVIOUS
<1>0. pc \in [Actors -> Steps] /\ User \in Actors
    BY DEF Inv, Shape, Actors
<1>1. /\ ~Running /\ UNCHANGED <<diskLock, pc, diskFaults>>
      /\ owed' = Zero /\ ~terminated'
      /\ \E received, validators, fromImage :
             job' = Engine("Initialized", received, validators, fromImage)
    BY DEF Download, Load, NothingOwed, disk, storing
<1>2. pc[User] = "idle" /\ diskLock = {}
    BY <1>0, <1>1 DEF Inv, Quiet, Locked
<1>3. ~job'.indexed
    BY <1>1 DEF Engine
<1> QED BY <1>1, <1>2, <1>3, Numbers DEF Persist, Recorded, Place, Owing, Settled

LEMMA EndPersists ==
    ASSUME Inv, Persist, Crash \/ \E a \in Actors : StoreWithoutWriter(a)
    PROVE  Persist'
<1>0. pc \in [Actors -> Steps] /\ User \in Actors
    BY DEF Inv, Shape, Actors
<1>1. /\ Die /\ job' = NoJob /\ diskLock' = {} /\ pc'[User] = "idle"
      /\ diskFaults' = diskFaults
    BY <1>0 DEF Crash, StoreWithoutWriter, Die, spent
<1>2. ~Running' /\ ~job'.cleaned
    BY <1>1, NoJobShape DEF Running
<1>3. Recorded' /\ Place'
    BY <1>1, <1>2 DEF Persist, Recorded, Place
<1>4. CASE ~terminated
  <2>1. owed' = Zero /\ ~terminated'
      BY <1>1, <1>4 DEF Die, NothingOwed
  <2> QED BY <1>1, <1>2, <1>3, <2>1, Numbers DEF Persist, Owing, Settled
<1>5. CASE terminated
  <2>1. owed' = owed /\ Settled
      BY <1>1, <1>5 DEF Die, Settled
  <2>2. diskFaults = 0 => image'.form = "whole" /\ AtMost(owed, image'.received)
    <3>1. CASE image' = image
        BY <2>1, <3>1 DEF Persist, Owing, AtMost
    <3>2. CASE diskLock # {} /\ \E n \in 0..NChunks : image' = Updated(n)
      <4> SUFFICES ASSUME diskFaults = 0, NEW n \in 0..NChunks, image' = Updated(n)
                   PROVE  image'.form = "whole" /\ AtMost(owed, image'.received)
          BY <3>2
      <4>1. image.form = "whole" /\ AtMost(owed, image.received)
            /\ AtMost(owed, snapshot.received)
          BY <2>1, <3>2 DEF Persist, Owing
      <4>2. /\ image'.form = "whole"
            /\ image'.received = [c \in Chunks |-> IF c <= n THEN snapshot.received[c]
                                                  ELSE image.received[c]]
          BY <4>1 DEF Updated, Inv, Shape, ImageShape
      <4> QED BY <4>1, <4>2 DEF AtMost
    <3> QED BY <3>1, <3>2 DEF Crash, StoreWithoutWriter
  <2> QED BY <1>1, <1>2, <1>3, <2>1, <2>2 DEF Persist, Owing, AtMost
<1> QED BY <1>4, <1>5

LEMMA CleanupPersists ==
    ASSUME Inv, Persist, Reap \/ \E w \in Workers : Cleanup(w)
    PROVE  Persist'
<1>0. JobShape(job)
    BY DEF Inv, Shape
<1>1. /\ diskLock' = {} /\ diskFaults' = diskFaults /\ owed' = Zero /\ ~terminated'
      /\ job' = [job EXCEPT !.cleaned = TRUE]
    BY DEF Reap, Cleanup, CleanupArtifacts, NothingOwed, storing, spent
<1>2. pc'[User] = pc[User]
    BY UserPlace DEF Reap, Cleanup, At
<1>3. job'.cleaned /\ job'.received = job.received
    BY <1>0, <1>1 DEF JobShape
<1>4. Zero \in [Chunks -> Counts] /\ AtMost(Zero, job.received)
    BY <1>0, Numbers DEF AtMost, JobShape, Counts
<1> QED BY <1>1, <1>2, <1>3, <1>4 DEF Persist, Recorded, Owing, Place, Settled, AtMost

LEMMA InitPersists == Init => Persist
<1> SUFFICES ASSUME Init PROVE Persist
    OBVIOUS
<1>1. User \in Actors
    BY DEF Actors
<1> QED BY <1>1, Numbers, NoJobShape
        DEF Init, Persist, Recorded, Owing, Place, Settled, Running

LEMMA PersistNext == Inv /\ Persist /\ [Next]_vars => Persist'
<1> SUFFICES ASSUME Inv, Persist, [Next]_vars PROVE Persist'
    OBVIOUS
<1>1. ASSUME NEW w \in Workers, WorkerStep(w) PROVE Persist'
    BY <1>1, WorkerPersists, CleanupPersists DEF WorkerStep
<1>2. ASSUME NEW a \in Actors, StoreStep(a) PROVE Persist'
    BY <1>2, StorePersists, EndPersists DEF StoreStep
<1>3. CASE SessionStep
    BY <1>3, SessionPersists, CallPersists, EndPersists DEF SessionStep
<1>4. CASE UserStep
    BY <1>4, CallPersists, TerminatePersistsStep, CleanupPersists DEF UserStep
<1>5. CASE UNCHANGED vars
  <2>1. PersistSame /\ job' = job
      BY <1>5 DEF vars, disk, storing, history, spent, PersistSame, Running
  <2> QED BY <2>1, PersistCalm DEF AtMost
<1> QED BY <1>1, <1>2, <1>3, <1>4, <1>5 DEF Next

\* After Terminate has returned the image holds what the job had received when it
\* was called, until a new session begins, if the disk has taken every image
\* (Terminate's Store, the updates in place after it, a process that dies).
THEOREM TerminateKeeps == Spec => []TerminatePersists
<1>1. Persist => TerminatePersists
    BY DEF Persist, Owing, Settled, AtMost, TerminatePersists
<1> QED BY <1>1, InitPersists, InitInv, NextInv, PersistNext, PTL DEF Spec

----------------------------------------------------------------------------
(* One version of the server's file.                                       *)

\* Two versions of the file that a Load can compare at all differ in a header it
\* compares: what a server promises of an ETag and a modification date.
Distinguishes ==
    \A u, v \in Versions :
        u # v /\ MatchesStoredFile(Probe[u], Probe[v]) => Comparable(Probe[u], Probe[v]) = {}

\* Between two sessions there is nothing of a job.
Absent == ~Running => job.received = Zero /\ job.validators = NoValidators

\* The validators of this session are of the version that is on the server.
Validated ==
    /\ job.validators \in {NoValidators, Probe[version]}
    /\ diskLock # {} => snapshot.validators \in {NoValidators, Probe[version]}

\* What is being written anew was truncated.
Truncated == diskLock # {} /\ ~InPlace => image.form = "torn"

\* The unit that is written and not yet counted.
HeldFresh ==
    \A w \in Workers :
        pc[w] = "notify" => output[chunk[w]][job.received[chunk[w]]] = version

JobFresh == outputExists /\ ~((blind \/ orphan) /\ job.loaded) => Fresh(job.received)

\* The image is of version v: its validators say so, and if that is the version on
\* the server still, so do the units it counts.
ImageFrom(v) ==
    image.validators \in {NoValidators, Probe[v]} /\ (v = version => Fresh(image.received))

Known == image.form = "whole" /\ ~(blind \/ orphan)

ImageOfVersion == Known => \E v \in Versions : v <= version /\ ImageFrom(v)

\* An image this process has written once is of the version of this session.
ImageOfSession == Known /\ Running /\ job.indexed /\ ~job.cleaned => ImageFrom(version)

Version ==
    /\ Absent /\ Validated /\ Truncated /\ HeldFresh /\ JobFresh
    /\ ImageOfVersion /\ ImageOfSession

LEMMA VersionsAreNumbers == Versions \subseteq Int /\ \A v \in Versions : v <= v
<1>1. Versions = 1..Cardinality(Versions)
    BY ServerAssumption
<1>2. Versions \subseteq Int
  <2>1. \A n : 1..n \subseteq Int
      OBVIOUS
  <2> QED BY <1>1, <2>1
<1>3. ASSUME NEW v \in Versions PROVE v <= v
  <2>1. v \in Int
      BY <1>2
  <2> QED BY <2>1
<1> QED BY <1>2, <1>3

LEMMA FreshBelow ==
    ASSUME NEW more \in [Chunks -> Counts], NEW less \in [Chunks -> Counts],
           Fresh(more), \A c \in Chunks : less[c] <= more[c]
    PROVE  Fresh(less)
BY Numbers DEF Fresh, Units, Counts

\* No unit is written, no count, image or version changes.
VersionSame ==
    /\ UNCHANGED <<image, output, outputExists, version, diskLock, snapshot, blind, orphan>>
    /\ job'.received = job.received /\ job'.loaded = job.loaded
    /\ job'.cleaned = job.cleaned /\ job'.indexed = job.indexed
    /\ job'.imageStored = job.imageStored
    /\ Running' <=> Running
    /\ \A w \in Workers : pc'[w] = "notify" => pc[w] = "notify" /\ chunk'[w] = chunk[w]

LEMMA VersionCalm ==
    ASSUME Version, VersionSame, Absent', Validated'
    PROVE  Version'
<1>1. Truncated'
    BY DEF Version, VersionSame, Truncated, InPlace
<1>2. HeldFresh'
    BY DEF Version, VersionSame, HeldFresh
<1>3. JobFresh'
    BY DEF Version, VersionSame, JobFresh, Fresh
<1>4. ImageOfVersion'
    BY DEF Version, VersionSame, ImageOfVersion, Known, ImageFrom, Fresh
<1>5. ImageOfSession'
    BY DEF Version, VersionSame, ImageOfSession, Known, ImageFrom, Fresh
<1> QED BY <1>1, <1>2, <1>3, <1>4, <1>5 DEF Version

LEMMA ThreadVersion ==
    ASSUME Inv, Version, NEW a \in Actors,
           \/ a \in Workers /\ (Account(a) \/ Count(a) \/ Fail(a))
           \/ a = User /\ (Terminate \/ TerminatePause)
    PROVE  Version'
<1>0. JobShape(job) /\ pc \in [Actors -> Steps] /\ Workers \subseteq Actors
      /\ chunk \in [Workers -> {0} \union Chunks]
    BY DEF Inv, Shape, Actors
<1>1. UNCHANGED <<image, output, outputExists, version, diskLock, snapshot, blind, orphan>>
    BY DEF Account, Count, Fail, Terminate, TerminatePause, disk, storing, history
<1>2. \E here, there : there # "notify" /\ At(a, here, there)
    BY DEF Account, Count, Fail, Terminate, TerminatePause
<1>3. \A w \in Workers : pc'[w] = "notify" => pc[w] = "notify" /\ w # a
    BY <1>0, <1>2 DEF At
<1>4. \A w \in Workers \ {a} : chunk'[w] = chunk[w]
    BY <1>0 DEF Account, Count, Fail, Terminate, TerminatePause
<1>5. /\ job'.received = job.received /\ job'.loaded = job.loaded
      /\ job'.cleaned = job.cleaned /\ job'.indexed = job.indexed
      /\ job'.imageStored = job.imageStored /\ job'.validators = job.validators
      /\ Running' <=> Running
  <2>1. CASE a \in Workers /\ Account(a)
      BY <1>0, <2>1 DEF Account, JobShape, Running
  <2>2. CASE a \in Workers /\ Count(a)
      BY <1>0, <2>2 DEF Count, JobShape, Running
  <2>3. CASE a \in Workers /\ Fail(a)
      BY <1>0, <2>3 DEF Fail, JobShape, Running
  <2>4. CASE a = User /\ Terminate
      BY <2>4 DEF Terminate, Running
  <2>5. CASE a = User /\ TerminatePause
      BY <1>0, <2>5 DEF TerminatePause, JobShape, Running
  <2> QED BY <2>1, <2>2, <2>3, <2>4, <2>5
<1>6. VersionSame
    BY <1>1, <1>3, <1>4, <1>5 DEF VersionSame
<1>7. Absent' /\ Validated'
    BY <1>1, <1>5 DEF Version, Absent, Validated
<1> QED BY <1>6, <1>7, VersionCalm

LEMMA CallVersion ==
    ASSUME Inv, Version, SetValidators \/ Resume \/ Pause \/ Cancel
    PROVE  Version'
<1>0. JobShape(job)
    BY DEF Inv, Shape
<1>1. UNCHANGED <<image, output, outputExists, version, diskLock, snapshot, blind, orphan,
                  pc, chunk>>
    BY DEF SetValidators, Resume, Pause, Cancel, disk, storing, history
<1>2. /\ job'.received = job.received /\ job'.loaded = job.loaded
      /\ job'.cleaned = job.cleaned /\ job'.indexed = job.indexed
      /\ job'.imageStored = job.imageStored
      /\ job'.validators \in {job.validators, Probe[version]}
      /\ Running /\ Running'
  <2>1. CASE SetValidators
      BY <1>0, <2>1 DEF SetValidators, JobShape, Running
  <2>2. CASE Resume
      BY <1>0, <2>2 DEF Resume, JobShape, Running
  <2>3. CASE Pause
      BY <1>0, <2>3 DEF Pause, JobShape, Running
  <2>4. CASE Cancel
      BY <1>0, <2>4 DEF Cancel, JobShape, Running
  <2> QED BY <2>1, <2>2, <2>3, <2>4
<1>3. VersionSame
    BY <1>1, <1>2 DEF VersionSame
<1>4. Absent' /\ Validated'
    BY <1>1, <1>2 DEF Version, Absent, Validated
<1> QED BY <1>3, <1>4, VersionCalm

\* No session runs: nobody holds a lock or a unit, and nothing is counted.
LEMMA NoSession ==
    ASSUME Inv, Version, ~Running
    PROVE  /\ diskLock = {} /\ job.received = Zero /\ job.validators = NoValidators
           /\ \A w \in Workers : pc[w] = "idle"
BY DEF Inv, Quiet, Locked, Version, Absent, Actors

LEMMA BetweenVersion == Inv /\ Version /\ (ServerChanges \/ RemoveOutput) => Version'
<1> SUFFICES ASSUME Inv, Version, ServerChanges \/ RemoveOutput PROVE Version'
    OBVIOUS
<1>1. ~Running /\ ~Running' /\ UNCHANGED <<image, job, pc, chunk, diskLock, snapshot>>
    BY DEF ServerChanges, RemoveOutput, Running, disk, storing
<1>2. Absent' /\ Validated' /\ Truncated' /\ HeldFresh'
    BY <1>1, NoSession DEF Absent, Validated, Truncated, HeldFresh
<1>3. JobFresh'
    BY <1>1, NoSession, Numbers DEF JobFresh, Fresh, Units
<1>4. ImageOfSession'
    BY <1>1 DEF ImageOfSession
<1>5. ImageOfVersion'
  <2>1. CASE ServerChanges
    <3> SUFFICES ASSUME Known' PROVE \E v \in Versions : v <= version' /\ ImageFrom(v)'
        BY DEF ImageOfVersion
    <3>1. version' = version + 1 /\ UNCHANGED <<image, output, blind, orphan>>
        BY <2>1 DEF ServerChanges, disk, history
    <3>2. PICK v \in Versions : v <= version /\ ImageFrom(v)
        BY <3>1 DEF Version, ImageOfVersion, Known
    <3>3. version \in Int /\ v \in Int
        BY VersionsAreNumbers DEF Inv, Shape
    <3>4. v <= version' /\ v # version'
        BY <3>1, <3>2, <3>3
    <3>5. ImageFrom(v)'
        BY <3>1, <3>2, <3>4 DEF ImageFrom
    <3> QED BY <3>4, <3>5
  <2>2. CASE RemoveOutput
    <3>1. ~Known'
        BY <2>2 DEF RemoveOutput, Known
    <3> QED BY <3>1 DEF ImageOfVersion
  <2> QED BY <2>1, <2>2
<1> QED BY <1>2, <1>3, <1>4, <1>5 DEF Version

LEMMA DownloadVersion == Inv /\ Version /\ Download => Version'
<1> SUFFICES ASSUME Inv, Version, Download PROVE Version'
    OBVIOUS
<1>1. /\ ~Running /\ UNCHANGED <<image, output, version, pc, chunk, diskLock, snapshot,
                                 blind, orphan>>
      /\ job' = Engine("Initialized", Zero, NoValidators, FALSE)
    BY DEF Download, storing
<1>2. /\ job'.received = Zero /\ job'.validators = NoValidators
      /\ ~job'.loaded /\ ~job'.indexed
    BY <1>1 DEF Engine
<1>3. Absent' /\ Validated' /\ Truncated' /\ HeldFresh'
    BY <1>1, <1>2, NoSession DEF Absent, Validated, Truncated, HeldFresh
<1>4. JobFresh'
  <2>1. \A c \in Chunks : \A k \in Units : ~(k < Zero[c])
      BY Numbers DEF Units
  <2>2. job'.received = Zero
      BY <1>2
  <2> QED BY <2>1, <2>2 DEF JobFresh, Fresh
<1>5. ImageOfVersion' /\ ImageOfSession'
    BY <1>1, <1>2 DEF Version, ImageOfVersion, ImageOfSession, Known, ImageFrom, Fresh
<1> QED BY <1>3, <1>4, <1>5 DEF Version

\* What a Load takes over is of the version that is on the server.
LEMMA LoadVersion == Distinguishes /\ Inv /\ Version /\ Load => Version'
<1> SUFFICES ASSUME Distinguishes, Inv, Version, Load PROVE Version'
    OBVIOUS
<1>1. /\ ~Running /\ UNCHANGED <<image, output, outputExists, version, pc, chunk, diskLock,
                                 snapshot, orphan>>
      /\ image.form = "whole"
      /\ job' = Engine("Initialized", image.received, Probe[version], TRUE)
      /\ MatchesStoredFile(image.validators, Probe[version])
      /\ blind' = (blind \/ Comparable(image.validators, Probe[version]) = {})
    BY DEF Load, ReadImageFromDisk, disk, storing
<1>2. /\ job'.received = image.received /\ job'.validators = Probe[version]
      /\ job'.loaded /\ ~job'.indexed /\ job'.state = "Initialized"
    BY <1>1 DEF Engine
<1>3. Absent' /\ Validated' /\ Truncated' /\ HeldFresh'
    BY <1>1, <1>2, NoSession DEF Absent, Validated, Truncated, HeldFresh, Running
<1>4. JobFresh'
  <2> SUFFICES ASSUME ~blind', ~orphan' PROVE Fresh(job.received)'
      BY <1>2 DEF JobFresh
  <2>1. ~blind /\ ~orphan /\ Comparable(image.validators, Probe[version]) # {}
      BY <1>1
  <2>2. PICK v \in Versions : v <= version /\ ImageFrom(v)
      BY <1>1, <2>1 DEF Version, ImageOfVersion, Known
  <2>3. image.validators # NoValidators
      BY <2>1 DEF Comparable, NoValidators
  <2>4. image.validators = Probe[v] /\ version \in Versions
      BY <2>2, <2>3 DEF ImageFrom, Inv, Shape
  <2>5. v = version
      BY <1>1, <2>1, <2>4 DEF Distinguishes
  <2>6. Fresh(image.received)
      BY <2>2, <2>5 DEF ImageFrom
  <2> QED BY <1>1, <1>2, <2>6 DEF Fresh
<1>5. ImageOfVersion' /\ ImageOfSession'
    BY <1>1, <1>2 DEF Version, ImageOfVersion, ImageOfSession, Known, ImageFrom, Fresh
<1> QED BY <1>3, <1>4, <1>5 DEF Version

LEMMA ReceiveVersion == ASSUME Inv, Version, NEW w \in Workers, Receive(w) PROVE Version'
<1>0. /\ pc \in [Actors -> Steps] /\ chunk \in [Workers -> {0} \union Chunks]
      /\ output \in [Chunks -> [Units -> {0} \union Versions]]
      /\ job.received \in [Chunks -> Counts] /\ Workers \subseteq Actors
    BY DEF Inv, Shape, JobShape, Actors
<1>1. PICK c \in Chunks \ (FinishedIn(job.received) \union InHand) :
        /\ output' = [output EXCEPT ![c][job.received[c]] = version]
        /\ chunk' = [chunk EXCEPT ![w] = c]
    BY DEF Receive
<1>2. /\ pc' = [pc EXCEPT ![w] = "notify"] /\ Running /\ Running'
      /\ UNCHANGED <<image, outputExists, version, job, diskLock, snapshot, blind, orphan>>
    BY DEF Receive, At, Running, storing, history
<1>3. job.received[c] \in Units
    BY <1>0, <1>1, Numbers DEF FinishedIn, Counts, Units
<1>4. \A d \in Chunks : \A k \in Units :
          output'[d][k] = output[d][k] \/ output'[d][k] = version
    BY <1>0, <1>1
<1>5. ASSUME NEW counts, Fresh(counts) PROVE Fresh(counts)'
    BY <1>2, <1>4, <1>5 DEF Fresh
<1>6. Absent' /\ Validated' /\ Truncated'
    BY <1>2 DEF Version, Absent, Validated, Truncated, InPlace
<1>7. HeldFresh'
  <2> SUFFICES ASSUME NEW v \in Workers, pc'[v] = "notify"
               PROVE  output'[chunk'[v]][job.received[chunk'[v]]] = version
      BY <1>2 DEF HeldFresh
  <2>1. CASE v = w
      BY <1>0, <1>1, <1>3, <2>1
  <2>2. CASE v # w
    <3>1. pc[v] = "notify" /\ chunk'[v] = chunk[v]
        BY <1>0, <1>1, <1>2, <2>2
    <3>2. chunk[v] # c
        BY <1>1 DEF InHand
    <3>3. chunk[v] \in Chunks /\ output[chunk[v]][job.received[chunk[v]]] = version
        BY <3>1 DEF Inv, Held, Version, HeldFresh
    <3> QED BY <1>0, <1>1, <3>1, <3>2, <3>3
  <2> QED BY <2>1, <2>2
<1>8. JobFresh'
    BY <1>2, <1>5 DEF Version, JobFresh, Fresh
<1>9. ASSUME NEW v, ImageFrom(v) PROVE ImageFrom(v)'
  <2>1. v = version => Fresh(image.received)'
      BY <1>2, <1>4, <1>9 DEF ImageFrom, Fresh
  <2> QED BY <1>2, <1>9, <2>1 DEF ImageFrom, Fresh
<1>10. ImageOfVersion' /\ ImageOfSession'
    BY <1>2, <1>9 DEF Version, ImageOfVersion, ImageOfSession, Known
<1> QED BY <1>6, <1>7, <1>8, <1>10 DEF Version

LEMMA NotifyVersion == ASSUME Inv, Version, NEW w \in Workers, Notify(w) PROVE Version'
<1> DEFINE c == chunk[w]
<1>0. /\ pc \in [Actors -> Steps] /\ Workers \subseteq Actors
      /\ JobShape(job) /\ job.received \in [Chunks -> Counts]
    BY DEF Inv, Shape, JobShape, Actors
<1>1. /\ pc[w] = "notify" /\ pc' = [pc EXCEPT ![w] = "account"]
      /\ job' = [job EXCEPT !.received[c] = @ + 1]
      /\ UNCHANGED <<image, output, outputExists, version, diskLock, snapshot, chunk,
                     blind, orphan>>
    BY DEF Notify, At, disk, storing, history
<1>2. /\ c \in Chunks /\ job.received[c] < ChunkUnits
      /\ output[c][job.received[c]] = version
    BY <1>1 DEF Inv, Held, Version, HeldFresh
<1>3. /\ job'.received = [job.received EXCEPT ![c] = @ + 1]
      /\ job'.loaded = job.loaded /\ job'.cleaned = job.cleaned
      /\ job'.indexed = job.indexed /\ job'.imageStored = job.imageStored
      /\ job'.validators = job.validators /\ (Running' <=> Running)
    BY <1>0, <1>1 DEF JobShape, Running
<1>4. Absent'
  <2>1. Running
      BY <1>0, <1>1 DEF Inv, Quiet
  <2> QED BY <1>3, <2>1 DEF Absent
<1>5. Validated' /\ Truncated'
    BY <1>1, <1>3 DEF Version, Validated, Truncated, InPlace
<1>6. HeldFresh'
  <2>1. \A v \in Workers : pc'[v] = "notify" => v # w /\ pc[v] = "notify"
      BY <1>0, <1>1
  <2>2. \A v \in Workers : pc'[v] = "notify" => chunk[v] # c
      BY <2>1, <1>2 DEF Inv, Held, Chunks
  <2>3. \A d : d # c => job'.received[d] = job.received[d]
      BY <1>0, <1>3
  <2> QED BY <1>1, <2>1, <2>2, <2>3 DEF Version, HeldFresh
<1>7. JobFresh'
  <2>1. ASSUME Fresh(job.received) PROVE Fresh(job'.received)
    <3> SUFFICES ASSUME NEW d \in Chunks, NEW k \in Units, k < job'.received[d]
                 PROVE  output[d][k] = version
        BY DEF Fresh
    <3>1. CASE d = c /\ k = job.received[c]
        BY <3>1, <1>2
    <3>2. CASE d # c \/ k # job.received[c]
      <4>1. k < job.received[d]
          BY <3>2, <1>0, <1>2, <1>3, Numbers DEF Counts, Units
      <4> QED BY <4>1, <2>1 DEF Fresh
    <3> QED BY <3>1, <3>2
  <2> QED BY <1>1, <1>3, <2>1 DEF Version, JobFresh, Fresh
<1>8. ImageOfVersion' /\ ImageOfSession'
    BY <1>1, <1>3 DEF Version, ImageOfVersion, ImageOfSession, Known, ImageFrom, Fresh
<1> QED BY <1>4, <1>5, <1>6, <1>7, <1>8 DEF Version

\* What a Store holds is of this session's version, if what the job counts is.
LEMMA SnapshotFresh ==
    ASSUME Inv, Version, diskLock # {}, ~((blind \/ orphan) /\ job.loaded)
    PROVE  Fresh(snapshot.received)
<1>1. outputExists /\ \A c \in Chunks : snapshot.received[c] <= job.received[c]
    BY DEF Inv, Locked
<1>2. Fresh(job.received)
    BY <1>1 DEF Version, JobFresh
<1>3. snapshot.received \in [Chunks -> Counts] /\ job.received \in [Chunks -> Counts]
    BY DEF Inv, Shape, ImageShape, JobShape
<1> QED BY <1>1, <1>2, <1>3, FreshBelow

\* A table of which a part is replaced in place stays of this session's version.
LEMMA UpdatedFresh ==
    ASSUME Inv, Version, diskLock # {}, InPlace, NEW n, ~(blind \/ orphan),
           Updated(n).form = "whole"
    PROVE  /\ Updated(n).validators \in {NoValidators, Probe[version]}
           /\ Fresh(Updated(n).received)
<1>1. image.form = "whole"
    BY DEF Updated
<1>2. ImageShape(image)
    BY DEF Inv, Shape
<1>3. /\ Updated(n).validators = image.validators
      /\ Updated(n).received = [c \in Chunks |-> IF c <= n THEN snapshot.received[c]
                                                ELSE image.received[c]]
    BY <1>1, <1>2 DEF Updated, ImageShape
<1>4. Known /\ Running /\ job.indexed /\ ~job.cleaned
    BY <1>1 DEF Known, InPlace, Inv, Locked
<1>5. ImageFrom(version)
    BY <1>4 DEF Version, ImageOfSession
<1>6. Fresh(snapshot.received)
    BY SnapshotFresh
<1> QED BY <1>3, <1>5, <1>6 DEF ImageFrom, Fresh

LEMMA BeginStoreVersion ==
    ASSUME Inv, Version, NEW a \in Actors, BeginStore(a)
    PROVE  Version'
<1>1. /\ pc[a] \in StoreSteps /\ diskLock = {} /\ ~job.cleaned
      /\ snapshot' = Image("whole", job.validators, job.received)
      /\ UNCHANGED <<output, outputExists, version, job, pc, chunk>>
    BY DEF BeginStore
<1>2. snapshot'.validators = job.validators
    BY <1>1 DEF Image
<1>3. Absent' /\ Validated' /\ HeldFresh'
    BY <1>1, <1>2 DEF Version, Absent, Validated, HeldFresh, Running
<1>4. CASE InPlace
  <2>1. UNCHANGED <<image, blind, orphan>>
      BY <1>4 DEF BeginStore
  <2>2. Truncated'
      BY <1>1, <1>4 DEF Truncated, InPlace
  <2>3. JobFresh' /\ ImageOfVersion' /\ ImageOfSession'
      BY <1>1, <2>1 DEF Version, JobFresh, ImageOfVersion, ImageOfSession, Known, ImageFrom,
                        Fresh, Running
  <2> QED BY <1>3, <2>2, <2>3 DEF Version
<1>5. CASE ~InPlace
  <2>1. /\ image'.form = "torn"
        /\ blind' = (blind /\ job.loaded) /\ orphan' = (orphan /\ job.loaded)
      BY <1>5 DEF BeginStore, Torn, Image
  <2>2. Truncated' /\ ImageOfVersion' /\ ImageOfSession'
      BY <2>1 DEF Truncated, ImageOfVersion, ImageOfSession, Known
  <2>3. ~((blind \/ orphan) /\ job.loaded)' => ~((blind \/ orphan) /\ job.loaded)
      BY <1>1, <2>1
  <2>4. JobFresh'
      BY <1>1, <2>3 DEF Version, JobFresh, Fresh
  <2> QED BY <1>3, <2>2, <2>4 DEF Version
<1> QED BY <1>4, <1>5

\* Whatever a Store leaves in the file, if it is of this session's version.
LEMMA UnlockVersion ==
    ASSUME Inv, Version, NEW a \in diskLock, NEW stored \in BOOLEAN, Unlock(a, stored),
           Known' => ImageFrom(version)'
    PROVE  Version'
<1>0. JobShape(job) /\ pc \in [Actors -> Steps] /\ Workers \subseteq Actors
      /\ version \in Versions
    BY DEF Inv, Shape, Actors
<1>1. /\ diskLock' = {} /\ pc' = [pc EXCEPT ![a] = AfterStore(@)]
      /\ UNCHANGED <<output, outputExists, version, chunk, blind, orphan>>
      /\ job' = [job EXCEPT !.imageStored = stored, !.indexed = TRUE, !.sinceStore = 0]
    BY DEF Unlock, history
<1>2. /\ job'.received = job.received /\ job'.loaded = job.loaded
      /\ job'.validators = job.validators /\ (Running' <=> Running)
    BY <1>0, <1>1 DEF JobShape, Running
<1>3. AfterStore(pc[a]) # "notify"
    BY DEF Inv, Inside, AfterStore, StoreSteps
<1>4. Absent' /\ Validated' /\ Truncated'
    BY <1>1, <1>2 DEF Version, Absent, Validated, Truncated
<1>5. HeldFresh'
  <2>1. \A w \in Workers : pc'[w] = "notify" => pc[w] = "notify"
      BY <1>0, <1>1, <1>3
  <2> QED BY <1>1, <1>2, <2>1 DEF Version, HeldFresh
<1>6. JobFresh'
    BY <1>1, <1>2 DEF Version, JobFresh, Fresh
<1>7. ImageOfSession'
    BY DEF ImageOfSession
<1>8. ImageOfVersion'
  <2>1. version <= version /\ version' = version
      BY <1>0, <1>1, VersionsAreNumbers
  <2> QED BY <1>0, <2>1 DEF ImageOfVersion
<1> QED BY <1>4, <1>5, <1>6, <1>7, <1>8 DEF Version

LEMMA FinishStoreVersion == ASSUME Inv, Version, NEW a, FinishStore(a) PROVE Version'
<1>1. /\ a \in diskLock /\ Unlock(a, TRUE)
      /\ UNCHANGED <<output, version, blind, orphan>>
    BY DEF FinishStore, Unlock, history
<1>2. ASSUME Known' PROVE ImageFrom(version)'
  <2>1. ~(blind \/ orphan) /\ image'.form = "whole"
      BY <1>1, <1>2 DEF Known
  <2>2. image'.validators \in {NoValidators, Probe[version]} /\ Fresh(image'.received)
    <3>1. CASE InPlace
      <4>1. image' = Updated(NChunks)
          BY <3>1 DEF FinishStore
      <4> QED BY <1>1, <2>1, <3>1, <4>1, UpdatedFresh
    <3>2. CASE ~InPlace
      <4>1. image' = snapshot
          BY <3>2 DEF FinishStore
      <4>2. Fresh(snapshot.received)
          BY <1>1, <2>1, SnapshotFresh
      <4> QED BY <1>1, <4>1, <4>2 DEF Version, Validated
    <3> QED BY <3>1, <3>2
  <2> QED BY <1>1, <2>2 DEF ImageFrom, Fresh
<1> QED BY <1>1, <1>2, UnlockVersion

LEMMA StoreFailsVersion == ASSUME Inv, Version, NEW a, StoreFails(a) PROVE Version'
<1>1. PICK stored \in BOOLEAN : Unlock(a, stored)
    BY DEF StoreFails
<1>2. a \in diskLock /\ ~InPlace /\ image' = image
    BY DEF StoreFails
<1>3. ~Known'
    BY <1>2 DEF Known, Version, Truncated
<1> QED BY <1>1, <1>2, <1>3, UnlockVersion

LEMMA CleanupVersion ==
    ASSUME Inv, Version, Reap \/ \E w \in Workers : Cleanup(w)
    PROVE  Version'
<1>0. JobShape(job) /\ pc \in [Actors -> Steps] /\ Workers \subseteq Actors
    BY DEF Inv, Shape, Actors
<1>1. /\ diskLock = {} /\ diskLock' = {} /\ job' = [job EXCEPT !.cleaned = TRUE]
      /\ image'.form = "none" /\ UNCHANGED <<version, chunk, snapshot, blind, orphan>>
    BY DEF Reap, Cleanup, CleanupArtifacts, storing, NoImage, Image
<1>2. /\ job'.received = job.received /\ job'.loaded = job.loaded
      /\ job'.validators = job.validators /\ (Running' <=> Running)
    BY <1>0, <1>1 DEF JobShape, Running
<1>3. Absent' /\ Validated' /\ Truncated'
    BY <1>1, <1>2 DEF Version, Absent, Validated, Truncated
<1>4. ImageOfVersion' /\ ImageOfSession'
    BY <1>1 DEF ImageOfVersion, ImageOfSession, Known
<1>5. CASE Reap
  <2>1. ~outputExists' /\ \A w \in Workers : pc'[w] = "idle"
      BY <1>5 DEF Reap
  <2> QED BY <1>3, <1>4, <2>1 DEF Version, HeldFresh, JobFresh
<1>6. CASE \E w \in Workers : Cleanup(w)
  <2>1. PICK w \in Workers : Cleanup(w)
      BY <1>6
  <2>2. UNCHANGED <<output, outputExists>> /\ pc' = [pc EXCEPT ![w] = "idle"]
      BY <2>1 DEF Cleanup, At
  <2>3. \A v \in Workers : pc'[v] = "notify" => pc[v] = "notify"
      BY <1>0, <2>2
  <2>4. HeldFresh' /\ JobFresh'
      BY <1>1, <1>2, <2>2, <2>3 DEF Version, HeldFresh, JobFresh, Fresh
  <2> QED BY <1>3, <1>4, <2>4 DEF Version
<1> QED BY <1>5, <1>6

LEMMA EndVersion ==
    ASSUME Inv, Version, Crash \/ \E a \in Actors : StoreWithoutWriter(a)
    PROVE  Version'
<1>1. /\ job' = NoJob /\ diskLock' = {} /\ pc' = [a \in Actors |-> "idle"]
      /\ UNCHANGED <<output, outputExists, version, blind, orphan>>
    BY DEF Crash, StoreWithoutWriter, Die
<1>2. /\ ~Running' /\ job'.received = Zero /\ job'.validators = NoValidators
    BY <1>1, NoJobShape DEF Running, NoJob, Engine
<1>3. Absent' /\ Validated' /\ Truncated' /\ ImageOfSession'
    BY <1>1, <1>2 DEF Absent, Validated, Truncated, ImageOfSession
<1>4. HeldFresh'
    BY <1>1 DEF HeldFresh, Actors
<1>5. JobFresh'
  <2>1. \A c \in Chunks : \A k \in Units : ~(k < Zero[c])
      BY Numbers DEF Units
  <2> QED BY <1>2, <2>1 DEF JobFresh, Fresh
<1>6. ImageOfVersion'
  <2>1. CASE image' = image
      BY <1>1, <2>1 DEF Version, ImageOfVersion, Known, ImageFrom, Fresh
  <2>2. CASE diskLock # {} /\ InPlace /\ \E n \in 0..NChunks : image' = Updated(n)
    <3> SUFFICES ASSUME Known' PROVE ImageFrom(version)'
        BY <1>1, VersionsAreNumbers DEF ImageOfVersion, Inv, Shape
    <3>1. PICK n \in 0..NChunks : image' = Updated(n)
        BY <2>2
    <3>2. ~(blind \/ orphan) /\ image'.form = "whole"
        BY <1>1 DEF Known
    <3>3. image'.validators \in {NoValidators, Probe[version]} /\ Fresh(image'.received)
        BY <2>2, <3>1, <3>2, UpdatedFresh
    <3> QED BY <1>1, <3>3 DEF ImageFrom, Fresh
  <2> QED BY <2>1, <2>2 DEF Crash, StoreWithoutWriter
<1> QED BY <1>3, <1>4, <1>5, <1>6 DEF Version

LEMMA VersionNext == Distinguishes /\ Inv /\ Version /\ [Next]_vars => Version'
<1> SUFFICES ASSUME Distinguishes, Inv, Version, [Next]_vars PROVE Version'
    OBVIOUS
<1>0. User \in Actors /\ Workers \subseteq Actors
    BY DEF Actors
<1>1. ASSUME NEW w \in Workers, WorkerStep(w) PROVE Version'
    BY <1>0, <1>1, ReceiveVersion, NotifyVersion, ThreadVersion, CleanupVersion DEF WorkerStep
<1>2. ASSUME NEW a \in Actors, StoreStep(a) PROVE Version'
    BY <1>2, BeginStoreVersion, FinishStoreVersion, StoreFailsVersion, EndVersion DEF StoreStep
<1>3. CASE SessionStep
    BY <1>3, BetweenVersion, DownloadVersion, LoadVersion, CallVersion, EndVersion
    DEF SessionStep
<1>4. CASE UserStep
    BY <1>0, <1>4, CallVersion, ThreadVersion, CleanupVersion DEF UserStep
<1>5. CASE UNCHANGED vars
  <2>1. VersionSame /\ job' = job
      BY <1>5 DEF vars, disk, storing, history, VersionSame, Running
  <2>2. Absent' /\ Validated'
      BY <2>1 DEF Version, Absent, Validated, VersionSame
  <2> QED BY <2>1, <2>2, VersionCalm
<1> QED BY <1>1, <1>2, <1>3, <1>4, <1>5 DEF Next

\* If the server's validators tell its versions apart, no session counts bytes of two
\* of them, unless it goes back to an image that could not be compared or that lost
\* its file (MatchesStoredFile, SetValidators, StoreUnlocked, Load).
THEOREM VersionsStayApart == Distinguishes => (Spec => []OneVersion)
<1> SUFFICES ASSUME Distinguishes PROVE Spec => []OneVersion
    OBVIOUS
<1>1. Init => Version
  <2> SUFFICES ASSUME Init PROVE Version
      OBVIOUS
  <2>1. job.received = Zero /\ job.validators = NoValidators /\ diskLock = {}
      BY DEF Init, NoJob, Engine
  <2>2. image.form = "none" /\ ~outputExists /\ \A a \in Actors : pc[a] = "idle"
      BY DEF Init, NoImage, Image
  <2> QED BY <2>1, <2>2
          DEF Version, Absent, Validated, Truncated, HeldFresh, JobFresh, ImageOfVersion,
              ImageOfSession, Known, Actors
<1>2. Version => OneVersion
    BY DEF Version, JobFresh, OneVersion
<1>3. Inv /\ Version /\ [Next]_vars => Version'
    BY VersionNext
<1> QED BY <1>1, <1>2, <1>3, InitInv, NextInv, PTL DEF Spec

----------------------------------------------------------------------------
(* How little a crash loses.                                               *)

LEMMA TotalType ==
    ASSUME NEW counts \in [Chunks -> Counts]
    PROVE  Total(counts) \in Nat
<1>1. IsFiniteSet(Chunks)
    BY Numbers, FS_Interval DEF Chunks
<1>2. \A c \in Chunks : counts[c] \in Nat
    BY Numbers DEF Counts
<1>3. SumFunctionOnSet(counts, Chunks) \in Nat
    BY <1>1, <1>2, SumType
<1> QED BY <1>3 DEF Total, SumFunction

\* One unit more in one chunk is one more in all.
LEMMA TotalStep ==
    ASSUME NEW counts \in [Chunks -> Counts], NEW more \in [Chunks -> Counts],
           NEW c \in Chunks, more = [counts EXCEPT ![c] = @ + 1]
    PROVE  Total(more) = Total(counts) + 1
<1>1. IsFiniteSet(Chunks)
    BY Numbers, FS_Interval DEF Chunks
<1>2. \A d \in Chunks : counts[d] \in Nat /\ more[d] \in Nat
    BY Numbers DEF Counts
<1>3. more[c] = counts[c] + 1 /\ \A d \in Chunks \ {c} : more[d] = counts[d]
    OBVIOUS
<1>4. SumFunctionOnSet(more, Chunks) =
          SumFunctionOnSet(counts, Chunks) - counts[c] + more[c]
  <2>1. ASSUME NEW f, NEW g, \A d \in Chunks : f[d] \in Nat /\ g[d] \in Nat,
               \A d \in Chunks \ {c} : g[d] = f[d]
        PROVE  SumFunctionOnSet(g, Chunks) = SumFunctionOnSet(f, Chunks) - f[c] + g[c]
      BY <1>1, <2>1, SumChange
  <2> QED BY <1>2, <1>3, <2>1, Zenon
<1>5. SumFunctionOnSet(counts, Chunks) \in Nat
    BY <1>1, <1>2, SumType
<1> QED BY <1>2, <1>3, <1>4, <1>5 DEF Total, SumFunction

\* The workers that are at a step, and how many they are.
Standing(step) == {w \in Workers : pc[w] = step}
Number(step) == Cardinality(Standing(step))

LEMMA NumberType ==
    ASSUME NEW step
    PROVE  /\ IsFiniteSet(Standing(step))
           /\ Number(step) \in Nat /\ Number(step)' \in Nat
<1>1. Standing(step) \in SUBSET Workers /\ Standing(step)' \in SUBSET Workers
    BY DEF Standing
<1>2. IsFiniteSet(Standing(step)) /\ IsFiniteSet(Standing(step)')
    BY <1>1, ThreadsAssumption, FS_Subset
<1> QED BY <1>2, FS_CardinalityType DEF Number

LEMMA NumbersFit == Number("account") + Number("store") <= Cardinality(Workers)
<1>1. IsFiniteSet(Workers)
    BY ThreadsAssumption
<1>2. Standing("account") \union Standing("store") \in SUBSET Workers
    BY DEF Standing
<1>3. Standing("account") \intersect Standing("store") = {}
    BY DEF Standing
<1>4. Cardinality(Standing("account") \union Standing("store")) =
          Number("account") + Number("store") - Cardinality({})
    BY <1>3, NumberType, FS_Union DEF Number
<1>5. Cardinality(Standing("account") \union Standing("store")) <= Cardinality(Workers)
    BY <1>1, <1>2, FS_Subset
<1> QED BY <1>4, <1>5, NumberType, FS_EmptySet

\* A worker goes on: one less stands here, one more there.
LEMMA NumberMoves ==
    ASSUME Inv, NEW w \in Workers, NEW here, NEW there, here # there,
           At(w, here, there), NEW step
    PROVE  Number(step)' = CASE step = here -> Number(step) - 1
                             [] step = there -> Number(step) + 1
                             [] OTHER -> Number(step)
<1>1. /\ pc \in [Actors -> Steps] /\ Workers \subseteq Actors
      /\ pc[w] = here /\ pc' = [pc EXCEPT ![w] = there]
    BY DEF Inv, Shape, Actors, At
<1>2. IsFiniteSet(Standing(step))
    BY NumberType
<1>3. CASE step = here
  <2>1. Standing(step)' = Standing(step) \ {w} /\ w \in Standing(step)
      BY <1>1, <1>3 DEF Standing
  <2> QED BY <1>2, <1>3, <2>1, FS_RemoveElement DEF Number
<1>4. CASE step = there
  <2>1. Standing(step)' = Standing(step) \union {w} /\ w \notin Standing(step)
      BY <1>1, <1>4 DEF Standing
  <2> QED BY <1>2, <1>4, <2>1, FS_AddElement DEF Number
<1>5. CASE step # here /\ step # there
  <2>1. Standing(step)' = Standing(step)
      BY <1>1, <1>5 DEF Standing
  <2> QED BY <1>5, <2>1 DEF Number
<1> QED BY <1>3, <1>4, <1>5

\* No worker comes to a step or leaves it.
LEMMA NumberStays ==
    ASSUME NEW step, \A w \in Workers : pc'[w] = step <=> pc[w] = step
    PROVE  Number(step)' = Number(step)
BY DEF Number, Standing

\* What the job counts and a table does not, is at most n units.
Ahead(counts, n) == Total(job.received) <= Total(counts) + n

\* If the disk took every image: beyond what a Store has read, or stored, only
\* units are counted that were not accounted when it began; and since sinceStore
\* was reset each unit accounted at NeedsStore's limit has a worker at its Store.
Loss ==
    /\ job.sinceStore \in Nat
    /\ Running /\ ~job.cleaned /\ diskFaults = 0 =>
        /\ diskLock # {} => Ahead(snapshot.received, Number("account"))
        /\ ~Rewriting =>
            /\ Ahead(image.received, job.sinceStore + Number("account"))
            /\ Ahead(image.received,
                     StoreEvery - 1 + Number("account") + Number("store"))

LEMMA LossNumbers ==
    ASSUME Inv
    PROVE  /\ Total(job.received) \in Nat /\ Total(image.received) \in Nat
           /\ Total(snapshot.received) \in Nat
           /\ Number("account") \in Nat /\ Number("store") \in Nat
           /\ StoreEvery \in Nat \ {0} /\ Cardinality(Workers) \in Nat
<1>1. /\ job.received \in [Chunks -> Counts] /\ image.received \in [Chunks -> Counts]
      /\ snapshot.received \in [Chunks -> Counts]
    BY DEF Inv, Shape, JobShape, ImageShape
<1>2. IsFiniteSet(Workers) /\ StoreEvery \in Nat \ {0}
    BY ThreadsAssumption, SizesAssumption
<1> QED BY <1>1, <1>2, TotalType, NumberType, FS_CardinalityType

LEMMA LossSmall == Inv /\ Loss => LossBounded
<1> SUFFICES ASSUME Inv, Loss, Running, ~job.cleaned, ~Rewriting, diskFaults = 0
             PROVE  LossIsSmall
    BY DEF LossBounded
<1>1. Ahead(image.received, StoreEvery - 1 + Number("account") + Number("store"))
    BY DEF Loss
<1> QED BY <1>1, LossNumbers, NumbersFit DEF Ahead, LossIsSmall

\* What Loss is about stays as it is.
LossSame ==
    /\ UNCHANGED <<image, snapshot, diskLock, diskFaults>>
    /\ job'.received = job.received /\ job'.sinceStore = job.sinceStore
    /\ job'.cleaned = job.cleaned /\ job'.indexed = job.indexed
    /\ job'.imageStored = job.imageStored
    /\ Running' <=> Running

LEMMA LossCalm ==
    ASSUME Loss, LossSame, Number("account")' = Number("account"),
           Number("store")' = Number("store")
    PROVE  Loss'
<1>1. Rewriting' <=> Rewriting
    BY DEF LossSame, Rewriting, InPlace
<1>2. \A counts, n : Ahead(counts, n)' <=> Ahead(counts, n)
    BY DEF LossSame, Ahead
<1>3. job'.sinceStore \in Nat
    BY DEF Loss, LossSame
<1>4. SUFFICES ASSUME Running', ~job'.cleaned, diskFaults' = 0
               PROVE  /\ diskLock # {} => Ahead(snapshot.received, Number("account"))
                      /\ ~Rewriting =>
                          /\ Ahead(image.received, job.sinceStore + Number("account"))
                          /\ Ahead(image.received,
                                   StoreEvery - 1 + Number("account") + Number("store"))
    BY <1>1, <1>2, <1>3 DEF Loss, LossSame, Ahead
<1> QED BY <1>4 DEF Loss, LossSame

\* The calls, and the worker's steps that count nothing.
LEMMA SameLoss ==
    ASSUME Inv,
           \/ ServerChanges \/ RemoveOutput \/ SetValidators \/ Resume \/ Pause
           \/ Cancel \/ Terminate \/ TerminatePause
           \/ \E w \in Workers : Receive(w) \/ Count(w) \/ Fail(w)
    PROVE  LossSame
<1>0. JobShape(job)
    BY DEF Inv, Shape
<1>1. CASE ServerChanges \/ RemoveOutput \/ Terminate
    BY <1>1 DEF ServerChanges, RemoveOutput, Terminate, CallOfUser, LossSame, Running,
                disk, storing, spent
<1>2. CASE SetValidators
    BY <1>0, <1>2 DEF SetValidators, LossSame, Running, JobShape, disk, storing, spent
<1>3. CASE Resume
    BY <1>0, <1>3 DEF Resume, LossSame, Running, JobShape, disk, storing, spent
<1>4. CASE Pause \/ Cancel
    BY <1>0, <1>4 DEF Pause, Cancel, CallOfUser, LossSame, Running, JobShape, disk,
                      storing, spent
<1>5. CASE TerminatePause
    BY <1>0, <1>5 DEF TerminatePause, LossSame, Running, JobShape, disk, storing, spent
<1>6. CASE \E w \in Workers : Receive(w)
    BY <1>6 DEF Receive, LossSame, Running, storing, spent
<1>7. CASE \E w \in Workers : Count(w)
    BY <1>0, <1>7 DEF Count, LossSame, Running, JobShape, disk, storing, spent
<1>8. CASE \E w \in Workers : Fail(w)
    BY <1>0, <1>8 DEF Fail, LossSame, Running, JobShape, disk, storing, spent
<1> QED BY <1>1, <1>2, <1>3, <1>4, <1>5, <1>6, <1>7, <1>8

LEMMA CalmLoss ==
    ASSUME Inv, Loss,
           \/ ServerChanges \/ RemoveOutput \/ SetValidators \/ Resume \/ Pause
           \/ Cancel \/ Terminate \/ TerminatePause
           \/ \E w \in Workers : Receive(w) \/ Count(w) \/ Fail(w)
    PROVE  Loss'
<1>1. pc \in [Actors -> Steps] /\ User \notin Workers /\ Workers \subseteq Actors
    BY ThreadsAssumption DEF Inv, Shape, Actors
<1>2. \A w \in Workers : pc'[w] \in {"account", "store"} \/ pc[w] \in {"account", "store"}
          => pc'[w] = pc[w]
  <2>1. CASE pc' = pc
      BY <2>1
  <2>2. CASE \E step : pc' = [pc EXCEPT ![User] = step]
      BY <1>1, <2>2
  <2>3. ASSUME NEW v \in Workers, NEW here, NEW there, At(v, here, there),
               here \notin {"account", "store"}, there \notin {"account", "store"}
        PROVE  \A w \in Workers :
                   pc'[w] \in {"account", "store"} \/ pc[w] \in {"account", "store"}
                   => pc'[w] = pc[w]
      BY <1>1, <2>3 DEF At
  <2>4. CASE \E w \in Workers : Receive(w) \/ Count(w) \/ Fail(w)
    <3>1. PICK v \in Workers : \/ At(v, "idle", "notify") \/ At(v, "count", "idle")
                               \/ At(v, "count", "final") \/ At(v, "idle", "failstore")
        BY <2>4 DEF Receive, Count, Fail
    <3> QED BY <3>1, <2>3
  <2>5. CASE Terminate \/ TerminatePause
      BY <2>2, <2>5 DEF Terminate, TerminatePause, At
  <2>6. CASE \/ ServerChanges \/ RemoveOutput \/ SetValidators \/ Resume \/ Pause
             \/ Cancel
      BY <2>1, <2>6 DEF ServerChanges, RemoveOutput, SetValidators, Resume, Pause, Cancel
  <2> QED BY <2>4, <2>5, <2>6
<1>3. Number("account")' = Number("account") /\ Number("store")' = Number("store")
    BY <1>2, NumberStays
<1> QED BY <1>3, SameLoss, LossCalm

LEMMA NotifyLoss == ASSUME Inv, Loss, NEW w \in Workers, Notify(w) PROVE Loss'
<1>1. /\ job' = [job EXCEPT !.received[chunk[w]] = @ + 1] /\ At(w, "notify", "account")
      /\ UNCHANGED <<image, snapshot, diskLock, diskFaults>>
    BY DEF Notify, disk, storing, spent
<1>2. JobShape(job) /\ chunk[w] \in Chunks
    BY <1>1 DEF Inv, Shape, Held, At
<1>3. /\ job'.received = [job.received EXCEPT ![chunk[w]] = @ + 1]
      /\ job'.sinceStore = job.sinceStore /\ job'.cleaned = job.cleaned
      /\ job'.indexed = job.indexed /\ job'.imageStored = job.imageStored
      /\ job'.state = job.state
    BY <1>1, <1>2 DEF JobShape
<1>4. Total(job'.received) = Total(job.received) + 1
  <2>1. Inv'
      BY NotifyInv
  <2>2. job'.received \in [Chunks -> Counts] /\ job.received \in [Chunks -> Counts]
      BY <1>2, <2>1 DEF Inv, Shape, JobShape
  <2> QED BY <1>2, <1>3, <2>2, TotalStep
<1>5. Number("account")' = Number("account") + 1 /\ Number("store")' = Number("store")
    BY <1>1, NumberMoves
<1>6. (Rewriting' <=> Rewriting) /\ (Running' <=> Running)
    BY <1>1, <1>3 DEF Rewriting, InPlace, Running
<1>7. /\ \A counts : Total(counts) \in Nat =>
             /\ Ahead(counts, Number("account")) => Ahead(counts, Number("account"))'
             /\ job.sinceStore \in Nat =>
                (Ahead(counts, job.sinceStore + Number("account"))
                   => Ahead(counts, job.sinceStore + Number("account"))')
             /\ Ahead(counts, StoreEvery - 1 + Number("account") + Number("store"))
                   => Ahead(counts, StoreEvery - 1 + Number("account") + Number("store"))'
    BY <1>3, <1>4, <1>5, LossNumbers DEF Ahead
<1> QED BY <1>1, <1>3, <1>6, <1>7, LossNumbers DEF Loss

LEMMA AccountLoss == ASSUME Inv, Loss, NEW w \in Workers, Account(w) PROVE Loss'
<1>1. /\ job' = [job EXCEPT !.sinceStore = @ + 1] /\ diskLock = {}
      /\ At(w, "account", IF NeedsStore(job.sinceStore + 1) THEN "store" ELSE "count")
      /\ UNCHANGED <<image, snapshot, diskLock, diskFaults>>
    BY DEF Account, disk, storing, spent
<1>2. JobShape(job)
    BY DEF Inv, Shape
<1>3. /\ job'.received = job.received /\ job'.cleaned = job.cleaned
      /\ job'.sinceStore = job.sinceStore + 1 /\ job'.state = job.state
    BY <1>1, <1>2 DEF JobShape
<1>4. Number("account")' = Number("account") - 1
    BY <1>1, NumberMoves
<1>5. Number("store")' = IF NeedsStore(job.sinceStore + 1) THEN Number("store") + 1
                         ELSE Number("store")
    BY <1>1, NumberMoves
<1>6. job.sinceStore \in Nat /\ job'.sinceStore \in Nat
    BY <1>3 DEF Loss
<1>7. Ahead(image.received, job.sinceStore + Number("account")) =>
          Ahead(image.received, job.sinceStore + Number("account"))'
    BY <1>1, <1>3, <1>4, <1>6, LossNumbers DEF Ahead
<1>8. /\ Ahead(image.received, job.sinceStore + Number("account"))
      /\ Ahead(image.received, StoreEvery - 1 + Number("account") + Number("store"))
      => Ahead(image.received, StoreEvery - 1 + Number("account") + Number("store"))'
    BY <1>1, <1>3, <1>4, <1>5, <1>6, LossNumbers DEF Ahead, NeedsStore
<1>9. ~Rewriting /\ diskLock' = {}
    BY <1>1 DEF Rewriting
<1> QED BY <1>1, <1>3, <1>6, <1>7, <1>8, <1>9 DEF Loss, Running

LEMMA BeginStoreLoss == ASSUME Inv, Loss, NEW a \in Actors, BeginStore(a) PROVE Loss'
<1>1. /\ diskLock = {} /\ snapshot' = Image("whole", job.validators, job.received)
      /\ UNCHANGED <<job, pc, diskFaults>>
      /\ InPlace => image' = image
    BY DEF BeginStore, spent
<1>2. snapshot'.received = job.received
    BY <1>1 DEF Image
<1>3. Number("account")' = Number("account") /\ Number("store")' = Number("store")
    BY <1>1, NumberStays
<1>4. Ahead(snapshot.received, Number("account"))'
    BY <1>1, <1>2, <1>3, LossNumbers DEF Ahead
<1>5. ~Rewriting' => image' = image /\ ~Rewriting
    BY <1>1 DEF Rewriting, InPlace, BeginStore
<1> QED BY <1>1, <1>3, <1>4, <1>5 DEF Loss, Ahead, Running

\* The image has what the Store read at its beginning.
LEMMA FinishStoreLoss ==
    ASSUME Inv, Persist, Loss, NEW a \in Actors, FinishStore(a)
    PROVE  Loss'
<1>1. /\ a \in diskLock /\ Unlock(a, TRUE) /\ diskFaults' = diskFaults
      /\ image' = IF InPlace THEN Updated(NChunks) ELSE snapshot
    BY DEF FinishStore
<1>2. JobShape(job) /\ pc \in [Actors -> Steps] /\ pc[a] \in StoreSteps
    BY <1>1 DEF Inv, Shape, Inside
<1>3. /\ diskLock' = {} /\ job'.received = job.received /\ job'.sinceStore = 0
      /\ job'.cleaned = job.cleaned /\ Running /\ ~job.cleaned
    BY <1>1, <1>2 DEF Unlock, JobShape, Inv, Locked
<1>4. \A w \in Workers : pc'[w] = "account" <=> pc[w] = "account"
    BY <1>1, <1>2 DEF Unlock, AfterStore, StoreSteps
<1>5. Number("account")' = Number("account")
    BY <1>4, NumberStays
<1>6. diskFaults = 0 => image'.received = snapshot.received
  <2> SUFFICES ASSUME diskFaults = 0, InPlace PROVE image'.received = snapshot.received
      BY <1>1
  <2>1. image.form = "whole"
      BY <1>3 DEF InPlace, Persist, Recorded
  <2>2. image'.received = [c \in Chunks |-> IF c <= NChunks THEN snapshot.received[c]
                                           ELSE image.received[c]]
      BY <1>1, <2>1 DEF Updated, Inv, Shape, ImageShape
  <2>3. \A c \in Chunks : c <= NChunks
      BY Numbers DEF Chunks
  <2>4. image'.received = [c \in Chunks |-> snapshot.received[c]]
      BY <2>2, <2>3
  <2>5. snapshot.received \in [Chunks -> Counts]
      BY DEF Inv, Shape, ImageShape
  <2> QED BY <2>4, <2>5
<1>7. Number("store")' \in Nat
    BY NumberType
<1>8. diskFaults = 0 => Ahead(image.received, Number("account"))'
    BY <1>1, <1>3, <1>5, <1>6 DEF Loss, Ahead
<1>9. Ahead(image.received, Number("account"))' =>
          /\ Ahead(image.received, job.sinceStore + Number("account"))'
          /\ Ahead(image.received, StoreEvery - 1 + Number("account") + Number("store"))'
  <2>1. ImageShape(image')
      BY FinishStoreInv DEF Inv, Shape
  <2>2. Total(job.received)' \in Nat /\ Total(image.received)' \in Nat
      BY <1>3, <2>1, TotalType, LossNumbers DEF ImageShape
  <2> QED BY <1>3, <1>5, <1>7, <2>2, LossNumbers DEF Ahead
<1> QED BY <1>1, <1>3, <1>8, <1>9 DEF Loss

\* Nothing is said of a job whose image the disk did not take, whose files were
\* removed, or that does not run.
LEMMA FaultLoss == ASSUME Inv, Persist, NEW a \in Actors, StoreFails(a) PROVE Loss'
<1>1. diskFaults' = diskFaults + 1 /\ \E stored : Unlock(a, stored)
    BY DEF StoreFails
<1>2. diskFaults' # 0
    BY <1>1 DEF Persist, Place
<1>3. job'.sinceStore = 0
    BY <1>1 DEF Unlock, Inv, Shape, JobShape
<1> QED BY <1>2, <1>3 DEF Loss

LEMMA CleanupLoss ==
    ASSUME Inv, Loss, Reap \/ \E w \in Workers : Cleanup(w)
    PROVE  Loss'
<1>1. JobShape(job) /\ job' = [job EXCEPT !.cleaned = TRUE]
    BY DEF Inv, Shape, Reap, Cleanup, CleanupArtifacts
<1>2. job'.cleaned /\ job'.sinceStore = job.sinceStore
    BY <1>1 DEF JobShape
<1> QED BY <1>2 DEF Loss

LEMMA NoJobLoss == NoJob.state = "none" /\ NoJob.sinceStore \in Nat
<1>1. NoJob.sinceStore = Total(Zero) /\ NoJob.state = "none"
    BY DEF NoJob, Engine
<1> QED BY <1>1, Numbers, TotalType

LEMMA EndLoss ==
    ASSUME Crash \/ \E a \in Actors : StoreWithoutWriter(a)
    PROVE  Loss'
<1>1. job' = NoJob
    BY DEF Crash, StoreWithoutWriter, Die
<1> QED BY <1>1, NoJobLoss DEF Loss, Running

\* A job begins with nothing, or with what the image has.
LEMMA SessionLoss == ASSUME Inv, Download \/ Load PROVE Loss'
<1>1. ~Running /\ UNCHANGED <<image, diskLock, pc>>
    BY DEF Download, Load, disk, storing
<1>2. PICK received \in {Zero, image.received} : \E validators, fromImage :
          job' = Engine("Initialized", received, validators, fromImage)
    BY DEF Download, Load, ReadImageFromDisk
<1>3. received \in [Chunks -> Counts]
    BY Numbers DEF Inv, Shape, ImageShape
<1>4. /\ Total(received) \in Nat /\ Total(image.received) \in Nat
      /\ Total(received) <= Total(image.received)
  <2>1. Total(received) \in Nat /\ Total(image.received) \in Nat
      BY <1>3, TotalType, LossNumbers
  <2>2. CASE received = image.received
      BY <2>1, <2>2
  <2>3. CASE received = Zero
    <3>1. IsFiniteSet(Chunks)
        BY Numbers, FS_Interval DEF Chunks
    <3>2. image.received \in [Chunks -> Counts]
        BY DEF Inv, Shape, ImageShape
    <3>3. \A c \in Chunks : Zero[c] \in Nat /\ image.received[c] \in Nat
                            /\ Zero[c] <= image.received[c]
        BY <3>2, Numbers DEF Counts
    <3>4. SumFunctionOnSet(Zero, Chunks) <= SumFunctionOnSet(image.received, Chunks)
        BY <3>1, <3>3, SumMonotone
    <3>5. DOMAIN Zero = Chunks /\ DOMAIN image.received = Chunks
        BY <3>2 DEF Zero
    <3>6. Total(Zero) = SumFunctionOnSet(Zero, Chunks)
        BY <3>5, Zenon DEF Total, SumFunction
    <3>7. Total(image.received) = SumFunctionOnSet(image.received, Chunks)
        BY <3>5, Zenon DEF Total, SumFunction
    <3> QED BY <2>1, <2>3, <3>4, <3>6, <3>7
  <2> QED BY <1>2, <2>1, <2>2, <2>3
<1>5. job'.received = received /\ job'.sinceStore = Total(received)
    BY <1>2 DEF Engine
<1>6. diskLock' = {}
    BY <1>1 DEF Inv, Locked
<1>7. Number("account")' = Number("account") /\ Number("store")' = Number("store")
    BY <1>1, NumberStays
<1>8. /\ Ahead(image.received, job.sinceStore + Number("account"))'
      /\ Ahead(image.received, StoreEvery - 1 + Number("account") + Number("store"))'
    BY <1>1, <1>4, <1>5, <1>7, LossNumbers DEF Ahead
<1> QED BY <1>4, <1>5, <1>6, <1>8 DEF Loss

LEMMA LossNext == Inv /\ Persist /\ Loss /\ [Next]_vars => Loss'
<1> SUFFICES ASSUME Inv, Persist, Loss, [Next]_vars PROVE Loss'
    OBVIOUS
<1>1. ASSUME NEW w \in Workers, WorkerStep(w) PROVE Loss'
    BY <1>1, CalmLoss, NotifyLoss, AccountLoss, CleanupLoss DEF WorkerStep
<1>2. ASSUME NEW a \in Actors, StoreStep(a) PROVE Loss'
    BY <1>2, BeginStoreLoss, FinishStoreLoss, FaultLoss, EndLoss DEF StoreStep
<1>3. CASE SessionStep
    BY <1>3, SessionLoss, CalmLoss, EndLoss DEF SessionStep
<1>4. CASE UserStep
    BY <1>4, CalmLoss, CleanupLoss DEF UserStep
<1>5. CASE UNCHANGED vars
  <2>1. LossSame /\ pc' = pc
      BY <1>5 DEF vars, disk, storing, spent, LossSame, Running
  <2> QED BY <2>1, NumberStays, LossCalm
<1> QED BY <1>1, <1>2, <1>3, <1>4, <1>5 DEF Next

\* A crash loses less than NeedsStore waits for, and a unit more for each worker,
\* if the disk took every image and none is being written anew
\* (NotifyChunkReceived, NeedsStore, StoreUnlocked).
THEOREM LossIsBounded == Spec => []LossBounded
<1>1. Init => Persist /\ Loss
  <2> SUFFICES ASSUME Init PROVE Persist /\ Loss
      OBVIOUS
  <2>1. Persist
      BY InitPersists
  <2>2. Loss
      BY NoJobLoss DEF Init, Loss, Running
  <2> QED BY <2>1, <2>2
<1> QED BY <1>1, InitInv, NextInv, PersistNext, LossNext, LossSmall, PTL DEF Spec

----------------------------------------------------------------------------
(* nDownloaded_ counts the chunks that are finished and no worker's.       *)

Holding == {"notify", "account", "store", "count"}
Counted == FinishedIn(job.received) \ InHand
Tally ==
    /\ job.nDownloaded = Cardinality(Counted)
    /\ \A w \in Workers : chunk[w] # 0 => pc[w] \in Holding

\* The table and the chunks in hand stay; a worker with a chunk keeps to its work.
LEMMA TallySame ==
    ASSUME Tally, chunk' = chunk, job'.received = job.received,
           job'.nDownloaded = job.nDownloaded,
           \A w \in Workers : pc[w] \in Holding => pc'[w] \in Holding
    PROVE  Tally'
BY DEF Tally, Counted, InHand

\* Nobody has a chunk: the finished chunks have been counted.
LEMMA TallyIdle ==
    ASSUME job'.nDownloaded = Cardinality(FinishedIn(job'.received)),
           \A w \in Workers : chunk'[w] = 0
    PROVE  Tally'
<1>1. InHand' \subseteq {0}
    BY DEF InHand
<1>2. 0 \notin FinishedIn(job'.received)
    BY Numbers DEF FinishedIn, Chunks
<1>3. Counted' = FinishedIn(job'.received)
    BY <1>1, <1>2 DEF Counted
<1> QED BY <1>3 DEF Tally

\* A thread goes on, and keeps what it has.
LEMMA TallyOn ==
    ASSUME Inv, Tally, NEW a \in Actors, NEW here, NEW there, At(a, here, there),
           here \notin Holding \/ there \in Holding \/ a = User,
           chunk' = chunk, job'.received = job.received,
           job'.nDownloaded = job.nDownloaded
    PROVE  Tally'
<1>1. \A w \in Workers : pc[w] \in Holding => pc'[w] \in Holding
  <2>1. /\ pc[a] = here /\ pc' = [pc EXCEPT ![a] = there] /\ pc \in [Actors -> Steps]
        /\ User \notin Workers /\ Workers \subseteq Actors
      BY ThreadsAssumption DEF At, Inv, Shape, Actors
  <2> QED BY <2>1
<1> QED BY <1>1, TallySame

LEMMA ReceiveTally == ASSUME Inv, Tally, NEW w \in Workers, Receive(w) PROVE Tally'
<1>1. PICK c \in Chunks \ (FinishedIn(job.received) \union InHand) :
          chunk' = [chunk EXCEPT ![w] = c]
    BY DEF Receive
<1>2. /\ pc[w] = "idle" /\ pc' = [pc EXCEPT ![w] = "notify"] /\ job' = job
      /\ pc \in [Actors -> Steps] /\ chunk \in [Workers -> {0} \union Chunks]
      /\ Workers \subseteq Actors
    BY DEF Receive, At, Inv, Shape, Actors
<1>3. chunk[w] = 0
    BY <1>2 DEF Tally, Holding
<1>4. 0 \notin FinishedIn(job.received)
    BY Numbers DEF FinishedIn, Chunks
<1>5. ASSUME NEW d \in FinishedIn(job.received)
      PROVE  d \in InHand' <=> d \in InHand
    BY <1>1, <1>2, <1>3, <1>4, <1>5 DEF InHand
<1>6. Counted' = Counted
    BY <1>2, <1>5 DEF Counted
<1>7. \A v \in Workers : chunk'[v] # 0 => pc'[v] \in Holding
    BY <1>1, <1>2 DEF Tally, Holding
<1> QED BY <1>2, <1>6, <1>7 DEF Tally

LEMMA NotifyTally == ASSUME Inv, Tally, NEW w \in Workers, Notify(w) PROVE Tally'
<1>1. /\ job' = [job EXCEPT !.received[chunk[w]] = @ + 1] /\ chunk' = chunk
      /\ pc[w] = "notify" /\ pc' = [pc EXCEPT ![w] = "account"]
      /\ JobShape(job) /\ pc \in [Actors -> Steps] /\ Workers \subseteq Actors
    BY DEF Notify, At, Inv, Shape, Actors
<1>2. /\ job'.received = [job.received EXCEPT ![chunk[w]] = @ + 1]
      /\ job'.nDownloaded = job.nDownloaded
      /\ job.received \in [Chunks -> Counts]
    BY <1>1 DEF JobShape
<1>3. chunk[w] \in InHand
    BY DEF InHand
<1>4. \A c \in Chunks \ {chunk[w]} : job'.received[c] = job.received[c]
    BY <1>2
<1>5. Counted' = Counted
    BY <1>1, <1>3, <1>4 DEF Counted, InHand, FinishedIn
<1>6. \A v \in Workers : chunk'[v] # 0 => pc'[v] \in Holding
    BY <1>1 DEF Tally, Holding
<1> QED BY <1>2, <1>5, <1>6 DEF Tally

\* The chunk of the worker becomes one of the counted ones, if it is finished.
LEMMA CountTally == ASSUME Inv, Tally, NEW w \in Workers, Count(w) PROVE Tally'
<1>1. /\ JobShape(job) /\ pc \in [Actors -> Steps] /\ Workers \subseteq Actors
      /\ chunk \in [Workers -> {0} \union Chunks] /\ chunk' = [chunk EXCEPT ![w] = 0]
      /\ \E step : pc' = [pc EXCEPT ![w] = step]
    BY DEF Count, At, Inv, Shape, Actors
<1>2. job'.received = job.received
    BY <1>1 DEF Count, JobShape
<1>3. \A v \in Workers : chunk'[v] # 0 => pc'[v] \in Holding
    BY <1>1 DEF Tally
<1>4. 0 \notin FinishedIn(job.received)
    BY Numbers DEF FinishedIn, Chunks
<1>5. InHand' \ {0} = InHand \ {0, chunk[w]}
  <2>1. \A v \in Workers \ {w} : chunk'[v] = chunk[v] /\ (chunk[v] = chunk[w] => chunk[v] = 0)
      BY <1>1 DEF Inv, Held
  <2>2. chunk'[w] = 0
      BY <1>1
  <2> QED BY <2>1, <2>2 DEF InHand
<1>6. CASE chunk[w] \notin FinishedIn(job.received)
  <2>1. job' = job
      BY <1>6 DEF Count
  <2>2. Counted' = Counted
      BY <1>2, <1>4, <1>5, <1>6 DEF Counted
  <2> QED BY <1>3, <2>1, <2>2 DEF Tally
<1>7. CASE chunk[w] \in FinishedIn(job.received)
  <2>1. job'.nDownloaded = job.nDownloaded + 1
      BY <1>1, <1>7 DEF Count, JobShape
  <2>2. Counted' = Counted \union {chunk[w]}
      BY <1>2, <1>4, <1>5, <1>7 DEF Counted
  <2>3. chunk[w] \notin Counted
      BY DEF Counted, InHand
  <2>4. Counted \in SUBSET Chunks /\ IsFiniteSet(Chunks)
      BY Numbers, FS_Interval DEF Counted, FinishedIn, Chunks
  <2>5. IsFiniteSet(Counted)
      BY <2>4, FS_Subset
  <2>6. Cardinality(Counted') = Cardinality(Counted) + 1
      BY <2>2, <2>3, <2>5, FS_AddElement
  <2> QED BY <1>3, <2>1, <2>6 DEF Tally
<1> QED BY <1>6, <1>7

LEMMA StoreTally ==
    ASSUME Inv, Tally, NEW a \in Actors, BeginStore(a) \/ FinishStore(a) \/ StoreFails(a)
    PROVE  Tally'
<1>1. CASE BeginStore(a)
  <2>1. UNCHANGED <<job, pc, chunk>>
      BY <1>1 DEF BeginStore
  <2> QED BY <2>1, TallySame
<1>2. ASSUME NEW stored, a \in diskLock, Unlock(a, stored) PROVE Tally'
  <2>1. /\ pc' = [pc EXCEPT ![a] = AfterStore(@)] /\ chunk' = chunk /\ JobShape(job)
        /\ pc[a] \in StoreSteps
      BY <1>2 DEF Unlock, Inv, Shape, Inside
  <2>2. job'.received = job.received /\ job'.nDownloaded = job.nDownloaded
      BY <1>2, <2>1 DEF Unlock, JobShape
  <2>3. At(a, pc[a], AfterStore(pc[a]))
      BY <2>1 DEF At, Inv, Shape
  <2>4. pc[a] \notin Holding \/ AfterStore(pc[a]) \in Holding
      BY <2>1 DEF StoreSteps, Holding, AfterStore
  <2> QED BY <2>1, <2>2, <2>3, <2>4, TallyOn
<1> QED BY <1>1, <1>2 DEF FinishStore, StoreFails

LEMMA CallTally ==
    ASSUME Inv, Tally,
           \/ ServerChanges \/ RemoveOutput \/ SetValidators \/ Pause \/ Cancel \/ Reap
    PROVE  Tally'
<1>0. JobShape(job)
    BY DEF Inv, Shape
<1>1. UNCHANGED <<pc, chunk>>
    BY DEF ServerChanges, RemoveOutput, SetValidators, Pause, Cancel, Reap
<1>2. job'.received = job.received /\ job'.nDownloaded = job.nDownloaded
  <2>1. CASE ServerChanges \/ RemoveOutput
      BY <2>1 DEF ServerChanges, RemoveOutput
  <2>2. CASE SetValidators
      BY <1>0, <2>2 DEF SetValidators, JobShape
  <2>3. CASE Pause \/ Cancel
      BY <1>0, <2>3 DEF Pause, Cancel, JobShape
  <2>4. CASE Reap
      BY <1>0, <2>4 DEF Reap, CleanupArtifacts, JobShape
  <2> QED BY <2>1, <2>2, <2>3, <2>4
<1> QED BY <1>1, <1>2, TallySame

\* The steps of a thread that count nothing.
LEMMA ThreadTally ==
    ASSUME Inv, Tally,
           \/ \E w \in Workers : Account(w) \/ Fail(w) \/ Cleanup(w)
           \/ Terminate \/ TerminatePause
    PROVE  Tally'
<1>0. JobShape(job) /\ Workers \subseteq Actors /\ User \in Actors
    BY DEF Inv, Shape, Actors
<1>1. ASSUME NEW w \in Workers, Account(w) PROVE Tally'
  <2>1. job'.received = job.received /\ job'.nDownloaded = job.nDownloaded
      BY <1>0, <1>1 DEF Account, JobShape
  <2>2. /\ chunk' = chunk
        /\ \E there \in {"store", "count"} : At(w, "account", there)
      BY <1>1 DEF Account
  <2> QED BY <1>0, <2>1, <2>2, TallyOn DEF Holding
<1>2. ASSUME NEW w \in Workers, Fail(w) \/ Cleanup(w) PROVE Tally'
  <2>1. job'.received = job.received /\ job'.nDownloaded = job.nDownloaded
      BY <1>0, <1>2 DEF Fail, Cleanup, CleanupArtifacts, JobShape
  <2>2. /\ chunk' = chunk
        /\ At(w, "idle", "failstore") \/ At(w, "cleanup", "idle")
      BY <1>2 DEF Fail, Cleanup
  <2> QED BY <1>0, <2>1, <2>2, TallyOn DEF Holding
<1>3. CASE Terminate \/ TerminatePause
  <2>1. job'.received = job.received /\ job'.nDownloaded = job.nDownloaded
      BY <1>0, <1>3 DEF Terminate, TerminatePause, JobShape
  <2>2. /\ chunk' = chunk
        /\ At(User, "idle", "tstore") \/ At(User, "tpause", "idle")
      BY <1>3 DEF Terminate, TerminatePause
  <2> QED BY <1>0, <2>1, <2>2, TallyOn
<1> QED BY <1>1, <1>2, <1>3

\* Start and Resume count anew; so do Download and Load.
LEMMA BeginTally ==
    ASSUME Inv, Tally, Resume \/ Download \/ Load
    PROVE  Tally'
<1>1. \A w \in Workers : pc[w] = "idle"
    BY DEF Resume, Download, Load, Inv, Quiet, Actors
<1>2. \A w \in Workers : chunk'[w] = 0
    BY <1>1 DEF Tally, Holding, Resume, Download, Load
<1>3. job'.nDownloaded = Cardinality(FinishedIn(job'.received))
  <2>1. CASE Resume
    <3>1. /\ JobShape(job)
          /\ job' = [job EXCEPT !.state = "Downloading",
                               !.nDownloaded = Cardinality(FinishedIn(job.received))]
        BY <2>1 DEF Resume, Inv, Shape
    <3>2. /\ job'.nDownloaded = Cardinality(FinishedIn(job.received))
          /\ job'.received = job.received
        BY <3>1 DEF JobShape
    <3> QED BY <3>2
  <2>2. CASE Download \/ Load
    <3>1. PICK received, validators, fromImage :
              job' = Engine("Initialized", received, validators, fromImage)
        BY <2>2 DEF Download, Load
    <3>2. /\ job'.received = received
          /\ job'.nDownloaded = Cardinality({c \in Chunks : received[c] >= ChunkUnits})
        BY <3>1 DEF Engine
    <3> QED BY <3>2 DEF FinishedIn
  <2> QED BY <2>1, <2>2
<1> QED BY <1>2, <1>3, TallyIdle

LEMMA EndTally ==
    ASSUME Crash \/ \E a \in Actors : StoreWithoutWriter(a)
    PROVE  Tally'
<1>1. job' = NoJob /\ \A w \in Workers : chunk'[w] = 0
    BY DEF Crash, StoreWithoutWriter, Die
<1>2. NoJob.nDownloaded = Cardinality(FinishedIn(NoJob.received))
    BY DEF NoJob, Engine, FinishedIn
<1> QED BY <1>1, <1>2, TallyIdle

LEMMA TallyNext == Inv /\ Tally /\ [Next]_vars => Tally'
<1> SUFFICES ASSUME Inv, Tally, [Next]_vars PROVE Tally'
    OBVIOUS
<1>1. ASSUME NEW w \in Workers, WorkerStep(w) PROVE Tally'
    BY <1>1, ReceiveTally, NotifyTally, CountTally, ThreadTally DEF WorkerStep
<1>2. ASSUME NEW a \in Actors, StoreStep(a) PROVE Tally'
    BY <1>2, StoreTally, EndTally DEF StoreStep
<1>3. CASE SessionStep
    BY <1>3, BeginTally, CallTally, EndTally DEF SessionStep
<1>4. CASE UserStep
    BY <1>4, BeginTally, CallTally, ThreadTally DEF UserStep
<1>5. CASE UNCHANGED vars
    BY <1>5, TallySame DEF vars
<1> QED BY <1>1, <1>2, <1>3, <1>4, <1>5 DEF Next

----------------------------------------------------------------------------
(* The types.                                                              *)

Types ==
    /\ {image.validators, snapshot.validators, job.validators} \subseteq Answers
    /\ diskLock = {} \/ \E a \in Actors : diskLock = {a}
    /\ {outputExists, terminated, blind, orphan} \subseteq BOOLEAN
    /\ sessions \in 0..MaxSessions /\ calls \in 0..MaxCalls
    /\ diskFaults \in 0..MaxDiskFaults

LEMMA TypesHold == Inv /\ Persist /\ Loss /\ Tally /\ Types => TypeOK
<1> SUFFICES ASSUME Inv, Persist, Loss, Tally, Types PROVE TypeOK
    OBVIOUS
<1>1. ImageShape(image) /\ ImageShape(snapshot) /\ JobShape(job)
    BY DEF Inv, Shape
<1>2. image \in Images /\ snapshot \in Images
    BY <1>1 DEF Images, ImageShape, Types
<1>3. job.nDownloaded \in 0..NChunks
  <2>1. IsFiniteSet(Chunks) /\ Cardinality(Chunks) = NChunks
      BY Numbers, FS_Interval DEF Chunks
  <2>2. Counted \in SUBSET Chunks
      BY DEF Counted, FinishedIn
  <2>3. IsFiniteSet(Counted) /\ Cardinality(Counted) <= NChunks
      BY <2>1, <2>2, FS_Subset
  <2>4. Cardinality(Counted) \in Nat
      BY <2>3, FS_CardinalityType
  <2> QED BY <2>3, <2>4, Numbers DEF Tally
<1>4. job \in [state : JobStates, received : [Chunks -> Counts],
              nDownloaded : 0..NChunks, validators : Answers,
              known : BOOLEAN, loaded : BOOLEAN, imageStored : BOOLEAN,
              indexed : BOOLEAN, sinceStore : Nat, cleaned : BOOLEAN]
    BY <1>1, <1>3 DEF JobShape, Types, Loss
<1>5. \E a \in Actors : diskLock \in {{}, {a}}
    BY DEF Types, Actors
<1>6. /\ output \in [Chunks -> [Units -> {0} \union Versions]] /\ version \in Versions
      /\ pc \in [Actors -> StoreSteps \union {"idle", "notify", "account", "count",
                                             "cleanup", "tpause"}]
      /\ chunk \in [Workers -> {0} \union Chunks] /\ owed \in [Chunks -> Counts]
    BY DEF Inv, Shape, Steps, Persist, Owing
<1> QED BY <1>2, <1>4, <1>5, <1>6 DEF TypeOK, Types

LEMMA NoneAreValidators ==
    /\ NoValidators \in Answers
    /\ version \in Versions => Probe[version] \in Answers
    /\ NoJob.validators = NoValidators /\ NoImage.validators = NoValidators
BY DEF Answers, NoJob, Engine, NoImage, Image

\* The validators are the server's, the image's, or none.
LEMMA ValidatorTypes ==
    ASSUME Inv, Types, [Next]_vars
    PROVE  {image'.validators, snapshot'.validators, job'.validators} \subseteq Answers
<1>0. /\ NoValidators \in Answers /\ Probe[version] \in Answers
      /\ NoJob.validators = NoValidators
      /\ NoImage.validators = NoValidators /\ Torn.validators = NoValidators
    BY NoneAreValidators DEF Inv, Shape, Torn, Image
<1>1. JobShape(job) /\ ImageShape(image)
    BY DEF Inv, Shape
<1>2. \A n : Updated(n).validators = image.validators
    BY <1>1 DEF Updated, ImageShape
<1>3. job'.validators \in Answers
  <2>1. CASE job' = job
      BY <2>1 DEF Types
  <2>2. ASSUME NEW w \in Workers, WorkerStep(w) PROVE job'.validators = job.validators
      BY <1>1, <2>2 DEF WorkerStep, Receive, Notify, Account, Count, Fail, Cleanup,
                        CleanupArtifacts, JobShape
  <2>3. ASSUME NEW a \in Actors, StoreStep(a)
        PROVE  job'.validators \in {job.validators, NoValidators}
    <3>1. \/ job' = job \/ job' = NoJob
          \/ \E b : job' = [job EXCEPT !.imageStored = b, !.indexed = TRUE, !.sinceStore = 0]
        BY <2>3 DEF StoreStep, BeginStore, FinishStore, StoreFails, Unlock,
                    StoreWithoutWriter, Die
    <3> QED BY <1>0, <1>1, <3>1 DEF JobShape
  <2>4. CASE SessionStep
    <3>1. \/ job' = job \/ job' = NoJob
          \/ job' = [job EXCEPT !.validators = Probe[version], !.known = TRUE]
          \/ \E received, fromImage : \E validators \in {NoValidators, Probe[version]} :
                 job' = Engine("Initialized", received, validators, fromImage)
        BY <2>4 DEF SessionStep, ServerChanges, RemoveOutput, Download, Load,
                    SetValidators, Crash, Die
    <3>2. CASE job' = [job EXCEPT !.validators = Probe[version], !.known = TRUE]
        BY <1>0, <1>1, <3>2 DEF JobShape
    <3>3. CASE \E received, fromImage : \E validators \in {NoValidators, Probe[version]} :
                   job' = Engine("Initialized", received, validators, fromImage)
        BY <1>0, <3>3 DEF Engine
    <3> QED BY <1>0, <3>1, <3>2, <3>3 DEF Types
  <2>5. CASE UserStep
    <3>1. job'.validators = job.validators
        BY <1>1, <2>5 DEF UserStep, Resume, Pause, Cancel, Reap, CleanupArtifacts,
                          Terminate, TerminatePause, JobShape
    <3> QED BY <3>1 DEF Types
  <2>6. CASE UNCHANGED vars
      BY <2>1, <2>6 DEF vars
  <2> QED BY <1>0, <2>2, <2>3, <2>4, <2>5, <2>6 DEF Next, Types
<1>4. snapshot'.validators \in Answers
  <2>1. \/ UNCHANGED snapshot \/ snapshot' = NoImage
        \/ snapshot' = Image("whole", job.validators, job.received)
      BY DEF Next, vars, storing, WorkerStep, Receive, Notify, Account, Count, Fail, Cleanup,
             StoreStep, BeginStore, FinishStore, StoreFails, Unlock, StoreWithoutWriter, Die,
             SessionStep, ServerChanges, RemoveOutput, Download, Load, SetValidators, Crash,
             UserStep, Resume, Pause, Cancel, Reap, Terminate, TerminatePause
  <2> QED BY <1>0, <2>1 DEF Types, Image
<1>5. image'.validators \in Answers
  <2>1. \/ UNCHANGED image \/ image' \in {NoImage, Torn, snapshot}
        \/ \E n : image' = Updated(n)
      BY DEF Next, vars, disk, WorkerStep, Receive, Notify, Account, Count, Fail, Cleanup,
             CleanupArtifacts, StoreStep, BeginStore, FinishStore, StoreFails,
             StoreWithoutWriter, SessionStep, ServerChanges, RemoveOutput, Download, Load,
             SetValidators, Crash, UserStep, Resume, Pause, Cancel, Reap, Terminate,
             TerminatePause
  <2> QED BY <1>0, <1>2, <2>1 DEF Types
<1> QED BY <1>3, <1>4, <1>5

LEMMA TypesNext == Inv /\ Types /\ [Next]_vars => Types'
<1> SUFFICES ASSUME Inv, Types, [Next]_vars PROVE Types'
    OBVIOUS
<1>1. diskLock' = {} \/ \E a \in Actors : diskLock' = {a}
  <2>1. UNCHANGED diskLock \/ diskLock' = {} \/ \E a \in Actors : diskLock' = {a}
      BY DEF Next, vars, storing, WorkerStep, Receive, Notify, Account, Count, Fail, Cleanup,
             StoreStep, BeginStore, FinishStore, StoreFails, Unlock, StoreWithoutWriter, Die,
             SessionStep, ServerChanges, RemoveOutput, Download, Load, SetValidators, Crash,
             UserStep, Resume, Pause, Cancel, Reap, Terminate, TerminatePause
  <2> QED BY <2>1 DEF Types
<1>2. {outputExists, terminated, blind, orphan}' \subseteq BOOLEAN
  <2>1. outputExists' \in {outputExists, TRUE, FALSE}
      BY DEF Next, vars, disk, WorkerStep, Receive, Notify, Account, Count, Fail, Cleanup,
             StoreStep, BeginStore, FinishStore, StoreFails, Unlock, StoreWithoutWriter, Die,
             SessionStep, ServerChanges, RemoveOutput, Download, Load, SetValidators, Crash,
             UserStep, Resume, Pause, Cancel, Reap, Terminate, TerminatePause
  <2>2. terminated' \in {terminated, TRUE, FALSE}
      BY DEF Next, vars, history, WorkerStep, Receive, Notify, Account, Count, Fail, Cleanup,
             CleanupArtifacts, NothingOwed, StoreStep, BeginStore, FinishStore, StoreFails,
             Unlock, StoreWithoutWriter, Die, SessionStep, ServerChanges, RemoveOutput,
             Download, Load, SetValidators, Crash, UserStep, Resume, Pause, Cancel, Reap,
             Terminate, TerminatePause
  <2>3. /\ blind' \in {blind, blind /\ job.loaded,
                       blind \/ Comparable(image.validators, Probe[version]) = {}}
        /\ orphan' \in {orphan, orphan /\ job.loaded, orphan \/ image.form = "whole"}
      BY DEF Next, vars, history, WorkerStep, Receive, Notify, Account, Count, Fail, Cleanup,
             CleanupArtifacts, StoreStep, BeginStore, FinishStore, StoreFails, Unlock,
             StoreWithoutWriter, Die, SessionStep, ServerChanges, RemoveOutput, Download,
             Load, SetValidators, Crash, UserStep, Resume, Pause, Cancel, Reap, Terminate,
             TerminatePause
  <2>4. job.loaded \in BOOLEAN
      BY DEF Inv, Shape, JobShape
  <2> QED BY <2>1, <2>2, <2>3, <2>4 DEF Types
<1>3. sessions' \in 0..MaxSessions /\ calls' \in 0..MaxCalls
      /\ diskFaults' \in 0..MaxDiskFaults
  <2>1. sessions' = sessions \/ (sessions < MaxSessions /\ sessions' = sessions + 1)
      BY DEF Next, vars, spent, CallOfUser, WorkerStep, Receive, Notify, Account, Count, Fail,
             Cleanup, StoreStep, BeginStore, FinishStore, StoreFails, Unlock,
             StoreWithoutWriter, Die, SessionStep, ServerChanges, RemoveOutput, Download,
             Load, SetValidators, Crash, UserStep, Resume, Pause, Cancel, Reap, Terminate,
             TerminatePause
  <2>2. calls' = calls \/ (calls < MaxCalls /\ calls' = calls + 1)
      BY DEF Next, vars, spent, CallOfUser, WorkerStep, Receive, Notify, Account, Count, Fail,
             Cleanup, StoreStep, BeginStore, FinishStore, StoreFails, Unlock,
             StoreWithoutWriter, Die, SessionStep, ServerChanges, RemoveOutput, Download,
             Load, SetValidators, Crash, UserStep, Resume, Pause, Cancel, Reap, Terminate,
             TerminatePause
  <2>3. \/ diskFaults' = diskFaults
        \/ diskFaults < MaxDiskFaults /\ diskFaults' = diskFaults + 1
      BY DEF Next, vars, spent, CallOfUser, WorkerStep, Receive, Notify, Account, Count, Fail,
             Cleanup, StoreStep, BeginStore, FinishStore, StoreFails,
             StoreWithoutWriter, Die, SessionStep, ServerChanges, RemoveOutput, Download,
             Load, SetValidators, Crash, UserStep, Resume, Pause, Cancel, Reap, Terminate,
             TerminatePause
  <2> QED BY <2>1, <2>2, <2>3, SizesAssumption DEF Types
<1> QED BY <1>1, <1>2, <1>3, ValidatorTypes DEF Types

\* The types of the two files, the job and the threads, in particular that
\* nDownloaded_ never passes nChunks_ (NotifyChunkReceived, Resume).
THEOREM TypeCorrect == Spec => []TypeOK
<1>1. Init => Persist /\ Loss
    BY InitPersists, NoJobLoss DEF Init, Loss, Running
<1>2. Init => Tally
  <2> SUFFICES ASSUME Init PROVE Tally
      OBVIOUS
  <2>1. job = NoJob /\ \A w \in Workers : chunk[w] = 0
      BY DEF Init
  <2>2. NoJob.nDownloaded = Cardinality(FinishedIn(NoJob.received))
      BY DEF NoJob, Engine, FinishedIn
  <2>3. 0 \notin FinishedIn(job.received)
      BY Numbers DEF FinishedIn, Chunks
  <2>4. Counted = FinishedIn(job.received)
      BY <2>1, <2>3 DEF Counted, InHand
  <2> QED BY <2>1, <2>2, <2>4 DEF Tally
<1>3. Init => Types
  <2> SUFFICES ASSUME Init PROVE Types
      OBVIOUS
  <2>1. {image.validators, snapshot.validators, job.validators} \subseteq Answers
      BY NoneAreValidators DEF Init
  <2>2. {outputExists, terminated, blind, orphan} \subseteq BOOLEAN
      BY DEF Init
  <2>3. sessions \in 0..MaxSessions /\ calls \in 0..MaxCalls /\ diskFaults \in 0..MaxDiskFaults
      BY SizesAssumption DEF Init
  <2> QED BY <2>1, <2>2, <2>3 DEF Init, Types
<1> QED BY <1>1, <1>2, <1>3, InitInv, NextInv, PersistNext, LossNext, TallyNext, TypesNext,
           TypesHold, PTL DEF Spec
=============================================================================
