------------------------------ MODULE JobImage ------------------------------
(***************************************************************************)
(* What survives the process: the output file and the .muld image of one   *)
(* job, over several sessions.  A session starts with Download or with     *)
(* Load and ends with the process, which may die between any two writes.   *)
(* While no session runs the file on the server may change and the user    *)
(* may remove the output file.                                             *)
(*                                                                         *)
(* DownloadEngine has the threads of one session step by step; here they   *)
(* are kept as far as the two files tell them apart: bytes are written,    *)
(* then counted, then accounted under disk_mtx_, then perhaps stored.  A   *)
(* chunk is ChunkUnits units, and `output` holds the version of the        *)
(* server's file each unit came from.  A process that is killed loses no   *)
(* write it made; the machine itself does not fail.                        *)
(***************************************************************************)
EXTENDS Integers, FiniteSets, Functions

CONSTANTS
    Workers,      \* pool threads that work on the job
    User,         \* the thread that calls Pause, Cancel, Terminate
    NChunks,      \* nChunks_
    ChunkUnits,   \* reads that fill a chunk
    Probe,        \* the validators the server sends, per version of its file
    StoreEvery,   \* the 10 MB of NeedsStore, in units
    MaxSessions,  \* bound: sessions
    MaxCalls,     \* bound: calls of Pause and Terminate
    MaxDiskFaults \* bound: writes of the image the disk does not take

Chunks == 1..NChunks
Units == 0..(ChunkUnits - 1)
Counts == 0..ChunkUnits
Actors == Workers \union {User}
Versions == DOMAIN Probe

\* An empty string is a header the server did not send.
Headers == {"etag", "lastModified"}
Validators == [Headers -> STRING]
NoValidators == [h \in Headers |-> ""]

ASSUME SizesAssumption ==
    /\ NChunks \in Nat \ {0} /\ ChunkUnits \in Nat \ {0}
    /\ StoreEvery \in Nat \ {0}
    /\ MaxSessions \in Nat /\ MaxCalls \in Nat /\ MaxDiskFaults \in Nat

ASSUME ThreadsAssumption == IsFiniteSet(Workers) /\ User \notin Workers

ASSUME ServerAssumption ==
    /\ IsFiniteSet(Versions) /\ Versions = 1..Cardinality(Versions) /\ 1 \in Versions
    /\ \A v \in Versions : Probe[v] \in Validators

VARIABLES
    image,        \* the .muld file
    output,       \* the version each unit of the output file came from, or 0
    outputExists, \* there is an output file
    version,      \* the file on the server
    job,          \* the DownloadEngine of the running session
    diskLock,     \* who holds disk_mtx_ inside Store
    snapshot,     \* what that Store read at its beginning
    pc,           \* where each thread is
    chunk,        \* the chunk each worker has written to, or 0
    owed,         \* the counts the last Terminate found
    terminated,   \* that Terminate has returned, and the image is owed
    blind,        \* the image goes back to a Load that had nothing to compare
    orphan,       \* the image goes back to one that lost its output file
    sessions, calls, diskFaults

disk == <<image, output, outputExists>>
storing == <<diskLock, snapshot>>
history == <<owed, terminated, blind, orphan>>
spent == <<sessions, calls, diskFaults>>
vars == <<disk, version, job, storing, pc, chunk, history, spent>>

Zero == [c \in Chunks |-> 0]
Blank == [c \in Chunks |-> [k \in Units |-> 0]]
Total(counts) == SumFunction(counts)

\* A file that ends before its chunk table does is "torn".
Image(form, validators, received) ==
    [form |-> form, validators |-> validators, received |-> received]
NoImage == Image("none", NoValidators, Zero)
Torn == Image("torn", NoValidators, Zero)

JobStates == {"none", "Initialized", "Downloading", "Paused", "Completed",
              "Failed", "Canceled"}

\* The fields of the engine; known: SetValidators has been called; loaded: it
\* was created from an image; indexed: imageIndex_ describes the file.
Engine(state, received, validators, fromImage) ==
    [state |-> state, received |-> received,
     nDownloaded |-> Cardinality({c \in Chunks : received[c] >= ChunkUnits}),
     validators |-> validators, known |-> fromImage, loaded |-> fromImage,
     imageStored |-> fromImage, indexed |-> FALSE,
     sinceStore |-> Total(received), cleaned |-> FALSE]
NoJob == Engine("none", Zero, NoValidators, FALSE)

Running == job.state # "none"
FinishedIn(counts) == {c \in Chunks : counts[c] >= ChunkUnits}

Init ==
    /\ image = NoImage /\ output = Blank /\ outputExists = FALSE
    /\ version = 1
    /\ job = NoJob
    /\ diskLock = {} /\ snapshot = NoImage
    /\ pc = [a \in Actors |-> "idle"]
    /\ chunk = [w \in Workers |-> 0]
    /\ owed = Zero /\ terminated = FALSE /\ blind = FALSE /\ orphan = FALSE
    /\ sessions = 0 /\ calls = 0 /\ diskFaults = 0

NothingOwed == terminated' = FALSE /\ owed' = Zero

CallOfUser ==
    /\ calls < MaxCalls
    /\ calls' = calls + 1
    /\ UNCHANGED <<sessions, diskFaults>>

At(a, here, there) ==
    /\ pc[a] = here
    /\ pc' = [pc EXCEPT ![a] = there]

----------------------------------------------------------------------------
(* Between two sessions.                                                   *)

ServerChanges ==
    /\ ~Running
    /\ version + 1 \in Versions
    /\ version' = version + 1
    /\ UNCHANGED <<disk, job, storing, pc, chunk, history, spent>>

RemoveOutput ==
    /\ ~Running /\ outputExists
    /\ outputExists' = FALSE
    /\ output' = Blank
    /\ orphan' = (orphan \/ image.form = "whole")
    /\ UNCHANGED <<image, version, job, storing, pc, chunk, owed, terminated,
                   blind, spent>>

----------------------------------------------------------------------------
(* The dispatcher starts a session.                                        *)

\* A new job: the Writer opens the file, or creates it, and sets its length.
\* An image another job left beside the file is not looked at.
Download ==
    /\ ~Running /\ sessions < MaxSessions
    /\ job' = Engine("Initialized", Zero, NoValidators, FALSE)
    /\ outputExists' = TRUE
    /\ sessions' = sessions + 1
    /\ NothingOwed
    /\ UNCHANGED <<image, output, version, storing, pc, chunk, blind, orphan,
                   calls, diskFaults>>

\* SetValidators, after AttachEngine has perhaps started the job.
SetValidators ==
    /\ Running /\ ~job.known
    /\ job' = [job EXCEPT !.validators = Probe[version], !.known = TRUE]
    /\ UNCHANGED <<disk, version, storing, pc, chunk, history, spent>>

\* The headers MatchesStoredFile has on both sides.
Comparable(stored, answer) ==
    {h \in Headers : stored[h] # "" /\ answer[h] # ""}

\* Variant (not the code): the etag alone is compared.
MatchesStoredFile_EtagOnly(stored, answer) ==
    "etag" \in Comparable(stored, answer) => stored["etag"] = answer["etag"]

MatchesStoredFile(stored, answer) ==
    \A h \in Comparable(stored, answer) : stored[h] = answer[h]

\* ReadImageFromDisk: the counts it returns, if it succeeds.
ReadImageFromDisk == IF image.form = "whole" THEN {image.received} ELSE {}

\* A Load that is refused leaves everything as it was and is not modelled.  The
\* file's length always fits: every version has the same.
Load ==
    /\ ~Running /\ sessions < MaxSessions
    /\ \E received \in ReadImageFromDisk :
        job' = Engine("Initialized", received, Probe[version], TRUE)
    /\ MatchesStoredFile(image.validators, Probe[version])
    /\ outputExists
    /\ sessions' = sessions + 1
    /\ NothingOwed
    /\ blind' = (blind \/ Comparable(image.validators, Probe[version]) = {})
    /\ UNCHANGED <<disk, version, storing, pc, chunk, orphan, calls, diskFaults>>

\* Start and Resume: the old workers are gone, the finished chunks are counted
\* anew, and the first connection makes the job Downloading.
Resume ==
    /\ job.state \in {"Initialized", "Paused", "Failed"}
    /\ \A w \in Workers : pc[w] = "idle"
    /\ job' = [job EXCEPT !.state = "Downloading",
                          !.nDownloaded = Cardinality(FinishedIn(job.received))]
    /\ UNCHANGED <<disk, version, storing, pc, chunk, history, spent>>

----------------------------------------------------------------------------
(* A worker receives a unit.                                               *)

InHand == {chunk[w] : w \in Workers}

\* Variant (not the code): a finished chunk is still in the work list.
Receive_Finished(w) ==
    /\ job.state = "Downloading"
    /\ At(w, "idle", "notify")
    /\ \E c \in Chunks \ InHand :
        /\ output' = [output EXCEPT ![c][0] = version]
        /\ chunk' = [chunk EXCEPT ![w] = c]
    /\ UNCHANGED <<image, outputExists, version, job, storing, history, spent>>

Receive(w) ==
    /\ job.state = "Downloading"
    /\ At(w, "idle", "notify")
    /\ \E c \in Chunks \ (FinishedIn(job.received) \union InHand) :
        /\ output' = [output EXCEPT ![c][job.received[c]] = version]
        /\ chunk' = [chunk EXCEPT ![w] = c]
    /\ UNCHANGED <<image, outputExists, version, job, storing, history, spent>>

\* Variant (not the code): the count is of the bytes asked for.
Notify_Requested(w) ==
    /\ At(w, "notify", "account")
    /\ job' = [job EXCEPT !.received[chunk[w]] = ChunkUnits]
    /\ UNCHANGED <<disk, version, storing, chunk, history, spent>>

\* NotifyChunkReceived: UpdateReceived.
Notify(w) ==
    /\ At(w, "notify", "account")
    /\ job' = [job EXCEPT !.received[chunk[w]] = @ + 1]
    /\ UNCHANGED <<disk, version, storing, chunk, history, spent>>

\* Variant (not the code): NeedsStore only once twice as much has come.
NeedsStore_Late(bytes) == bytes >= 2 * StoreEvery + Cardinality(Workers)

NeedsStore(bytes) == bytes >= StoreEvery

\* NotifyChunkReceived: the bytes since the last store, under disk_mtx_.
Account(w) ==
    /\ diskLock = {}
    /\ At(w, "account", IF NeedsStore(job.sinceStore + 1) THEN "store" ELSE "count")
    /\ job' = [job EXCEPT !.sinceStore = @ + 1]
    /\ UNCHANGED <<disk, version, storing, chunk, history, spent>>

\* NotifyChunkReceived: the last chunk completes the job.
Count(w) ==
    /\ LET last == job.nDownloaded + 1 = NChunks
           over == job.state \in {"Downloading", "Paused", "Failed"}
       IN  IF chunk[w] \notin FinishedIn(job.received)
           THEN At(w, "count", "idle") /\ UNCHANGED job
           ELSE /\ At(w, "count", IF last /\ over THEN "final" ELSE "idle")
                /\ job' = [job EXCEPT
                             !.nDownloaded = @ + 1,
                             !.state = IF last /\ over THEN "Completed" ELSE @]
    /\ chunk' = [chunk EXCEPT ![w] = 0]
    /\ UNCHANGED <<disk, version, storing, history, spent>>

\* A worker that gives up: Fail sets the state, then stores.
Fail(w) ==
    /\ job.state = "Downloading"
    /\ At(w, "idle", "failstore")
    /\ job' = [job EXCEPT !.state = "Failed"]
    /\ UNCHANGED <<disk, version, storing, chunk, history, spent>>

----------------------------------------------------------------------------
(* Store and CleanupArtifacts, under disk_mtx_.                            *)

\* Where a Store is called, and what comes after it.
StoreSteps == {"store", "final", "failstore", "tstore"}
AfterStore(step) ==
    CASE step = "store"     -> "count"
      [] step = "final"     -> "cleanup"
      [] step = "failstore" -> "idle"
      [] step = "tstore"    -> "tpause"

\* Whether StoreUnlocked takes UpdateImageChunksOnDisk: not before this process
\* has written the whole image once, because imageIndex_ is empty until then.
InPlace == job.imageStored /\ job.indexed

\* The counts are read, and a file that has to be written anew is truncated.
BeginStore(a) ==
    /\ pc[a] \in StoreSteps
    /\ diskLock = {} /\ ~job.cleaned
    /\ diskLock' = {a}
    /\ snapshot' = Image("whole", job.validators, job.received)
    /\ IF InPlace THEN UNCHANGED <<image, blind, orphan>>
       ELSE /\ image' = Torn
            /\ blind' = (blind /\ job.loaded) /\ orphan' = (orphan /\ job.loaded)
    /\ UNCHANGED <<output, outputExists, version, job, pc, chunk, owed,
                   terminated, spent>>

\* UpdateImageChunksOnDisk has replaced the first n rows of the chunk table.  It
\* does not repair what is missing before the table.
Updated(n) ==
    IF image.form = "whole"
    THEN [image EXCEPT !.received =
             [c \in Chunks |-> IF c <= n THEN snapshot.received[c] ELSE @[c]]]
    ELSE image

\* Leaving StoreUnlocked; stored is what the writes returned.
Unlock(a, stored) ==
    /\ job' = [job EXCEPT !.imageStored = stored, !.indexed = TRUE, !.sinceStore = 0]
    /\ diskLock' = {} /\ snapshot' = NoImage
    /\ pc' = [pc EXCEPT ![a] = AfterStore(@)]
    /\ UNCHANGED <<output, outputExists, version, chunk, history, sessions, calls>>

FinishStore(a) ==
    /\ a \in diskLock
    /\ image' = IF InPlace THEN Updated(NChunks) ELSE snapshot
    /\ Unlock(a, TRUE)
    /\ UNCHANGED diskFaults

\* The disk takes only a part of the image.  out.good() is asked before the
\* stream is flushed, so WriteImageToDisk may still say that all went well.
StoreFails(a) ==
    /\ a \in diskLock /\ ~InPlace
    /\ diskFaults < MaxDiskFaults
    /\ diskFaults' = diskFaults + 1
    /\ \E stored \in BOOLEAN : Unlock(a, stored)
    /\ UNCHANGED image

\* Variant (not the code): the files are removed without taking disk_mtx_.
CleanupArtifacts_NoLock ==
    /\ job' = [job EXCEPT !.cleaned = TRUE]
    /\ image' = NoImage
    /\ NothingOwed
    /\ UNCHANGED <<blind, orphan>>

CleanupArtifacts ==
    /\ diskLock = {}
    /\ job' = [job EXCEPT !.cleaned = TRUE]
    /\ image' = NoImage
    /\ NothingOwed
    /\ UNCHANGED <<blind, orphan>>

Cleanup(w) ==
    /\ At(w, "cleanup", "idle")
    /\ CleanupArtifacts
    /\ UNCHANGED <<output, outputExists, version, storing, chunk, spent>>

\* The last connection, or Cancel itself, removes the files of a canceled job.
Reap ==
    /\ job.state = "Canceled" /\ ~job.cleaned
    /\ \A w \in Workers : pc[w] = "idle"
    /\ CleanupArtifacts
    /\ output' = Blank /\ outputExists' = FALSE
    /\ UNCHANGED <<version, storing, pc, chunk, spent>>

----------------------------------------------------------------------------
(* The user's thread.                                                      *)

Pause ==
    /\ CallOfUser
    /\ job.state = "Downloading"
    /\ job' = [job EXCEPT !.state = "Paused"]
    /\ UNCHANGED <<disk, version, storing, pc, chunk, history>>

Cancel ==
    /\ job.state \in {"Downloading", "Paused", "Failed"}
    /\ job' = [job EXCEPT !.state = "Canceled"]
    /\ UNCHANGED <<disk, version, storing, pc, chunk, history, spent>>

IsFinished ==
    \/ job.nDownloaded = NChunks
    \/ job.state \in {"Canceled", "Paused", "Completed", "Failed"}

\* Variant (not the code): Terminate pauses and does not store.
Terminate_PauseOnly ==
    /\ CallOfUser
    /\ Running /\ ~IsFinished
    /\ At(User, "idle", "tpause")
    /\ owed' = job.received /\ terminated' = FALSE
    /\ UNCHANGED <<disk, version, job, storing, chunk, blind, orphan>>

\* Terminate, for this job: the test, the Store, the Pause.
Terminate ==
    /\ CallOfUser
    /\ Running /\ ~IsFinished
    /\ At(User, "idle", "tstore")
    /\ owed' = job.received /\ terminated' = FALSE
    /\ UNCHANGED <<disk, version, job, storing, chunk, blind, orphan>>

TerminatePause ==
    /\ At(User, "tpause", "idle")
    /\ job' = [job EXCEPT !.state = IF @ = "Downloading" THEN "Paused" ELSE @]
    /\ IF job.cleaned THEN NothingOwed ELSE terminated' = TRUE /\ UNCHANGED owed
    /\ UNCHANGED <<disk, version, storing, chunk, blind, orphan, spent>>

----------------------------------------------------------------------------
(* The process ends.                                                       *)

Die ==
    /\ job' = NoJob
    /\ diskLock' = {} /\ snapshot' = NoImage
    /\ pc' = [a \in Actors |-> "idle"]
    /\ chunk' = [w \in Workers |-> 0]
    /\ IF terminated THEN UNCHANGED <<owed, terminated>> ELSE NothingOwed
    /\ UNCHANGED <<output, outputExists, version, blind, orphan, spent>>

\* It is killed.  An update in place may have replaced a part of the table.
Crash ==
    /\ Running
    /\ Die
    /\ IF diskLock # {} /\ InPlace
       THEN \E n \in 0..NChunks : image' = Updated(n)
       ELSE UNCHANGED image

\* A Store after CleanupArtifacts goes through writer_, which is reset.
StoreWithoutWriter(a) ==
    /\ pc[a] \in StoreSteps
    /\ diskLock = {} /\ job.cleaned
    /\ Die
    /\ UNCHANGED image

----------------------------------------------------------------------------

WorkerStep(w) ==
    Receive(w) \/ Notify(w) \/ Account(w) \/ Count(w) \/ Fail(w) \/ Cleanup(w)

StoreStep(a) ==
    BeginStore(a) \/ FinishStore(a) \/ StoreFails(a) \/ StoreWithoutWriter(a)

SessionStep ==
    \/ ServerChanges \/ RemoveOutput \/ Download \/ Load \/ SetValidators \/ Crash

UserStep == Resume \/ Pause \/ Cancel \/ Reap \/ Terminate \/ TerminatePause

Next ==
    \/ \E w \in Workers : WorkerStep(w)
    \/ \E a \in Actors : StoreStep(a)
    \/ SessionStep
    \/ UserStep

Spec == Init /\ [][Next]_vars
----------------------------------------------------------------------------
(* Properties.                                                             *)

\* The validators of a version of the server's file, or none.
Answers == {NoValidators} \union {Probe[v] : v \in Versions}
Images == [form : {"none", "torn", "whole"}, validators : Answers,
           received : [Chunks -> Counts]]

TypeOK ==
    /\ image \in Images /\ snapshot \in Images
    /\ output \in [Chunks -> [Units -> {0} \union Versions]]
    /\ outputExists \in BOOLEAN
    /\ version \in Versions
    /\ job \in [state : JobStates, received : [Chunks -> Counts],
               nDownloaded : 0..NChunks, validators : Answers,
               known : BOOLEAN, loaded : BOOLEAN, imageStored : BOOLEAN,
               indexed : BOOLEAN, sinceStore : Nat, cleaned : BOOLEAN]
    /\ \E a \in Actors : diskLock \in {{}, {a}}
    /\ pc \in [Actors -> StoreSteps \union {"idle", "notify", "account", "count",
                                          "cleanup", "tpause"}]
    /\ chunk \in [Workers -> {0} \union Chunks]
    /\ owed \in [Chunks -> Counts]
    /\ terminated \in BOOLEAN /\ blind \in BOOLEAN /\ orphan \in BOOLEAN
    /\ sessions \in 0..MaxSessions /\ calls \in 0..MaxCalls
    /\ diskFaults \in 0..MaxDiskFaults

\* The first units of every chunk, as many as a table counts, are in the file.
Backed(counts) ==
    \A c \in Chunks : \A k \in Units : k < counts[c] => output[c][k] # 0

\* What the image counts is in the output file, and so is what a job counts
\* that was made from it, whatever crashes, failed writes and partial updates
\* lie in between: a Load skips no byte that was never received.  The code
\* does not give this to an image whose output file was removed and made anew
\* by another Download.
ImageSound ==
    /\ image.form = "whole" /\ ~orphan => Backed(image.received)
    /\ outputExists /\ ~(orphan /\ job.loaded) => Backed(job.received)

\* The counted units came from the file that is on the server now.
Fresh(counts) ==
    \A c \in Chunks : \A k \in Units : k < counts[c] => output[c][k] = version

\* A job never counts bytes of two versions of the server's file, over all
\* sessions, unless one of the Loads it goes back to had no validator to compare
\* with: that is what MatchesStoredFile and the stored validators are for.
OneVersion ==
    outputExists /\ ~((blind \/ orphan) /\ job.loaded) => Fresh(job.received)

\* The image file is being written anew.
Rewriting == diskLock # {} /\ ~InPlace

\* The bytes a crash would lose: fewer than NeedsStore waits for, and one unit
\* more for each worker that is between the count and the store.
LossIsSmall ==
    Total(job.received) <= Total(image.received) + StoreEvery - 1
                             + Cardinality(Workers)

\* A crash loses little at any moment at which the image is not written anew,
\* if the disk took every image so far.
LossBounded ==
    Running /\ ~job.cleaned /\ ~Rewriting /\ diskFaults = 0 => LossIsSmall

\* A crash loses little at any moment ("Pause/resume support with persisted job
\* image (`.muld`) for interrupted sessions").
CrashKeepsProgress == Running /\ ~job.cleaned /\ diskFaults = 0 => LossIsSmall

\* After Terminate has returned the image on disk holds at least what the job
\* had received when it was called, through crashes and until the next session,
\* unless the job completed or was canceled.
TerminatePersists ==
    terminated /\ diskFaults = 0 =>
        /\ image.form = "whole"
        /\ \A c \in Chunks : owed[c] <= image.received[c]

\* The image of a completed or canceled job does not come back: no Store that was
\* under way writes it after CleanupArtifacts has removed it.
NothingComesBack == job.cleaned => image = NoImage
=============================================================================
