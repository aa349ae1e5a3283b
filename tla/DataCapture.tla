----------------------------- MODULE DataCapture -----------------------------
(***************************************************************************)
(* Data capture and sync: a collector (data/collector.go) that takes       *)
(* readings and writes them to capture files through a buffer              *)
(* (services/datamanager/datacapture), the syncer that uploads files and   *)
(* deletes them (services/datamanager/datasync), and the service that      *)
(* starts and closes both (services/datamanager/builtin).                  *)
(*                                                                         *)
(* A file is a number, given out in order; its path changes from ".prog"   *)
(* to ".capture" when it is complete.  Whoever has the file open goes on   *)
(* reading and writing it when its path changes or disappears.  Of the     *)
(* readings written to a file the first few have left the bufio.Writer and *)
(* are on the disk.                                                        *)
(***************************************************************************)
EXTENDS Integers, Sequences, FiniteSets, Functions

CONSTANTS
    Reading,        \* the readings of a run
    Uploader,       \* the goroutines of the syncer that may run at a time
    QueueSize,      \* capacity of the collector's queue
    MaxFile,        \* bound on the number of files
    MaxCrash,       \* bound on the number of crashes
    SlowCollector,  \* whether a live file may stay unmodified so long that it
                    \* counts as abandoned (waitAfterLastModifiedMillis)
    Nil

ASSUME ConstantsOK ==
    /\ IsFiniteSet(Reading)
    /\ QueueSize \in Nat \ {0}
    /\ MaxFile \in Nat
    /\ MaxCrash \in Nat
    /\ SlowCollector \in BOOLEAN
    /\ Nil \notin Reading

File == 1..MaxFile

VARIABLES
    collector,  \* "none", "running", "canceled" once Close has been called, and
                \* "last" if the loop has taken a last tick all the same
    pushing,    \* readings that capture goroutines are about to queue
    queue,      \* c.queue
    qclosed,    \* the queue has been closed
    item,       \* the reading that write() has taken from the queue
    wpc,        \* write(): "write", "rename" and "new" of a rotation, "done"
    nextFile,   \* the buffer's file, 0 for none
    name,       \* the extension each file has, "none" before it is created,
                \* "gone" once it has been removed
    data,       \* the readings written to each file
    flushed,    \* how many of them are on the disk
    svc,        \* where Update, under the service's lock, has got to
    syncer,     \* "none", "running" or "canceled"
    scheduled,  \* the scheduler, which calls a running syncer regularly, is on
    listed,     \* paths that SyncDirectory has started goroutines for
    marked,     \* inProgress
    up,         \* the goroutines that have opened a file
    cloud,      \* how often each reading has arrived there, up to 2
    unsure,     \* history: readings of an upload that the syncer could not see succeed
    accepted,   \* history: readings queued and not lost in a crash
    crashes     \* how often the process has crashed

capture == <<collector, pushing, queue, qclosed>>
writing == <<item, wpc, nextFile>>
files == <<name, data, flushed>>
syncing == <<syncer, scheduled, listed, marked, up>>
outside == <<cloud, unsure, crashes>>
vars == <<capture, writing, files, svc, syncing, outside, accepted>>

SyncConfig == {"enabled", "disabled", "removed"}
Path == File \X {"prog", "capture"}
NoUpload == [pc |-> "none", path |-> <<0, "prog">>, n |-> 0]
UploadState == [pc : {"first", "firstSent", "read", "sent", "wait", "delete", "close"},
                path : Path, n : Nat] \union {NoUpload}

TypeOK ==
    /\ collector \in {"none", "running", "canceled", "last"}
    /\ pushing \subseteq Reading
    /\ queue \in Seq(Reading) /\ Len(queue) <= QueueSize
    /\ qclosed \in BOOLEAN
    /\ item \in Reading \union {Nil}
    /\ wpc \in {"write", "rename", "new", "done"}
    /\ nextFile \in File \union {0}
    /\ name \in [File -> {"none", "prog", "capture", "gone"}]
    /\ data \in [File -> Seq(Reading)]
    /\ flushed \in [File -> Nat]
    /\ svc \in {"idle", "wait", "rename", "config", "syncer"}
    /\ syncer \in {"none", "running", "canceled"}
    /\ scheduled \in BOOLEAN
    /\ listed \subseteq Path /\ marked \subseteq Path
    /\ up \in [Uploader -> UploadState]
    /\ cloud \in [Reading -> 0..2]
    /\ unsure \subseteq Reading
    /\ accepted \subseteq Reading
    /\ crashes \in 0..MaxCrash

\* What an earlier process may have left in the capture directory.
Leftover == ({"prog", "capture"} \X {<<r>> : r \in Reading}) \union {<<"none", << >>>>}

Init ==
    /\ collector = "none" /\ pushing = {} /\ queue = << >> /\ qclosed = TRUE
    /\ item = Nil /\ wpc = "done" /\ nextFile = 0
    /\ \E l \in Leftover :
         /\ name = [f \in File |-> IF f = 1 THEN l[1] ELSE "none"]
         /\ data = [f \in File |-> IF f = 1 THEN l[2] ELSE << >>]
    /\ flushed = [f \in File |-> Len(data[f])]
    /\ svc = "config"
    /\ syncer = "none" /\ scheduled = FALSE /\ listed = {} /\ marked = {}
    /\ up = [u \in Uploader |-> NoUpload]
    /\ cloud = [r \in Reading |-> 0]
    /\ unsure = {} /\ accepted = {} /\ crashes = 0

-----------------------------------------------------------------------------
(* The collector *)

Written == UNION {Range(data[f]) : f \in File}

Canceled == collector \in {"canceled", "last"}

\* A reading that has not been taken yet.
Fresh(r) ==
    /\ r \notin pushing \union Range(queue) \union Written \union accepted \union {item}

\* The capture loop starts a goroutine, and captureFunc returns a reading.  With
\* the ticker and the cancellation both ready, select may take the ticker, once:
\* the loop then begins with a look at the context.
Capture(r) ==
    /\ \/ collector = "running" /\ UNCHANGED collector
       \/ collector = "canceled" /\ ~qclosed /\ collector' = "last"
    /\ Fresh(r)
    /\ pushing' = pushing \union {r}
    /\ UNCHANGED <<queue, qclosed, writing, files, svc, syncing, outside, accepted>>

\* The goroutine queues it,
Push(r) ==
    /\ r \in pushing
    /\ Len(queue) < QueueSize
    /\ pushing' = pushing \ {r}
    /\ queue' = Append(queue, r)
    /\ accepted' = accepted \union {r}
    /\ UNCHANGED <<collector, qclosed, writing, files, svc, syncing, outside>>

\* or drops it when the collector is being closed.
Drop(r) ==
    /\ r \in pushing
    /\ Canceled
    /\ pushing' = pushing \ {r}
    /\ UNCHANGED <<collector, queue, qclosed, writing, files, svc, syncing, outside, accepted>>

CloseQueueAtOnce ==
    /\ Canceled /\ ~qclosed
    /\ qclosed' = TRUE
    /\ UNCHANGED <<collector, pushing, queue, writing, files, svc, syncing, outside, accepted>>

CloseQueueForgotten ==
    /\ Canceled /\ ~qclosed
    /\ pushing = {}
    /\ UNCHANGED vars

\* The capture loop waits for its goroutines and closes the queue.
CloseQueue ==
    /\ Canceled /\ ~qclosed
    /\ pushing = {}
    /\ qclosed' = TRUE
    /\ UNCHANGED <<collector, pushing, queue, writing, files, svc, syncing, outside, accepted>>

Receive ==
    /\ wpc = "write" /\ item = Nil /\ queue # << >>
    /\ item' = Head(queue)
    /\ queue' = Tail(queue)
    /\ UNCHANGED <<collector, pushing, qclosed, wpc, nextFile, files, svc, syncing, outside, accepted>>

WriterDone ==
    /\ wpc = "write" /\ item = Nil /\ queue = << >> /\ qclosed
    /\ wpc' = "done"
    /\ UNCHANGED <<capture, item, nextFile, files, svc, syncing, outside, accepted>>

-----------------------------------------------------------------------------
(* The buffer and its files *)

\* The number of the next file.
Unused == {f \in File : name[f] = "none" /\ \A g \in File : g < f => name[g] # "none"}

\* Any reading may be binary.  Buffer.Write gives it a file of its own, closed at
\* once.
WriteBinary ==
    /\ wpc = "write" /\ item # Nil
    /\ \E f \in Unused :
         /\ name' = [name EXCEPT ![f] = "capture"]
         /\ data' = [data EXCEPT ![f] = <<item>>]
         /\ flushed' = [flushed EXCEPT ![f] = 1]
    /\ item' = Nil
    /\ UNCHANGED <<capture, wpc, nextFile, svc, syncing, outside, accepted>>

\* WriteNext: the reading goes to the bufio.Writer, which may pass what it
\* holds, or the first part of it, on to the disk.
WriteNext(f) ==
    LET d == Append(data[f], item)
    IN  /\ data' = [data EXCEPT ![f] = d]
        /\ \E n \in flushed[f]..Len(d) : flushed' = [flushed EXCEPT ![f] = n]
        /\ item' = Nil
        /\ nextFile' = f

\* Buffer.Write of a tabular reading, to a new file or to the current one.
\* Readings differ in size: any file may have outgrown MaxFileSize or not.
WriteTabular ==
    /\ wpc \in {"write", "new"} /\ item # Nil
    /\ wpc' = "write"
    /\ \/ /\ nextFile = 0
          /\ \E f \in Unused : name' = [name EXCEPT ![f] = "prog"] /\ WriteNext(f)
       \/ /\ nextFile # 0
          /\ WriteNext(nextFile)
          /\ UNCHANGED name
    /\ UNCHANGED <<capture, svc, syncing, outside, accepted>>

\* A file that has become too large is closed first: File.Close flushes it,
Rotate ==
    /\ wpc = "write" /\ item # Nil
    /\ nextFile # 0
    /\ flushed' = [flushed EXCEPT ![nextFile] = Len(data[nextFile])]
    /\ wpc' = "rename"
    /\ UNCHANGED <<capture, item, nextFile, name, data, svc, syncing, outside, accepted>>

\* and renames it.  If its path is gone, write() returns the error.
RotateRename ==
    /\ wpc = "rename"
    /\ IF name[nextFile] = "prog"
       THEN /\ name' = [name EXCEPT ![nextFile] = "capture"]
            /\ nextFile' = 0 /\ wpc' = "new" /\ UNCHANGED item
       ELSE /\ wpc' = "done" /\ item' = Nil
            /\ UNCHANGED <<name, nextFile>>
    /\ UNCHANGED <<capture, data, flushed, svc, syncing, outside, accepted>>

-----------------------------------------------------------------------------
(* The service: Update and Close, under svc.lock *)

\* A configuration arrives, or the service is closed: the collector's Close
\* cancels it.
Update ==
    /\ svc = "idle"
    /\ IF collector = "none" THEN svc' = "config" /\ UNCHANGED collector
                             ELSE svc' = "wait" /\ collector' = "canceled"
    /\ UNCHANGED <<pushing, queue, qclosed, writing, files, syncing, outside, accepted>>

\* Close waits for the capture loop and for write() and flushes the buffer.
CloseWithoutFlush ==
    /\ svc = "wait" /\ qclosed /\ wpc = "done"
    /\ svc' = "config" /\ collector' = "none" /\ nextFile' = 0
    /\ UNCHANGED <<pushing, queue, qclosed, item, wpc, files, syncing, outside, accepted>>

CloseFlush ==
    /\ svc = "wait" /\ qclosed /\ wpc = "done"
    /\ IF nextFile = 0
       THEN svc' = "config" /\ collector' = "none" /\ UNCHANGED flushed
       ELSE /\ flushed' = [flushed EXCEPT ![nextFile] = Len(data[nextFile])]
            /\ svc' = "rename" /\ UNCHANGED collector
    /\ UNCHANGED <<pushing, queue, qclosed, writing, name, data, syncing, outside, accepted>>

\* An error of the rename is logged.
CloseRename ==
    /\ svc = "rename"
    /\ name' = [name EXCEPT ![nextFile] = IF @ = "prog" THEN "capture" ELSE @]
    /\ nextFile' = 0
    /\ collector' = "none"
    /\ svc' = "config"
    /\ UNCHANGED <<pushing, queue, qclosed, item, wpc, data, flushed, syncing, outside, accepted>>

\* The rest of Update: a new collector unless capture is disabled or fails to
\* start, a syncer and a scheduler unless sync is disabled or fails to start.  If
\* the service has been removed from the configuration, the scheduler stays.
Configure(on, sync) ==
    /\ svc = "config"
    /\ on => sync # "removed"
    /\ IF on
       THEN collector' = "running" /\ queue' = << >> /\ qclosed' = FALSE /\ wpc' = "write"
       ELSE UNCHANGED <<collector, queue, qclosed, wpc>>
    /\ scheduled' = IF sync = "removed" THEN scheduled ELSE sync = "enabled"
    /\ IF sync = "enabled"
       THEN syncer' = "running" /\ svc' = "idle"
       ELSE IF syncer = "none"
            THEN svc' = "idle" /\ UNCHANGED syncer
            ELSE svc' = "syncer" /\ syncer' = "canceled"
    /\ UNCHANGED <<pushing, item, nextFile, files, listed, marked, up, outside, accepted>>

\* The syncer's Close waits for its goroutines.
SyncerClosed ==
    /\ svc = "syncer"
    /\ listed = {} /\ \A u \in Uploader : up[u] = NoUpload
    /\ syncer' = "none" /\ marked' = {}
    /\ svc' = "idle"
    /\ UNCHANGED <<capture, writing, files, scheduled, listed, up, outside, accepted>>

-----------------------------------------------------------------------------
(* The syncer *)

\* getAllFilesToSync takes every complete file, and every other one that has
\* not been modified for a while: a file that no collector writes to any more,
\* sooner or later, and that of a slow collector.
ListedPaths ==
    {<<f, "capture">> : f \in {g \in File : name[g] = "capture"}}
Stale ==
    {<<f, "prog">> : f \in {g \in File : name[g] = "prog" /\ (g # nextFile \/ SlowCollector)}}

SyncDirectory(old) ==
    /\ svc = "idle"
    /\ syncer' = "running" /\ UNCHANGED scheduled
    /\ listed' = listed \union ListedPaths \union old
    /\ UNCHANGED <<capture, writing, files, svc, marked, up, outside, accepted>>

\* A goroutine of SyncDirectory begins.  A path whose file is gone stays marked.
StartUnmarked(u, p) ==
    /\ p \in listed /\ up[u] = NoUpload
    /\ listed' = listed \ {p}
    /\ IF syncer = "canceled" \/ name[p[1]] # p[2]
       THEN UNCHANGED <<marked, up>>
       ELSE /\ marked' = marked \union {p}
            /\ up' = [up EXCEPT ![u] = [pc |-> "first", path |-> p, n |-> 0]]
    /\ UNCHANGED <<capture, writing, files, svc, syncer, scheduled, outside, accepted>>

Start(u, p) ==
    /\ p \in listed /\ up[u] = NoUpload
    /\ listed' = listed \ {p}
    /\ IF syncer = "canceled" \/ p \in marked
       THEN UNCHANGED <<marked, up>>
       ELSE /\ marked' = marked \union {p}
            /\ up' = IF name[p[1]] = p[2]
                     THEN [up EXCEPT ![u] = [pc |-> "first", path |-> p, n |-> 0]]
                     ELSE up
    /\ UNCHANGED <<capture, writing, files, svc, syncer, scheduled, outside, accepted>>

Goto(u, pc) == up' = [up EXCEPT ![u].pc = pc]

\* uploadDataCaptureFile reads what is on the disk; nothing is not uploaded.
ReadFile(u) ==
    /\ up[u].pc \in {"first", "read"}
    /\ LET n == flushed[up[u].path[1]]
       IN  IF n = 0
           THEN Goto(u, "delete")
           ELSE up' = [up EXCEPT ![u] = [pc |-> IF @.pc = "first" THEN "firstSent" ELSE "sent",
                                         path |-> @.path, n |-> n]]
    /\ UNCHANGED <<capture, writing, files, svc, syncer, scheduled, listed, marked, outside, accepted>>

Sent(u) == Range(SubSeq(data[up[u].path[1]], 1, up[u].n))

Arrive(u) ==
    cloud' = [r \in Reading |-> IF r \in Sent(u) /\ cloud[r] < 2 THEN cloud[r] + 1 ELSE cloud[r]]

\* The cloud has stored the readings and says so,
Acknowledged(u) ==
    /\ up[u].pc \in {"firstSent", "sent"}
    /\ Arrive(u)
    /\ Goto(u, "delete")
    /\ UNCHANGED <<capture, writing, files, svc, syncer, scheduled, listed, marked, unsure, crashes, accepted>>

\* or the call ends in an error: the first one ends the attempts if the cloud
\* finds the argument invalid, any other is followed by a retry.  The readings
\* may have arrived all the same.
CallFails(u) ==
    /\ up[u].pc \in {"firstSent", "sent"}
    /\ \/ Arrive(u) /\ unsure' = unsure \union Sent(u)
       \/ UNCHANGED <<cloud, unsure>>
    /\ \/ Goto(u, "wait")
       \/ up[u].pc = "firstSent" /\ Goto(u, "close")
    /\ UNCHANGED <<capture, writing, files, svc, syncer, scheduled, listed, marked, crashes, accepted>>

RetryCanceledIsNil(u) ==
    /\ up[u].pc = "wait"
    /\ Goto(u, IF syncer = "canceled" THEN "delete" ELSE "read")
    /\ UNCHANGED <<capture, writing, files, svc, syncer, scheduled, listed, marked, outside, accepted>>

\* exponentialRetry: the next attempt, or the end of the syncer.
Retry(u) ==
    /\ up[u].pc = "wait"
    /\ Goto(u, IF syncer = "canceled" THEN "close" ELSE "read")
    /\ UNCHANGED <<capture, writing, files, svc, syncer, scheduled, listed, marked, outside, accepted>>

\* unmarkInProgress, and the goroutine's end.
Unmark(u) ==
    /\ up' = [up EXCEPT ![u] = NoUpload]
    /\ marked' = marked \ {up[u].path}

\* File.Delete removes the path the file was opened under.  If that has changed
\* the error is logged, and the rename that File.Close tries fails as well.
Delete(u) ==
    /\ up[u].pc = "delete"
    /\ LET f == up[u].path[1]
       IN  name' = [name EXCEPT ![f] = IF @ = up[u].path[2] THEN "gone" ELSE @]
    /\ Unmark(u)
    /\ UNCHANGED <<capture, writing, data, flushed, svc, syncer, scheduled, listed, outside, accepted>>

CloseFileMarked(u) ==
    /\ up[u].pc = "close"
    /\ up' = [up EXCEPT ![u] = NoUpload]
    /\ UNCHANGED <<capture, writing, files, svc, syncer, scheduled, listed, marked, outside, accepted>>

\* File.Close after a failed upload marks the file as complete.
CloseFile(u) ==
    /\ up[u].pc = "close"
    /\ LET f == up[u].path[1]
       IN  name' = [name EXCEPT ![f] = IF @ = up[u].path[2] THEN "capture" ELSE @]
    /\ Unmark(u)
    /\ UNCHANGED <<capture, writing, data, flushed, svc, syncer, scheduled, listed, outside, accepted>>

-----------------------------------------------------------------------------

\* The process dies and is started again.  What was on the disk is still there.
\* An upload under way may have arrived.
Crash ==
    /\ crashes < MaxCrash
    /\ crashes' = crashes + 1
    /\ collector' = "none" /\ pushing' = {} /\ queue' = << >> /\ qclosed' = TRUE
    /\ item' = Nil /\ wpc' = "done" /\ nextFile' = 0
    /\ data' = [f \in File |-> SubSeq(data[f], 1, flushed[f])]
    /\ accepted' = {r \in accepted : \E f \in File : r \in Range(SubSeq(data[f], 1, flushed[f]))}
    /\ svc' = "config"
    /\ syncer' = "none" /\ scheduled' = FALSE /\ listed' = {} /\ marked' = {}
    /\ up' = [u \in Uploader |-> NoUpload]
    /\ unsure' = unsure \union
                   UNION {Sent(u) : u \in {v \in Uploader : up[v].pc \in {"firstSent", "sent", "delete"}}}
    /\ \E arrived \in SUBSET {u \in Uploader : up[u].pc \in {"firstSent", "sent"}} :
         cloud' = [r \in Reading |->
                     IF cloud[r] < 2 /\ \E u \in arrived : r \in Sent(u) THEN cloud[r] + 1 ELSE cloud[r]]
    /\ UNCHANGED <<name, flushed>>

Upload(u) ==
    \/ ReadFile(u) \/ Acknowledged(u) \/ CallFails(u) \/ Retry(u)
    \/ Delete(u) \/ CloseFile(u)

Write == Receive \/ WriterDone \/ WriteBinary \/ WriteTabular \/ Rotate \/ RotateRename

Close == CloseFlush \/ CloseRename \/ SyncerClosed

Next ==
    \/ \E r \in Reading : Capture(r) \/ Push(r) \/ Drop(r)
    \/ CloseQueue \/ Write \/ Update \/ Close
    \/ \E on \in BOOLEAN, sync \in SyncConfig : Configure(on, sync)
    \/ \E old \in SUBSET Stale : SyncDirectory(old)
    \/ \E u \in Uploader, p \in Path : Start(u, p)
    \/ \E u \in Uploader : Upload(u)
    \/ Crash

Spec == Init /\ [][Next]_vars

\* The ticker of uploadData fires while the service's lock is free.
ScheduledSync == scheduled /\ syncer = "running" /\ SyncDirectory(Stale)

\* Goroutines that can run do, and a scheduler that is on gets the lock some
\* time.  A call to the cloud returns, and one that is made over and over again
\* succeeds.
FairSpec ==
    /\ Spec
    /\ WF_vars(CloseQueue) /\ WF_vars(Write) /\ WF_vars(Close)
    /\ WF_vars(\E on \in BOOLEAN, sync \in SyncConfig : Configure(on, sync))
    /\ \A r \in Reading : WF_vars(Push(r) \/ Drop(r))
    /\ SF_vars(ScheduledSync)
    /\ \A p \in Path : WF_vars(\E u \in Uploader : Start(u, p))
    /\ \A u \in Uploader : WF_vars(Upload(u)) /\ SF_vars(Acknowledged(u))

-----------------------------------------------------------------------------
(* What holds *)

\* No goroutine sends on the closed queue, which would panic: the capture loop
\* closes it only when its goroutines have returned.
QueueIsOpen == pushing # {} => ~qclosed

\* Close keeps its promise to flush: once a collector is closed, every reading
\* it has queued is on the disk, in a file marked as complete, or in the cloud.
ClosedIsFlushed ==
    collector = "none" =>
       \A r \in accepted : \E f \in File :
          /\ r \in Range(SubSeq(data[f], 1, flushed[f]))
          /\ crashes = 0 => name[f] # "prog"

\* The syncer deletes a file only when the cloud has everything that was
\* written to it, whatever fails, retries or crashes in between.
NothingIsLost ==
    \A f \in File : name[f] = "gone" => \A r \in Range(data[f]) : cloud[r] > 0

\* Concurrent syncs upload a reading once, unless an upload was interrupted
\* after it had arrived.
UploadedOnce == \A r \in Reading : cloud[r] > 1 => r \in unsure

\* Update and Close come back, although they wait for capture goroutines at a
\* full queue, for write() and for uploads that fail over and over again.
UpdateReturns == svc # "idle" ~> svc = "idle"

\* A file that no collector writes to, one that a crash has left behind too, is
\* uploaded and deleted in the end, as long as sync is scheduled.
FilesAreSynced ==
    \A f \in File :
       (name[f] \in {"prog", "capture"} /\ f # nextFile)
          ~> (name[f] = "gone" \/ ~scheduled \/ syncer # "running")
=============================================================================
