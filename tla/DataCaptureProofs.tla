-------------------------- MODULE DataCaptureProofs --------------------------
(***************************************************************************)
(* Data capture and sync, for any readings, uploaders, files and crashes:  *)
(* the inductive invariant, and the steps of the collector and its writer. *)
(* DataSyncProofs has the steps of the syncer and the theorems.            *)
(***************************************************************************)
EXTENDS DataCapture, TLAPS

-----------------------------------------------------------------------------
(* Sequences, and the readings in one. *)

\* What a sequence is.
LEMMA SeqLen ==
    ASSUME NEW S, NEW s \in Seq(S)
    PROVE  Len(s) \in Nat /\ DOMAIN s = 1..Len(s) /\ s \in [1..Len(s) -> S]
  OBVIOUS

LEMMA SeqEmpty ==
    ASSUME NEW S, NEW s \in Seq(S)
    PROVE  (s = << >>) <=> (Len(s) = 0)
  OBVIOUS

LEMMA SeqSame ==
    ASSUME NEW S, NEW s \in Seq(S), NEW t \in Seq(S), Len(s) = Len(t), \A i \in 1..Len(s) : s[i] = t[i]
    PROVE  s = t
  OBVIOUS

\* What Push, Receive and a crash make of one.
LEMMA SeqAppend ==
    ASSUME NEW S, NEW s \in Seq(S), NEW x \in S
    PROVE  /\ Append(s, x) \in Seq(S) /\ Len(Append(s, x)) = Len(s) + 1
           /\ \A i \in 1..Len(s) : Append(s, x)[i] = s[i]
           /\ Append(s, x)[Len(s) + 1] = x
  OBVIOUS

LEMMA SeqHeadTail ==
    ASSUME NEW S, NEW s \in Seq(S), s # << >>
    PROVE  /\ Head(s) \in S /\ Head(s) = s[1]
           /\ Tail(s) \in Seq(S) /\ Len(Tail(s)) = Len(s) - 1
           /\ \A i \in 1..Len(Tail(s)) : Tail(s)[i] = s[i + 1]
  OBVIOUS

LEMMA SeqPrefix ==
    ASSUME NEW S, NEW s \in Seq(S), NEW n \in 0..Len(s)
    PROVE  /\ SubSeq(s, 1, n) \in Seq(S) /\ Len(SubSeq(s, 1, n)) = n
           /\ \A i \in 1..n : SubSeq(s, 1, n)[i] = s[i]
  OBVIOUS

\* A sequence of readings holds readings.
LEMMA RangeType ==
    ASSUME NEW S, NEW s \in Seq(S)
    PROVE  Range(s) \subseteq S
  BY DEF Range

\* An empty queue or file holds nothing, a binary file its one reading.
LEMMA RangeEmpty == Range(<< >>) = {}
  BY DEF Range

LEMMA RangeOne ==
    ASSUME NEW x
    PROVE  Range(<<x>>) = {x}
  BY DEF Range

\* Append adds one reading.
LEMMA RangeAppend ==
    ASSUME NEW S, NEW s \in Seq(S), NEW x \in S
    PROVE  Range(Append(s, x)) = Range(s) \union {x}
<1> DEFINE t == Append(s, x)
<1>1. /\ t \in Seq(S) /\ Len(t) = Len(s) + 1
      /\ \A i \in 1..Len(s) : t[i] = s[i]
      /\ t[Len(s) + 1] = x
  BY SeqAppend
<1>2. Len(s) \in Nat /\ DOMAIN s = 1..Len(s) /\ DOMAIN t = 1..(Len(s) + 1)
  BY <1>1, SeqLen
<1> HIDE DEF t
<1>3. Range(t) = Range(s) \union {x}
  BY <1>1, <1>2 DEF Range
<1> QED
  BY <1>3 DEF t

\* Head and Tail share the readings of a queue without repetitions.
LEMMA RangeHeadTail ==
    ASSUME NEW S, NEW s \in Seq(S), s # << >>
    PROVE  Range(s) = Range(Tail(s)) \union {Head(s)}
<1> DEFINE t == Tail(s)
<1>1. /\ t \in Seq(S) /\ Len(t) = Len(s) - 1
      /\ \A i \in 1..Len(t) : t[i] = s[i + 1]
  BY SeqHeadTail
<1>2. Head(s) = s[1]
  OBVIOUS
<1>3. Len(s) \in Nat \ {0} /\ DOMAIN s = 1..Len(s) /\ DOMAIN t = 1..(Len(s) - 1)
  BY <1>1, SeqLen, SeqEmpty
<1> HIDE DEF t
<1>4. \A y : y \in Range(s) => y \in Range(t) \union {s[1]}
  <2> SUFFICES ASSUME NEW i \in 1..Len(s), i # 1 PROVE s[i] \in Range(t)
    BY <1>3 DEF Range
  <2>1. i - 1 \in 1..Len(t) /\ t[i - 1] = s[i]
    BY <1>1, <1>3
  <2> QED
    BY <1>1, <1>3, <2>1 DEF Range
<1>5. Range(t) \union {s[1]} \subseteq Range(s)
  BY <1>1, <1>3 DEF Range
<1> QED
  BY <1>2, <1>4, <1>5 DEF t

\* No reading is in the sequence twice.
NoRepeat(s) == \A i, j \in 1..Len(s) : s[i] = s[j] => i = j

\* What Receive takes from the queue is no longer in it.
LEMMA NoRepeatTail ==
    ASSUME NEW S, NEW s \in Seq(S), s # << >>, NoRepeat(s)
    PROVE  NoRepeat(Tail(s)) /\ Head(s) \notin Range(Tail(s))
<1> DEFINE t == Tail(s)
<1>1. /\ t \in Seq(S) /\ Len(t) = Len(s) - 1
      /\ \A i \in 1..Len(t) : t[i] = s[i + 1]
  BY SeqHeadTail
<1>2. Len(s) \in Nat \ {0} /\ DOMAIN t = 1..(Len(s) - 1) /\ Head(s) = s[1]
  BY <1>1, SeqLen, SeqEmpty
<1> HIDE DEF t
<1>3. NoRepeat(t)
  <2> SUFFICES ASSUME NEW i \in 1..Len(t), NEW j \in 1..Len(t), t[i] = t[j] PROVE i = j
    BY DEF NoRepeat
  <2>1. i + 1 \in 1..Len(s) /\ j + 1 \in 1..Len(s) /\ s[i + 1] = s[j + 1]
    BY <1>1, <1>2
  <2> QED
    BY <2>1 DEF NoRepeat
<1>4. s[1] \notin Range(t)
  <2> SUFFICES ASSUME NEW i \in 1..Len(t), t[i] = s[1] PROVE FALSE
    BY <1>1, <1>2 DEF Range
  <2>1. i + 1 \in 1..Len(s) /\ 1 \in 1..Len(s) /\ s[i + 1] = s[1]
    BY <1>1, <1>2
  <2> QED
    BY <2>1 DEF NoRepeat
<1> QED
  BY <1>2, <1>3, <1>4 DEF t

\* Push queues a reading that is not in the queue.
LEMMA NoRepeatAppend ==
    ASSUME NEW S, NEW s \in Seq(S), NEW x \in S, NoRepeat(s), x \notin Range(s)
    PROVE  NoRepeat(Append(s, x))
<1> DEFINE t == Append(s, x)
<1>1. /\ t \in Seq(S) /\ Len(t) = Len(s) + 1
      /\ \A i \in 1..Len(s) : t[i] = s[i]
      /\ t[Len(s) + 1] = x
  BY SeqAppend
<1>2. Len(s) \in Nat /\ \A i \in 1..Len(s) : s[i] # x
  BY SeqLen DEF Range
<1> HIDE DEF t
<1>3. NoRepeat(t)
  BY <1>1, <1>2 DEF NoRepeat
<1> QED
  BY <1>3 DEF t

\* What a crash leaves of a file is the first part of it, and all of a file
\* that is on the disk.
LEMMA PrefixHolds ==
    ASSUME NEW S, NEW s \in Seq(S), NEW n \in Nat, n <= Len(s)
    PROVE  /\ SubSeq(s, 1, n) \in Seq(S)
           /\ Len(SubSeq(s, 1, n)) = n
           /\ Range(SubSeq(s, 1, n)) \subseteq Range(s)
           /\ n = Len(s) => SubSeq(s, 1, n) = s
<1> DEFINE t == SubSeq(s, 1, n)
<1>1. Len(s) \in Nat /\ DOMAIN s = 1..Len(s) /\ \A i \in 1..n : s[i] \in S
  BY SeqLen
<1>2. /\ t \in Seq(S) /\ Len(t) = n
      /\ \A i \in 1..n : t[i] = s[i]
  BY <1>1, SeqPrefix
<1>3. DOMAIN t = 1..n
  BY <1>2, SeqLen
<1> HIDE DEF t
<1>4. Range(t) \subseteq Range(s)
  BY <1>1, <1>2, <1>3 DEF Range
<1>5. n = Len(s) => t = s
  BY <1>1, <1>2, SeqSame
<1> QED
  BY <1>2, <1>4, <1>5 DEF t

-----------------------------------------------------------------------------
(* The inductive invariant *)

\* No file has the number that nextFile has when there is none.
LEMMA NoFile == 0 \notin File
  BY DEF File

LEMMA PathParts ==
    ASSUME NEW p \in Path
    PROVE  p[1] \in File /\ p[2] \in {"prog", "capture"}
  BY DEF Path

\* What the state of a goroutine that is uploading holds.
LEMMA UploadParts ==
    ASSUME NEW s \in UploadState, s.pc # "none"
    PROVE  /\ s.pc \in {"first", "firstSent", "read", "sent", "wait", "delete", "close"}
           /\ s.path \in Path /\ s.n \in Nat
  BY DEF UploadState, NoUpload

\* A path is its file and its extension.
LEMMA PathSame ==
    ASSUME NEW p \in Path, NEW q \in Path, p[1] = q[1], p[2] = q[2]
    PROVE  p = q
<1> DEFINE ext == {"prog", "capture"}
<1>1. p \in File \X ext /\ q \in File \X ext
  BY DEF Path
<1> HIDE DEF ext
<1> QED
  BY <1>1

Held(f) == Range(data[f])
Full(f) == flushed[f] = Len(data[f])

\* How far Close has come: the queue stays open for goroutines that push to it,
\* write() drains it, and the buffer's file is flushed before it is renamed.
CloseInv ==
    /\ QueueIsOpen
    /\ collector = "running" => ~qclosed
    /\ collector = "none" => wpc = "done" /\ nextFile = 0
    /\ wpc = "done" => qclosed /\ queue = << >> /\ item = Nil
    /\ wpc = "rename" => nextFile # 0 /\ Full(nextFile)
    /\ svc = "config" => collector = "none"
    /\ svc = "rename" => wpc = "done" /\ nextFile # 0 /\ Full(nextFile)

\* Only the buffer's file has readings that are not on the disk.
FileInv ==
    /\ nextFile # 0 => name[nextFile] = "prog"
    /\ \A f \in File : flushed[f] <= Len(data[f])
    /\ \A f \in File : name[f] = "none" => data[f] = << >>
    /\ \A f \in File : f # nextFile => Full(f)

\* A reading is in one place at a time, and in one file.
PlaceInv ==
    /\ NoRepeat(queue)
    /\ item \notin pushing \union Range(queue) \union Written
    /\ pushing \intersect Range(queue) = {}
    /\ (pushing \union Range(queue)) \intersect Written = {}
    /\ \A f, g \in File : f # g => Held(f) \intersect Held(g) = {}

\* A reading that has been queued is still somewhere, and until the process
\* crashes no file but the buffer's is left unfinished with it.
AcceptInv ==
    /\ accepted \subseteq Range(queue) \union {item} \union Written
    /\ pushing \intersect accepted = {}
    /\ crashes = 0 => \A f \in File :
          name[f] = "prog" /\ f # nextFile => Held(f) \intersect accepted = {}

\* A goroutine of the syncer has its path to itself, the path of a complete file
\* that stays as it is until the goroutine deletes or closes it.
UploadOK(u) ==
    /\ up[u].path \in marked
    /\ name[up[u].path[1]] = up[u].path[2]
    /\ up[u].path[1] # nextFile
    /\ up[u].n = IF up[u].pc = "first" THEN 0 ELSE Len(data[up[u].path[1]])
    /\ up[u].pc = "delete" => \A r \in Held(up[u].path[1]) : cloud[r] > 0
SyncInv ==
    /\ \A p \in listed : name[p[1]] # "none" /\ p[1] # nextFile
    /\ \A u \in Uploader : up[u].pc # "none" => UploadOK(u)
    /\ \A u, v \in Uploader : up[u].pc # "none" /\ up[u].path = up[v].path => u = v

\* A reading arrives when its file has been uploaded, and no earlier.
Finished(f) ==
    \/ name[f] = "gone"
    \/ \E u \in Uploader : up[u].pc = "delete" /\ up[u].path[1] = f
CloudInv ==
    /\ NothingIsLost
    /\ \A r \in Reading : cloud[r] > 0 /\ r \notin unsure =>
          \E f \in File : r \in Held(f) /\ Finished(f)
    /\ UploadedOnce

IInv ==
    TypeOK /\ CloseInv /\ FileInv /\ PlaceInv /\ AcceptInv /\ SyncInv /\ CloudInv

-----------------------------------------------------------------------------
(* What an action leaves alone *)

LEMMA CloseFrame ==
    ASSUME CloseInv,
           UNCHANGED <<collector, pushing, queue, qclosed, item, wpc, nextFile, data, flushed, svc>>
    PROVE  CloseInv'
  BY DEF CloseInv, QueueIsOpen, Full

LEMMA FileFrame ==
    ASSUME FileInv, UNCHANGED <<nextFile, name, data, flushed>>
    PROVE  FileInv'
  BY DEF FileInv, Full

LEMMA PlaceFrame ==
    ASSUME PlaceInv, UNCHANGED <<pushing, queue, item, data>>
    PROVE  PlaceInv'
  BY DEF PlaceInv, Held, Written

LEMMA AcceptFrame ==
    ASSUME AcceptInv,
           UNCHANGED <<pushing, queue, item, nextFile, name, data, accepted, crashes>>
    PROVE  AcceptInv'
  BY DEF AcceptInv, Held, Written

LEMMA SyncFrame ==
    ASSUME SyncInv, UNCHANGED <<nextFile, name, data, listed, marked, up, cloud>>
    PROVE  SyncInv'
  BY DEF SyncInv, UploadOK, Held

LEMMA CloudFrame ==
    ASSUME CloudInv, UNCHANGED <<name, data, up, cloud, unsure>>
    PROVE  CloudInv'
  BY DEF CloudInv, NothingIsLost, UploadedOnce, Finished, Held

-----------------------------------------------------------------------------
(* The invariant holds at the start, *)

LEMMA InitIInv == Init => IInv
<1> SUFFICES ASSUME Init PROVE IInv
  OBVIOUS
<1>1. PICK l \in Leftover :
        /\ name = [f \in File |-> IF f = 1 THEN l[1] ELSE "none"]
        /\ data = [f \in File |-> IF f = 1 THEN l[2] ELSE << >>]
  BY DEF Init
<1>2. l[1] \in {"prog", "capture", "none"} /\ l[2] \in Seq(Reading)
      /\ (l[1] = "none" => l[2] = << >>)
  <2>1. CASE l = <<"none", << >>>>
    BY <2>1
  <2>2. CASE l \in {"prog", "capture"} \X {<<r>> : r \in Reading}
    BY <2>2
  <2> QED
    BY <2>1, <2>2 DEF Leftover
<1>3. /\ name \in [File -> {"none", "prog", "capture", "gone"}]
      /\ data \in [File -> Seq(Reading)]
      /\ \A f \in File : name[f] # "gone" /\ (name[f] = "none" => data[f] = << >>)
  BY <1>1, <1>2
<1>4. /\ flushed \in [File -> Nat]
      /\ \A f \in File : Full(f) /\ flushed[f] <= Len(data[f])
  <2>1. \A f \in File : Len(data[f]) \in Nat
    BY <1>3, SeqLen
  <2> QED
    BY <2>1 DEF Init, Full
<1>5. \A u \in Uploader : up[u].pc = "none"
  BY DEF Init, NoUpload
<1>6. TypeOK
  <2>1. queue \in Seq(Reading) /\ Len(queue) <= QueueSize
    BY ConstantsOK DEF Init
  <2>2. up \in [Uploader -> UploadState] /\ cloud \in [Reading -> 0..2] /\ crashes \in 0..MaxCrash
    BY ConstantsOK DEF Init, UploadState
  <2> QED
    BY <1>3, <1>4, <2>1, <2>2, Zenon DEF Init, TypeOK
<1>7. CloseInv
  BY DEF Init, CloseInv, QueueIsOpen
<1>8. FileInv
  BY <1>3, <1>4 DEF Init, FileInv
<1>9. PlaceInv
  <2>1. \A f, g \in File : f # g => Held(f) \intersect Held(g) = {}
    <3>1. \A f \in File : f # 1 => Held(f) = {}
      BY <1>1, RangeEmpty DEF Held
    <3> QED
      BY <3>1
  <2>2. Range(queue) = {} /\ NoRepeat(queue)
    <3>1. queue = << >> /\ Len(<< >>) = 0
      BY DEF Init
    <3> QED
      BY <3>1, RangeEmpty DEF NoRepeat
  <2>3. item \notin Written
    <3>1. \A f \in File : Range(data[f]) \subseteq Reading
      BY <1>3, RangeType
    <3> QED
      BY <3>1, ConstantsOK DEF Init, Written
  <2> QED
    BY <2>1, <2>2, <2>3 DEF Init, PlaceInv
<1>10. AcceptInv
  BY DEF Init, AcceptInv
<1>11. SyncInv
  BY <1>5 DEF Init, SyncInv
<1>12. CloudInv
  BY <1>3 DEF Init, CloudInv, NothingIsLost, UploadedOnce
<1> QED
  BY <1>6, <1>7, <1>8, <1>9, <1>10, <1>11, <1>12 DEF IInv

-----------------------------------------------------------------------------
(* and the collector keeps it: *)

LEMMA CaptureStep ==
    ASSUME IInv, NEW r \in Reading, Capture(r)
    PROVE  IInv'
<1>1. TypeOK'
  BY DEF IInv, TypeOK, Capture, writing, files, syncing, outside
<1>2. CloseInv'
  BY DEF IInv, CloseInv, QueueIsOpen, Full, Capture, writing, files, syncing, outside
<1>3. FileInv' /\ SyncInv' /\ CloudInv'
  BY FileFrame, SyncFrame, CloudFrame DEF IInv, Capture, writing, files, syncing, outside
<1>4. PlaceInv'
  BY DEF IInv, PlaceInv, Capture, Fresh, Written, Held, writing, files
<1>5. AcceptInv'
  BY DEF IInv, AcceptInv, Capture, Fresh, Written, Held, writing, files, outside
<1> QED
  BY <1>1, <1>2, <1>3, <1>4, <1>5 DEF IInv

LEMMA PushStep ==
    ASSUME IInv, NEW r \in Reading, Push(r)
    PROVE  IInv'
<1>1. queue \in Seq(Reading) /\ Len(queue) < QueueSize /\ queue' = Append(queue, r)
  BY DEF IInv, TypeOK, Push
<1>2. /\ queue' \in Seq(Reading) /\ queue' # << >>
      /\ Len(queue') <= QueueSize
      /\ Range(queue') = Range(queue) \union {r}
  BY <1>1, SeqAppend, RangeAppend, ConstantsOK, SeqLen
<1>3. TypeOK'
  BY <1>2 DEF IInv, TypeOK, Push, writing, files, syncing, outside
<1>4. CloseInv'
  BY DEF IInv, CloseInv, QueueIsOpen, Full, Push, writing, files, syncing, outside
<1>5. FileInv' /\ SyncInv' /\ CloudInv'
  BY FileFrame, SyncFrame, CloudFrame DEF IInv, Push, writing, files, syncing, outside
<1>6. PlaceInv'
  <2>1. NoRepeat(queue')
    BY <1>1, NoRepeatAppend DEF IInv, PlaceInv, Push
  <2>2. UNCHANGED <<item, data>> /\ pushing' = pushing \ {r} /\ r \in pushing
    BY DEF Push, writing, files
  <2> QED
    BY <1>2, <2>1, <2>2 DEF IInv, PlaceInv, Written, Held
<1>7. AcceptInv'
  <2>1. /\ UNCHANGED <<item, data, name, nextFile, crashes>> /\ pushing' = pushing \ {r}
        /\ r \in pushing /\ accepted' = accepted \union {r}
    BY DEF Push, writing, files, outside
  <2> QED
    BY <1>2, <2>1 DEF IInv, AcceptInv, PlaceInv, Written, Held
<1> QED
  BY <1>3, <1>4, <1>5, <1>6, <1>7 DEF IInv

LEMMA DropStep ==
    ASSUME IInv, NEW r \in Reading, Drop(r)
    PROVE  IInv'
<1>1. TypeOK'
  BY DEF IInv, TypeOK, Drop, writing, files, syncing, outside
<1>2. CloseInv'
  BY DEF IInv, CloseInv, QueueIsOpen, Full, Drop, writing, files, syncing, outside
<1>3. FileInv' /\ SyncInv' /\ CloudInv'
  BY FileFrame, SyncFrame, CloudFrame DEF IInv, Drop, writing, files, syncing, outside
<1>4. PlaceInv'
  BY DEF IInv, PlaceInv, Drop, Written, Held, writing, files
<1>5. AcceptInv'
  BY DEF IInv, AcceptInv, Drop, Written, Held, writing, files, outside
<1> QED
  BY <1>1, <1>2, <1>3, <1>4, <1>5 DEF IInv

LEMMA CloseQueueStep ==
    ASSUME IInv, CloseQueue
    PROVE  IInv'
<1>1. TypeOK'
  BY DEF IInv, TypeOK, CloseQueue, writing, files, syncing, outside
<1>2. CloseInv'
  BY DEF IInv, CloseInv, QueueIsOpen, Full, CloseQueue, Canceled, writing, files
<1>3. FileInv' /\ PlaceInv' /\ AcceptInv' /\ SyncInv' /\ CloudInv'
  BY FileFrame, PlaceFrame, AcceptFrame, SyncFrame, CloudFrame
     DEF IInv, CloseQueue, writing, files, syncing, outside
<1> QED
  BY <1>1, <1>2, <1>3 DEF IInv

LEMMA ReceiveStep ==
    ASSUME IInv, Receive
    PROVE  IInv'
<1>1. queue \in Seq(Reading) /\ queue # << >> /\ Len(queue) <= QueueSize
  BY DEF IInv, TypeOK, Receive
<1>2. /\ Head(queue) \in Reading /\ Tail(queue) \in Seq(Reading)
      /\ Len(Tail(queue)) <= QueueSize
  BY <1>1, SeqHeadTail, SeqLen, ConstantsOK
<1>3. Range(queue) = Range(queue') \union {item'}
  BY <1>1, RangeHeadTail DEF Receive
<1>4. NoRepeat(queue') /\ item' \notin Range(queue')
  BY <1>1, NoRepeatTail DEF Receive, IInv, PlaceInv
<1>5. /\ item = Nil /\ wpc = "write"
      /\ UNCHANGED <<collector, pushing, qclosed, wpc, nextFile, name, data, flushed, svc,
                     syncer, scheduled, listed, marked, up, cloud, unsure, accepted, crashes>>
  BY DEF Receive, files, syncing, outside
<1>6. TypeOK'
  BY <1>2, <1>5 DEF IInv, TypeOK, Receive
<1>7. CloseInv'
  BY <1>5 DEF IInv, CloseInv, QueueIsOpen, Full
<1>8. FileInv' /\ SyncInv' /\ CloudInv'
  BY <1>5, FileFrame, SyncFrame, CloudFrame DEF IInv
<1>9. PlaceInv'
  BY <1>3, <1>4, <1>5 DEF IInv, PlaceInv, Written, Held
<1>10. AcceptInv'
  BY <1>3, <1>5, ConstantsOK, ZenonT(30) DEF IInv, TypeOK, AcceptInv, Written, Held
<1> QED
  BY <1>6, <1>7, <1>8, <1>9, <1>10 DEF IInv

LEMMA WriterDoneStep ==
    ASSUME IInv, WriterDone
    PROVE  IInv'
<1>1. TypeOK'
  BY DEF IInv, TypeOK, WriterDone, capture, files, syncing, outside
<1>2. CloseInv'
  BY DEF IInv, CloseInv, QueueIsOpen, Full, WriterDone, capture, files
<1>3. FileInv' /\ PlaceInv' /\ AcceptInv' /\ SyncInv' /\ CloudInv'
  BY FileFrame, PlaceFrame, AcceptFrame, SyncFrame, CloudFrame
     DEF IInv, WriterDone, capture, files, syncing, outside
<1> QED
  BY <1>1, <1>2, <1>3 DEF IInv

-----------------------------------------------------------------------------
(* write() and the buffer keep it: *)

\* The reading that write() holds moves to a new file or to the buffer's one.
LEMMA ReadingWritten ==
    ASSUME IInv, item # Nil, NEW f \in File, NEW e \in {"prog", "capture"},
           name[f] = "none" \/ f = nextFile,
           name' = [name EXCEPT ![f] = e],
           nextFile' = IF e = "prog" THEN f ELSE nextFile,
           e = "prog" => nextFile \in {0, f},
           e = "capture" => name[f] = "none",
           Range(data'[f]) = Range(data[f]) \union {item},
           \A g \in File : g # f => data'[g] = data[g],
           item' = Nil,
           UNCHANGED <<pushing, queue, accepted, crashes, listed, marked, up, cloud, unsure>>
    PROVE  PlaceInv' /\ AcceptInv' /\ SyncInv' /\ CloudInv'
<1>1. Written' = Written \union {item}
  BY DEF Written
<1>2. item \in Reading /\ Nil \notin Reading /\ name \in [File -> {"none", "prog", "capture", "gone"}]
  BY ConstantsOK DEF IInv, TypeOK
<1>3. \A g \in File : name'[g] = IF g = f THEN e ELSE name[g]
  BY <1>2
<1>4. \A g \in File : Held(g)' = IF g = f THEN Held(g) \union {item} ELSE Held(g)
  BY Zenon DEF Held
<1>5. nextFile # 0 => name[nextFile] = "prog"
  BY DEF IInv, FileInv
<1>6. pushing \union Range(queue) \union Written \subseteq Reading
  <2>1. Range(queue) \subseteq Reading /\ \A g \in File : Range(data[g]) \subseteq Reading
    BY RangeType DEF IInv, TypeOK
  <2> QED
    BY <2>1 DEF IInv, TypeOK, Written
<1>7. PlaceInv'
  <2>1. item' \notin pushing' \union Range(queue)' \union Written'
    BY <1>1, <1>2, <1>6
  <2>2. (pushing' \union Range(queue)') \intersect Written' = {}
    BY <1>1 DEF IInv, PlaceInv
  <2>3. \A g, h \in File : g # h => Held(g)' \intersect Held(h)' = {}
    <3>1. \A g \in File : item \notin Held(g)
      BY DEF IInv, PlaceInv, Held, Written
    <3> QED
      BY <1>4, <3>1 DEF IInv, PlaceInv
  <2> QED
    BY <2>1, <2>2, <2>3 DEF IInv, PlaceInv
<1>8. AcceptInv'
  <2>1. accepted' \subseteq Range(queue)' \union {item'} \union Written'
    BY <1>1 DEF IInv, AcceptInv
  <2>2. ASSUME crashes' = 0, NEW g \in File, name'[g] = "prog", g # nextFile'
        PROVE  Held(g)' \intersect accepted' = {}
    BY <1>3, <1>4, <1>5, <2>2, NoFile DEF IInv, AcceptInv
  <2> QED
    BY <2>1, <2>2 DEF IInv, AcceptInv
<1>9. SyncInv'
  <2>1. \A p \in listed : p[1] \in File
    BY DEF IInv, TypeOK, Path
  <2>2. ASSUME NEW p \in listed PROVE name'[p[1]] # "none" /\ p[1] # nextFile'
    BY <1>3, <2>1 DEF IInv, SyncInv
  <2>3. ASSUME NEW u \in Uploader, up[u].pc # "none" PROVE UploadOK(u)'
    <3>1. up[u] \in UploadState /\ UploadOK(u)
      BY <2>3 DEF IInv, TypeOK, SyncInv
    <3>2. up[u].path[1] \in File /\ up[u].path[2] \in {"prog", "capture"}
      BY <2>3, <3>1, UploadParts, PathParts, Zenon
    <3>3. up[u].path[1] # f
      BY <3>1, <3>2 DEF UploadOK
    <3> QED
      BY <1>3, <1>4, <3>1, <3>2, <3>3 DEF UploadOK
  <2> QED
    BY <2>2, <2>3 DEF IInv, SyncInv
<1>10. CloudInv'
  <2>1. \A g \in File : Finished(g) => Finished(g)'
    BY <1>3, <1>5, NoFile DEF Finished
  <2>2. NothingIsLost'
    BY <1>3, <1>4 DEF IInv, CloudInv, NothingIsLost, Held
  <2> QED
    BY <1>4, <2>1, <2>2 DEF IInv, CloudInv, UploadedOnce
<1> QED
  BY <1>7, <1>8, <1>9, <1>10

LEMMA WriteBinaryStep ==
    ASSUME IInv, WriteBinary
    PROVE  IInv'
<1>1. PICK f \in Unused : /\ name' = [name EXCEPT ![f] = "capture"]
                          /\ data' = [data EXCEPT ![f] = <<item>>]
                          /\ flushed' = [flushed EXCEPT ![f] = 1]
  BY Zenon DEF WriteBinary
<1>2. f \in File /\ name[f] = "none" /\ data[f] = << >>
  BY DEF Unused, IInv, FileInv
<1>3. /\ wpc = "write" /\ item # Nil /\ item \in Reading /\ item' = Nil
      /\ UNCHANGED <<collector, pushing, queue, qclosed, wpc, nextFile, svc, syncer, scheduled,
                     listed, marked, up, cloud, unsure, accepted, crashes>>
  BY DEF IInv, TypeOK, WriteBinary, capture, syncing, outside
<1>4. /\ name \in [File -> {"none", "prog", "capture", "gone"}]
      /\ data \in [File -> Seq(Reading)] /\ flushed \in [File -> Nat]
  BY DEF IInv, TypeOK
<1>5. <<item>> \in Seq(Reading) /\ Len(<<item>>) = 1
  BY <1>3
<1>6. TypeOK'
  BY <1>1, <1>2, <1>3, <1>4, <1>5 DEF IInv, TypeOK
<1>7. nextFile # f
  BY <1>2, NoFile DEF IInv, FileInv
<1>8. CloseInv'
  BY <1>1, <1>3, <1>4, <1>7 DEF IInv, CloseInv, QueueIsOpen, Full
<1>9. FileInv'
  <2>1. Full(f)' /\ flushed'[f] <= Len(data'[f])
    BY <1>1, <1>2, <1>4, <1>5 DEF Full
  <2>2. \A g \in File : g # f => name'[g] = name[g] /\ data'[g] = data[g] /\ flushed'[g] = flushed[g]
    BY <1>1, <1>4
  <2>3. name'[f] = "capture"
    BY <1>1, <1>2, <1>4
  <2>4. nextFile \in File \union {0}
    BY DEF IInv, TypeOK
  <2> QED
    BY <1>3, <1>7, <2>1, <2>2, <2>3, <2>4 DEF IInv, FileInv, Full
<1>10. Range(data'[f]) = Range(data[f]) \union {item}
  BY <1>1, <1>2, <1>4, RangeEmpty, RangeOne
<1>11. \A g \in File : g # f => data'[g] = data[g]
  BY <1>1, <1>4
<1>12. PlaceInv' /\ AcceptInv' /\ SyncInv' /\ CloudInv'
  BY Zenon, <1>1, <1>2, <1>3, <1>10, <1>11, ReadingWritten
<1> QED
  BY <1>6, <1>8, <1>9, <1>12 DEF IInv

LEMMA WriteTabularStep ==
    ASSUME IInv, WriteTabular
    PROVE  IInv'
<1>1. /\ name \in [File -> {"none", "prog", "capture", "gone"}]
      /\ data \in [File -> Seq(Reading)] /\ flushed \in [File -> Nat]
      /\ nextFile \in File \union {0} /\ item \in Reading
  BY DEF IInv, TypeOK, WriteTabular
<1>2. PICK f \in File : /\ name[f] = "none" \/ f = nextFile
                        /\ nextFile \in {0, f}
                        /\ name' = [name EXCEPT ![f] = "prog"]
                        /\ WriteNext(f)
  <2>1. CASE nextFile = 0
    BY <2>1 DEF WriteTabular, Unused
  <2>2. CASE nextFile # 0
    <3>1. name[nextFile] = "prog" /\ nextFile \in File /\ WriteNext(nextFile) /\ name' = name
      BY <1>1, <2>2 DEF IInv, FileInv, WriteTabular
    <3>2. name = [name EXCEPT ![nextFile] = "prog"]
      BY <1>1, <3>1
    <3> QED
      BY <3>1, <3>2
  <2> QED
    BY <2>1, <2>2
<1>3. /\ wpc \in {"write", "new"} /\ wpc' = "write" /\ item # Nil /\ item' = Nil /\ nextFile' = f
      /\ UNCHANGED <<collector, pushing, queue, qclosed, svc, syncer, scheduled,
                     listed, marked, up, cloud, unsure, accepted, crashes>>
  BY <1>2 DEF WriteTabular, WriteNext, capture, syncing, outside
<1> DEFINE d == Append(data[f], item)
<1>4. /\ d \in Seq(Reading) /\ Len(d) = Len(data[f]) + 1 /\ Len(data[f]) \in Nat
      /\ Range(d) = Range(data[f]) \union {item}
  BY <1>1, SeqAppend, RangeAppend, SeqLen
<1>5. data' = [data EXCEPT ![f] = d]
  BY <1>2 DEF WriteNext
<1>6. PICK n \in flushed[f]..Len(d) : flushed' = [flushed EXCEPT ![f] = n]
  BY <1>2, Zenon DEF WriteNext
<1> HIDE DEF d
<1>7. n \in Nat /\ n <= Len(d)
  BY <1>1, <1>4, <1>6
<1>8. TypeOK'
  BY <1>1, <1>2, <1>3, <1>4, <1>5, <1>6, <1>7 DEF IInv, TypeOK
<1>9. CloseInv'
  BY <1>3 DEF IInv, CloseInv, QueueIsOpen
<1>10. FileInv'
  <2>1. flushed'[f] <= Len(data'[f]) /\ name'[f] = "prog"
    BY <1>1, <1>2, <1>5, <1>6, <1>7
  <2>2. \A g \in File : g # f => name'[g] = name[g] /\ data'[g] = data[g] /\ flushed'[g] = flushed[g]
    BY <1>1, <1>2, <1>5, <1>6
  <2> QED
    BY <1>2, <1>3, <2>1, <2>2, NoFile DEF IInv, FileInv, Full
<1>11. Range(data'[f]) = Range(data[f]) \union {item}
  BY <1>1, <1>4, <1>5
<1>12. \A g \in File : g # f => data'[g] = data[g]
  BY <1>1, <1>5
<1>13. PlaceInv' /\ AcceptInv' /\ SyncInv' /\ CloudInv'
  BY Zenon, <1>2, <1>3, <1>11, <1>12, ReadingWritten
<1> QED
  BY <1>8, <1>9, <1>10, <1>13 DEF IInv

LEMMA RotateStep ==
    ASSUME IInv, Rotate
    PROVE  IInv'
<1>1. /\ wpc = "write" /\ wpc' = "rename" /\ nextFile # 0
      /\ flushed' = [flushed EXCEPT ![nextFile] = Len(data[nextFile])]
      /\ UNCHANGED <<collector, pushing, queue, qclosed, item, nextFile, name, data, svc, syncer,
                     scheduled, listed, marked, up, cloud, unsure, accepted, crashes>>
  BY DEF Rotate, capture, syncing, outside
<1>2. nextFile \in File /\ flushed \in [File -> Nat] /\ Len(data[nextFile]) \in Nat
  BY <1>1, SeqLen DEF IInv, TypeOK
<1>3. TypeOK'
  BY <1>1, <1>2 DEF IInv, TypeOK
<1>4. /\ flushed'[nextFile] = Len(data[nextFile])
      /\ \A g \in File : g # nextFile => flushed'[g] = flushed[g]
  BY <1>1, <1>2, Zenon
<1>5. CloseInv'
  BY <1>1, <1>2, <1>4 DEF IInv, CloseInv, QueueIsOpen, Full
<1>6. FileInv'
  <2>1. \A g \in File : flushed'[g] <= Len(data[g])
    BY <1>2, <1>4 DEF IInv, FileInv
  <2>2. \A g \in File : g # nextFile => Full(g)'
    BY <1>1, <1>4, Zenon DEF IInv, FileInv, Full
  <2> QED
    BY <1>1, <2>1, <2>2, Zenon DEF IInv, FileInv
<1>7. PlaceInv' /\ AcceptInv' /\ SyncInv' /\ CloudInv'
  BY <1>1, PlaceFrame, AcceptFrame, SyncFrame, CloudFrame DEF IInv
<1> QED
  BY <1>3, <1>5, <1>6, <1>7 DEF IInv

\* The buffer's file, flushed, gets the name of a complete one.
LEMMA FileCompleted ==
    ASSUME IInv, nextFile # 0, Full(nextFile),
           name' = [name EXCEPT ![nextFile] = "capture"], nextFile' = 0,
           UNCHANGED <<pushing, queue, item, data, flushed, accepted, crashes,
                       listed, marked, up, cloud, unsure>>
    PROVE  FileInv' /\ PlaceInv' /\ AcceptInv' /\ SyncInv' /\ CloudInv'
<1>1. /\ nextFile \in File /\ name[nextFile] = "prog"
      /\ name \in [File -> {"none", "prog", "capture", "gone"}]
  BY DEF IInv, TypeOK, FileInv
<1>2. \A g \in File : name'[g] = IF g = nextFile THEN "capture" ELSE name[g]
  BY <1>1
<1>3. \A g \in File : Held(g)' = Held(g) /\ (Full(g) <=> Full(g)')
  BY DEF Held, Full
<1>4. FileInv'
  BY <1>1, <1>2, <1>3, NoFile DEF IInv, FileInv
<1>5. PlaceInv'
  BY PlaceFrame DEF IInv
<1>6. AcceptInv'
  BY <1>2, <1>3 DEF IInv, AcceptInv, Written
<1>7. SyncInv'
  <2>1. \A p \in listed : p[1] \in File
    BY DEF IInv, TypeOK, Path
  <2>2. ASSUME NEW p \in listed PROVE name'[p[1]] # "none" /\ p[1] # nextFile'
    BY <1>2, <2>1, NoFile DEF IInv, SyncInv
  <2>3. ASSUME NEW u \in Uploader, up[u].pc # "none" PROVE UploadOK(u)'
    <3>1. up[u].path \in Path /\ UploadOK(u)
      BY <2>3 DEF IInv, TypeOK, UploadState, NoUpload, SyncInv
    <3>2. up[u].path[1] \in File /\ up[u].path[1] # nextFile
      BY <3>1 DEF Path, UploadOK
    <3> QED
      BY <1>2, <1>3, <3>1, <3>2, NoFile DEF UploadOK
  <2> QED
    BY <2>2, <2>3 DEF IInv, SyncInv
<1>8. CloudInv'
  <2>1. \A g \in File : Finished(g) => Finished(g)'
    BY <1>1, <1>2 DEF Finished
  <2>2. NothingIsLost'
    BY <1>2 DEF IInv, CloudInv, NothingIsLost
  <2> QED
    BY <1>3, <2>1, <2>2 DEF IInv, CloudInv, UploadedOnce
<1> QED
  BY <1>4, <1>5, <1>6, <1>7, <1>8

LEMMA RotateRenameStep ==
    ASSUME IInv, RotateRename
    PROVE  IInv'
<1>1. wpc = "rename" /\ nextFile # 0 /\ Full(nextFile)
  BY DEF RotateRename, IInv, CloseInv
<1>2. name[nextFile] = "prog" /\ nextFile \in File
  BY <1>1 DEF IInv, FileInv, TypeOK
<1>3. /\ name' = [name EXCEPT ![nextFile] = "capture"] /\ nextFile' = 0 /\ wpc' = "new"
      /\ UNCHANGED <<collector, pushing, queue, qclosed, item, data, flushed, svc, syncer,
                     scheduled, listed, marked, up, cloud, unsure, accepted, crashes>>
  BY <1>2 DEF RotateRename, capture, syncing, outside
<1>4. TypeOK'
  BY <1>3, ZenonT(30) DEF IInv, TypeOK
<1>5. CloseInv'
  BY <1>1, <1>3 DEF IInv, CloseInv, QueueIsOpen
<1>6. FileInv' /\ PlaceInv' /\ AcceptInv' /\ SyncInv' /\ CloudInv'
  BY <1>1, <1>3, FileCompleted
<1> QED
  BY <1>4, <1>5, <1>6 DEF IInv

-----------------------------------------------------------------------------
(* Update and Close keep it: *)

LEMMA UpdateStep ==
    ASSUME IInv, Update
    PROVE  IInv'
<1>1. /\ svc = "idle" /\ svc' \in {"config", "wait"}
      /\ IF collector = "none" THEN svc' = "config" /\ collector' = "none"
                               ELSE svc' = "wait" /\ collector' = "canceled"
      /\ UNCHANGED <<pushing, queue, qclosed, item, wpc, nextFile, name, data, flushed, syncer,
                     scheduled, listed, marked, up, cloud, unsure, accepted, crashes>>
  BY DEF Update, writing, files, syncing, outside
<1>2. TypeOK'
  BY <1>1 DEF IInv, TypeOK
<1>3. CloseInv'
  BY <1>1 DEF IInv, CloseInv, QueueIsOpen, Full
<1>4. FileInv' /\ PlaceInv' /\ AcceptInv' /\ SyncInv' /\ CloudInv'
  BY <1>1, FileFrame, PlaceFrame, AcceptFrame, SyncFrame, CloudFrame DEF IInv
<1> QED
  BY <1>2, <1>3, <1>4 DEF IInv

LEMMA CloseFlushStep ==
    ASSUME IInv, CloseFlush
    PROVE  IInv'
<1>1. /\ svc = "wait" /\ wpc = "done"
      /\ UNCHANGED <<pushing, queue, qclosed, item, wpc, nextFile, name, data, syncer,
                     scheduled, listed, marked, up, cloud, unsure, accepted, crashes>>
  BY DEF CloseFlush, writing, syncing, outside
<1>2. PlaceInv' /\ AcceptInv' /\ SyncInv' /\ CloudInv'
  BY <1>1, PlaceFrame, AcceptFrame, SyncFrame, CloudFrame DEF IInv
<1>3. CASE nextFile = 0
  <2>1. svc' = "config" /\ collector' = "none" /\ flushed' = flushed
    BY <1>3 DEF CloseFlush
  <2>2. TypeOK'
    BY <1>1, <2>1 DEF IInv, TypeOK
  <2>3. CloseInv'
    BY <1>1, <1>3, <2>1 DEF IInv, CloseInv, QueueIsOpen
  <2>4. FileInv'
    BY <1>1, <2>1, FileFrame DEF IInv
  <2> QED
    BY <1>2, <2>2, <2>3, <2>4 DEF IInv
<1>4. CASE nextFile # 0
  <2>1. /\ flushed' = [flushed EXCEPT ![nextFile] = Len(data[nextFile])]
        /\ svc' = "rename" /\ collector' = collector
    BY <1>4 DEF CloseFlush
  <2>2. nextFile \in File /\ flushed \in [File -> Nat] /\ Len(data[nextFile]) \in Nat
    BY <1>4, SeqLen DEF IInv, TypeOK
  <2>3. TypeOK'
    BY <1>1, <2>1, <2>2 DEF IInv, TypeOK
  <2>4. CloseInv'
    BY <1>1, <1>4, <2>1, <2>2 DEF IInv, CloseInv, QueueIsOpen, Full
  <2>5. FileInv'
    BY <1>1, <2>1, <2>2 DEF IInv, FileInv, Full
  <2> QED
    BY <1>2, <2>3, <2>4, <2>5 DEF IInv
<1> QED
  BY <1>3, <1>4

LEMMA CloseRenameStep ==
    ASSUME IInv, CloseRename
    PROVE  IInv'
<1>1. svc = "rename" /\ wpc = "done" /\ nextFile # 0 /\ Full(nextFile)
  BY DEF CloseRename, IInv, CloseInv
<1>2. name[nextFile] = "prog"
  BY <1>1 DEF IInv, FileInv
<1>3. /\ name' = [name EXCEPT ![nextFile] = "capture"] /\ nextFile' = 0
      /\ collector' = "none" /\ svc' = "config"
      /\ UNCHANGED <<pushing, queue, qclosed, item, wpc, data, flushed, syncer,
                     scheduled, listed, marked, up, cloud, unsure, accepted, crashes>>
  BY <1>2 DEF CloseRename, syncing, outside
<1>4. TypeOK'
  BY <1>3, Zenon DEF IInv, TypeOK
<1>5. CloseInv'
  BY <1>1, <1>3 DEF IInv, CloseInv, QueueIsOpen
<1>6. FileInv' /\ PlaceInv' /\ AcceptInv' /\ SyncInv' /\ CloudInv'
  BY <1>1, <1>3, FileCompleted
<1> QED
  BY <1>4, <1>5, <1>6 DEF IInv

LEMMA ConfigureStep ==
    ASSUME IInv, NEW on \in BOOLEAN, NEW sync \in SyncConfig, Configure(on, sync)
    PROVE  IInv'
<1>1. /\ collector = "none" /\ wpc = "done" /\ queue = << >> /\ pushing = {} /\ qclosed
      /\ nextFile = 0
  BY DEF Configure, IInv, CloseInv, QueueIsOpen
<1>2. /\ svc = "config" /\ svc' \in {"idle", "syncer"}
      /\ queue' = << >>
      /\ IF on THEN collector' = "running" /\ ~qclosed' /\ wpc' = "write"
               ELSE collector' = "none" /\ qclosed' /\ wpc' = "done"
      /\ UNCHANGED <<pushing, item, nextFile, name, data, flushed, listed, marked, up,
                     cloud, unsure, accepted, crashes>>
  BY <1>1, Zenon DEF Configure, files, outside
<1>3. TypeOK'
  <2>1. qclosed' \in BOOLEAN
    BY Zenon DEF IInv, TypeOK, Configure
  <2>2. scheduled' \in BOOLEAN
    BY Zenon DEF IInv, TypeOK, Configure
  <2>3. syncer' \in {"none", "running", "canceled"}
    BY DEF IInv, TypeOK, Configure
  <2>4. queue' = queue
    BY <1>1, <1>2
  <2> QED
    BY <1>2, <2>1, <2>2, <2>3, <2>4 DEF IInv, TypeOK
<1>4. CloseInv'
  BY <1>1, <1>2 DEF IInv, CloseInv, QueueIsOpen
<1>5. FileInv' /\ PlaceInv' /\ AcceptInv' /\ SyncInv' /\ CloudInv'
  BY <1>1, <1>2, FileFrame, PlaceFrame, AcceptFrame, SyncFrame, CloudFrame DEF IInv
<1> QED
  BY <1>3, <1>4, <1>5 DEF IInv

LEMMA SyncerClosedStep ==
    ASSUME IInv, SyncerClosed
    PROVE  IInv'
<1>1. /\ svc = "syncer" /\ svc' = "idle" /\ listed = {} /\ marked' = {} /\ syncer' = "none"
      /\ UNCHANGED <<collector, pushing, queue, qclosed, item, wpc, nextFile, name, data, flushed,
                     scheduled, listed, up, cloud, unsure, accepted, crashes>>
  BY DEF SyncerClosed, capture, writing, files, outside
<1>2. \A u \in Uploader : up[u].pc = "none"
  BY DEF SyncerClosed, NoUpload
<1>3. TypeOK'
  BY <1>1 DEF IInv, TypeOK
<1>4. CloseInv'
  BY <1>1 DEF IInv, CloseInv, QueueIsOpen, Full
<1>5. SyncInv'
  BY <1>1, <1>2 DEF SyncInv
<1>6. FileInv' /\ PlaceInv' /\ AcceptInv' /\ CloudInv'
  BY <1>1, FileFrame, PlaceFrame, AcceptFrame, CloudFrame DEF IInv
<1> QED
  BY <1>3, <1>4, <1>5, <1>6 DEF IInv

-----------------------------------------------------------------------------
(* and so does the syncer. *)

Active(u) == up[u].pc # "none"
ActiveState == UploadState \ {NoUpload}

\* Two goroutines of the syncer have different files open.
LEMMA UploadsApart ==
    ASSUME IInv
    PROVE  \A u, v \in Uploader :
              Active(u) /\ Active(v) /\ up[u].path[1] = up[v].path[1] => u = v
<1> SUFFICES ASSUME NEW u \in Uploader, NEW v \in Uploader, Active(u), Active(v),
                    up[u].path[1] = up[v].path[1]
             PROVE  u = v
  OBVIOUS
<1>1. up[u] \in UploadState /\ up[v] \in UploadState
  BY DEF IInv, TypeOK
<1>2. up[u].path \in Path /\ up[v].path \in Path
  BY <1>1, UploadParts, Zenon DEF Active
<1>3. up[u].path[2] = up[v].path[2]
  BY DEF Active, IInv, SyncInv, UploadOK
<1>4. up[u].path = up[v].path
  BY <1>2, <1>3, PathSame, Zenon
<1> QED
  BY <1>4 DEF Active, IInv, SyncInv

\* What a goroutine that has a file open relies on.
LEMMA ActiveUpload ==
    ASSUME IInv, NEW u \in Uploader, Active(u)
    PROVE  /\ UploadOK(u)
           /\ up[u].pc \in {"first", "firstSent", "read", "sent", "wait", "delete", "close"}
           /\ up[u].path \in Path /\ up[u].path[1] \in File
           /\ up[u].path[2] \in {"prog", "capture"}
           /\ up[u].n \in Nat
           /\ Full(up[u].path[1])
           /\ data[up[u].path[1]] \in Seq(Reading)
           /\ Len(data[up[u].path[1]]) \in Nat
<1>1. /\ up[u].pc \in {"first", "firstSent", "read", "sent", "wait", "delete", "close"}
      /\ up[u].path \in Path /\ up[u].n \in Nat
  <2>1. up[u] \in UploadState
    BY DEF IInv, TypeOK
  <2> QED
    BY <2>1, UploadParts, Zenon DEF Active
<1>2. up[u].path[1] \in File /\ up[u].path[2] \in {"prog", "capture"}
  BY <1>1, PathParts, Zenon
<1>3. UploadOK(u)
  BY DEF Active, IInv, SyncInv
<1>4. Full(up[u].path[1])
  BY <1>2, <1>3 DEF UploadOK, IInv, FileInv
<1>5. data[up[u].path[1]] \in Seq(Reading)
  BY <1>2 DEF IInv, TypeOK
<1> QED
  BY Zenon, <1>1, <1>2, <1>3, <1>4, <1>5, SeqLen

\* From its first read on, an upload is of the whole file.
LEMMA SentIsHeld ==
    ASSUME IInv, NEW u \in Uploader, Active(u), up[u].pc # "first"
    PROVE  Sent(u) = Held(up[u].path[1])
<1> DEFINE d == data[up[u].path[1]]
<1>1. d \in Seq(Reading) /\ Len(d) \in Nat /\ up[u].n = Len(d)
  BY ActiveUpload DEF UploadOK
<1> HIDE DEF d
<1>2. SubSeq(d, 1, up[u].n) = d
  BY <1>1, PrefixHolds
<1> QED
  BY <1>2, Zenon DEF Sent, Held, d

\* A goroutine that has not uploaded its file finds none of it in the cloud,
\* unless an earlier upload was interrupted.
LEMMA NotArrived ==
    ASSUME IInv, NEW u \in Uploader, Active(u), up[u].pc # "delete",
           NEW r \in Held(up[u].path[1]), r \in Reading, cloud[r] > 0
    PROVE  r \in unsure
<1> SUFFICES ASSUME r \notin unsure PROVE FALSE
  OBVIOUS
<1>1. PICK f \in File : r \in Held(f) /\ Finished(f)
  BY DEF IInv, CloudInv
<1>2. f = up[u].path[1] /\ name[f] # "gone"
  BY <1>1, ActiveUpload DEF IInv, PlaceInv, UploadOK
<1>3. PICK v \in Uploader : up[v].pc = "delete" /\ up[v].path[1] = f
  BY <1>1, <1>2 DEF Finished
<1> QED
  BY <1>2, <1>3, UploadsApart DEF Active

\* A goroutine goes on to another state with the same path.
LEMMA UploadMoves ==
    ASSUME IInv, NEW u \in Uploader, Active(u), up[u].pc # "delete",
           NEW new \in ActiveState, new.path = up[u].path, new.pc # "first",
           new.n = Len(data[up[u].path[1]]),
           up' = [up EXCEPT ![u] = new],
           new.pc = "delete" => \A r \in Held(up[u].path[1]) : cloud'[r] > 0,
           \A f \in File : \A r \in Held(f) : cloud[r] > 0 => cloud'[r] > 0,
           UNCHANGED <<nextFile, name, data, listed, marked>>
    PROVE  /\ up' \in [Uploader -> UploadState]
           /\ up'[u] = new
           /\ SyncInv'
           /\ \A f \in File : Finished(f) => Finished(f)'
<1>1. up \in [Uploader -> UploadState]
  BY DEF IInv, TypeOK
<1>2. up' \in [Uploader -> UploadState] /\ up'[u] = new
      /\ \A v \in Uploader : v # u => up'[v] = up[v]
  BY <1>1 DEF ActiveState
<1>3. \A f \in File : Finished(f) => Finished(f)'
  BY <1>2 DEF Finished
<1>4. ASSUME NEW v \in Uploader, up'[v].pc # "none" PROVE UploadOK(v)'
  <2>1. CASE v = u
    BY <1>2, <2>1, ActiveUpload DEF UploadOK, Held
  <2>2. CASE v # u
    <3>1. Active(v) /\ up'[v] = up[v]
      BY <1>2, <1>4, <2>2 DEF Active
    <3>2. UploadOK(v) /\ up[v].path[1] \in File
      BY <3>1, ActiveUpload
    <3> QED
      BY <3>1, <3>2 DEF UploadOK, Held
  <2> QED
    BY <2>1, <2>2
<1>5. ASSUME NEW v \in Uploader, NEW w \in Uploader, up'[v].pc # "none", up'[v].path = up'[w].path
      PROVE  v = w
  <2>1. Active(v) /\ up[v].path = up[w].path
    BY <1>2, <1>5 DEF Active
  <2> QED
    BY <2>1 DEF IInv, SyncInv, Active
<1>6. SyncInv'
  BY <1>4, <1>5 DEF IInv, SyncInv
<1> QED
  BY <1>2, <1>3, <1>6
==============================================================================
