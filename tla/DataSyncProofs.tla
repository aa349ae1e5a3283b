--------------------------- MODULE DataSyncProofs ---------------------------
(***************************************************************************)
(* Data capture and sync, continued: the steps of the syncer and its       *)
(* uploads, a crash, and what follows from the inductive invariant of      *)
(* DataCaptureProofs.                                                      *)
(***************************************************************************)
EXTENDS DataCaptureProofs

-----------------------------------------------------------------------------
(* The syncer *)

\* Without slow collectors the buffer's file is never listed.
LEMMA SyncDirectoryStep ==
    ASSUME IInv, ~SlowCollector, NEW old \in SUBSET Stale, SyncDirectory(old)
    PROVE  IInv'
<1>1. /\ svc = "idle" /\ syncer' = "running" /\ listed' = listed \union ListedPaths \union old
      /\ UNCHANGED <<collector, pushing, queue, qclosed, item, wpc, nextFile, name, data, flushed,
                     svc, scheduled, marked, up, cloud, unsure, accepted, crashes>>
  BY DEF SyncDirectory, capture, writing, files, outside
<1>2. \A p \in ListedPaths \union old :
         p \in Path /\ name[p[1]] # "none" /\ p[1] # nextFile
  <2>1. nextFile # 0 => name[nextFile] = "prog"
    BY DEF IInv, FileInv
  <2>2. ASSUME NEW p \in ListedPaths PROVE p \in Path /\ name[p[1]] = "capture" /\ p[1] \in File
    BY DEF ListedPaths, Path
  <2>3. ASSUME NEW p \in Stale
        PROVE  p \in Path /\ name[p[1]] = "prog" /\ p[1] # nextFile
    BY DEF Stale, Path
  <2> QED
    BY <2>1, <2>2, <2>3, NoFile
<1>3. TypeOK'
  BY <1>1, <1>2 DEF IInv, TypeOK
<1>4. SyncInv'
  BY <1>1, <1>2 DEF IInv, SyncInv, UploadOK, Held
<1>5. CloseInv' /\ FileInv' /\ PlaceInv' /\ AcceptInv' /\ CloudInv'
  BY <1>1, CloseFrame, FileFrame, PlaceFrame, AcceptFrame, CloudFrame DEF IInv
<1> QED
  BY <1>3, <1>4, <1>5 DEF IInv

LEMMA StartStep ==
    ASSUME IInv, NEW u \in Uploader, NEW p \in Path, Start(u, p)
    PROVE  IInv'
<1>1. /\ p \in listed /\ up[u] = NoUpload /\ listed' = listed \ {p}
      /\ UNCHANGED <<collector, pushing, queue, qclosed, item, wpc, nextFile, name, data, flushed,
                     svc, syncer, scheduled, cloud, unsure, accepted, crashes>>
  BY DEF Start, capture, writing, files, outside
<1>2. CloseInv' /\ FileInv' /\ PlaceInv' /\ AcceptInv'
  BY <1>1, CloseFrame, FileFrame, PlaceFrame, AcceptFrame DEF IInv
<1>3. CASE up' = up
  <2>1. marked' \in {marked, marked \union {p}}
    BY <1>1 DEF Start
  <2>2. TypeOK'
    BY <1>1, <1>3, <2>1 DEF IInv, TypeOK
  <2>3. SyncInv'
    BY <1>1, <1>3, <2>1 DEF IInv, SyncInv, UploadOK, Held
  <2>4. CloudInv'
    BY <1>1, <1>3, CloudFrame DEF IInv
  <2> QED
    BY <1>2, <2>2, <2>3, <2>4 DEF IInv
<1>4. CASE up' # up
  <2> DEFINE new == [pc |-> "first", path |-> p, n |-> 0]
  <2>1. /\ p \notin marked /\ marked' = marked \union {p}
        /\ up' = [up EXCEPT ![u] = new] /\ name[p[1]] = p[2]
    BY <1>4 DEF Start
  <2>2. new \in UploadState /\ new.pc = "first" /\ new.path = p /\ new.n = 0
    BY DEF UploadState
  <2> HIDE DEF new
  <2>3. up \in [Uploader -> UploadState]
    BY DEF IInv, TypeOK
  <2>4. up' \in [Uploader -> UploadState] /\ up'[u] = new
        /\ \A v \in Uploader : v # u => up'[v] = up[v]
    BY <2>1, <2>2, <2>3
  <2>5. TypeOK'
    BY <1>1, <2>1, <2>4 DEF IInv, TypeOK
  <2>6. \A v \in Uploader : up[v].pc # "none" => up[v].path \in marked
    BY DEF IInv, SyncInv, UploadOK
  <2>7. ASSUME NEW v \in Uploader, up'[v].pc # "none" PROVE UploadOK(v)'
    <3>1. CASE v = u
      BY <1>1, <2>1, <2>2, <2>4, <3>1 DEF UploadOK, IInv, SyncInv
    <3>2. CASE v # u
      BY <1>1, <2>1, <2>4, <2>7, <3>2 DEF UploadOK, IInv, SyncInv, Held
    <3> QED
      BY <3>1, <3>2
  <2>8. ASSUME NEW v \in Uploader, NEW w \in Uploader, up'[v].pc # "none", up'[v].path = up'[w].path
        PROVE  v = w
    <3>1. CASE up'[w].pc # "none"
      BY <2>1, <2>2, <2>4, <2>6, <2>8, <3>1 DEF IInv, SyncInv
    <3>2. CASE up'[w].pc = "none"
      <4>1. up'[w] = NoUpload /\ NoUpload.path[1] = 0
        BY <2>4, <3>2 DEF UploadState, NoUpload
      <4>2. up'[v].path \in Path
        BY <2>4, <2>8 DEF UploadState, NoUpload
      <4>3. up'[v].path[1] \in File
        BY <4>2 DEF Path
      <4> QED
        BY <2>8, <4>1, <4>3, NoFile
    <3> QED
      BY <3>1, <3>2
  <2>9. SyncInv'
    BY <1>1, <2>7, <2>8 DEF IInv, SyncInv
  <2>10. up[u].pc = "none"
    BY <1>1 DEF NoUpload
  <2>11. \A f \in File : Finished(f) => Finished(f)'
    BY <1>1, <2>4, <2>10 DEF Finished
  <2>12. CloudInv'
    BY <1>1, <2>11 DEF IInv, CloudInv, NothingIsLost, UploadedOnce, Held
  <2> QED
    BY <1>2, <2>5, <2>9, <2>12 DEF IInv
<1> QED
  BY <1>3, <1>4

\* Goto changes the goroutine's pc alone.
LEMMA GotoMoves ==
    ASSUME IInv, NEW u \in Uploader, Active(u),
           NEW p \in {"firstSent", "read", "sent", "wait", "delete", "close"}, Goto(u, p)
    PROVE  \E new \in ActiveState :
              /\ up' = [up EXCEPT ![u] = new]
              /\ new.pc = p /\ new.path = up[u].path /\ new.n = up[u].n
<1> DEFINE new == [pc |-> p, path |-> up[u].path, n |-> up[u].n]
<1>1. up[u].path \in Path /\ up[u].n \in Nat
  BY ActiveUpload
<1>2. new \in ActiveState
  BY <1>1 DEF ActiveState, UploadState, NoUpload
<1>3. up[u] \in [pc : {"first", "firstSent", "read", "sent", "wait", "delete", "close"},
                 path : Path, n : Nat]
  BY DEF IInv, TypeOK, UploadState, Active, NoUpload
<1>4. [up[u] EXCEPT !.pc = p] = new
  BY <1>3
<1>5. up' = [up EXCEPT ![u] = [up[u] EXCEPT !.pc = p]]
  BY DEF Goto
<1> QED
  BY Zenon, <1>2, <1>4, <1>5

LEMMA ReadFileStep ==
    ASSUME IInv, NEW u \in Uploader, ReadFile(u)
    PROVE  IInv'
<1> DEFINE f == up[u].path[1]
<1>1. Active(u) /\ up[u].pc \in {"first", "read"}
  BY DEF ReadFile, Active
<1>2. /\ UploadOK(u) /\ up[u].path \in Path /\ f \in File
      /\ flushed[f] = Len(data[f]) /\ data[f] \in Seq(Reading) /\ Len(data[f]) \in Nat
  BY <1>1, ActiveUpload DEF Full
<1>3. UNCHANGED <<collector, pushing, queue, qclosed, item, wpc, nextFile, name, data, flushed,
                  svc, syncer, scheduled, listed, marked, cloud, unsure, accepted, crashes>>
  BY DEF ReadFile, capture, writing, files, outside
<1>4. PICK new \in ActiveState :
        /\ up' = [up EXCEPT ![u] = new]
        /\ new.path = up[u].path /\ new.pc # "first" /\ new.n = Len(data[f])
        /\ new.pc = "delete" => Len(data[f]) = 0
  <2>1. CASE flushed[f] = 0
    <3>1. Goto(u, "delete")
      BY <2>1 DEF ReadFile
    <3>2. up[u].n = Len(data[f])
      BY <1>2, <2>1 DEF UploadOK
    <3> QED
      BY <1>1, <1>2, <2>1, <3>1, <3>2, GotoMoves
  <2>2. CASE flushed[f] # 0
    <3> DEFINE new == [pc |-> IF up[u].pc = "first" THEN "firstSent" ELSE "sent",
                       path |-> up[u].path, n |-> flushed[f]]
    <3>1. up' = [up EXCEPT ![u] = new]
      BY <2>2 DEF ReadFile
    <3>2. new \in ActiveState
      BY <1>2 DEF ActiveState, UploadState, NoUpload
    <3> QED
      BY Zenon, <1>2, <3>1, <3>2
  <2> QED
    BY <2>1, <2>2
<1>5. new.pc = "delete" => Held(f) = {}
  <2>1. Len(data[f]) = 0 => data[f] = << >>
    BY <1>2, SeqEmpty
  <2> QED
    BY <1>4, <2>1, RangeEmpty DEF Held
<1> HIDE DEF f
<1>6. /\ up' \in [Uploader -> UploadState] /\ SyncInv'
      /\ \A g \in File : Finished(g) => Finished(g)'
  BY <1>1, <1>3, <1>4, <1>5, UploadMoves, Zenon DEF f
<1>7. TypeOK'
  BY <1>3, <1>6 DEF IInv, TypeOK
<1>8. CloudInv'
  BY <1>3, <1>6 DEF IInv, CloudInv, NothingIsLost, UploadedOnce, Held
<1>9. CloseInv' /\ FileInv' /\ PlaceInv' /\ AcceptInv'
  BY <1>3, CloseFrame, FileFrame, PlaceFrame, AcceptFrame DEF IInv
<1> QED
  BY <1>6, <1>7, <1>8, <1>9 DEF IInv

LEMMA RetryStep ==
    ASSUME IInv, NEW u \in Uploader, Retry(u)
    PROVE  IInv'
<1>1. Active(u) /\ up[u].pc = "wait" /\ UploadOK(u)
  BY ActiveUpload DEF Retry, Active
<1>2. UNCHANGED <<collector, pushing, queue, qclosed, item, wpc, nextFile, name, data, flushed,
                  svc, syncer, scheduled, listed, marked, cloud, unsure, accepted, crashes>>
  BY DEF Retry, capture, writing, files, outside
<1>3. PICK p \in {"close", "read"} : Goto(u, p)
  BY DEF Retry
<1>4. PICK new \in ActiveState :
        /\ up' = [up EXCEPT ![u] = new]
        /\ new.pc = p /\ new.path = up[u].path /\ new.n = up[u].n
  BY <1>1, <1>3, GotoMoves
<1>5. /\ up' \in [Uploader -> UploadState] /\ SyncInv'
      /\ \A g \in File : Finished(g) => Finished(g)'
  BY <1>1, <1>2, <1>4, UploadMoves, Zenon DEF UploadOK
<1>6. TypeOK'
  BY <1>2, <1>5 DEF IInv, TypeOK
<1>7. CloudInv'
  BY <1>2, <1>5 DEF IInv, CloudInv, NothingIsLost, UploadedOnce, Held
<1>8. CloseInv' /\ FileInv' /\ PlaceInv' /\ AcceptInv'
  BY <1>2, CloseFrame, FileFrame, PlaceFrame, AcceptFrame DEF IInv
<1> QED
  BY <1>5, <1>6, <1>7, <1>8 DEF IInv

\* What arrives is added to what the cloud has.
LEMMA ArriveAdds ==
    ASSUME IInv, NEW u \in Uploader, Arrive(u)
    PROVE  /\ cloud' \in [Reading -> 0..2]
           /\ \A r \in Reading : /\ cloud[r] > 0 => cloud'[r] > 0
                                 /\ r \in Sent(u) => cloud'[r] > 0
                                 /\ r \notin Sent(u) => cloud'[r] = cloud[r]
                                 /\ cloud'[r] > 1 => cloud[r] > 0
<1>1. cloud \in [Reading -> 0..2]
  BY DEF IInv, TypeOK
<1> QED
  BY <1>1 DEF Arrive

LEMMA AcknowledgedStep ==
    ASSUME IInv, NEW u \in Uploader, Acknowledged(u)
    PROVE  IInv'
<1> DEFINE f == up[u].path[1]
<1>1. Active(u) /\ up[u].pc \in {"firstSent", "sent"} /\ UploadOK(u) /\ f \in File
  BY ActiveUpload DEF Acknowledged, Active
<1>2. UNCHANGED <<collector, pushing, queue, qclosed, item, wpc, nextFile, name, data, flushed,
                  svc, syncer, scheduled, listed, marked, unsure, accepted, crashes>>
  BY DEF Acknowledged, capture, writing, files
<1>3. PICK new \in ActiveState :
        /\ up' = [up EXCEPT ![u] = new]
        /\ new.pc = "delete" /\ new.path = up[u].path /\ new.n = up[u].n
  BY <1>1, GotoMoves DEF Acknowledged
<1>4. Sent(u) = Held(f)
  BY <1>1, SentIsHeld
<1>5. /\ cloud' \in [Reading -> 0..2]
      /\ \A r \in Reading : /\ cloud[r] > 0 => cloud'[r] > 0
                            /\ r \in Held(f) => cloud'[r] > 0
                            /\ r \notin Held(f) => cloud'[r] = cloud[r]
                            /\ cloud'[r] > 1 => cloud[r] > 0
  BY <1>4, ArriveAdds DEF Acknowledged
<1>6. \A g \in File : Held(g) \subseteq Reading
  BY RangeType DEF IInv, TypeOK, Held
<1>7. /\ up' \in [Uploader -> UploadState] /\ SyncInv' /\ up'[u] = new
      /\ \A g \in File : Finished(g) => Finished(g)'
  BY <1>1, <1>2, <1>3, <1>5, <1>6, UploadMoves, Zenon DEF UploadOK
<1>8. TypeOK'
  BY <1>2, <1>5, <1>7 DEF IInv, TypeOK
<1>9. CloudInv'
  <2>1. NothingIsLost'
    BY <1>2, <1>5, <1>6 DEF IInv, CloudInv, NothingIsLost, Held
  <2>2. ASSUME NEW r \in Reading, cloud'[r] > 0, r \notin unsure'
        PROVE  \E g \in File : r \in Held(g)' /\ Finished(g)'
    <3>1. CASE r \in Held(f)
      BY <1>1, <1>2, <1>3, <1>7, <3>1 DEF Finished, Held
    <3>2. CASE r \notin Held(f)
      BY <1>2, <1>5, <1>7, <2>2, <3>2 DEF IInv, CloudInv, Held
    <3> QED
      BY <3>1, <3>2
  <2>3. UploadedOnce'
    <3> SUFFICES ASSUME NEW r \in Reading, cloud'[r] > 1 PROVE r \in unsure
      BY <1>2 DEF UploadedOnce
    <3>1. CASE r \in Held(f)
      BY <1>1, <1>5, <3>1, NotArrived
    <3>2. CASE r \notin Held(f)
      BY <1>5, <3>2 DEF IInv, CloudInv, UploadedOnce
    <3> QED
      BY <3>1, <3>2
  <2> QED
    BY <2>1, <2>2, <2>3 DEF CloudInv
<1>10. CloseInv' /\ FileInv' /\ PlaceInv' /\ AcceptInv'
  BY <1>2, CloseFrame, FileFrame, PlaceFrame, AcceptFrame DEF IInv
<1> QED
  BY <1>7, <1>8, <1>9, <1>10 DEF IInv

LEMMA CallFailsStep ==
    ASSUME IInv, NEW u \in Uploader, CallFails(u)
    PROVE  IInv'
<1>1. Active(u) /\ up[u].pc \in {"firstSent", "sent"} /\ UploadOK(u)
  BY ActiveUpload DEF CallFails, Active
<1>2. UNCHANGED <<collector, pushing, queue, qclosed, item, wpc, nextFile, name, data, flushed,
                  svc, syncer, scheduled, listed, marked, accepted, crashes>>
  BY DEF CallFails, capture, writing, files
<1>3. PICK p \in {"wait", "close"} : Goto(u, p)
  BY DEF CallFails
<1>4. PICK new \in ActiveState :
        /\ up' = [up EXCEPT ![u] = new]
        /\ new.pc = p /\ new.path = up[u].path /\ new.n = up[u].n
  BY <1>1, <1>3, GotoMoves
<1>5. \A g \in File : Held(g) \subseteq Reading
  BY RangeType DEF IInv, TypeOK, Held
<1>6. Sent(u) \subseteq Reading
  BY <1>1, <1>5, SentIsHeld, ActiveUpload
<1>7. /\ cloud' \in [Reading -> 0..2] /\ unsure' \subseteq Reading /\ unsure \subseteq unsure'
      /\ \A r \in Reading : /\ cloud[r] > 0 => cloud'[r] > 0
                            /\ r \notin unsure' => cloud'[r] = cloud[r]
                            /\ cloud'[r] # cloud[r] => r \in unsure'
  <2>1. CASE Arrive(u) /\ unsure' = unsure \union Sent(u)
    <3>1. unsure \subseteq Reading
      BY DEF IInv, TypeOK
    <3> QED
      BY <1>6, <2>1, <3>1, ArriveAdds
  <2>2. CASE UNCHANGED <<cloud, unsure>>
    BY <2>2 DEF IInv, TypeOK
  <2> QED
    BY <2>1, <2>2 DEF CallFails
<1>8. /\ up' \in [Uploader -> UploadState] /\ SyncInv'
      /\ \A g \in File : Finished(g) => Finished(g)'
  BY <1>1, <1>2, <1>4, <1>5, <1>7, UploadMoves, Zenon DEF UploadOK
<1>9. TypeOK'
  BY <1>2, <1>7, <1>8 DEF IInv, TypeOK
<1>10. CloudInv'
  <2>1. NothingIsLost'
    BY <1>2, <1>5, <1>7, Zenon DEF IInv, CloudInv, NothingIsLost, Held
  <2>2. ASSUME NEW r \in Reading, cloud'[r] > 0, r \notin unsure'
        PROVE  \E g \in File : r \in Held(g)' /\ Finished(g)'
    BY <1>2, <1>7, <1>8, <2>2 DEF IInv, CloudInv, Held
  <2>3. UploadedOnce'
    BY <1>7 DEF IInv, CloudInv, UploadedOnce
  <2> QED
    BY <2>1, <2>2, <2>3 DEF CloudInv
<1>11. CloseInv' /\ FileInv' /\ PlaceInv' /\ AcceptInv'
  BY <1>2, CloseFrame, FileFrame, PlaceFrame, AcceptFrame DEF IInv
<1> QED
  BY <1>8, <1>9, <1>10, <1>11 DEF IInv

\* A goroutine gives up its path, under which no other has the file open, and
\* leaves the file deleted or complete.
LEMMA UploadEnds ==
    ASSUME IInv, NEW u \in Uploader, Active(u), NEW e \in {"gone", "capture"},
           e = "gone" <=> up[u].pc = "delete",
           name' = [name EXCEPT ![up[u].path[1]] = e],
           Unmark(u),
           UNCHANGED <<collector, pushing, queue, qclosed, item, wpc, nextFile, data, flushed,
                       svc, syncer, scheduled, listed, cloud, unsure, accepted, crashes>>
    PROVE  IInv'
<1> DEFINE f == up[u].path[1]
<1>1. /\ UploadOK(u) /\ f \in File /\ f # nextFile /\ name[f] \in {"prog", "capture"}
      /\ name \in [File -> {"none", "prog", "capture", "gone"}]
      /\ up \in [Uploader -> UploadState] /\ NoUpload \in UploadState
  BY ActiveUpload, ZenonT(30) DEF UploadOK, IInv, TypeOK, UploadState
<1>2. name'[f] = e /\ \A g \in File : g # f => name'[g] = name[g]
  BY ZenonT(30), <1>1
<1>3. /\ up' \in [Uploader -> UploadState] /\ up'[u] = NoUpload
      /\ \A v \in Uploader : v # u => up'[v] = up[v]
  BY <1>1, ZenonT(30) DEF Unmark
<1>4. marked' = marked \ {up[u].path}
  BY ZenonT(30) DEF Unmark
<1>5. TypeOK'
  <2>1. name' \in [File -> {"none", "prog", "capture", "gone"}]
    BY Zenon, <1>1
  <2>2. marked' \subseteq Path
    BY <1>4 DEF IInv, TypeOK
  <2> QED
    BY <1>3, <2>1, <2>2, ZenonT(60) DEF IInv, TypeOK
<1>6. CloseInv' /\ PlaceInv'
  BY CloseFrame, PlaceFrame, Zenon DEF IInv
<1>7. FileInv'
  <2>1. nextFile \in File \union {0}
    BY DEF IInv, TypeOK
  <2> QED
    BY <1>1, <1>2, <2>1 DEF IInv, FileInv, Full
<1>8. AcceptInv'
  BY <1>1, <1>2 DEF IInv, AcceptInv, Held, Written
<1>9. SyncInv'
  <2>1. \A p \in listed : p[1] \in File
    BY DEF IInv, TypeOK, Path
  <2>2. ASSUME NEW p \in listed PROVE name'[p[1]] # "none" /\ p[1] # nextFile
    BY <1>2, <2>1 DEF IInv, SyncInv
  <2>3. NoUpload.pc = "none"
    BY DEF NoUpload
  <2>4. ASSUME NEW v \in Uploader, up'[v].pc # "none" PROVE UploadOK(v)'
    <3>1. v # u /\ up'[v] = up[v] /\ Active(v)
      BY <1>3, <2>3, <2>4 DEF Active
    <3>2. UploadOK(v) /\ up[v].path[1] \in File /\ up[v].path[1] # f
      BY <3>1, ActiveUpload, UploadsApart
    <3>3. up[v].path # up[u].path
      BY <3>2
    <3> QED
      BY <1>2, <1>4, <3>1, <3>2, <3>3 DEF UploadOK, Held
  <2>5. ASSUME NEW v \in Uploader, NEW w \in Uploader, up'[v].pc # "none", up'[v].path = up'[w].path
        PROVE  v = w
    <3>1. v # u /\ up'[v] = up[v] /\ Active(v)
      BY <1>3, <2>3, <2>5 DEF Active
    <3>2. CASE w # u
      <4>1. up[v].path = up[w].path
        BY <1>3, <2>5, <3>1, <3>2
      <4> QED
        BY <3>1, <4>1 DEF IInv, SyncInv, Active
    <3>3. CASE w = u
      <4>1. up[v].path[1] = 0
        BY <1>3, <2>5, <3>1, <3>3 DEF NoUpload
      <4> QED
        BY <3>1, <4>1, ActiveUpload, NoFile
    <3> QED
      BY <3>2, <3>3
  <2> QED
    BY <2>2, <2>4, <2>5 DEF SyncInv
<1>10. CloudInv'
  <2>1. NothingIsLost'
    <3>1. e = "gone" => \A r \in Held(f) : cloud[r] > 0
      BY <1>1 DEF UploadOK
    <3> QED
      BY <1>2, <3>1 DEF IInv, CloudInv, NothingIsLost, Held
  <2>2. ASSUME NEW g \in File, Finished(g) PROVE Finished(g)'
    <3>1. CASE g = f
      <4>1. up[u].pc = "delete"
        <5>1. PICK v \in Uploader : up[v].pc = "delete" /\ up[v].path[1] = f
          BY <1>1, <2>2, <3>1 DEF Finished
        <5> QED
          BY <5>1, UploadsApart DEF Active
      <4> QED
        BY <1>2, <3>1, <4>1 DEF Finished
    <3>2. CASE g # f
      BY <1>2, <1>3, <2>2, <3>2 DEF Finished
    <3> QED
      BY <3>1, <3>2
  <2> QED
    BY <2>1, <2>2, Zenon DEF IInv, CloudInv, UploadedOnce, Held
<1> QED
  BY <1>5, <1>6, <1>7, <1>8, <1>9, <1>10, ZenonT(30) DEF IInv

LEMMA DeleteStep ==
    ASSUME IInv, NEW u \in Uploader, Delete(u)
    PROVE  IInv'
<1>1. Active(u) /\ up[u].pc = "delete" /\ name[up[u].path[1]] = up[u].path[2]
  BY ActiveUpload DEF Delete, Active, UploadOK
<1>2. /\ name' = [name EXCEPT ![up[u].path[1]] = "gone"] /\ Unmark(u)
      /\ UNCHANGED <<collector, pushing, queue, qclosed, item, wpc, nextFile, data, flushed,
                     svc, syncer, scheduled, listed, cloud, unsure, accepted, crashes>>
  BY <1>1, Zenon DEF Delete, capture, writing, outside
<1> QED
  BY ZenonT(30), <1>1, <1>2, UploadEnds

LEMMA CloseFileStep ==
    ASSUME IInv, NEW u \in Uploader, CloseFile(u)
    PROVE  IInv'
<1>1. Active(u) /\ up[u].pc = "close" /\ name[up[u].path[1]] = up[u].path[2]
  BY ActiveUpload DEF CloseFile, Active, UploadOK
<1>2. /\ name' = [name EXCEPT ![up[u].path[1]] = "capture"] /\ Unmark(u)
      /\ UNCHANGED <<collector, pushing, queue, qclosed, item, wpc, nextFile, data, flushed,
                     svc, syncer, scheduled, listed, cloud, unsure, accepted, crashes>>
  BY <1>1 DEF CloseFile, capture, writing, outside
<1> QED
  BY Zenon, <1>1, <1>2, UploadEnds

-----------------------------------------------------------------------------
(* The process may die at any time. *)

LEMMA CrashStep ==
    ASSUME IInv, Crash
    PROVE  IInv'
<1> DEFINE left(f) == SubSeq(data[f], 1, flushed[f])
<1>1. /\ crashes < MaxCrash /\ crashes' = crashes + 1
      /\ collector' = "none" /\ pushing' = {} /\ queue' = << >> /\ qclosed' = TRUE
      /\ item' = Nil /\ wpc' = "done" /\ nextFile' = 0
      /\ data' = [f \in File |-> left(f)]
      /\ accepted' = {r \in accepted : \E f \in File : r \in Range(left(f))}
      /\ svc' = "config"
      /\ syncer' = "none" /\ scheduled' = FALSE /\ listed' = {} /\ marked' = {}
      /\ up' = [u \in Uploader |-> NoUpload]
      /\ UNCHANGED <<name, flushed>>
  BY DEF Crash
<1>2. PICK arrived \in SUBSET {u \in Uploader : up[u].pc \in {"firstSent", "sent"}} :
        cloud' = [r \in Reading |->
                    IF cloud[r] < 2 /\ \E u \in arrived : r \in Sent(u) THEN cloud[r] + 1 ELSE cloud[r]]
  BY Zenon DEF Crash
<1>3. unsure' = unsure \union
                  UNION {Sent(u) : u \in {v \in Uploader : up[v].pc \in {"firstSent", "sent", "delete"}}}
  BY DEF Crash
<1>4. ASSUME NEW f \in File
      PROVE  /\ left(f) \in Seq(Reading) /\ Len(left(f)) = flushed[f]
             /\ Range(left(f)) \subseteq Range(data[f])
             /\ Full(f) => left(f) = data[f]
  <2>1. data[f] \in Seq(Reading) /\ flushed[f] \in Nat /\ flushed[f] <= Len(data[f])
    BY DEF IInv, TypeOK, FileInv
  <2> QED
    BY <2>1, PrefixHolds DEF Full
<1> HIDE DEF left
<1>5. \A f \in File : data'[f] = left(f)
  BY <1>1
<1>6. \A f \in File : Held(f) \subseteq Reading
  BY RangeType DEF IInv, TypeOK, Held
<1>7. ASSUME NEW u \in Uploader, up[u].pc \in {"firstSent", "sent", "delete"}
      PROVE  /\ Sent(u) = Held(up[u].path[1])
             /\ Sent(u) \subseteq Reading
  <2>1. Active(u) /\ up[u].pc # "first"
    BY <1>7 DEF Active
  <2>2. Sent(u) = Held(up[u].path[1]) /\ up[u].path[1] \in File
    BY <2>1, SentIsHeld, ActiveUpload
  <2> QED
    BY <1>6, <2>2
<1>8. /\ cloud' \in [Reading -> 0..2]
      /\ \A r \in Reading : /\ cloud[r] > 0 => cloud'[r] > 0
                            /\ cloud'[r] # cloud[r] => \E u \in arrived : r \in Sent(u)
  <2>1. cloud \in [Reading -> 0..2]
    BY DEF IInv, TypeOK
  <2> QED
    BY <1>2, <2>1
<1>9. \A r \in Reading : r \notin unsure' =>
         /\ r \notin unsure /\ cloud'[r] = cloud[r]
         /\ \A u \in Uploader : up[u].pc = "delete" => r \notin Sent(u)
  BY <1>2, <1>3, <1>8
<1>10. TypeOK'
  <2>1. queue' \in Seq(Reading) /\ Len(queue') <= QueueSize
    <3>1. queue' = << >>
      BY <1>1, Zenon
    <3>2. << >> \in Seq(Reading) /\ Len(<< >>) <= QueueSize
      BY ConstantsOK
    <3> QED
      BY <3>1, <3>2, Zenon
  <2>2. data' \in [File -> Seq(Reading)]
    BY <1>1, <1>4, Zenon
  <2>3. up' \in [Uploader -> UploadState]
    BY <1>1 DEF UploadState
  <2>4. unsure' \subseteq Reading
    BY <1>3, <1>7 DEF IInv, TypeOK
  <2>5. crashes' \in 0..MaxCrash
    BY <1>1, ConstantsOK DEF IInv, TypeOK
  <2>6. accepted' \subseteq Reading
    BY <1>1 DEF IInv, TypeOK
  <2>7. qclosed' \in BOOLEAN /\ scheduled' \in BOOLEAN
    BY Zenon, <1>1
  <2> QED
    BY <1>1, <1>8, <2>1, <2>2, <2>3, <2>4, <2>5, <2>6, <2>7 DEF IInv, TypeOK
<1>11. CloseInv'
  BY <1>1 DEF CloseInv, QueueIsOpen
<1>12. FileInv'
  <2>1. \A f \in File : flushed'[f] = Len(data'[f]) /\ flushed'[f] \in Nat
    BY <1>1, <1>4, <1>5 DEF IInv, TypeOK
  <2>2. ASSUME NEW f \in File, name'[f] = "none" PROVE data'[f] = << >>
    <3>1. data[f] = << >> /\ f # nextFile
      BY <1>1, <2>2, NoFile DEF IInv, FileInv
    <3> QED
      BY <1>4, <1>5, <3>1 DEF IInv, FileInv
  <2> QED
    BY <1>1, <2>1, <2>2 DEF FileInv, Full
<1>13. \A f \in File : Held(f)' \subseteq Held(f) /\ (Full(f) => Held(f)' = Held(f))
  BY <1>4, <1>5 DEF Held
<1>14. PlaceInv'
  <2>1. NoRepeat(<< >>) /\ Range(<< >>) = {}
    <3>1. Len(<< >>) = 0
      OBVIOUS
    <3> QED
      BY <3>1, RangeEmpty DEF NoRepeat
  <2>2. Nil \notin Written'
    BY <1>6, <1>13, ConstantsOK DEF Written, Held
  <2>3. \A f, g \in File : f # g => Held(f)' \intersect Held(g)' = {}
    BY <1>13 DEF IInv, PlaceInv
  <2> QED
    BY <1>1, <2>1, <2>2, <2>3 DEF PlaceInv
<1>15. AcceptInv'
  <2>1. accepted' \subseteq Written'
    BY <1>1, <1>5 DEF Written
  <2>2. crashes' # 0
    BY <1>1, ConstantsOK DEF IInv, TypeOK
  <2> QED
    BY <1>1, <2>1, <2>2 DEF AcceptInv
<1>16. SyncInv'
  BY <1>1 DEF SyncInv, NoUpload
<1>17. CloudInv'
  <2>1. NothingIsLost'
    BY <1>1, <1>6, <1>8, <1>13 DEF IInv, CloudInv, NothingIsLost, Held
  <2>2. ASSUME NEW r \in Reading, cloud'[r] > 0, r \notin unsure'
        PROVE  \E f \in File : r \in Held(f)' /\ Finished(f)'
    <3>1. PICK f \in File : r \in Held(f) /\ Finished(f)
      BY <1>9, <2>2 DEF IInv, CloudInv
    <3>2. name[f] = "gone"
      BY <1>7, <1>9, <2>2, <3>1 DEF Finished
    <3>3. f # nextFile
      BY <3>2, NoFile DEF IInv, FileInv
    <3>4. r \in Held(f)'
      BY <1>13, <3>1, <3>3 DEF IInv, FileInv
    <3> QED
      BY <1>1, <3>2, <3>4 DEF Finished
  <2>3. UploadedOnce'
    BY <1>9 DEF IInv, CloudInv, UploadedOnce
  <2> QED
    BY <2>1, <2>2, <2>3 DEF CloudInv
<1> QED
  BY <1>10, <1>11, <1>12, <1>14, <1>15, <1>16, <1>17 DEF IInv

-----------------------------------------------------------------------------
(* The theorems *)

LEMMA NextIInv ==
    ASSUME ~SlowCollector, IInv, [Next]_vars
    PROVE  IInv'
<1>1. CASE Next
  <2>1. ASSUME NEW r \in Reading, Capture(r) \/ Push(r) \/ Drop(r) PROVE IInv'
    BY <2>1, CaptureStep, PushStep, DropStep
  <2>2. CASE CloseQueue \/ Update
    BY <2>2, CloseQueueStep, UpdateStep
  <2>3. CASE Write
    BY <2>3, ReceiveStep, WriterDoneStep, WriteBinaryStep, WriteTabularStep, RotateStep,
       RotateRenameStep DEF Write
  <2>4. CASE Close
    BY <2>4, CloseFlushStep, CloseRenameStep, SyncerClosedStep DEF Close
  <2>5. ASSUME NEW on \in BOOLEAN, NEW sync \in SyncConfig, Configure(on, sync) PROVE IInv'
    BY <2>5, ConfigureStep
  <2>6. ASSUME NEW old \in SUBSET Stale, SyncDirectory(old) PROVE IInv'
    BY <2>6, SyncDirectoryStep
  <2>7. ASSUME NEW u \in Uploader, NEW p \in Path, Start(u, p) PROVE IInv'
    BY <2>7, StartStep
  <2>8. ASSUME NEW u \in Uploader, Upload(u) PROVE IInv'
    BY <2>8, ReadFileStep, AcknowledgedStep, CallFailsStep, RetryStep, DeleteStep, CloseFileStep
       DEF Upload
  <2>9. CASE Crash
    BY <2>9, CrashStep
  <2> QED
    BY <1>1, <2>1, <2>2, <2>3, <2>4, <2>5, <2>6, <2>7, <2>8, <2>9 DEF Next
<1>2. CASE UNCHANGED vars
  <2>1. UNCHANGED <<collector, pushing, queue, qclosed, item, wpc, nextFile, name, data, flushed,
                    svc, syncer, scheduled, listed, marked, up, cloud, unsure, accepted, crashes>>
    BY <1>2 DEF vars, capture, writing, files, syncing, outside
  <2>2. TypeOK'
    BY <2>1 DEF IInv, TypeOK
  <2> QED
    BY <2>1, <2>2, CloseFrame, FileFrame, PlaceFrame, AcceptFrame, SyncFrame, CloudFrame DEF IInv
<1> QED
  BY <1>1, <1>2

\* The invariant holds as long as no collector is so slow that its file is taken
\* for an abandoned one.
THEOREM IInvHolds == ~SlowCollector => (Spec => []IInv)
<1> SUFFICES ASSUME ~SlowCollector PROVE Spec => []IInv
  OBVIOUS
<1>1. IInv /\ [Next]_vars => IInv'
  BY NextIInv
<1> QED
  BY <1>1, InitIInv, PTL DEF Spec

\* Whatever the collectors' speed, no capture goroutine sends on a closed queue:
\* a collector that runs has its queue open, and once Close has cancelled it a
\* last tick is taken only before the queue is closed.
THEOREM QueueIsOpenHolds == Spec => []QueueIsOpen
<1> DEFINE OpenInv == QueueIsOpen /\ (collector = "running" => ~qclosed)
<1>1. Init => OpenInv
  BY DEF Init, QueueIsOpen
<1>2. ASSUME OpenInv, [Next]_vars PROVE OpenInv'
  <2>1. ASSUME NEW r \in Reading, Capture(r) \/ Push(r) \/ Drop(r) PROVE OpenInv'
    BY <1>2, <2>1 DEF QueueIsOpen, Capture, Push, Drop
  <2>2. CASE CloseQueue \/ Update
    BY <1>2, <2>2 DEF QueueIsOpen, CloseQueue, Canceled, Update
  <2>3. CASE Write
    BY <1>2, <2>3 DEF QueueIsOpen, Write, Receive, WriterDone, WriteBinary, WriteTabular, Rotate,
                      RotateRename, capture
  <2>4. CASE Close
    BY <1>2, <2>4 DEF QueueIsOpen, Close, CloseFlush, CloseRename, SyncerClosed, capture
  <2>5. ASSUME NEW on \in BOOLEAN, NEW sync \in SyncConfig, Configure(on, sync) PROVE OpenInv'
    BY <1>2, <2>5 DEF QueueIsOpen, Configure
  <2>6. ASSUME NEW old \in SUBSET Stale, SyncDirectory(old) PROVE OpenInv'
    BY <1>2, <2>6 DEF QueueIsOpen, SyncDirectory, capture
  <2>7. ASSUME NEW u \in Uploader, NEW p \in Path, Start(u, p) PROVE OpenInv'
    BY <1>2, <2>7 DEF QueueIsOpen, Start, capture
  <2>8. ASSUME NEW u \in Uploader, Upload(u) PROVE OpenInv'
    BY <1>2, <2>8 DEF QueueIsOpen, Upload, ReadFile, Acknowledged, CallFails, Retry, Delete,
                      CloseFile, capture
  <2>9. CASE Crash
    BY <2>9 DEF QueueIsOpen, Crash
  <2>10. CASE UNCHANGED vars
    BY <1>2, <2>10 DEF QueueIsOpen, vars, capture
  <2> QED
    BY <1>2, <2>1, <2>2, <2>3, <2>4, <2>5, <2>6, <2>7, <2>8, <2>9, <2>10 DEF Next
<1> QED
  BY <1>1, <1>2, PTL DEF Spec

\* Close flushes: with the queue drained, write() idle and no file in the buffer,
\* what was queued is in files that are complete and on the disk.
THEOREM ClosedIsFlushedHolds == ~SlowCollector => (Spec => []ClosedIsFlushed)
<1> SUFFICES ASSUME ~SlowCollector PROVE Spec => []ClosedIsFlushed
  OBVIOUS
<1>1. ASSUME IInv PROVE ClosedIsFlushed
  <2> SUFFICES ASSUME collector = "none", NEW r \in accepted
               PROVE  \E f \in File : /\ r \in Range(SubSeq(data[f], 1, flushed[f]))
                                      /\ crashes = 0 => name[f] # "prog"
    BY DEF ClosedIsFlushed
  <2>1. queue = << >> /\ item = Nil /\ nextFile = 0
    BY <1>1 DEF IInv, CloseInv
  <2>2. r \in Reading
    BY <1>1 DEF IInv, TypeOK
  <2>3. r \in Written
    BY <1>1, <2>1, <2>2, RangeEmpty, ConstantsOK DEF IInv, AcceptInv
  <2>4. PICK f \in File : r \in Range(data[f])
    BY <2>3 DEF Written
  <2>5. Full(f) /\ data[f] \in Seq(Reading) /\ flushed[f] \in Nat
    BY <1>1, <2>1, NoFile DEF IInv, FileInv, TypeOK
  <2>6. SubSeq(data[f], 1, flushed[f]) = data[f]
    BY <2>5, PrefixHolds DEF Full
  <2>7. crashes = 0 => name[f] # "prog"
    BY <1>1, <2>1, <2>4, NoFile DEF IInv, AcceptInv, Held
  <2> QED
    BY Zenon, <2>4, <2>6, <2>7
<1> QED
  BY <1>1, IInvHolds, PTL

\* Delete removes a file only when everything written to it is in the cloud:
\* nothing is added to a file once it is listed, and each upload is of all of it.
THEOREM NothingIsLostHolds == ~SlowCollector => (Spec => []NothingIsLost)
<1>1. IInv => NothingIsLost
  BY DEF IInv, CloudInv
<1> QED
  BY <1>1, IInvHolds, PTL

\* A reading is uploaded once: it is in one file, inProgress keeps a second
\* goroutine from that file, and an acknowledged upload ends in its deletion.
THEOREM UploadedOnceHolds == ~SlowCollector => (Spec => []UploadedOnce)
<1>1. IInv => UploadedOnce
  BY DEF IInv, CloudInv
<1> QED
  BY <1>1, IInvHolds, PTL
=============================================================================
