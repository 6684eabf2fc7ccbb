------------------------ MODULE DownloadBooksProofs ------------------------
(***************************************************************************)
(* Proofs about the books of GhajarDownloadService: the list, the map of   *)
(* jobs and their count.  Like the properties they are about behaviours    *)
(* that are not disturbed.                                                 *)
(***************************************************************************)
EXTENDS GhajarDownloadServiceProofs, FiniteSetTheorems

(***************************************************************************)
(* A job is on duty until onTerminal takes it out of the map.  Until then  *)
(* the map has it, or the user has cancelled it; and its position tells    *)
(* how the list shows its download.                                        *)
(***************************************************************************)
OnDuty == Transfer \cup {"made", "run", "load", "save", "terminal"}

JobListed(j) ==
  /\ thread[j].pc \in OnDuty => jobs[thread[j].it] = j \/ thread[j].cancelled
  /\ thread[j].pc \in {"made", "run"} => saved[thread[j].it].state \in {"QUEUED", "CANCELLED"}
  /\ thread[j].pc \in Transfer => saved[thread[j].it].state \in {"RUNNING", "CANCELLED"}
  /\ thread[j].pc \in {"load", "save"} =>
       /\ thread[j].item.state # "QUEUED"
       /\ saved[thread[j].it].state \in {"QUEUED", "RUNNING", "CANCELLED"}
       /\ thread[j].item.state = "RUNNING" =>
            saved[thread[j].it].state \in {"QUEUED", "CANCELLED"}
  /\ thread[j].pc \in {"terminal", "dec"} =>
       saved[thread[j].it].state \notin {"QUEUED", "RUNNING"}
  /\ AtWork(j) => thread[j].it <= requests

(***************************************************************************)
(* The main thread queues only downloads that have no job.                 *)
(***************************************************************************)
NoJob(i) == \A j \in Jobs : AtWork(j) => thread[j].it # i

MainListed ==
  /\ thread[Main].pc \in {"idle", "load", "save", "start", "inc"}
  /\ thread[Main].pc \in {"load", "save"} =>
       /\ thread[Main].it <= requests
       /\ thread[Main].item.state = "QUEUED" => NoJob(thread[Main].it)

(***************************************************************************)
(* The map has only jobs that are on duty for the download.                *)
(***************************************************************************)
MapOK == \A i \in Items : jobs[i] # 0 => /\ jobs[i] \in Jobs /\ thread[jobs[i]].it = i
                                         /\ thread[jobs[i]].pc \in OnDuty

(***************************************************************************)
(* A thread between the read and the write of activeCount has read what is *)
(* still there; a download about to be started is as the list has it.      *)
(***************************************************************************)
BookOK(t) ==
  /\ At(t, "inc") => /\ thread[t].count = activeCount /\ activeCount < MAX_CONCURRENT
                     /\ thread[t].made \in Jobs /\ At(thread[t].made, "made")
  /\ At(t, "dec") => thread[t].count = activeCount
  /\ At(t, "start") => thread[t].item = saved[thread[t].it] /\ thread[t].item.state = "QUEUED"

MadeOK == \A j \in Jobs : At(j, "made") => \E t \in Threads : At(t, "inc") /\ thread[t].made = j

ListedOK == \A i \in Items : saved[i] # NotListed => i <= requests

Place == /\ \A j \in Jobs : JobListed(j)
         /\ MainListed /\ MapOK /\ MadeOK /\ ListedOK
         /\ \A t \in Threads : BookOK(t)

(***************************************************************************)
(* activeCount counts the jobs whose start it has heard of.                *)
(***************************************************************************)
Counted == {j \in Jobs : AtWork(j) /\ ~At(j, "made")}
CountOK == activeCount = Cardinality(Counted) /\ activeCount <= MAX_CONCURRENT

BooksInv == ~disturbed => Place /\ CountOK

-----------------------------------------------------------------------------
(***************************************************************************)
(* What the steps of a job between its start and its end do to the books:  *)
(* nothing.                                                                *)
(***************************************************************************)
Others(t) == \A u \in Threads : u # t => thread'[u] = thread[u]

Moves(j) == /\ Others(j)
            /\ thread'[j].it = thread[j].it /\ thread'[j].cancelled = thread[j].cancelled
            /\ UNCHANGED <<saved, jobs, activeCount, crashes, requests>>

StepsOn(j) == thread[j].pc \in Transfer /\ thread'[j].pc \in Transfer

Reports(j) ==
  /\ thread'[j].pc = "load"
  /\ \/ thread[j].pc = "run" /\ thread'[j].item.state \in {"RUNNING", "FAILED"}
     \/ /\ thread[j].pc \in Transfer
        /\ thread'[j].item.state \in {"CANCELLED", "PAUSED", "FAILED", "COMPLETED"}

Transfers(j) == \/ run(j) \/ allocate(j)
                \/ \E k \in DOMAIN thread[j].item.segments : downloadSegment(j, k) \/ segmentLeft(j, k)
                \/ joined(j) \/ check(j) \/ remove(j) \/ move(j)

LEMMA EndedReports ==
  ASSUME Inv, NEW j \in Jobs, NEW st, ended(j, st)
  PROVE  /\ Others(j)
         /\ thread'[j].it = thread[j].it /\ thread'[j].cancelled = thread[j].cancelled
         /\ thread'[j].pc = "load" /\ thread'[j].item = [thread[j].item EXCEPT !.state = st]
         /\ thread'[j].item.state = st
<1>1. j \in Threads /\ thread \in [Threads -> Thread] /\ thread[j] \in Thread BY JobIsThread
<1>2. thread[j].item \in DownloadItem BY <1>1 DEF Thread
<1> QED BY <1>1, <1>2 DEF ended, Others, Thread, DownloadItem

LEMMA GoesOn ==
  ASSUME Inv, NEW j \in Jobs, NEW l, goto(j, l)
  PROVE  /\ Others(j) /\ thread'[j] = [thread[j] EXCEPT !.pc = l] /\ thread'[j].pc = l
         /\ thread'[j].it = thread[j].it /\ thread'[j].cancelled = thread[j].cancelled
<1>1. j \in Threads /\ thread \in [Threads -> Thread] /\ thread[j] \in Thread BY JobIsThread
<1> QED BY <1>1 DEF goto, Others, Thread

LEMMA TransferMoves ==
  ASSUME Inv, NEW j \in Jobs, Transfers(j)
  PROVE  Moves(j) /\ (StepsOn(j) \/ Reports(j))
<1>1. j \in Threads /\ thread \in [Threads -> Thread] /\ thread[j] \in Thread BY JobIsThread
<1>2. CASE run(j)
  <2>1. /\ Others(j) /\ thread'[j].pc = "load" /\ thread[j].pc = "run"
        /\ thread'[j].it = thread[j].it /\ thread'[j].cancelled = thread[j].cancelled
        /\ thread'[j].item.state \in {"RUNNING", "FAILED"}
    BY <1>1, <1>2 DEF run, Others, At, Thread, DownloadItem
  <2> QED BY <1>2, <2>1 DEF run, Moves, Reports, diskVars, bookVars, userVars
<1>3. CASE allocate(j)
  <2>1. /\ Others(j) /\ thread'[j].pc = "fetch" /\ thread[j].pc = "alloc"
        /\ thread'[j].it = thread[j].it /\ thread'[j].cancelled = thread[j].cancelled
    BY <1>1, <1>3 DEF allocate, Others, At, Thread
  <2> QED BY <1>3, <2>1 DEF allocate, Moves, StepsOn, Transfer, bookVars, userVars
<1>4. ASSUME NEW k, downloadSegment(j, k) \/ segmentLeft(j, k)
      PROVE  Moves(j) /\ StepsOn(j)
  <2>1. /\ Others(j) /\ thread'[j].pc = "fetch" /\ thread[j].pc = "fetch"
        /\ thread'[j].it = thread[j].it /\ thread'[j].cancelled = thread[j].cancelled
    BY <1>1, <1>4 DEF downloadSegment, segmentLeft, Others, At, Thread
  <2> QED
    BY <1>4, <2>1
    DEF downloadSegment, segmentLeft, Moves, StepsOn, Transfer, diskVars, bookVars, userVars
<1>5. CASE joined(j)
  <2>1. /\ Others(j) /\ thread'[j].pc = "check" /\ thread[j].pc = "fetch"
        /\ thread'[j].it = thread[j].it /\ thread'[j].cancelled = thread[j].cancelled
    BY <1>1, <1>5 DEF joined, Others, At, Thread
  <2> QED BY <1>5, <2>1 DEF joined, Moves, StepsOn, Transfer, diskVars, bookVars, userVars
<1>6. CASE check(j)
  <2>1. thread[j].pc = "check" /\ UNCHANGED <<saved, jobs, activeCount, crashes, requests>>
    BY <1>6 DEF check, At, diskVars, bookVars, userVars
  <2>2. ended(j, "CANCELLED") \/ ended(j, "PAUSED") \/ goto(j, "remove")
    BY <1>6, Zenon DEF check
  <2> QED BY <2>1, <2>2, EndedReports, GoesOn DEF Moves, StepsOn, Reports, Transfer
<1>7. CASE remove(j)
  <2>1. thread[j].pc = "remove" /\ UNCHANGED <<saved, jobs, activeCount, crashes, requests>>
    BY <1>7 DEF remove, At, bookVars, userVars
  <2>2. ended(j, "FAILED") \/ goto(j, "move")
    BY <1>7, Zenon DEF remove
  <2> QED BY <2>1, <2>2, EndedReports, GoesOn DEF Moves, StepsOn, Reports, Transfer
<1>8. CASE move(j)
  <2>1. thread[j].pc = "move" /\ UNCHANGED <<saved, jobs, activeCount, crashes, requests>>
    BY <1>8 DEF move, At, bookVars, userVars
  <2>2. ended(j, "FAILED") \/ ended(j, "COMPLETED")
    BY <1>8, Zenon DEF move, moved
  <2> QED BY <2>1, <2>2, EndedReports DEF Moves, StepsOn, Reports, Transfer
<1> QED BY <1>2, <1>3, <1>4, <1>5, <1>6, <1>7, <1>8 DEF Transfers

-----------------------------------------------------------------------------
(***************************************************************************)
(* The books stay right, step by step.                                     *)
(***************************************************************************)
LEMMA PlaceTypes ==
  ASSUME Inv
  PROVE  /\ Main \in Threads /\ thread \in [Threads -> Thread] /\ saved \in List
         /\ jobs \in [Items -> 0..MaxJobs] /\ activeCount \in Nat /\ requests \in Nat
         /\ \A j \in Jobs : j \in Threads /\ j # Main
         /\ \A t \in Threads : /\ thread[t] \in Thread /\ thread[t].it \in Items
                               /\ t # Main => t \in Jobs
<1>1. Main \in Threads /\ \A j \in Jobs : j \in Threads /\ j # Main
  BY DownloadAssumption DEF Main, Threads, Jobs
<1>2. \A t \in Threads : t # Main => t \in Jobs
  BY DownloadAssumption DEF Main, Threads, Jobs
<1> QED BY <1>1, <1>2 DEF Inv, TypeOK, Thread

LEMMA CountSame ==
  ASSUME CountOK, UNCHANGED activeCount,
         \A j \in Jobs : /\ AtWork(j) <=> AtWork(j)'
                         /\ At(j, "made") <=> At(j, "made")'
  PROVE  CountOK'
<1>1. Counted' = Counted BY DEF Counted
<1> QED BY <1>1 DEF CountOK

LEMMA PlaceTransfers ==
  ASSUME Inv, Place, CountOK, NEW j \in Jobs, Transfers(j)
  PROVE  Place' /\ CountOK'
<1>1. Moves(j) /\ (StepsOn(j) \/ Reports(j)) BY TransferMoves
<1>2. /\ Main \in Threads /\ j \in Threads /\ j # Main /\ thread'[Main] = thread[Main]
      /\ \A u \in Jobs : u \in Threads /\ u # Main
  BY <1>1, PlaceTypes DEF Moves, Others
<1>3. /\ thread[j].pc \in Transfer \cup {"run"} /\ thread'[j].pc \in Transfer \cup {"load"}
      /\ thread'[j].it = thread[j].it
  BY <1>1 DEF StepsOn, Reports, Moves
<1>4. AtWork(j) /\ AtWork(j)' /\ thread[j].pc \in OnDuty /\ thread'[j].pc \in OnDuty
  BY <1>3 DEF AtWork, Working, OnDuty
<1>5. \A u \in Threads : /\ u # j => thread'[u] = thread[u]
                         /\ AtWork(u) <=> AtWork(u)'
                         /\ thread'[u].it = thread[u].it
  BY <1>1, <1>4 DEF Moves, Others, AtWork
<1>6. JobListed(j)'
  <2>1. JobListed(j) BY DEF Place
  <2>2. thread[j].pc \notin {"load", "save"} BY <1>3 DEF Transfer
  <2> QED BY <1>1, <1>4, <2>1 DEF JobListed, Moves, StepsOn, Reports, Transfer, OnDuty
<1>7. \A u \in Jobs : JobListed(u)'
  BY <1>1, <1>2, <1>5, <1>6 DEF Place, JobListed, Moves, AtWork
<1>8. MainListed'
  BY <1>1, <1>2, <1>5 DEF Place, MainListed, NoJob, Moves
<1>9. MapOK' BY <1>1, <1>2, <1>4, <1>5 DEF Place, MapOK, Moves
<1>10. ~At(j, "made") /\ ~At(j, "inc") /\ ~At(j, "dec") /\ ~At(j, "start")
  BY <1>3 DEF At, Transfer
<1>11. ~At(j, "made")' /\ ~At(j, "inc")' /\ ~At(j, "dec")' /\ ~At(j, "start")'
  BY <1>3 DEF At, Transfer
<1>12. MadeOK' BY <1>2, <1>5, <1>10, <1>11 DEF Place, MadeOK, At
<1>13. ListedOK' BY <1>1 DEF Place, ListedOK, Moves
<1>14. ASSUME NEW t \in Threads PROVE BookOK(t)'
  <2>1. BookOK(t) BY DEF Place
  <2>2. CASE t = j BY <1>11, <2>2 DEF BookOK
  <2>3. CASE t # j
    <3>1. thread'[t] = thread[t] BY <1>5, <2>3
    <3>2. At(t, "inc") => thread[t].made # j BY <2>1, <1>10 DEF BookOK
    <3>3. At(t, "inc") => thread'[thread[t].made] = thread[thread[t].made]
      BY <1>2, <1>5, <2>1, <3>2 DEF BookOK
    <3> QED BY <1>1, <2>1, <3>1, <3>3 DEF BookOK, At, Moves
  <2> QED BY <2>2, <2>3
<1>15. CountOK'
  BY <1>1, <1>2, <1>5, <1>10, <1>11, CountSame DEF Moves, At
<1> QED BY <1>7, <1>8, <1>9, <1>12, <1>13, <1>14, <1>15 DEF Place

LEMMA PlacePersistLoad ==
  ASSUME Inv, Place, CountOK, NEW t \in Threads, persistLoad(t)
  PROVE  Place' /\ CountOK'
<1>1. /\ thread[t].pc = "load" /\ thread'[t].pc = "save" /\ Others(t)
      /\ thread'[t].it = thread[t].it /\ thread'[t].cancelled = thread[t].cancelled
      /\ thread'[t].item = thread[t].item
      /\ UNCHANGED <<saved, jobs, activeCount, crashes, requests>>
  BY PlaceTypes DEF persistLoad, At, Others, Thread, diskVars, bookVars, userVars
<1>2. Main \in Threads /\ \A u \in Jobs : u \in Threads /\ u # Main
  BY PlaceTypes
<1>3. \A u \in Threads : /\ u # t => thread'[u] = thread[u]
                         /\ AtWork(u) <=> AtWork(u)'
                         /\ thread'[u].it = thread[u].it
  BY <1>1 DEF Others, AtWork, Working, Transfer
<1>4. ASSUME NEW u \in Jobs PROVE JobListed(u)'
  <2>1. JobListed(u) BY DEF Place
  <2>2. CASE u = t
    BY <1>1, <2>1, <2>2 DEF JobListed, OnDuty, Transfer, AtWork, Working
  <2>3. CASE u # t
    BY <1>1, <1>2, <1>3, <2>1, <2>3 DEF JobListed, AtWork
  <2> QED BY <2>2, <2>3
<1>5. MainListed'
  <2>1. \A i : NoJob(i) => NoJob(i)' BY <1>2, <1>3 DEF NoJob
  <2>2. MainListed BY DEF Place
  <2>3. /\ thread'[Main].it = thread[Main].it /\ thread'[Main].item = thread[Main].item
        /\ \/ thread'[Main].pc = thread[Main].pc
           \/ thread'[Main].pc = "save" /\ thread[Main].pc = "load"
    <3>1. CASE Main = t BY <1>1, <3>1
    <3>2. CASE Main # t
      <4>1. thread'[Main] = thread[Main] BY <1>2, <1>3, <3>2
      <4> QED BY <4>1
    <3> QED BY <3>1, <3>2
  <2>4. thread'[Main].pc \in {"load", "save"} => thread[Main].pc \in {"load", "save"}
    BY <2>3
  <2> QED BY <1>1, <2>1, <2>2, <2>3, <2>4 DEF MainListed
<1>6. MapOK' BY <1>1, <1>2, <1>3 DEF Place, MapOK, OnDuty
<1>7. \A l \in {"made", "inc", "dec", "start"} : \A u \in Threads : At(u, l) <=> At(u, l)'
  BY <1>1, <1>3 DEF At
<1>8. MadeOK'
  <2>1. ~At(t, "inc") BY <1>1 DEF At
  <2> QED BY <1>2, <1>3, <1>7, <2>1 DEF Place, MadeOK
<1>9. ListedOK' BY <1>1 DEF Place, ListedOK
<1>10. ASSUME NEW u \in Threads PROVE BookOK(u)'
  <2>1. BookOK(u) BY DEF Place
  <2>2. CASE u = t BY <1>1, <2>2 DEF BookOK, At
  <2>3. CASE u # t
    <3>1. thread'[u] = thread[u] BY <1>3, <2>3
    <3> QED BY <1>1, <1>2, <1>7, <2>1, <3>1 DEF BookOK, At
  <2> QED BY <2>2, <2>3
<1>11. CountOK'
  BY <1>1, <1>2, <1>3, <1>7, CountSame
<1> QED BY <1>4, <1>5, <1>6, <1>8, <1>9, <1>10, <1>11 DEF Place

(***************************************************************************)
(* The thread that saves the list is alone at the books.                   *)
(***************************************************************************)
LEMMA Saves ==
  ASSUME Inv, Calm, Place, ~Overlap, NEW t \in Threads, persistSave(t)
  PROVE  /\ thread[t].pc = "save" /\ Others(t)
         /\ saved' = [saved EXCEPT ![thread[t].it] = thread[t].item]
         /\ UNCHANGED <<jobs, activeCount, crashes, requests, part, target, spoiled>>
         /\ \A u \in Threads : u # t => ~AtBooks(u)
         /\ \/ /\ t = Main /\ thread[t].item.state = "CANCELLED" /\ thread'[t] = End(t)
            \/ /\ t = Main /\ thread[t].item.state = "QUEUED" /\ thread'[t].pc = "start"
               /\ thread'[t].it = thread[t].it /\ thread'[t].item = thread[t].item
            \/ /\ t # Main /\ thread[t].item.state = "RUNNING" /\ thread'[t].pc = "alloc"
               /\ thread'[t].it = thread[t].it /\ thread'[t].item = thread[t].item
               /\ thread'[t].cancelled = thread[t].cancelled
               /\ thread'[t].paused = thread[t].paused
            \/ /\ t # Main /\ thread[t].item.state \notin {"QUEUED", "RUNNING"}
               /\ thread'[t].pc = "terminal"
               /\ thread'[t].it = thread[t].it /\ thread'[t].item = thread[t].item
               /\ thread'[t].cancelled = thread[t].cancelled
<1>1. /\ thread \in [Threads -> Thread] /\ thread[t] \in Thread /\ thread[t].pc = "save"
      /\ (t # Main => t \in Jobs) /\ Main \in Threads
  BY PlaceTypes DEF persistSave, At
<1>2. thread[t].copy = saved BY <1>1 DEF Calm, ThreadCalm
<1>3. saved' = [saved EXCEPT ![thread[t].it] = thread[t].item] BY <1>2 DEF persistSave
<1>4. Others(t) BY <1>1 DEF persistSave, Others
<1>5. \A u \in Threads : u # t => ~AtBooks(u)
  BY <1>1, OneAtBooks DEF AtBooks, Bookkeeping
<1>6. UNCHANGED <<jobs, activeCount, crashes, requests, part, target, spoiled>>
  BY DEF persistSave, bookVars
<1>7. \/ thread'[t] = End(t) /\ t = Main /\ thread[t].item.state = "CANCELLED"
      \/ /\ ~(t = Main /\ thread[t].item.state = "CANCELLED")
         /\ thread'[t].pc = IF thread[t].item.state = "QUEUED" THEN "start"
                            ELSE IF thread[t].item.state = "RUNNING" THEN "alloc"
                            ELSE "terminal"
         /\ thread'[t].it = thread[t].it /\ thread'[t].item = thread[t].item
         /\ thread'[t].cancelled = thread[t].cancelled
         /\ thread'[t].paused = thread[t].paused
  BY <1>1 DEF persistSave, Thread
<1>8. t = Main => thread[t].item.state \in {"QUEUED", "CANCELLED"}
  BY <1>1 DEF Calm, ThreadCalm
<1>9. t # Main => thread[t].item.state # "QUEUED"
  BY <1>1 DEF Place, JobListed
<1> QED BY <1>1, <1>3, <1>4, <1>5, <1>6, <1>7, <1>8, <1>9

LEMMA PlacePersistSave ==
  ASSUME Inv, Calm, Place, CountOK, ~Overlap, NEW t \in Threads, persistSave(t)
  PROVE  Place' /\ CountOK'
<1> DEFINE i == thread[t].it
           item == thread[t].item
<1>1. /\ thread[t].pc = "save" /\ Others(t)
      /\ saved' = [saved EXCEPT ![i] = item]
      /\ UNCHANGED <<jobs, activeCount, crashes, requests>>
      /\ \A u \in Threads : u # t => ~AtBooks(u)
  BY Saves
<1>2. \/ /\ t = Main /\ item.state = "CANCELLED" /\ thread'[t] = End(t)
      \/ /\ t = Main /\ item.state = "QUEUED" /\ thread'[t].pc = "start"
         /\ thread'[t].it = i /\ thread'[t].item = item
      \/ /\ t # Main /\ item.state = "RUNNING" /\ thread'[t].pc = "alloc"
         /\ thread'[t].it = i /\ thread'[t].cancelled = thread[t].cancelled
      \/ /\ t # Main /\ item.state \notin {"QUEUED", "RUNNING"}
         /\ thread'[t].pc = "terminal"
         /\ thread'[t].it = i /\ thread'[t].cancelled = thread[t].cancelled
  BY Saves
<1>3. /\ Main \in Threads /\ saved \in List /\ i \in Items
      /\ \A u \in Jobs : u \in Threads /\ u # Main
      /\ \A u \in Threads : thread[u].it \in Items /\ (u # Main => u \in Jobs)
  BY PlaceTypes
<1>4. /\ saved'[i] = item
      /\ \A k \in Items : k # i => saved'[k] = saved[k]
  BY <1>1, <1>3 DEF List
<1>5. t = Main => thread'[t].pc \in {"idle", "start"}
  BY <1>2 DEF End, Fresh
<1> HIDE DEF i, item
<1>6. \A u \in Jobs : AtWork(u) <=> AtWork(u)'
  BY <1>1, <1>2, <1>3 DEF Others, AtWork, Working, Transfer
<1>7. \A u \in Jobs : thread'[u].it = thread[u].it
  BY <1>1, <1>2, <1>3 DEF Others, i
<1>8. ASSUME NEW u \in Jobs PROVE JobListed(u)'
  <2>1. JobListed(u) BY DEF Place
  <2>2. CASE u = t
    <3>1. t # Main /\ thread'[u].pc \in {"alloc", "terminal"} BY <1>2, <1>3, <2>2
    <3>2. saved'[thread'[u].it].state = item.state BY <1>2, <1>4, <2>2, <3>1
    <3>3. jobs'[thread'[u].it] = u \/ thread'[u].cancelled
      BY <1>1, <1>2, <2>1, <2>2, <3>1 DEF JobListed, OnDuty, i
    <3>4. thread'[u].it <= requests'
      BY <1>1, <1>7, <2>1, <2>2 DEF JobListed, AtWork, Working
    <3>5. thread'[u].pc = "alloc" => item.state = "RUNNING" BY <1>2, <2>2, <3>1
    <3>6. thread'[u].pc = "terminal" => item.state \notin {"QUEUED", "RUNNING"} BY <1>2, <2>2, <3>1
    <3> QED BY <3>1, <3>2, <3>3, <3>4, <3>5, <3>6 DEF JobListed, Transfer
  <2>3. CASE u # t
    <3>1. thread'[u] = thread[u] /\ ~AtBooks(u) BY <1>1, <1>3, <2>3 DEF Others
    <3>2. CASE thread[u].it # i
      BY <1>1, <1>3, <1>4, <2>1, <3>1, <3>2 DEF JobListed, AtWork
    <3>3. CASE thread[u].it = i /\ AtWork(u)
      <4>1. t = Main
        <5>1. CASE t # Main
          <6>1. AtWork(t) BY <1>1 DEF AtWork, Working
          <6> QED BY <1>3, <2>3, <3>3, <5>1, <6>1, OneAtWork DEF i
        <5> QED BY <5>1
      <4>2. item.state = "CANCELLED"
        <5>1. CASE item.state = "QUEUED"
          <6>1. NoJob(i) BY <1>1, <4>1, <5>1 DEF Place, MainListed, i, item
          <6> QED BY <3>3, <6>1 DEF NoJob
        <5> QED BY <1>2, <4>1, <5>1
      <4>3. saved'[thread'[u].it].state = "CANCELLED" BY <1>4, <3>1, <3>3, <4>2
      <4>4. thread[u].pc \notin {"load", "save", "terminal", "dec"} BY <3>1 DEF AtBooks, Bookkeeping
      <4> QED BY <1>1, <2>1, <3>1, <4>3, <4>4 DEF JobListed, AtWork
    <3>4. CASE ~AtWork(u)
      BY <3>1, <3>4 DEF JobListed, AtWork, Working, Transfer, OnDuty
    <3> QED BY <3>2, <3>3, <3>4
  <2> QED BY <2>2, <2>3
<1>9. MainListed'
  <2>1. CASE t = Main BY <1>5, <2>1 DEF MainListed
  <2>2. CASE t # Main
    <3>1. thread'[Main] = thread[Main] /\ ~AtBooks(Main) BY <1>1, <1>3, <2>2 DEF Others
    <3> QED BY <3>1 DEF Place, MainListed, AtBooks, Bookkeeping
  <2> QED BY <2>1, <2>2
<1>10. MapOK'
  <2> SUFFICES ASSUME NEW k \in Items, jobs'[k] # 0
               PROVE  /\ jobs'[k] \in Jobs /\ thread'[jobs'[k]].it = k
                      /\ thread'[jobs'[k]].pc \in OnDuty
    BY DEF MapOK
  <2>1. jobs[k] \in Jobs /\ thread[jobs[k]].it = k /\ thread[jobs[k]].pc \in OnDuty /\ jobs' = jobs
    BY <1>1 DEF Place, MapOK
  <2>2. PICK n \in Jobs : n = jobs[k] BY <2>1
  <2>3. thread'[n].pc \in OnDuty
    <3>1. CASE n = t BY <1>2, <1>3, <3>1 DEF OnDuty, Transfer
    <3>2. CASE n # t BY <1>1, <1>3, <2>1, <2>2, <3>2 DEF Others
    <3> QED BY <3>1, <3>2
  <2> QED BY <1>7, <2>1, <2>2, <2>3
<1>11. \A u \in Threads : ~At(u, "made") \/ u # t
  BY <1>1 DEF At
<1>12. \A u \in Threads : At(u, "made") <=> At(u, "made")'
  BY <1>1, <1>2 DEF At, Others, End, Fresh
<1>13. \A u \in Threads : ~At(u, "inc") /\ ~At(u, "inc")' /\ ~At(u, "dec")'
  BY <1>1, <1>2 DEF At, Others, AtBooks, Bookkeeping, End, Fresh
<1>14. MadeOK'
  BY <1>3, <1>12, <1>13 DEF Place, MadeOK
<1>15. ListedOK'
  <2>1. i <= requests
    <3>1. CASE t = Main BY <1>1, <3>1 DEF Place, MainListed, i
    <3>2. CASE t # Main
      <4>1. AtWork(t) BY <1>1 DEF AtWork, Working
      <4> QED BY <1>3, <3>2, <4>1 DEF Place, JobListed, i
    <3> QED BY <3>1, <3>2
  <2> QED BY <1>1, <1>4, <2>1 DEF Place, ListedOK
<1>16. ASSUME NEW u \in Threads PROVE BookOK(u)'
  <2>1. CASE u = t
    <3>1. At(u, "start")' => thread'[u].item = item /\ thread'[u].it = i /\ item.state = "QUEUED"
      BY <1>2, <2>1 DEF At, End, Fresh
    <3> QED BY <1>4, <1>13, <2>1, <3>1 DEF BookOK
  <2>2. CASE u # t
    <3>1. ~At(u, "start")' BY <1>1, <2>2 DEF Others, At, AtBooks, Bookkeeping
    <3> QED BY <1>13, <3>1 DEF BookOK
  <2> QED BY <2>1, <2>2
<1>17. CountOK' BY <1>1, <1>3, <1>6, <1>12, CountSame
<1> QED BY <1>8, <1>9, <1>10, <1>14, <1>15, <1>16, <1>17 DEF Place

LEMMA EndIsFree ==
  ASSUME NEW t \in Threads, thread'[t] = End(t)
  PROVE  /\ thread'[t].pc \in {"idle", "gone"} /\ (t = Main => thread'[t].pc = "idle")
         /\ ~AtWork(t)' /\ ~AtBooks(t)'
         /\ \A l \in {"made", "inc", "dec", "start", "next", "load", "save"} : ~At(t, l)'
<1>1. thread'[t].pc \in {"idle", "gone"} /\ (t = Main => thread'[t].pc = "idle") BY DEF End, Fresh
<1> QED BY <1>1 DEF AtWork, AtBooks, Working, Bookkeeping, Transfer, At

LEMMA FreeIsListed ==
  ASSUME NEW j, ~AtWork(j)
  PROVE  JobListed(j)
BY DEF JobListed, AtWork, Working, Transfer, OnDuty

(***************************************************************************)
(* A thread at the books is none of those that are at work for others.     *)
(***************************************************************************)
LEMMA PlaceRefused ==
  ASSUME Inv, Place, CountOK, NEW t \in Threads, startRefused(t)
  PROVE  Place' /\ CountOK'
<1>1. /\ thread[t].pc = "start" /\ thread'[t] = End(t) /\ Others(t)
      /\ UNCHANGED <<saved, jobs, activeCount, crashes, requests>>
  BY PlaceTypes DEF startRefused, At, Others, diskVars, bookVars, userVars
<1>2. /\ Main \in Threads /\ \A u \in Jobs : u \in Threads /\ u # Main
  BY PlaceTypes
<1>3. /\ ~AtWork(t) /\ ~AtWork(t)' /\ thread'[t].pc \in {"idle", "gone"}
      /\ (t = Main => thread'[t].pc = "idle")
      /\ \A l \in {"made", "inc", "dec", "start"} : ~At(t, l)'
  BY <1>1, EndIsFree DEF AtWork, Working, Transfer
<1>4. \A u \in Jobs : /\ AtWork(u) <=> AtWork(u)'
                      /\ At(u, "made") <=> At(u, "made")'
                      /\ AtWork(u) => thread'[u] = thread[u]
  BY <1>1, <1>2, <1>3 DEF Others, AtWork, At
<1>5. ASSUME NEW u \in Jobs PROVE JobListed(u)'
  <2>1. CASE u = t BY <1>3, <2>1, FreeIsListed DEF JobListed, AtWork, Working, Transfer, OnDuty
  <2>2. CASE u # t
    <3>1. JobListed(u) /\ thread'[u] = thread[u] BY <1>1, <1>2, <2>2 DEF Place, Others
    <3> QED BY <1>1, <3>1 DEF JobListed, AtWork
  <2> QED BY <2>1, <2>2
<1>6. MainListed'
  <2>1. CASE t = Main BY <1>3, <2>1 DEF MainListed
  <2>2. CASE t # Main
    <3>1. thread'[Main] = thread[Main] BY <1>1, <1>2, <2>2 DEF Others
    <3>2. \A i : NoJob(i) => NoJob(i)' BY <1>4 DEF NoJob
    <3> QED BY <1>1, <3>1, <3>2 DEF Place, MainListed
  <2> QED BY <2>1, <2>2
<1>7. MapOK'
  <2>1. \A u \in Jobs : thread[u].pc \in OnDuty => thread'[u] = thread[u]
    BY <1>4 DEF AtWork, Working, OnDuty
  <2> QED BY <1>1, <2>1 DEF Place, MapOK
<1>8. MadeOK'
  <2>1. \A u \in Threads : At(u, "inc") => thread'[u] = thread[u]
    BY <1>1 DEF At, Others
  <2> QED BY <1>2, <1>4, <2>1 DEF Place, MadeOK, At
<1>9. ListedOK' BY <1>1 DEF Place, ListedOK
<1>10. ASSUME NEW u \in Threads PROVE BookOK(u)'
  <2>1. CASE u = t BY <1>3, <2>1 DEF BookOK
  <2>2. CASE u # t
    <3>1. BookOK(u) /\ thread'[u] = thread[u] BY <1>1, <2>2 DEF Place, Others
    <3> QED BY <1>1, <1>2, <1>4, <3>1 DEF BookOK, At
  <2> QED BY <2>1, <2>2
<1>11. CountOK' BY <1>1, <1>4, CountSame
<1> QED BY <1>5, <1>6, <1>7, <1>8, <1>9, <1>10, <1>11 DEF Place

LEMMA Starts ==
  ASSUME Inv, Place, ~Overlap, NEW t \in Threads, startJob(t)
  PROVE  \E j \in Jobs :
           /\ At(t, "start") /\ At(j, "new") /\ j # t
           /\ jobs' = [jobs EXCEPT ![thread[t].it] = j]
           /\ \A u \in Threads : u # t /\ u # j => thread'[u] = thread[u] /\ ~AtBooks(u)
           /\ thread'[t].pc = "inc" /\ thread'[t].made = j /\ thread'[t].count = activeCount
           /\ thread'[j].pc = "made" /\ thread'[j].it = thread[t].it
           /\ thread'[j].item = thread[t].item
           /\ activeCount < MAX_CONCURRENT
           /\ UNCHANGED <<diskVars, activeCount, crashes, requests, spoiled>>
<1>1. PICK j \in Jobs :
        /\ At(j, "new")
        /\ jobs' = [jobs EXCEPT ![thread[t].it] = j]
        /\ thread' = [thread EXCEPT ![t].pc = "inc", ![t].made = j, ![t].count = activeCount,
                                    ![j].pc = "made", ![j].it = thread[t].it,
                                    ![j].item = thread[t].item]
  BY Zenon DEF startJob
<1>2. At(t, "start") /\ j # t /\ j \in Threads /\ AtBooks(t)
  BY <1>1, PlaceTypes DEF startJob, At, AtBooks, Bookkeeping
<1>3. \A u \in Threads : u # t => ~AtBooks(u) BY <1>2, OneAtBooks
<1>4. /\ \A u \in Threads : u # t /\ u # j => thread'[u] = thread[u]
      /\ thread'[t].pc = "inc" /\ thread'[t].made = j /\ thread'[t].count = activeCount
      /\ thread'[j].pc = "made" /\ thread'[j].it = thread[t].it
      /\ thread'[j].item = thread[t].item
  BY <1>1, <1>2, PlaceTypes DEF Thread
<1>5. activeCount < MAX_CONCURRENT /\ UNCHANGED <<diskVars, activeCount, crashes, requests, spoiled>>
  BY DEF startJob, userVars
<1> QED BY <1>1, <1>2, <1>3, <1>4, <1>5, Zenon

LEMMA PlaceStartJob ==
  ASSUME Inv, Place, CountOK, ~Overlap, ~Overlap', NEW t \in Threads, startJob(t)
  PROVE  Place' /\ CountOK'
<1> DEFINE i == thread[t].it
<1>1. PICK j \in Jobs :
           /\ At(t, "start") /\ At(j, "new") /\ j # t
           /\ jobs' = [jobs EXCEPT ![i] = j]
           /\ \A u \in Threads : u # t /\ u # j => thread'[u] = thread[u] /\ ~AtBooks(u)
           /\ thread'[t].pc = "inc" /\ thread'[t].made = j /\ thread'[t].count = activeCount
           /\ thread'[j].pc = "made" /\ thread'[j].it = i
           /\ thread'[j].item = thread[t].item
           /\ activeCount < MAX_CONCURRENT
           /\ UNCHANGED <<diskVars, activeCount, crashes, requests, spoiled>>
  BY Starts
<1>2. /\ Main \in Threads /\ \A u \in Jobs : u \in Threads /\ u # Main
  BY PlaceTypes
<1>3. /\ i \in Items /\ jobs \in [Items -> 0..MaxJobs] /\ j \in Threads
      /\ \A u \in Threads : thread[u].it \in Items
  BY <1>2, PlaceTypes
<1>4. saved[i].state = "QUEUED" /\ saved' = saved
  BY <1>1 DEF Place, BookOK, diskVars
<1>5. i <= requests
  <2>1. NotListed.state # "QUEUED" BY DEF NotListed
  <2> QED BY <1>3, <1>4, <2>1 DEF Place, ListedOK
<1> HIDE DEF i
<1>6. jobs'[i] = j /\ \A k \in Items : k # i => jobs'[k] = jobs[k] BY <1>1, <1>3
<1>7. ~AtWork(t) /\ ~AtWork(j) /\ ~AtWork(t)' /\ AtWork(j)'
  BY <1>1 DEF At, AtWork, Working, Transfer
<1>8. \A u \in Threads : u # j => (AtWork(u) <=> AtWork(u)')
  BY <1>1, <1>7 DEF AtWork
<1>9. \A u \in Jobs : u # j /\ AtWork(u) => thread'[u] = thread[u] /\ thread[u].it # i
  <2> SUFFICES ASSUME NEW u \in Jobs, u # j, AtWork(u)
               PROVE  thread'[u] = thread[u] /\ thread[u].it # i
    OBVIOUS
  <2>1. u # t BY <1>7
  <2>2. thread'[u] = thread[u] BY <1>1, <1>2, <2>1
  <2>3. AtWork(u)' BY <2>2 DEF AtWork
  <2> QED BY <1>1, <1>7, <2>2, <2>3 DEF Overlap
<1>10. ASSUME NEW u \in Jobs PROVE JobListed(u)'
  <2>1. CASE u = j
    BY <1>1, <1>4, <1>5, <1>6, <2>1 DEF JobListed, Transfer
  <2>2. CASE u # j /\ ~AtWork(u)
    <3>1. ~AtWork(u)' BY <1>2, <1>8, <2>2
    <3> QED BY <3>1 DEF JobListed, AtWork, Working, Transfer, OnDuty
  <2>3. CASE u # j /\ AtWork(u)
    <3>1. JobListed(u) /\ thread'[u] = thread[u] /\ thread[u].it # i /\ thread[u].it \in Items
      BY <1>2, <1>3, <1>9, <2>3 DEF Place
    <3>2. jobs'[thread[u].it] = jobs[thread[u].it] BY <1>6, <3>1
    <3> QED BY <1>1, <1>4, <3>1, <3>2 DEF JobListed, AtWork
  <2> QED BY <2>1, <2>2, <2>3
<1>11. MainListed'
  <2>1. CASE t = Main BY <1>1, <2>1 DEF MainListed
  <2>2. CASE t # Main
    <3>1. thread'[Main] = thread[Main] /\ ~AtBooks(Main) BY <1>1, <1>2, <2>2
    <3> QED BY <3>1 DEF Place, MainListed, AtBooks, Bookkeeping
  <2> QED BY <2>1, <2>2
<1>12. MapOK'
  <2> SUFFICES ASSUME NEW k \in Items, jobs'[k] # 0
               PROVE  /\ jobs'[k] \in Jobs /\ thread'[jobs'[k]].it = k
                      /\ thread'[jobs'[k]].pc \in OnDuty
    BY DEF MapOK
  <2>1. CASE k = i BY <1>1, <1>6, <2>1 DEF OnDuty
  <2>2. CASE k # i
    <3>1. /\ jobs'[k] = jobs[k] /\ jobs[k] \in Jobs /\ thread[jobs[k]].it = k
          /\ thread[jobs[k]].pc \in OnDuty
      BY <1>6, <2>2 DEF Place, MapOK
    <3>2. PICK n \in Jobs : n = jobs[k] BY <3>1
    <3>3. AtWork(n) BY <3>1, <3>2 DEF AtWork, Working, OnDuty
    <3>4. thread'[n] = thread[n] BY <1>7, <1>9, <3>3
    <3> QED BY <3>1, <3>2, <3>4
  <2> QED BY <2>1, <2>2
<1>13. MadeOK'
  <2> SUFFICES ASSUME NEW u \in Jobs, At(u, "made")'
               PROVE  \E v \in Threads : At(v, "inc")' /\ thread'[v].made = u
    BY DEF MadeOK
  <2>1. CASE u = j BY <1>1, <2>1 DEF At
  <2>2. CASE u # j
    <3>1. u # t /\ At(u, "made") BY <1>1, <1>2, <2>2 DEF At
    <3>2. PICK v \in Threads : At(v, "inc") BY <3>1 DEF Place, MadeOK
    <3>3. v # t /\ v # j /\ AtBooks(v) BY <1>1, <3>2 DEF At, AtBooks, Bookkeeping
    <3> QED BY <1>1, <3>3
  <2> QED BY <2>1, <2>2
<1>14. ListedOK' BY <1>1, <1>4 DEF Place, ListedOK
<1>15. ASSUME NEW u \in Threads PROVE BookOK(u)'
  <2>1. CASE u = t BY <1>1, <2>1 DEF BookOK, At
  <2>2. CASE u = j BY <1>1, <2>2 DEF BookOK, At
  <2>3. CASE u # t /\ u # j
    BY <1>1, <2>3 DEF BookOK, At, AtBooks, Bookkeeping
  <2> QED BY <2>1, <2>2, <2>3
<1>16. CountOK'
  <2>1. \A u \in Jobs : u # j /\ u # t => (At(u, "made") <=> At(u, "made")')
    BY <1>1, <1>2 DEF At
  <2>2. At(j, "made")' BY <1>1 DEF At
  <2>3. Counted' = Counted BY <1>2, <1>7, <1>8, <2>1, <2>2 DEF Counted
  <2> QED BY <1>1, <2>3 DEF CountOK
<1> QED BY <1>10, <1>11, <1>12, <1>13, <1>14, <1>15, <1>16 DEF Place

LEMMA CountedIsFinite == IsFiniteSet(Counted) /\ Cardinality(Counted) \in Nat
<1>1. IsFiniteSet(Jobs) BY FS_Interval, DownloadAssumption DEF Jobs
<1>2. IsFiniteSet(Counted) BY <1>1, FS_Subset DEF Counted
<1> QED BY <1>2, FS_CardinalityType

LEMMA PlaceJobStarted ==
  ASSUME Inv, Place, CountOK, ~Overlap, NEW t \in Threads, jobStarted(t)
  PROVE  Place' /\ CountOK'
<1>1. /\ At(t, "inc") /\ thread[t].count = activeCount /\ activeCount < MAX_CONCURRENT
      /\ thread[t].made \in Jobs /\ At(thread[t].made, "made") /\ AtBooks(t)
  BY DEF Place, BookOK, jobStarted, AtBooks, At, Bookkeeping
<1>2. PICK m \in Jobs : m = thread[t].made BY <1>1
<1>3. At(m, "made") /\ m # t BY <1>1, <1>2 DEF At
<1>4. /\ Main \in Threads /\ m \in Threads /\ activeCount \in Nat
      /\ \A u \in Jobs : u \in Threads /\ u # Main
  BY PlaceTypes
<1>5. /\ thread'[t] = End(t) /\ thread'[m] = [thread[m] EXCEPT !.pc = "run"]
      /\ thread'[m].pc = "run"
      /\ thread'[m].it = thread[m].it /\ thread'[m].cancelled = thread[m].cancelled
      /\ \A u \in Threads : u # t /\ u # m => thread'[u] = thread[u] /\ ~AtBooks(u)
      /\ activeCount' = activeCount + 1
      /\ UNCHANGED <<saved, jobs, crashes, requests>>
  <2>1. \A u \in Threads : u # t => ~AtBooks(u) BY <1>1, OneAtBooks
  <2>2. thread' = [thread EXCEPT ![t] = End(t), ![m].pc = "run"] BY <1>2 DEF jobStarted
  <2>3. /\ thread'[t] = End(t) /\ thread'[m] = [thread[m] EXCEPT !.pc = "run"]
        /\ \A u \in Threads : u # t /\ u # m => thread'[u] = thread[u]
    BY <1>3, <1>4, <2>2, PlaceTypes
  <2>4. thread[m] \in Thread BY <1>4, PlaceTypes
  <2>5. /\ thread'[m].pc = "run"
        /\ thread'[m].it = thread[m].it /\ thread'[m].cancelled = thread[m].cancelled
    BY <2>3, <2>4 DEF Thread
  <2>6. activeCount' = activeCount + 1 /\ UNCHANGED <<saved, jobs, crashes, requests>>
    BY <1>1 DEF jobStarted, diskVars, userVars
  <2> QED BY <2>1, <2>3, <2>5, <2>6
<1>6. /\ ~AtWork(t) /\ ~AtWork(t)' /\ AtWork(m) /\ AtWork(m)'
      /\ (t = Main => thread'[t].pc = "idle")
      /\ \A l \in {"made", "inc", "dec", "start"} : ~At(t, l)' /\ ~At(m, l)'
  BY <1>1, <1>3, <1>5, EndIsFree DEF AtWork, At, Working, Transfer
<1>7. \A u \in Jobs : /\ AtWork(u) <=> AtWork(u)'
                      /\ AtWork(u) => thread'[u].it = thread[u].it
  BY <1>4, <1>5, <1>6 DEF AtWork
<1>8. ASSUME NEW u \in Jobs PROVE JobListed(u)'
  <2>1. CASE u = m
    <3>1. JobListed(m) BY DEF Place
    <3>2. thread[m].pc = "made" BY <1>3 DEF At
    <3> QED BY <1>5, <1>6, <2>1, <3>1, <3>2 DEF JobListed, OnDuty, Transfer
  <2>2. CASE u = t
    <3>1. ~AtWork(u)' BY <1>6, <2>2
    <3> QED BY <3>1 DEF JobListed, AtWork, Working, Transfer, OnDuty
  <2>3. CASE u # t /\ u # m
    <3>1. JobListed(u) /\ thread'[u] = thread[u] BY <1>4, <1>5, <2>3 DEF Place
    <3> QED BY <1>5, <3>1 DEF JobListed, AtWork
  <2> QED BY <2>1, <2>2, <2>3
<1>9. MainListed'
  <2>1. CASE t = Main BY <1>6, <2>1 DEF MainListed
  <2>2. CASE t # Main
    <3>1. thread'[Main] = thread[Main] /\ ~AtBooks(Main) BY <1>4, <1>5, <2>2
    <3> QED BY <3>1 DEF Place, MainListed, AtBooks, Bookkeeping
  <2> QED BY <2>1, <2>2
<1>10. MapOK'
  <2> SUFFICES ASSUME NEW k \in Items, jobs[k] # 0
               PROVE  /\ jobs[k] \in Jobs /\ thread'[jobs[k]].it = k
                      /\ thread'[jobs[k]].pc \in OnDuty
    BY <1>5 DEF MapOK
  <2>1. PICK n \in Jobs : n = jobs[k] /\ thread[n].it = k /\ thread[n].pc \in OnDuty
    BY DEF Place, MapOK
  <2>2. AtWork(n) BY <2>1 DEF AtWork, Working, OnDuty
  <2>3. n # t BY <1>6, <2>2
  <2>4. thread'[n].it = k /\ thread'[n].pc \in OnDuty
    BY <1>4, <1>5, <2>1, <2>3 DEF OnDuty
  <2> QED BY <2>1, <2>4
<1>11. MadeOK'
  <2> SUFFICES ASSUME NEW u \in Jobs, At(u, "made")' PROVE FALSE
    BY DEF MadeOK
  <2>1. u # t /\ u # m /\ At(u, "made") BY <1>4, <1>5, <1>6 DEF At
  <2>2. PICK v \in Threads : At(v, "inc") /\ thread[v].made = u BY <2>1 DEF Place, MadeOK
  <2>3. v # t /\ v # m BY <1>2, <1>3, <2>1, <2>2 DEF At
  <2>4. AtBooks(v) BY <2>2 DEF At, AtBooks, Bookkeeping
  <2> QED BY <1>5, <2>3, <2>4
<1>12. ListedOK' BY <1>5 DEF Place, ListedOK
<1>13. ASSUME NEW u \in Threads PROVE BookOK(u)'
  <2>1. CASE u = t \/ u = m BY <1>6, <2>1 DEF BookOK
  <2>2. CASE u # t /\ u # m
    BY <1>5, <2>2 DEF BookOK, At, AtBooks, Bookkeeping
  <2> QED BY <2>1, <2>2
<1>14. CountOK'
  <2>1. m \notin Counted BY <1>3 DEF Counted
  <2>2. \A u \in Jobs : u # m => (At(u, "made") <=> At(u, "made")')
    <3>1. ~At(t, "made") BY <1>1 DEF At
    <3> QED BY <1>4, <1>5, <1>6, <3>1 DEF At
  <2>3. Counted' = Counted \cup {m} BY <1>6, <1>7, <2>2 DEF Counted
  <2>4. Cardinality(Counted \cup {m}) = Cardinality(Counted) + 1
    BY <2>1, CountedIsFinite, FS_AddElement
  <2>5. activeCount + 1 <= MAX_CONCURRENT BY <1>1, <1>4, DownloadAssumption
  <2> QED BY <1>5, <2>3, <2>4, <2>5 DEF CountOK
<1> QED BY <1>8, <1>9, <1>10, <1>11, <1>12, <1>13, <1>14 DEF Place

(***************************************************************************)
(* The end of a job.                                                       *)
(***************************************************************************)
LEMMA PlaceOnTerminal ==
  ASSUME Inv, Place, CountOK, ~Overlap, NEW j \in Jobs, onTerminal(j)
  PROVE  Place' /\ CountOK'
<1> DEFINE i == thread[j].it
<1>1. /\ j \in Threads /\ j # Main /\ Main \in Threads /\ i \in Items
      /\ jobs \in [Items -> 0..MaxJobs]
      /\ \A u \in Threads : thread[u].it \in Items
      /\ \A u \in Jobs : u \in Threads /\ u # Main
  BY PlaceTypes
<1>2. /\ thread[j].pc = "terminal" /\ thread'[j].pc = "dec" /\ Others(j)
      /\ thread'[j].it = i /\ thread'[j].count = activeCount
      /\ jobs' = [jobs EXCEPT ![i] = 0]
      /\ UNCHANGED <<saved, activeCount, crashes, requests>>
  BY <1>1, PlaceTypes DEF onTerminal, At, Others, Thread, diskVars, userVars
<1>3. AtBooks(j) /\ AtWork(j) /\ AtWork(j)'
  BY <1>2 DEF AtBooks, AtWork, Bookkeeping, Working
<1>4. \A u \in Threads : u # j => thread'[u] = thread[u] /\ ~AtBooks(u)
  BY <1>1, <1>2, <1>3, OneAtBooks DEF Others
<1>5. \A u \in Jobs : u # j /\ AtWork(u) => thread[u].it # i
  BY <1>1, <1>3, OneAtWork
<1> HIDE DEF i
<1>6. ASSUME NEW u \in Jobs PROVE JobListed(u)'
  <2>1. JobListed(u) BY DEF Place
  <2>2. CASE u = j
    <3>1. saved[i].state \notin {"QUEUED", "RUNNING"} /\ i <= requests
      BY <1>2, <1>3, <2>1, <2>2 DEF JobListed, i
    <3> QED BY <1>2, <2>2, <3>1 DEF JobListed, OnDuty, Transfer
  <2>3. CASE u # j /\ ~AtWork(u)
    <3>1. ~AtWork(u)' BY <1>1, <1>4, <2>3 DEF AtWork
    <3> QED BY <3>1 DEF JobListed, AtWork, Working, Transfer, OnDuty
  <2>4. CASE u # j /\ AtWork(u)
    <3>1. thread'[u] = thread[u] /\ thread[u].it # i /\ thread[u].it \in Items
      BY <1>1, <1>4, <1>5, <2>4
    <3>2. jobs'[thread[u].it] = jobs[thread[u].it] BY <1>1, <1>2, <3>1
    <3> QED BY <1>2, <2>1, <3>1, <3>2 DEF JobListed, AtWork
  <2> QED BY <2>2, <2>3, <2>4
<1>7. MainListed'
  <2>1. thread'[Main] = thread[Main] /\ ~AtBooks(Main) BY <1>1, <1>4
  <2> QED BY <2>1 DEF Place, MainListed, AtBooks, Bookkeeping
<1>8. MapOK'
  <2> SUFFICES ASSUME NEW k \in Items, jobs'[k] # 0
               PROVE  /\ jobs'[k] \in Jobs /\ thread'[jobs'[k]].it = k
                      /\ thread'[jobs'[k]].pc \in OnDuty
    BY DEF MapOK
  <2>1. k # i /\ jobs'[k] = jobs[k] BY <1>1, <1>2
  <2>2. PICK n \in Jobs : n = jobs[k] /\ thread[n].it = k /\ thread[n].pc \in OnDuty
    BY <2>1 DEF Place, MapOK
  <2>3. n # j BY <2>1, <2>2 DEF i
  <2> QED BY <1>1, <1>4, <2>1, <2>2, <2>3
<1>9. \A u \in Threads : /\ At(u, "made") <=> At(u, "made")'
                         /\ ~At(u, "inc") /\ ~At(u, "inc")' /\ ~At(u, "start")'
  BY <1>2, <1>4 DEF At, AtBooks, Bookkeeping
<1>10. MadeOK' BY <1>1, <1>9 DEF Place, MadeOK
<1>11. ListedOK' BY <1>2 DEF Place, ListedOK
<1>12. ASSUME NEW u \in Threads PROVE BookOK(u)'
  <2>1. CASE u = j BY <1>2, <1>9, <2>1 DEF BookOK
  <2>2. CASE u # j
    <3>1. ~At(u, "dec")' BY <1>4, <2>2 DEF At, AtBooks, Bookkeeping
    <3> QED BY <1>9, <3>1 DEF BookOK
  <2> QED BY <2>1, <2>2
<1>13. CountOK'
  <2>1. \A u \in Jobs : AtWork(u) <=> AtWork(u)' BY <1>1, <1>3, <1>4 DEF AtWork
  <2> QED BY <1>1, <1>2, <1>9, <2>1, CountSame
<1> QED BY <1>6, <1>7, <1>8, <1>10, <1>11, <1>12, <1>13 DEF Place

LEMMA PlaceJobEnded ==
  ASSUME Inv, Place, CountOK, ~Overlap, NEW j \in Jobs, jobEnded(j)
  PROVE  Place' /\ CountOK'
<1>1. /\ j \in Threads /\ j # Main /\ Main \in Threads /\ activeCount \in Nat
      /\ \A u \in Jobs : u \in Threads /\ u # Main
  BY PlaceTypes
<1>2. /\ thread[j].pc = "dec" /\ thread'[j].pc = "next" /\ Others(j)
      /\ UNCHANGED <<saved, jobs, crashes, requests>>
  BY <1>1, PlaceTypes DEF jobEnded, At, Others, Fresh, diskVars, userVars
<1>3. AtBooks(j) /\ AtWork(j) /\ ~AtWork(j)'
  BY <1>2 DEF AtBooks, AtWork, Bookkeeping, Working, Transfer
<1>4. \A u \in Threads : u # j => thread'[u] = thread[u] /\ ~AtBooks(u)
  BY <1>1, <1>2, <1>3, OneAtBooks DEF Others
<1>5. \A u \in Jobs : u # j => /\ AtWork(u) <=> AtWork(u)'
                               /\ At(u, "made") <=> At(u, "made")'
  BY <1>1, <1>4 DEF AtWork, At
<1>6. ASSUME NEW u \in Jobs PROVE JobListed(u)'
  <2>1. CASE u = j
    BY <1>2, <2>1 DEF JobListed, AtWork, Working, Transfer, OnDuty
  <2>2. CASE u # j
    <3>1. JobListed(u) /\ thread'[u] = thread[u] BY <1>1, <1>4, <2>2 DEF Place
    <3> QED BY <1>2, <3>1 DEF JobListed, AtWork
  <2> QED BY <2>1, <2>2
<1>7. MainListed'
  <2>1. thread'[Main] = thread[Main] /\ ~AtBooks(Main) BY <1>1, <1>4
  <2> QED BY <2>1 DEF Place, MainListed, AtBooks, Bookkeeping
<1>8. MapOK'
  <2> SUFFICES ASSUME NEW k \in Items, jobs[k] # 0
               PROVE  /\ jobs[k] \in Jobs /\ thread'[jobs[k]].it = k
                      /\ thread'[jobs[k]].pc \in OnDuty
    BY <1>2 DEF MapOK
  <2>1. PICK n \in Jobs : n = jobs[k] /\ thread[n].it = k /\ thread[n].pc \in OnDuty
    BY DEF Place, MapOK
  <2>2. n # j BY <1>2, <2>1 DEF OnDuty, Transfer
  <2> QED BY <1>1, <1>4, <2>1, <2>2
<1>9. \A u \in Threads : ~At(u, "inc") /\ ~At(u, "inc")' /\ ~At(u, "start")' /\ ~At(u, "dec")'
  BY <1>2, <1>4 DEF At, AtBooks, Bookkeeping
<1>10. MadeOK'
  <2>1. ~At(j, "made")' BY <1>2 DEF At
  <2> QED BY <1>1, <1>5, <1>9, <2>1 DEF Place, MadeOK
<1>11. ListedOK' BY <1>2 DEF Place, ListedOK
<1>12. \A u \in Threads : BookOK(u)' BY <1>9 DEF BookOK
<1>13. CountOK'
  <2>1. j \in Counted BY <1>2, <1>3 DEF Counted, At
  <2>2. Counted' = Counted \ {j} BY <1>3, <1>5 DEF Counted
  <2>3. Cardinality(Counted \ {j}) = Cardinality(Counted) - 1
    BY <2>1, CountedIsFinite, FS_RemoveElement
  <2>4. Cardinality(Counted \ {j}) \in Nat
    BY CountedIsFinite, FS_RemoveElement, FS_CardinalityType
  <2>5. activeCount = Cardinality(Counted) /\ activeCount <= MAX_CONCURRENT BY DEF CountOK
  <2>6. thread[j].count = activeCount BY <1>1, <1>2 DEF Place, BookOK, At
  <2>7. activeCount' = activeCount - 1
    <3>1. activeCount > 0 BY <1>1, <2>3, <2>4, <2>5
    <3> QED BY <2>6, <3>1 DEF jobEnded
  <2>8. activeCount' = Cardinality(Counted \ {j}) BY <2>3, <2>5, <2>7
  <2>9. activeCount' <= MAX_CONCURRENT BY <1>1, <2>5, <2>7, DownloadAssumption
  <2> QED BY <2>2, <2>8, <2>9 DEF CountOK
<1> QED BY <1>6, <1>7, <1>8, <1>10, <1>11, <1>12, <1>13 DEF Place

LEMMA NextStarts ==
  ASSUME Inv, NEW j \in Jobs, startNext(j)
  PROVE  /\ thread[j].pc = "next" /\ Others(j)
         /\ UNCHANGED <<diskVars, jobs, activeCount, crashes, requests, spoiled>>
         /\ \/ /\ thread'[j].pc = "start" /\ thread'[j].it \in Items
               /\ thread'[j].item = saved[thread'[j].it] /\ thread'[j].item.state = "QUEUED"
            \/ thread'[j].pc = "gone" /\ Waiting = {}
<1>1. j \in Threads /\ thread \in [Threads -> Thread] /\ thread[j] \in Thread BY PlaceTypes
<1>2. At(j, "next") /\ UNCHANGED <<diskVars, jobs, activeCount, crashes, requests, spoiled>>
  <2>1. At(j, "next") /\ UNCHANGED <<diskVars, bookVars, requests, actions, crashes, inbox, spoiled>>
    BY Zenon DEF startNext
  <2> QED BY <2>1 DEF diskVars, bookVars
<1>3. CASE \E i \in Waiting :
             thread' = [thread EXCEPT ![j].pc = "start", ![j].it = i, ![j].item = saved[i]]
  <2>1. PICK i \in Waiting :
          thread' = [thread EXCEPT ![j].pc = "start", ![j].it = i, ![j].item = saved[i]]
    BY <1>3, Zenon
  <2>2. /\ Others(j) /\ thread'[j].pc = "start" /\ thread'[j].it = i
        /\ thread'[j].item = saved[i] /\ i \in Items /\ saved[i].state = "QUEUED"
    BY <1>1, <2>1 DEF Others, Thread, Waiting
  <2> QED BY <1>2, <2>2 DEF At
<1>4. CASE goto(j, "gone") /\ Waiting = {}
  BY <1>2, <1>4, GoesOn DEF At
<1> QED BY <1>3, <1>4, Zenon DEF startNext

LEMMA PlaceStartNext ==
  ASSUME Inv, Place, CountOK, ~Overlap, NEW j \in Jobs, startNext(j)
  PROVE  Place' /\ CountOK'
<1>1. /\ j \in Threads /\ j # Main /\ Main \in Threads
      /\ \A u \in Jobs : u \in Threads /\ u # Main
  BY PlaceTypes
<1>2. /\ thread[j].pc = "next" /\ thread'[j].pc \in {"start", "gone"} /\ Others(j)
      /\ UNCHANGED <<saved, jobs, activeCount, crashes, requests>>
      /\ thread'[j].pc = "start" =>
           thread'[j].item = saved[thread'[j].it] /\ thread'[j].item.state = "QUEUED"
  BY NextStarts DEF diskVars
<1>3. AtBooks(j) /\ ~AtWork(j) /\ ~AtWork(j)'
  BY <1>2 DEF AtBooks, AtWork, Bookkeeping, Working, Transfer
<1>4. \A u \in Threads : u # j => thread'[u] = thread[u] /\ ~AtBooks(u)
  BY <1>1, <1>2, <1>3, OneAtBooks DEF Others
<1>5. \A u \in Jobs : /\ AtWork(u) <=> AtWork(u)'
                      /\ At(u, "made") <=> At(u, "made")'
  BY <1>1, <1>2, <1>3, <1>4 DEF AtWork, At
<1>6. ASSUME NEW u \in Jobs PROVE JobListed(u)'
  <2>1. CASE u = j
    BY <1>2, <2>1 DEF JobListed, AtWork, Working, Transfer, OnDuty
  <2>2. CASE u # j
    <3>1. JobListed(u) /\ thread'[u] = thread[u] BY <1>1, <1>4, <2>2 DEF Place
    <3> QED BY <1>2, <3>1 DEF JobListed, AtWork
  <2> QED BY <2>1, <2>2
<1>7. MainListed'
  <2>1. thread'[Main] = thread[Main] /\ ~AtBooks(Main) BY <1>1, <1>4
  <2> QED BY <2>1 DEF Place, MainListed, AtBooks, Bookkeeping
<1>8. MapOK'
  <2> SUFFICES ASSUME NEW k \in Items, jobs[k] # 0
               PROVE  /\ jobs[k] \in Jobs /\ thread'[jobs[k]].it = k
                      /\ thread'[jobs[k]].pc \in OnDuty
    BY <1>2 DEF MapOK
  <2>1. PICK n \in Jobs : n = jobs[k] /\ thread[n].it = k /\ thread[n].pc \in OnDuty
    BY DEF Place, MapOK
  <2>2. n # j BY <1>2, <2>1 DEF OnDuty, Transfer
  <2> QED BY <1>1, <1>4, <2>1, <2>2
<1>9. \A u \in Threads : ~At(u, "inc") /\ ~At(u, "inc")' /\ ~At(u, "dec")'
  BY <1>2, <1>4 DEF At, AtBooks, Bookkeeping
<1>10. MadeOK' BY <1>1, <1>5, <1>9 DEF Place, MadeOK
<1>11. ListedOK' BY <1>2 DEF Place, ListedOK
<1>12. ASSUME NEW u \in Threads PROVE BookOK(u)'
  <2>1. CASE u = j BY <1>2, <1>9, <2>1 DEF BookOK, At
  <2>2. CASE u # j
    <3>1. ~At(u, "start")' BY <1>4, <2>2 DEF At, AtBooks, Bookkeeping
    <3> QED BY <1>9, <3>1 DEF BookOK
  <2> QED BY <2>1, <2>2
<1>13. CountOK' BY <1>2, <1>5, CountSame
<1> QED BY <1>6, <1>7, <1>8, <1>10, <1>11, <1>12, <1>13 DEF Place

LEMMA PlaceDeath ==
  ASSUME Inv, Place, processDeath
  PROVE  Place' /\ CountOK'
<1>1. /\ Main \in Threads
      /\ \A u \in Jobs : u \in Threads /\ u # Main
  BY PlaceTypes
<1>2. \A u \in Threads : thread'[u].pc \in {"idle", "new", "gone"}
  BY DEF processDeath, At, End, Fresh
<1>3. thread'[Main].pc = "idle"
  <2>1. thread[Main].pc # "new" BY DEF Place, MainListed
  <2> QED BY <1>1, <2>1 DEF processDeath, At, End, Fresh
<1>4. UNCHANGED <<saved, requests>> /\ activeCount' = 0 /\ \A k \in Items : jobs'[k] = 0
  BY DEF processDeath, diskVars
<1>5. \A u \in Threads : /\ ~AtWork(u)'
                         /\ \A l \in {"made", "inc", "dec", "start"} : ~At(u, l)'
  BY <1>2 DEF AtWork, Working, Transfer, At
<1>6. \A u \in Jobs : JobListed(u)'
  BY <1>1, <1>5 DEF JobListed, AtWork, Working, Transfer, OnDuty
<1>7. MainListed' BY <1>3 DEF MainListed
<1>8. MapOK' BY <1>4 DEF MapOK
<1>9. MadeOK' BY <1>1, <1>5 DEF MadeOK
<1>10. ListedOK' BY <1>4 DEF Place, ListedOK
<1>11. \A u \in Threads : BookOK(u)' BY <1>5 DEF BookOK
<1>12. CountOK'
  <2>1. Counted' = {} BY <1>1, <1>5 DEF Counted
  <2>2. Cardinality({}) = 0 BY FS_EmptySet
  <2> QED BY <1>4, <2>1, <2>2, DownloadAssumption DEF CountOK
<1> QED BY <1>6, <1>7, <1>8, <1>9, <1>10, <1>11, <1>12 DEF Place

(***************************************************************************)
(* What a command may do.  Jobs only hear of it, the map loses at most a   *)
(* job that was told to end, and the main thread goes on to persist, with  *)
(* the part file gone where the download begins anew or is cancelled.      *)
(***************************************************************************)
Hears(u, i) ==
  /\ thread'[u].pc = thread[u].pc /\ thread'[u].it = thread[u].it
  /\ thread'[u].item = thread[u].item /\ thread'[u].made = thread[u].made
  /\ thread'[u].count = thread[u].count /\ thread'[u].left = thread[u].left
  /\ thread[u].cancelled => thread'[u].cancelled
  /\ thread[u].paused => \/ thread'[u].paused
                         \/ saved[i].state = "PAUSED" /\ jobs[i] = u

JobsHear(i) == \A u \in Jobs : Hears(u, i)

MapForgets(i) == \/ jobs' = jobs
                 \/ /\ jobs' = [jobs EXCEPT ![i] = 0]
                    /\ jobs[i] # 0 => thread'[jobs[i]].cancelled

MainStays == thread'[Main] = thread[Main] /\ UNCHANGED <<part, requests>>

MainTakes(i, item) == /\ thread'[Main].pc = "load" /\ thread'[Main].it = i
                      /\ thread'[Main].item = item

Resumed(i) == /\ saved[i].state = "PAUSED" /\ UNCHANGED <<part, requests>>
              /\ MainTakes(i, [saved[i] EXCEPT !.state = "QUEUED"])
Retried(i) == /\ saved[i].state = "FAILED" /\ UNCHANGED requests
              /\ part' = [part EXCEPT ![i] = NoFile]
              /\ MainTakes(i, [saved[i] EXCEPT !.state = "QUEUED", !.segments = <<>>])
Dropped(i) == /\ saved[i] # NotListed /\ UNCHANGED requests
              /\ part' = [part EXCEPT ![i] = NoFile]
              /\ jobs' = [jobs EXCEPT ![i] = 0]
              /\ MainTakes(i, [saved[i] EXCEPT !.state = "CANCELLED"])
Added == /\ requests + 1 \in Items /\ requests' = requests + 1 /\ UNCHANGED part
         /\ MainTakes(requests + 1, Requested)

Effect(i) == /\ JobsHear(i) /\ MapForgets(i)
             /\ MainStays \/ Resumed(i) \/ Retried(i) \/ Dropped(i) \/ Added
             /\ UNCHANGED <<saved, target, activeCount, crashes, spoiled>>

LEMMA FlagTold ==
  ASSUME NEW u, thread[u] \in Thread, NEW i,
         \/ thread'[u] = thread[u]
         \/ thread'[u] = [thread[u] EXCEPT !.cancelled = TRUE]
         \/ /\ thread'[u] = [thread[u] EXCEPT !.paused = FALSE]
            /\ saved[i].state = "PAUSED" /\ jobs[i] = u
  PROVE  Hears(u, i)
<1>1. CASE thread'[u] = thread[u] BY <1>1 DEF Hears
<1>2. CASE thread'[u] = [thread[u] EXCEPT !.cancelled = TRUE] BY <1>2 DEF Hears, Thread
<1>3. CASE /\ thread'[u] = [thread[u] EXCEPT !.paused = FALSE]
           /\ saved[i].state = "PAUSED" /\ jobs[i] = u
  BY <1>3 DEF Hears, Thread
<1> QED BY <1>1, <1>2, <1>3

LEMMA PersistEffect ==
  ASSUME Inv, NEW i \in Items, NEW item, NEW k, thread' = persist(i, item)
  PROVE  JobsHear(k) /\ MainTakes(i, item)
<1>1. /\ Main \in Threads /\ thread \in [Threads -> Thread] /\ thread[Main] \in Thread
      /\ \A u \in Jobs : u \in Threads /\ u # Main
  BY PlaceTypes
<1>2. \A u \in Jobs : thread'[u] = thread[u] BY <1>1 DEF persist
<1>3. JobsHear(k) BY <1>2 DEF JobsHear, Hears
<1>4. MainTakes(i, item) BY <1>1 DEF persist, MainTakes, Thread
<1> QED BY <1>3, <1>4

LEMMA EnqueueEffect ==
  ASSUME Inv, enqueue, NEW i
  PROVE  JobsHear(i) /\ MapForgets(i) /\ Added
<1>1. /\ requests + 1 \in Items /\ requests' = requests + 1 /\ UNCHANGED <<part, jobs>>
      /\ thread' = persist(requests + 1, Requested)
  BY DEF enqueue
<1> QED BY <1>1, PersistEffect DEF Added, MapForgets

LEMMA PauseEffect ==
  ASSUME Inv, NEW i \in Items, pause(i)
  PROVE  JobsHear(i) /\ MapForgets(i) /\ MainStays
<1>1. /\ Main \in Threads /\ thread \in [Threads -> Thread] /\ Main = 0
      /\ \A u \in Jobs : u \in Threads /\ u # Main /\ thread[u] \in Thread
  BY PlaceTypes DEF Main
<1>2. UNCHANGED <<part, jobs, requests>> BY DEF pause
<1>3. JobsHear(i) /\ thread'[Main] = thread[Main]
  <2>1. CASE jobs[i] = 0 BY <2>1 DEF pause, JobsHear, Hears
  <2>2. CASE jobs[i] # 0
    <3>1. thread' = [thread EXCEPT ![jobs[i]].paused = TRUE] BY <2>2 DEF pause
    <3>2. thread'[Main] = thread[Main] BY <1>1, <2>2, <3>1
    <3>3. JobsHear(i) BY <1>1, <3>1 DEF JobsHear, Hears, Thread
    <3> QED BY <3>2, <3>3
  <2> QED BY <2>1, <2>2
<1> QED BY <1>2, <1>3 DEF MapForgets, MainStays

LEMMA ResumeEffect ==
  ASSUME Inv, NEW i \in Items, resume(i)
  PROVE  JobsHear(i) /\ MapForgets(i) /\ (MainStays \/ Resumed(i))
<1>1. /\ Main \in Threads /\ thread \in [Threads -> Thread] /\ Main = 0
      /\ \A u \in Jobs : u \in Threads /\ u # Main /\ thread[u] \in Thread
  BY PlaceTypes DEF Main
<1>2. UNCHANGED <<part, jobs, requests>> BY DEF resume
<1>3. CASE saved[i].state # "PAUSED"
  <2>1. UNCHANGED thread BY <1>3 DEF resume
  <2> QED BY <1>2, <2>1 DEF JobsHear, Hears, MapForgets, MainStays
<1>4. CASE saved[i].state = "PAUSED"
  <2> DEFINE item == [saved[i] EXCEPT !.state = "QUEUED"]
             queued == persist(i, item)
  <2>1. \/ thread' = queued
        \/ jobs[i] # 0 /\ thread' = [queued EXCEPT ![jobs[i]].paused = FALSE]
    BY <1>4 DEF resume
  <2>2. CASE thread' = queued
    <3>1. JobsHear(i) /\ MainTakes(i, item) BY <2>2, PersistEffect
    <3> QED BY <1>2, <1>4, <3>1 DEF MapForgets, Resumed
  <2>3. CASE jobs[i] # 0 /\ thread' = [queued EXCEPT ![jobs[i]].paused = FALSE]
    <3> HIDE DEF item
    <3>1. /\ \A u \in Jobs : queued[u] = thread[u]
          /\ queued[Main].pc = "load" /\ queued[Main].it = i /\ queued[Main].item = item
          /\ queued = [u \in Threads |-> queued[u]]
      BY <1>1 DEF persist, Thread
    <3> HIDE DEF queued
    <3>2. thread'[Main] = queued[Main] BY <1>1, <2>3, <3>1
    <3>3. \A u \in Jobs : \/ thread'[u] = thread[u]
                          \/ jobs[i] = u /\ thread'[u] = [thread[u] EXCEPT !.paused = FALSE]
      BY <1>1, <2>3, <3>1
    <3>4. JobsHear(i) BY <1>1, <1>4, <3>3, FlagTold DEF JobsHear
    <3>5. MainTakes(i, item) BY <3>1, <3>2 DEF MainTakes
    <3> QED BY <1>2, <1>4, <3>4, <3>5 DEF MapForgets, Resumed, item
  <2> QED BY <2>1, <2>2, <2>3
<1> QED BY <1>3, <1>4

LEMMA RetryEffect ==
  ASSUME Inv, NEW i \in Items, retry(i)
  PROVE  JobsHear(i) /\ MapForgets(i) /\ (MainStays \/ Retried(i))
<1>1. UNCHANGED <<jobs, requests>> BY DEF retry
<1>2. CASE saved[i].state # "FAILED"
  <2>1. UNCHANGED <<part, thread>> BY <1>2 DEF retry
  <2> QED BY <1>1, <2>1 DEF JobsHear, Hears, MapForgets, MainStays
<1>3. CASE saved[i].state = "FAILED"
  <2> DEFINE item == [saved[i] EXCEPT !.state = "QUEUED", !.segments = <<>>]
  <2>1. thread' = persist(i, item) /\ part' = [part EXCEPT ![i] = NoFile] BY <1>3 DEF retry
  <2> HIDE DEF item
  <2>2. JobsHear(i) /\ MainTakes(i, item) BY <2>1, PersistEffect
  <2> QED BY <1>1, <1>3, <2>1, <2>2 DEF MapForgets, Retried, item
<1> QED BY <1>2, <1>3

LEMMA CancelEffect ==
  ASSUME Inv, NEW i \in Items, cancel(i)
  PROVE  JobsHear(i) /\ MapForgets(i) /\ (MainStays \/ Dropped(i))
<1>1. /\ Main \in Threads /\ thread \in [Threads -> Thread] /\ Main = 0
      /\ \A u \in Jobs : u \in Threads /\ u # Main /\ thread[u] \in Thread
      /\ jobs[i] \in Threads /\ thread[Main] \in Thread
  BY PlaceTypes DEF Main, Threads
<1> DEFINE item == [saved[i] EXCEPT !.state = "CANCELLED"]
           next == IF saved[i] # NotListed THEN persist(i, item) ELSE thread
           told == IF jobs[i] = 0 THEN {} ELSE {jobs[i]}
<1>2. thread' = [u \in Threads |-> IF u \in told THEN [next[u] EXCEPT !.cancelled = TRUE]
                                   ELSE next[u]]
  BY DEF cancel
<1>3. jobs' = [jobs EXCEPT ![i] = 0] /\ UNCHANGED requests BY DEF cancel
<1>4. IF saved[i] # NotListed THEN part' = [part EXCEPT ![i] = NoFile] ELSE part' = part
  BY DEF cancel
<1>5. /\ \A u \in Jobs : next[u] = thread[u]
      /\ saved[i] = NotListed => next[Main] = thread[Main]
      /\ saved[i] # NotListed => next[Main].pc = "load" /\ next[Main].it = i /\ next[Main].item = item
  <2> HIDE DEF item
  <2>1. /\ \A u \in Jobs : persist(i, item)[u] = thread[u]
        /\ persist(i, item)[Main].pc = "load" /\ persist(i, item)[Main].it = i
        /\ persist(i, item)[Main].item = item
    BY <1>1 DEF persist, Thread
  <2> QED BY <2>1
<1> HIDE DEF item, next
<1>6. thread'[Main] = next[Main] BY <1>1, <1>2
<1>7. \A u \in Jobs : thread'[u] = thread[u] \/ thread'[u] = [thread[u] EXCEPT !.cancelled = TRUE]
  BY <1>1, <1>2, <1>5
<1>8. JobsHear(i) BY <1>1, <1>7, FlagTold DEF JobsHear
<1>9. jobs[i] # 0 => thread'[jobs[i]].cancelled
  <2>1. CASE jobs[i] # 0
    <3>1. jobs[i] \in Jobs BY <1>1, <2>1, DownloadAssumption DEF Jobs, Threads
    <3>2. PICK u \in Jobs : u = jobs[i] BY <3>1
    <3>3. thread'[u] = [thread[u] EXCEPT !.cancelled = TRUE] BY <1>1, <1>2, <1>5, <2>1, <3>2
    <3> QED BY <1>1, <3>2, <3>3 DEF Thread
  <2> QED BY <2>1
<1>10. MainStays \/ Dropped(i)
  <2>1. CASE saved[i] = NotListed BY <1>3, <1>4, <1>5, <1>6, <2>1 DEF MainStays
  <2>2. CASE saved[i] # NotListed
    BY <1>3, <1>4, <1>5, <1>6, <2>2 DEF Dropped, MainTakes, item
  <2> QED BY <2>1, <2>2
<1> QED BY <1>3, <1>8, <1>9, <1>10 DEF MapForgets

LEMMA CommandEffect ==
  ASSUME Inv, NEW c \in Command, NEW i \in Items, onStartCommand(c, i)
  PROVE  Effect(i)
<1>1. UNCHANGED <<saved, target, activeCount, crashes, spoiled>> BY DEF onStartCommand
<1>2. enqueue \/ pause(i) \/ resume(i) \/ retry(i) \/ cancel(i) BY DEF onStartCommand
<1> QED
  BY <1>1, <1>2, EnqueueEffect, PauseEffect, ResumeEffect, RetryEffect, CancelEffect DEF Effect

(***************************************************************************)
(* A download that the main thread queues has no job: while a job works    *)
(* for it the list shows it otherwise, or the job is at the books, where   *)
(* the main thread now is.                                                 *)
(***************************************************************************)
LEMMA QueuedHasNoJob ==
  ASSUME Inv, Place, ~Overlap', NEW i \in Items, JobsHear(i), NEW k \in Items,
         \/ saved[k].state \in {"PAUSED", "FAILED"}
         \/ k > requests,
         thread'[Main].pc = "load"
  PROVE  NoJob(k)'
<1> SUFFICES ASSUME NEW j \in Jobs, AtWork(j)', thread'[j].it = k PROVE FALSE
  BY DEF NoJob
<1>1. /\ AtWork(j) /\ thread[j].it = k /\ thread'[j].pc = thread[j].pc
  BY DEF JobsHear, Hears, AtWork
<1>2. /\ Main \in Threads /\ j \in Threads /\ j # Main /\ requests \in Nat
  BY PlaceTypes
<1>3. ~AtBooks(j)'
  <2>1. AtBooks(Main)' BY DEF AtBooks, Bookkeeping
  <2> QED BY <1>2, <2>1 DEF Overlap
<1>4. thread[j].pc \in Transfer \cup {"made", "run"}
  BY <1>1, <1>3 DEF AtWork, AtBooks, Working, Bookkeeping
<1>5. saved[k].state \in {"QUEUED", "RUNNING", "CANCELLED"} /\ k <= requests
  BY <1>1, <1>4 DEF Place, JobListed
<1>6. k \in Int BY DEF Items
<1> QED BY <1>2, <1>5, <1>6

LEMMA PlaceCommand ==
  ASSUME Inv, Place, CountOK, ~Overlap', NEW i \in Items, Effect(i), At(Main, "idle")
  PROVE  Place' /\ CountOK'
<1>1. /\ Main \in Threads /\ Main \notin Jobs /\ requests \in Nat
      /\ jobs \in [Items -> 0..MaxJobs] /\ saved \in List
      /\ \A u \in Jobs : u \in Threads /\ u # Main
      /\ \A u \in Threads : thread[u].it \in Items /\ (u # Main => u \in Jobs)
  BY PlaceTypes
<1>2. /\ JobsHear(i) /\ MapForgets(i) /\ UNCHANGED <<saved, activeCount>>
      /\ MainStays \/ Resumed(i) \/ Retried(i) \/ Dropped(i) \/ Added
  BY DEF Effect
<1>3. requests' \in Nat /\ requests <= requests'
  BY <1>1, <1>2 DEF MainStays, Resumed, Retried, Dropped, Added
<1>4. /\ thread'[Main].pc \in {"idle", "load"}
      /\ thread'[Main].pc = "load" =>
           \E k \in Items : /\ thread'[Main].it = k /\ k <= requests'
                            /\ thread'[Main].item.state = "QUEUED" => NoJob(k)'
  <2>1. CASE MainStays BY <2>1 DEF MainStays, At
  <2>2. CASE Resumed(i) \/ Retried(i)
    <3>4. saved[i].state \in {"PAUSED", "FAILED"} BY <2>2 DEF Resumed, Retried
    <3>0. NotListed.state \notin {"PAUSED", "FAILED"} BY DEF NotListed
    <3>1. saved[i] # NotListed BY <3>0, <3>4
    <3>2. i <= requests BY <3>1 DEF Place, ListedOK
    <3>3. thread'[Main].pc = "load" /\ thread'[Main].it = i /\ requests' = requests
      BY <2>2 DEF Resumed, Retried, MainTakes
    <3>5. NoJob(i)' BY <1>2, <3>3, <3>4, QueuedHasNoJob
    <3> QED BY <3>2, <3>3, <3>5
  <2>3. CASE Dropped(i)
    <3>0. saved[i] # NotListed BY <2>3 DEF Dropped
    <3>1. saved[i] \in DownloadItem BY <1>1, <3>0 DEF List
    <3>2. [saved[i] EXCEPT !.state = "CANCELLED"].state = "CANCELLED"
      BY <3>1 DEF DownloadItem
    <3>3. i <= requests BY <2>3 DEF Place, ListedOK, Dropped
    <3> QED BY <2>3, <3>2, <3>3 DEF Dropped, MainTakes
  <2>4. CASE Added
    <3>1. PICK k \in Items : k = requests + 1 BY <2>4 DEF Added
    <3>2. thread'[Main].pc = "load" /\ thread'[Main].it = k /\ requests' = k
      BY <2>4, <3>1 DEF Added, MainTakes
    <3>3. k > requests BY <1>1, <3>1
    <3>4. NoJob(k)' BY <1>2, <3>2, <3>3, QueuedHasNoJob
    <3>5. k <= requests' BY <1>3, <3>2
    <3> QED BY <3>2, <3>4, <3>5
  <2> QED BY <1>2, <2>1, <2>2, <2>3, <2>4
<1>5. \A u \in Jobs : /\ AtWork(u) <=> AtWork(u)'
                      /\ \A l : At(u, l) <=> At(u, l)'
  BY <1>2 DEF JobsHear, Hears, AtWork, At
<1>6. ASSUME NEW u \in Jobs PROVE JobListed(u)'
  <2>1. JobListed(u) BY DEF Place
  <2>2. /\ thread'[u].pc = thread[u].pc /\ thread'[u].it = thread[u].it
        /\ thread'[u].item = thread[u].item
        /\ thread[u].cancelled => thread'[u].cancelled
    BY <1>2 DEF JobsHear, Hears
  <2>3. thread[u].it \in Items BY <1>1
  <2>4. thread[u].pc \in OnDuty => jobs'[thread[u].it] = u \/ thread'[u].cancelled
    <3>1. CASE jobs' = jobs BY <2>1, <2>2, <3>1 DEF JobListed
    <3>2. CASE /\ jobs' = [jobs EXCEPT ![i] = 0]
               /\ jobs[i] # 0 => thread'[jobs[i]].cancelled
      <4>1. CASE thread[u].it # i BY <1>1, <2>1, <2>2, <2>3, <3>2, <4>1 DEF JobListed
      <4>2. CASE thread[u].it = i
        <5>1. u # 0 BY <1>1 DEF Main
        <5> QED BY <2>1, <2>2, <3>2, <4>2, <5>1 DEF JobListed
      <4> QED BY <4>1, <4>2
    <3> QED BY <1>2, <3>1, <3>2 DEF MapForgets
  <2>5. AtWork(u)' => thread'[u].it <= requests'
    <3>1. thread[u].it \in Int BY <2>3 DEF Items
    <3> QED BY <1>1, <1>3, <1>5, <2>1, <2>2, <3>1 DEF JobListed
  <2> QED BY <1>2, <2>1, <2>2, <2>4, <2>5 DEF JobListed
<1>7. MainListed'
  <2>1. CASE thread'[Main].pc = "idle" BY <2>1 DEF MainListed
  <2>2. CASE thread'[Main].pc = "load"
    <3>1. PICK k \in Items : /\ thread'[Main].it = k /\ k <= requests'
                             /\ thread'[Main].item.state = "QUEUED" => NoJob(k)'
      BY <1>4, <2>2
    <3> QED BY <2>2, <3>1 DEF MainListed, NoJob
  <2> QED BY <1>4, <2>1, <2>2
<1>8. MapOK'
  <2> SUFFICES ASSUME NEW k \in Items, jobs'[k] # 0
               PROVE  /\ jobs'[k] \in Jobs /\ thread'[jobs'[k]].it = k
                      /\ thread'[jobs'[k]].pc \in OnDuty
    BY DEF MapOK
  <2>1. jobs'[k] = jobs[k] BY <1>1, <1>2 DEF MapForgets
  <2>2. PICK n \in Jobs : n = jobs[k] /\ thread[n].it = k /\ thread[n].pc \in OnDuty
    BY <2>1 DEF Place, MapOK
  <2> QED BY <1>2, <2>1, <2>2 DEF JobsHear, Hears
<1>9. MadeOK'
  <2> SUFFICES ASSUME NEW j \in Jobs, At(j, "made")'
               PROVE  \E t \in Threads : At(t, "inc")' /\ thread'[t].made = j
    BY DEF MadeOK
  <2>1. PICK t \in Threads : At(t, "inc") /\ thread[t].made = j
    BY <1>5 DEF Place, MadeOK
  <2>2. t \in Jobs BY <1>1, <2>1 DEF At
  <2> QED BY <1>1, <1>2, <1>5, <2>1, <2>2 DEF JobsHear, Hears
<1>10. ListedOK'
  <2>1. \A k \in Items : k \in Int BY DEF Items
  <2> QED BY <1>1, <1>2, <1>3, <2>1 DEF Place, ListedOK
<1>11. ASSUME NEW u \in Threads PROVE BookOK(u)'
  <2>1. CASE u = Main BY <1>4, <2>1 DEF BookOK, At
  <2>2. CASE u # Main
    <3>1. BookOK(u) /\ u \in Jobs BY <1>1, <2>2 DEF Place
    <3>2. /\ thread'[u].pc = thread[u].pc /\ thread'[u].it = thread[u].it
          /\ thread'[u].item = thread[u].item /\ thread'[u].made = thread[u].made
          /\ thread'[u].count = thread[u].count
      BY <1>2, <3>1 DEF JobsHear, Hears
    <3>3. ASSUME At(u, "inc") PROVE thread'[thread'[u].made].pc = "made"
      <4>1. PICK n \in Jobs : n = thread[u].made /\ At(n, "made") BY <3>1, <3>3 DEF BookOK
      <4>2. thread'[n].pc = "made" BY <1>2, <4>1 DEF JobsHear, Hears, At
      <4> QED BY <3>2, <4>1, <4>2
    <3> QED BY <1>2, <3>1, <3>2, <3>3 DEF BookOK, At
  <2> QED BY <2>1, <2>2
<1>12. CountOK' BY <1>2, <1>5, CountSame
<1> QED BY <1>6, <1>7, <1>8, <1>9, <1>10, <1>11, <1>12 DEF Place

LEMMA Redelivered ==
  ASSUME Inv, redeliver
  PROVE  \E c \in Command, i \in Items : onStartCommand(c, i)
<1> DEFINE intents == Command \X Items
<1>1. inbox \in Seq(intents) /\ inbox # <<>> BY DEF redeliver, Inv, TypeOK
<1> HIDE DEF intents
<1>2. Head(inbox) \in intents BY <1>1
<1>3. Head(inbox)[1] \in Command /\ Head(inbox)[2] \in Items BY <1>2 DEF intents
<1> QED BY <1>3 DEF redeliver

LEMMA PlaceStep ==
  ASSUME Inv, Calm, Place, CountOK, ~Overlap, ~Overlap', Step
  PROVE  Place' /\ CountOK'
<1>1. ASSUME NEW c \in Command, NEW i \in Items, onStartCommand(c, i) PROVE Place' /\ CountOK'
  <2>1. Effect(i) BY <1>1, CommandEffect
  <2>2. At(Main, "idle") BY <1>1 DEF onStartCommand
  <2> QED BY <2>1, <2>2, PlaceCommand
<1>2. ASSUME NEW c \in Command, NEW i \in Items, userCommand(c, i) PROVE Place' /\ CountOK'
  BY <1>1, <1>2 DEF userCommand
<1>3. CASE redeliver
  <2>1. PICK c \in Command, i \in Items : onStartCommand(c, i) BY <1>3, Redelivered
  <2> QED BY <1>1, <2>1
<1>4. CASE processDeath BY <1>4, PlaceDeath
<1>5. ASSUME NEW t \in Threads, Shared(t) PROVE Place' /\ CountOK'
  <2>1. CASE persistLoad(t) \/ persistSave(t)
    BY <2>1, PlacePersistLoad, PlacePersistSave
  <2>2. CASE startRefused(t) \/ startJob(t) \/ jobStarted(t)
    BY <2>2, PlaceRefused, PlaceStartJob, PlaceJobStarted
  <2> QED BY <1>5, <2>1, <2>2 DEF Shared
<1>6. ASSUME NEW j \in Jobs, Job(j) PROVE Place' /\ CountOK'
  <2>1. CASE Transfers(j) BY <2>1, PlaceTransfers
  <2>2. CASE onTerminal(j) \/ jobEnded(j) \/ startNext(j)
    BY <2>2, PlaceOnTerminal, PlaceJobEnded, PlaceStartNext
  <2> QED BY <1>6, <2>1, <2>2, Zenon DEF Job, Transfers
<1> QED BY <1>2, <1>3, <1>4, <1>5, <1>6 DEF Step

LEMMA InitBooks == Init => BooksInv
<1> SUFFICES ASSUME Init PROVE BooksInv OBVIOUS
<1>1. \A t \in Threads : thread[t].pc = IF t = Main THEN "idle" ELSE "new"
  BY DEF Init, Fresh
<1>2. /\ Main \in Threads /\ \A j \in Jobs : j \in Threads /\ j # Main
  BY DownloadAssumption DEF Main, Threads, Jobs
<1>3. thread[Main].pc = "idle" /\ \A j \in Jobs : thread[j].pc = "new" BY <1>1, <1>2
<1>4. \A j \in Jobs : ~AtWork(j) BY <1>3 DEF AtWork, Working, Transfer
<1>5. \A j \in Jobs : JobListed(j) BY <1>3, <1>4 DEF JobListed, OnDuty, Transfer
<1>6. MainListed /\ MadeOK BY <1>3 DEF MainListed, MadeOK, At
<1>7. MapOK BY DEF Init, MapOK
<1>8. ListedOK
  <2>1. \A i \in Items : saved[i] = NotListed BY DEF Init, Nothing
  <2> QED BY <2>1 DEF ListedOK
<1>9. \A t \in Threads : BookOK(t) BY <1>1 DEF BookOK, At
<1>10. CountOK
  <2>1. Counted = {} BY <1>4 DEF Counted
  <2>2. Cardinality({}) = 0 BY FS_EmptySet
  <2>3. activeCount = 0 BY DEF Init
  <2> QED BY <2>1, <2>2, <2>3, DownloadAssumption DEF CountOK
<1> QED BY <1>5, <1>6, <1>7, <1>8, <1>9, <1>10 DEF Place, BooksInv

LEMMA NextBooks == Inv /\ CalmInv /\ CalmInv' /\ BooksInv /\ [Next]_vars => BooksInv'
<1> SUFFICES ASSUME Inv, CalmInv, CalmInv', BooksInv, [Next]_vars, ~disturbed'
             PROVE  Place' /\ CountOK'
  BY DEF BooksInv
<1>1. CASE Next
  <2>1. ~disturbed /\ Step BY <1>1, Zenon DEF Next
  <2>2. ~Overlap' BY Zenon DEF CalmInv
  <2>3. Calm /\ ~Overlap /\ Place /\ CountOK BY <2>1, Zenon DEF CalmInv, BooksInv
  <2> QED BY <2>1, <2>2, <2>3, PlaceStep
<1>2. CASE UNCHANGED vars
  <2>1. UNCHANGED <<saved, jobs, activeCount, thread, requests, disturbed>>
    BY <1>2 DEF vars, diskVars, bookVars, userVars
  <2>2. Place /\ CountOK BY <2>1 DEF BooksInv
  <2>3. Place' BY <2>1, <2>2
    DEF Place, JobListed, MainListed, NoJob, MapOK, MadeOK, ListedOK, BookOK, At, AtWork
  <2>4. CountOK' BY <2>1, <2>2, CountSame DEF At, AtWork
  <2> QED BY <2>3, <2>4
<1> QED BY <1>1, <1>2

LEMMA BooksInvariance == Spec => [](Inv /\ CalmInv /\ BooksInv)
<1>1. Spec => [](Inv /\ CalmInv) BY InitCalm, NextCalm, Invariance, PTL DEF Spec
<1> QED BY <1>1, InitBooks, NextBooks, PTL DEF Spec

LEMMA RightBooks == BooksInv => BooksAreRight
<1> SUFFICES ASSUME BooksInv, Settled, ~disturbed
             PROVE  /\ activeCount = Cardinality({j \in Jobs : AtWork(j)})
                    /\ activeCount <= MAX_CONCURRENT
                    /\ \A j \in Jobs : AtWork(j) =>
                         jobs[thread[j].it] = j \/ thread[j].cancelled
  BY DEF BooksAreRight
<1>1. Place /\ CountOK /\ \A t \in Threads : ~AtBooks(t) BY DEF BooksInv, Settled
<1>2. \A j \in Jobs : j \in Threads BY DownloadAssumption DEF Threads, Jobs
<1>3. \A j \in Jobs : ~At(j, "made") BY <1>1 DEF Place, MadeOK, At, AtBooks, Bookkeeping
<1>4. Counted = {j \in Jobs : AtWork(j)} BY <1>3 DEF Counted
<1>5. ASSUME NEW j \in Jobs, AtWork(j) PROVE jobs[thread[j].it] = j \/ thread[j].cancelled
  <2>1. thread[j].pc \in OnDuty
    BY <1>1, <1>2, <1>5 DEF AtWork, AtBooks, Working, Bookkeeping, OnDuty
  <2> QED BY <1>1, <2>1 DEF Place, JobListed
<1> QED BY <1>1, <1>4, <1>5 DEF CountOK

(***************************************************************************)
(* As long as no two threads were at the books at once, activeCount is the *)
(* number of the jobs that work, is never over the limit, and each of them *)
(* is in the map or was cancelled: startJob and onTerminal, which read and *)
(* write the count in two steps, together with cancellations, deaths of    *)
(* the process and intents that are delivered again.                       *)
(***************************************************************************)
THEOREM BooksRight == Spec => []BooksAreRight
BY BooksInvariance, RightBooks, PTL

-----------------------------------------------------------------------------
(***************************************************************************)
(* The queue, as long as the process lives.  A download that is listed as  *)
(* running has a job that transfers or is about to report.  For one that   *)
(* waits without a job the limit is reached, or it is about to be started, *)
(* or the one place that is free is about to be filled.                    *)
(***************************************************************************)
Busy(j) == thread[j].pc \in Transfer \cup {"load", "save"}
Filling(t) == thread[t].pc \in {"next", "start", "inc"}

RunningHasJob(i) ==
  saved[i].state = "RUNNING" => \E j \in Jobs : Busy(j) /\ thread[j].it = i

QueuedWillStart(i) ==
  saved[i].state = "QUEUED" /\ NoJob(i) =>
    \/ activeCount >= MAX_CONCURRENT
    \/ \E t \in Threads : At(t, "start") /\ thread[t].it = i
    \/ activeCount >= MAX_CONCURRENT - 1 /\ \E t \in Threads : Filling(t)

Queue == \A i \in Items : RunningHasJob(i) /\ QueuedWillStart(i)

QueueInv == ~disturbed /\ crashes = 0 => Queue

(***************************************************************************)
(* Steps that leave the list and the count alone, and move neither jobs    *)
(* between the downloads nor the threads that start them.                  *)
(***************************************************************************)
LEMMA QueueSame ==
  ASSUME Queue, UNCHANGED <<saved, activeCount>>,
         \A j \in Jobs : /\ AtWork(j) => AtWork(j)' /\ thread'[j].it = thread[j].it
                         /\ Busy(j) => Busy(j)' /\ thread'[j].it = thread[j].it,
         \A t \in Threads : Filling(t) => thread'[t].pc = thread[t].pc /\ thread'[t].it = thread[t].it
  PROVE  Queue'
<1> SUFFICES ASSUME NEW i \in Items PROVE RunningHasJob(i)' /\ QueuedWillStart(i)'
  BY DEF Queue
<1>1. RunningHasJob(i) /\ QueuedWillStart(i) BY DEF Queue
<1>2. RunningHasJob(i)' BY <1>1 DEF RunningHasJob
<1>3. QueuedWillStart(i)'
  <2> SUFFICES ASSUME saved[i].state = "QUEUED", NoJob(i)'
               PROVE  \/ activeCount >= MAX_CONCURRENT
                      \/ \E t \in Threads : At(t, "start")' /\ thread'[t].it = i
                      \/ activeCount >= MAX_CONCURRENT - 1 /\ \E t \in Threads : Filling(t)'
    BY DEF QueuedWillStart
  <2>1. NoJob(i) BY DEF NoJob
  <2>2. CASE activeCount >= MAX_CONCURRENT BY <2>2
  <2>3. CASE \E t \in Threads : At(t, "start") /\ thread[t].it = i
    BY <2>3 DEF At, Filling
  <2>4. CASE activeCount >= MAX_CONCURRENT - 1 /\ \E t \in Threads : Filling(t)
    BY <2>4 DEF Filling
  <2> QED BY <1>1, <2>1, <2>2, <2>3, <2>4 DEF QueuedWillStart
<1> QED BY <1>2, <1>3

LEMMA QueueTransfers ==
  ASSUME Inv, Queue, NEW j \in Jobs, Transfers(j)
  PROVE  Queue'
<1>1. Moves(j) /\ (StepsOn(j) \/ Reports(j)) BY TransferMoves
<1>2. /\ thread[j].pc \in Transfer \cup {"run"} /\ thread'[j].pc \in Transfer \cup {"load"}
      /\ thread'[j].it = thread[j].it /\ Others(j) /\ UNCHANGED <<saved, activeCount>>
  BY <1>1 DEF StepsOn, Reports, Moves
<1>3. AtWork(j)' /\ Busy(j)' /\ ~Filling(j)
  BY <1>2 DEF AtWork, Busy, Filling, Working, Transfer
<1>4. \A u \in Threads : u # j => thread'[u] = thread[u] BY <1>2 DEF Others
<1>5. \A u \in Jobs : u \in Threads BY PlaceTypes
<1>6. \A u \in Jobs : /\ AtWork(u) => AtWork(u)' /\ thread'[u].it = thread[u].it
                      /\ Busy(u) => Busy(u)' /\ thread'[u].it = thread[u].it
  BY <1>2, <1>3, <1>4, <1>5 DEF AtWork, Busy
<1>7. \A u \in Threads : Filling(u) => thread'[u].pc = thread[u].pc /\ thread'[u].it = thread[u].it
  BY <1>3, <1>4
<1> QED BY <1>2, <1>6, <1>7, QueueSame

LEMMA QueuePersistLoad ==
  ASSUME Inv, Queue, NEW t \in Threads, persistLoad(t)
  PROVE  Queue'
<1>1. thread \in [Threads -> Thread] /\ thread[t] \in Thread /\ \A u \in Jobs : u \in Threads
  BY PlaceTypes
<1>2. thread' = [thread EXCEPT ![t].copy = saved, ![t].pc = "save"] /\ thread[t].pc = "load"
  BY DEF persistLoad, At
<1>3. /\ thread'[t].pc = "save" /\ thread'[t].it = thread[t].it
      /\ \A u \in Threads : u # t => thread'[u] = thread[u]
  BY <1>1, <1>2 DEF Thread
<1>4. UNCHANGED <<saved, activeCount>> BY DEF persistLoad, diskVars, bookVars
<1>5. \A u \in Jobs : /\ AtWork(u) => AtWork(u)' /\ thread'[u].it = thread[u].it
                      /\ Busy(u) => Busy(u)' /\ thread'[u].it = thread[u].it
  BY <1>1, <1>2, <1>3 DEF AtWork, Busy, Working
<1>6. \A u \in Threads : Filling(u) => thread'[u].pc = thread[u].pc /\ thread'[u].it = thread[u].it
  BY <1>2, <1>3 DEF Filling
<1> QED BY <1>4, <1>5, <1>6, QueueSame

LEMMA QueueOnTerminal ==
  ASSUME Inv, Queue, NEW j \in Jobs, onTerminal(j)
  PROVE  Queue'
<1>1. /\ thread \in [Threads -> Thread] /\ thread[j] \in Thread /\ j \in Threads
      /\ \A u \in Jobs : u \in Threads
  BY PlaceTypes
<1>2. thread[j].pc = "terminal" BY DEF onTerminal, At
<1>3. /\ thread'[j].pc = "dec" /\ thread'[j].it = thread[j].it
      /\ \A u \in Threads : u # j => thread'[u] = thread[u]
  BY <1>1 DEF onTerminal, Thread
<1>4. UNCHANGED <<saved, activeCount>> BY DEF onTerminal, diskVars
<1>5. \A u \in Jobs : /\ AtWork(u) => AtWork(u)' /\ thread'[u].it = thread[u].it
                      /\ Busy(u) => Busy(u)' /\ thread'[u].it = thread[u].it
  BY <1>1, <1>2, <1>3 DEF AtWork, Busy, Working, Transfer
<1>6. \A u \in Threads : Filling(u) => thread'[u].pc = thread[u].pc /\ thread'[u].it = thread[u].it
  BY <1>2, <1>3 DEF Filling
<1> QED BY <1>4, <1>5, <1>6, QueueSame

LEMMA QueueCommand ==
  ASSUME Inv, Queue, NEW i \in Items, Effect(i), At(Main, "idle")
  PROVE  Queue'
<1>1. UNCHANGED <<saved, activeCount>> /\ JobsHear(i) BY DEF Effect
<1>2. \A t \in Threads : t # Main => t \in Jobs BY PlaceTypes
<1>3. \A u \in Jobs : thread'[u].pc = thread[u].pc /\ thread'[u].it = thread[u].it
  BY <1>1 DEF JobsHear, Hears
<1>4. ~Filling(Main) BY DEF Filling, At
<1>5. \A u \in Jobs : /\ AtWork(u) => AtWork(u)' /\ thread'[u].it = thread[u].it
                      /\ Busy(u) => Busy(u)' /\ thread'[u].it = thread[u].it
  BY <1>3 DEF AtWork, Busy
<1>6. \A t \in Threads : Filling(t) => thread'[t].pc = thread[t].pc /\ thread'[t].it = thread[t].it
  BY <1>2, <1>3, <1>4
<1> QED BY <1>1, <1>5, <1>6, QueueSame

(***************************************************************************)
(* The steps at the books.  The thread that takes one is alone there: no   *)
(* other thread is filling a place.                                        *)
(***************************************************************************)
LEMMA QueuePersistSave ==
  ASSUME Inv, Calm, Place, Queue, ~Overlap, NEW t \in Threads, persistSave(t)
  PROVE  Queue'
<1> DEFINE i == thread[t].it
           item == thread[t].item
<1>1. /\ i \in Items /\ saved \in List /\ \A u \in Jobs : u \in Threads
      /\ t # Main => t \in Jobs
      /\ Main \notin Jobs
  BY PlaceTypes
<1>2. /\ thread[t].pc = "save" /\ Others(t) /\ saved' = [saved EXCEPT ![i] = item]
      /\ UNCHANGED activeCount /\ \A u \in Threads : u # t => ~AtBooks(u)
  BY Saves
<1>3. \/ /\ t = Main /\ item.state = "CANCELLED" /\ thread'[t] = End(t)
      \/ /\ t = Main /\ item.state = "QUEUED" /\ thread'[t].pc = "start" /\ thread'[t].it = i
      \/ /\ t # Main /\ item.state = "RUNNING" /\ thread'[t].pc = "alloc" /\ thread'[t].it = i
      \/ /\ t # Main /\ item.state \notin {"QUEUED", "RUNNING"}
         /\ thread'[t].pc = "terminal" /\ thread'[t].it = i
  BY Saves
<1> HIDE DEF i, item
<1>4. saved'[i] = item /\ \A k \in Items : k # i => saved'[k] = saved[k]
  BY <1>1, <1>2 DEF List
<1>5. \A u \in Threads : u # t => thread'[u] = thread[u] BY <1>2 DEF Others
<1>6. \A u \in Jobs : /\ AtWork(u) <=> AtWork(u)'
                      /\ AtWork(u) => thread'[u].it = thread[u].it
  <2>1. CASE t = Main BY <1>1, <1>5, <2>1 DEF AtWork
  <2>2. CASE t # Main
    <3>1. AtWork(t) /\ AtWork(t)' /\ thread'[t].it = thread[t].it
      BY <1>2, <1>3, <2>2 DEF AtWork, Working, Transfer, i
    <3> QED BY <1>1, <1>5, <3>1 DEF AtWork
  <2> QED BY <2>1, <2>2
<1>7. \A k \in Items : NoJob(k)' => NoJob(k) BY <1>6 DEF NoJob
<1>8. \A u \in Threads : ~Filling(u)
  BY <1>2 DEF Filling, AtBooks, Bookkeeping
<1>9. ASSUME NEW k \in Items PROVE RunningHasJob(k)'
  <2>1. CASE k = i
    <3>1. CASE item.state = "RUNNING"
      <4>1. t \in Jobs /\ thread'[t].pc = "alloc" /\ thread'[t].it = i BY <1>1, <1>3, <3>1
      <4>2. Busy(t)' BY <4>1 DEF Busy, Transfer
      <4> QED BY <2>1, <4>1, <4>2 DEF RunningHasJob
    <3>2. CASE item.state # "RUNNING" BY <1>4, <2>1, <3>2 DEF RunningHasJob
    <3> QED BY <3>1, <3>2
  <2>2. CASE k # i
    <3> SUFFICES ASSUME saved'[k].state = "RUNNING"
                 PROVE  \E j \in Jobs : Busy(j)' /\ thread'[j].it = k
      BY DEF RunningHasJob
    <3>1. PICK j \in Jobs : Busy(j) /\ thread[j].it = k
      BY <1>4, <2>2 DEF Queue, RunningHasJob
    <3>2. j # t BY <2>2, <3>1 DEF i
    <3> QED BY <1>1, <1>5, <3>1, <3>2 DEF Busy
  <2> QED BY <2>1, <2>2
<1>10. ASSUME NEW k \in Items PROVE QueuedWillStart(k)'
  <2> SUFFICES ASSUME saved'[k].state = "QUEUED", NoJob(k)'
               PROVE  \/ activeCount >= MAX_CONCURRENT
                      \/ \E u \in Threads : At(u, "start")' /\ thread'[u].it = k
    BY <1>2 DEF QueuedWillStart
  <2>1. CASE k = i
    <3>1. thread'[t].pc = "start" /\ thread'[t].it = i BY <1>3, <1>4, <2>1
    <3> QED BY <2>1, <3>1 DEF At
  <2>2. CASE k # i
    <3>1. QueuedWillStart(k) /\ NoJob(k) /\ saved[k].state = "QUEUED"
      BY <1>4, <1>7, <2>2 DEF Queue
    <3> QED BY <1>8, <3>1 DEF QueuedWillStart, At, Filling
  <2> QED BY <2>1, <2>2
<1> QED BY <1>9, <1>10 DEF Queue

(***************************************************************************)
(* Of the other steps at the books none touches the list: a download that  *)
(* runs keeps its job.                                                     *)
(***************************************************************************)
LEMMA RunningStays ==
  ASSUME Queue, UNCHANGED saved,
         \A j \in Jobs : Busy(j) => Busy(j)' /\ thread'[j].it = thread[j].it,
         NEW i \in Items
  PROVE  RunningHasJob(i)'
<1>1. RunningHasJob(i) BY DEF Queue
<1> QED BY <1>1 DEF RunningHasJob

LEMMA QueueRefused ==
  ASSUME Inv, Queue, NEW t \in Threads, startRefused(t)
  PROVE  Queue'
<1>1. thread \in [Threads -> Thread] /\ \A u \in Jobs : u \in Threads BY PlaceTypes
<1>2. thread[t].pc = "start" /\ activeCount >= MAX_CONCURRENT
      /\ \A u \in Threads : u # t => thread'[u] = thread[u]
  BY <1>1 DEF startRefused, At
<1>3. UNCHANGED <<saved, activeCount>> BY DEF startRefused, diskVars, bookVars
<1>4. \A u \in Jobs : Busy(u) => Busy(u)' /\ thread'[u].it = thread[u].it
  BY <1>1, <1>2 DEF Busy, Transfer
<1>5. \A i \in Items : RunningHasJob(i)' BY <1>3, <1>4, RunningStays
<1>6. \A i \in Items : QueuedWillStart(i)' BY <1>2, <1>3 DEF QueuedWillStart
<1> QED BY <1>5, <1>6 DEF Queue

LEMMA QueueStartJob ==
  ASSUME Inv, Place, Queue, ~Overlap, NEW t \in Threads, startJob(t)
  PROVE  Queue'
<1> DEFINE i == thread[t].it
<1>1. /\ activeCount < MAX_CONCURRENT /\ UNCHANGED <<saved, activeCount>>
  BY DEF startJob, diskVars
<1>2. PICK j \in Jobs :
        /\ At(t, "start") /\ At(j, "new") /\ j # t
        /\ \A u \in Threads : u # t /\ u # j => thread'[u] = thread[u] /\ ~AtBooks(u)
        /\ thread'[t].pc = "inc" /\ thread'[j].pc = "made" /\ thread'[j].it = i
  BY Starts
<1>3. /\ activeCount \in Nat /\ \A u \in Jobs : u \in Threads BY PlaceTypes
<1> HIDE DEF i
<1>4. \A u \in Jobs : Busy(u) => Busy(u)' /\ thread'[u].it = thread[u].it
  BY <1>2, <1>3 DEF Busy, Transfer, At
<1>5. \A k \in Items : RunningHasJob(k)' BY <1>1, <1>4, RunningStays
<1>6. ASSUME NEW k \in Items, saved'[k].state = "QUEUED", NoJob(k)'
      PROVE  activeCount >= MAX_CONCURRENT - 1 /\ Filling(t)'
  <2>1. k # i
    <3>1. AtWork(j)' BY <1>2 DEF AtWork, Working
    <3> QED BY <1>2, <1>6, <3>1 DEF NoJob
  <2>2. NoJob(k)
    <3> SUFFICES ASSUME NEW u \in Jobs, AtWork(u) PROVE thread[u].it # k BY DEF NoJob
    <3>1. u # t /\ u # j BY <1>2 DEF AtWork, At, Working, Transfer
    <3>2. thread'[u] = thread[u] BY <1>2, <1>3, <3>1
    <3> QED BY <1>6, <3>2 DEF NoJob, AtWork
  <2>3. QueuedWillStart(k) /\ saved[k].state = "QUEUED" BY <1>1, <1>6 DEF Queue
  <2>4. ~\E u \in Threads : At(u, "start") /\ thread[u].it = k
    <3> SUFFICES ASSUME NEW u \in Threads, At(u, "start"), thread[u].it = k PROVE FALSE
      OBVIOUS
    <3>1. u # j BY <1>2 DEF At
    <3>2. AtBooks(u) BY DEF At, AtBooks, Bookkeeping
    <3>3. u = t BY <1>2, <3>1, <3>2
    <3> QED BY <2>1, <3>3 DEF i
  <2>5. activeCount >= MAX_CONCURRENT - 1
    <3>1. activeCount >= MAX_CONCURRENT \/ activeCount >= MAX_CONCURRENT - 1
      BY <2>2, <2>3, <2>4 DEF QueuedWillStart
    <3> QED BY <1>3, <3>1, DownloadAssumption
  <2> QED BY <1>2, <2>5 DEF Filling
<1>7. \A k \in Items : QueuedWillStart(k)' BY <1>1, <1>6 DEF QueuedWillStart
<1> QED BY <1>5, <1>7 DEF Queue

LEMMA QueueJobStarted ==
  ASSUME Inv, Place, Queue, ~Overlap, NEW t \in Threads, jobStarted(t)
  PROVE  Queue'
<1>1. /\ At(t, "inc") /\ thread[t].count = activeCount /\ activeCount < MAX_CONCURRENT
      /\ thread[t].made \in Jobs /\ At(thread[t].made, "made") /\ AtBooks(t)
  BY DEF Place, BookOK, jobStarted, AtBooks, At, Bookkeeping
<1>2. PICK m \in Jobs : m = thread[t].made /\ thread[m].pc = "made" BY <1>1 DEF At
<1>3. /\ thread \in [Threads -> Thread] /\ thread[m] \in Thread /\ activeCount \in Nat
      /\ m \in Threads /\ m # t /\ \A u \in Jobs : u \in Threads
  BY <1>1, <1>2, PlaceTypes DEF At
<1>4. /\ thread'[t] = End(t) /\ thread'[m] = [thread[m] EXCEPT !.pc = "run"]
      /\ \A u \in Threads : u # t /\ u # m => thread'[u] = thread[u]
  <2>1. thread' = [thread EXCEPT ![t] = End(t), ![m].pc = "run"] BY <1>2 DEF jobStarted
  <2> QED BY <1>3, <2>1
<1>5. thread'[m].pc = "run" /\ thread'[m].it = thread[m].it BY <1>3, <1>4 DEF Thread
<1>6. activeCount' = activeCount + 1 /\ UNCHANGED saved BY <1>1 DEF jobStarted, diskVars
<1>7. \A u \in Jobs : Busy(u) => Busy(u)' /\ thread'[u].it = thread[u].it
  BY <1>1, <1>2, <1>3, <1>4 DEF Busy, At, Transfer
<1>8. \A i \in Items : RunningHasJob(i)' BY <1>6, <1>7, RunningStays
<1>9. ASSUME NEW i \in Items, saved'[i].state = "QUEUED", NoJob(i)'
      PROVE  activeCount' >= MAX_CONCURRENT
  <2>1. NoJob(i)
    <3> SUFFICES ASSUME NEW u \in Jobs, AtWork(u) PROVE thread[u].it # i BY DEF NoJob
    <3>1. u # t BY <1>1 DEF AtWork, At, Working, Transfer
    <3>2. AtWork(u)' /\ thread'[u].it = thread[u].it
      BY <1>3, <1>4, <1>5, <3>1 DEF AtWork, Working
    <3> QED BY <1>9, <3>2 DEF NoJob
  <2>2. QueuedWillStart(i) /\ saved[i].state = "QUEUED" BY <1>6, <1>9 DEF Queue
  <2>3. ~\E u \in Threads : At(u, "start") /\ thread[u].it = i
    <3> SUFFICES ASSUME NEW u \in Threads, At(u, "start") PROVE FALSE OBVIOUS
    <3>1. AtBooks(u) BY DEF At, AtBooks, Bookkeeping
    <3>2. u = t BY <1>1, <3>1, OneAtBooks
    <3> QED BY <1>1, <3>2 DEF At
  <2>4. activeCount >= MAX_CONCURRENT - 1
    <3>1. activeCount >= MAX_CONCURRENT \/ activeCount >= MAX_CONCURRENT - 1
      BY <2>1, <2>2, <2>3 DEF QueuedWillStart
    <3> QED BY <1>3, <3>1, DownloadAssumption
  <2> QED BY <1>3, <1>6, <2>4, DownloadAssumption
<1>10. \A i \in Items : QueuedWillStart(i)' BY <1>9 DEF QueuedWillStart
<1> QED BY <1>8, <1>10 DEF Queue

LEMMA QueueJobEnded ==
  ASSUME Inv, Place, CountOK, Queue, ~Overlap, NEW j \in Jobs, jobEnded(j)
  PROVE  Queue'
<1>1. /\ thread \in [Threads -> Thread] /\ j \in Threads /\ activeCount \in Nat
      /\ \A u \in Jobs : u \in Threads
  BY PlaceTypes
<1>2. /\ thread[j].pc = "dec" /\ thread'[j].pc = "next" /\ UNCHANGED saved
      /\ \A u \in Threads : u # j => thread'[u] = thread[u]
  BY <1>1 DEF jobEnded, At, Fresh, diskVars
<1>3. AtBooks(j) /\ AtWork(j) BY <1>2 DEF AtBooks, AtWork, Bookkeeping, Working
<1>4. activeCount' >= activeCount - 1
  <2>1. thread[j].count = activeCount BY <1>1, <1>2 DEF Place, BookOK, At
  <2> QED BY <1>1, <2>1 DEF jobEnded
<1>5. \A u \in Jobs : Busy(u) => Busy(u)' /\ thread'[u].it = thread[u].it
  BY <1>1, <1>2 DEF Busy, Transfer
<1>6. \A i \in Items : RunningHasJob(i)' BY <1>2, <1>5, RunningStays
<1>7. ASSUME NEW i \in Items, saved'[i].state = "QUEUED", NoJob(i)'
      PROVE  activeCount' >= MAX_CONCURRENT - 1 /\ Filling(j)'
  <2>1. thread[j].it # i
    <3>1. saved[thread[j].it].state # "QUEUED" BY <1>2 DEF Place, JobListed
    <3> QED BY <1>2, <1>7, <3>1
  <2>2. NoJob(i)
    <3> SUFFICES ASSUME NEW u \in Jobs, AtWork(u) PROVE thread[u].it # i BY DEF NoJob
    <3>1. CASE u = j BY <2>1, <3>1
    <3>2. CASE u # j BY <1>1, <1>2, <1>7, <3>2 DEF NoJob, AtWork
    <3> QED BY <3>1, <3>2
  <2>3. QueuedWillStart(i) /\ saved[i].state = "QUEUED" BY <1>2, <1>7 DEF Queue
  <2>4. \A u \in Threads : ~Filling(u)
    <3> SUFFICES ASSUME NEW u \in Threads, Filling(u) PROVE FALSE OBVIOUS
    <3>1. AtBooks(u) BY DEF Filling, AtBooks, Bookkeeping
    <3>2. u = j BY <1>1, <1>3, <3>1, OneAtBooks
    <3> QED BY <1>2, <3>2 DEF Filling
  <2>5. activeCount >= MAX_CONCURRENT
    BY <2>2, <2>3, <2>4 DEF QueuedWillStart, At, Filling
  <2>6. activeCount' \in Int BY <1>1, <1>2 DEF jobEnded, Place, BookOK, At
  <2>7. activeCount' >= MAX_CONCURRENT - 1 BY <1>1, <1>4, <2>5, <2>6, DownloadAssumption
  <2> QED BY <1>2, <2>7 DEF Filling
<1>8. \A i \in Items : QueuedWillStart(i)' BY <1>1, <1>7 DEF QueuedWillStart
<1> QED BY <1>6, <1>8 DEF Queue

LEMMA QueueStartNext ==
  ASSUME Inv, Queue, ~Overlap, NEW j \in Jobs, startNext(j)
  PROVE  Queue'
<1>1. j \in Threads /\ \A u \in Jobs : u \in Threads BY PlaceTypes
<1>2. /\ thread[j].pc = "next" /\ Others(j) /\ UNCHANGED <<saved, activeCount>>
      /\ \/ thread'[j].pc = "start"
         \/ thread'[j].pc = "gone" /\ Waiting = {}
  BY NextStarts DEF diskVars
<1>3. \A u \in Threads : u # j => thread'[u] = thread[u] BY <1>2 DEF Others
<1>4. \A u \in Jobs : Busy(u) => Busy(u)' /\ thread'[u].it = thread[u].it
  BY <1>1, <1>2, <1>3 DEF Busy, Transfer
<1>5. \A i \in Items : RunningHasJob(i)' BY <1>2, <1>4, RunningStays
<1>6. ASSUME NEW i \in Items, saved'[i].state = "QUEUED", NoJob(i)'
      PROVE  \/ activeCount' >= MAX_CONCURRENT
             \/ activeCount' >= MAX_CONCURRENT - 1 /\ Filling(j)'
  <2>1. Filling(j)'
    <3>1. i \in Waiting BY <1>2, <1>6 DEF Waiting
    <3> QED BY <1>2, <3>1 DEF Filling
  <2>2. NoJob(i)
    <3> SUFFICES ASSUME NEW u \in Jobs, AtWork(u) PROVE thread[u].it # i BY DEF NoJob
    <3>1. u # j BY <1>2 DEF AtWork, Working, Transfer
    <3> QED BY <1>1, <1>3, <1>6, <3>1 DEF NoJob, AtWork
  <2>3. QueuedWillStart(i) /\ saved[i].state = "QUEUED" BY <1>2, <1>6 DEF Queue
  <2>4. ~\E u \in Threads : At(u, "start") /\ thread[u].it = i
    <3> SUFFICES ASSUME NEW u \in Threads, At(u, "start") PROVE FALSE OBVIOUS
    <3>1. AtBooks(u) /\ AtBooks(j) BY <1>2 DEF At, AtBooks, Bookkeeping
    <3>2. u = j BY <1>1, <3>1, OneAtBooks
    <3> QED BY <1>2, <3>2 DEF At
  <2> QED BY <1>2, <2>1, <2>2, <2>3, <2>4 DEF QueuedWillStart
<1>7. \A i \in Items : QueuedWillStart(i)' BY <1>1, <1>6 DEF QueuedWillStart
<1> QED BY <1>5, <1>7 DEF Queue

LEMMA QueueStep ==
  ASSUME Inv, Calm, Place, CountOK, Queue, ~Overlap, Step, ~processDeath
  PROVE  Queue'
<1>1. ASSUME NEW c \in Command, NEW i \in Items, onStartCommand(c, i) PROVE Queue'
  <2>1. Effect(i) BY <1>1, CommandEffect
  <2>2. At(Main, "idle") BY <1>1 DEF onStartCommand
  <2> QED BY <2>1, <2>2, QueueCommand
<1>2. ASSUME NEW c \in Command, NEW i \in Items, userCommand(c, i) PROVE Queue'
  BY <1>1, <1>2 DEF userCommand
<1>3. CASE redeliver
  <2>1. PICK c \in Command, i \in Items : onStartCommand(c, i) BY <1>3, Redelivered
  <2> QED BY <1>1, <2>1
<1>4. ASSUME NEW t \in Threads, Shared(t) PROVE Queue'
  <2>1. CASE persistLoad(t) \/ persistSave(t)
    BY <2>1, QueuePersistLoad, QueuePersistSave
  <2>2. CASE startRefused(t) \/ startJob(t) \/ jobStarted(t)
    BY <2>2, QueueRefused, QueueStartJob, QueueJobStarted
  <2> QED BY <1>4, <2>1, <2>2 DEF Shared
<1>5. ASSUME NEW j \in Jobs, Job(j) PROVE Queue'
  <2>1. CASE Transfers(j) BY <2>1, QueueTransfers
  <2>2. CASE onTerminal(j) \/ jobEnded(j) \/ startNext(j)
    BY <2>2, QueueOnTerminal, QueueJobEnded, QueueStartNext
  <2> QED BY <1>5, <2>1, <2>2, Zenon DEF Job, Transfers
<1> QED BY <1>2, <1>3, <1>4, <1>5 DEF Step

LEMMA OnlyDeathsCount ==
  ASSUME Inv, Step, ~processDeath
  PROVE  crashes' = crashes
<1>1. ASSUME NEW c \in Command, NEW i \in Items, userCommand(c, i) PROVE crashes' = crashes
  BY <1>1 DEF userCommand, onStartCommand
<1>2. CASE redeliver BY <1>2 DEF redeliver, onStartCommand
<1>3. ASSUME NEW t \in Threads, Shared(t) PROVE crashes' = crashes
  <2>1. CASE persistLoad(t) \/ startRefused(t) BY <2>1 DEF persistLoad, startRefused, userVars
  <2>2. CASE persistSave(t) BY <2>2 DEF persistSave
  <2>3. CASE startJob(t)
    <3>1. UNCHANGED <<diskVars, activeCount, userVars, spoiled>> BY <2>3, Zenon DEF startJob
    <3> QED BY <3>1 DEF userVars
  <2>4. CASE jobStarted(t) BY <2>4 DEF jobStarted, userVars
  <2> QED BY <1>3, <2>1, <2>2, <2>3, <2>4 DEF Shared
<1>4. ASSUME NEW j \in Jobs, Job(j) PROVE crashes' = crashes
  <2>1. CASE Transfers(j) BY <2>1, TransferMoves DEF Moves
  <2>2. CASE onTerminal(j) \/ jobEnded(j) BY <2>2 DEF onTerminal, jobEnded, userVars
  <2>3. CASE startNext(j) BY <2>3, NextStarts
  <2> QED BY <1>4, <2>1, <2>2, <2>3, Zenon DEF Job, Transfers
<1> QED BY <1>1, <1>2, <1>3, <1>4 DEF Step

LEMMA InitQueue == Init => QueueInv
<1>1. ASSUME Init PROVE Queue
  <2>1. NotListed.state \notin {"QUEUED", "RUNNING"} BY DEF NotListed
  <2>2. \A i \in Items : saved[i] = NotListed BY <1>1 DEF Init, Nothing
  <2> QED BY <2>1, <2>2 DEF Queue, RunningHasJob, QueuedWillStart
<1> QED BY <1>1 DEF QueueInv

LEMMA NextQueue == Inv /\ CalmInv /\ BooksInv /\ QueueInv /\ [Next]_vars => QueueInv'
<1> SUFFICES ASSUME Inv, CalmInv, BooksInv, QueueInv, [Next]_vars, ~disturbed', crashes' = 0
             PROVE  Queue'
  BY DEF QueueInv
<1>1. CASE Next
  <2>1. ~disturbed /\ Step BY <1>1, Zenon DEF Next
  <2>2. crashes \in Nat BY DEF Inv, TypeOK
  <2>3. ~processDeath BY <2>2 DEF processDeath
  <2>4. crashes = 0 BY <2>1, <2>3, OnlyDeathsCount
  <2>5. Calm /\ ~Overlap /\ Place /\ CountOK BY <2>1, Zenon DEF CalmInv, BooksInv
  <2>6. Queue BY <2>1, <2>4, Zenon DEF QueueInv
  <2> QED BY <2>1, <2>3, <2>5, <2>6, QueueStep
<1>2. CASE UNCHANGED vars
  <2>1. UNCHANGED <<saved, activeCount, thread, crashes, disturbed>>
    BY <1>2 DEF vars, diskVars, bookVars, userVars
  <2>2. Queue BY <2>1 DEF QueueInv
  <2> QED BY <2>1, <2>2
    DEF Queue, RunningHasJob, QueuedWillStart, NoJob, Busy, Filling, At, AtWork
<1> QED BY <1>1, <1>2

LEMMA QueueMoves == Inv /\ QueueInv => NothingStranded
<1> SUFFICES ASSUME Inv, QueueInv, Settled, ~disturbed, crashes = 0, NEW i \in Stranded
             PROVE  FALSE
  BY DEF NothingStranded
<1>1. Queue /\ i \in Items BY DEF QueueInv, Stranded
<1>2. \A t \in Threads : ~AtBooks(t) BY DEF Settled
<1>3. NoJob(i) BY DEF Stranded, NoJob
<1>4. CASE saved[i].state = "RUNNING"
  <2>1. PICK j \in Jobs : Busy(j) /\ thread[j].it = i BY <1>1, <1>4 DEF Queue, RunningHasJob
  <2>2. AtWork(j) BY <2>1 DEF Busy, AtWork, Working
  <2> QED BY <1>3, <2>1, <2>2 DEF NoJob
<1>5. CASE saved[i].state = "QUEUED" /\ activeCount < MAX_CONCURRENT
  <2>1. \A t \in Threads : ~Filling(t) /\ ~At(t, "start")
    BY <1>2 DEF Filling, At, AtBooks, Bookkeeping
  <2>2. QueuedWillStart(i) BY <1>1 DEF Queue
  <2>3. activeCount >= MAX_CONCURRENT BY <1>3, <1>5, <2>1, <2>2 DEF QueuedWillStart
  <2>4. activeCount \in Nat BY DEF Inv, TypeOK
  <2> QED BY <1>5, <2>3, <2>4, DownloadAssumption
<1> QED BY <1>4, <1>5 DEF Stranded

(***************************************************************************)
(* While the process lives, and no two threads were at the books at once,  *)
(* no download is forgotten: DownloadEngine reports every end of a job to  *)
(* onTerminal, which starts the first download that waits, and startJob    *)
(* refuses one only when the limit is reached.                             *)
(***************************************************************************)
THEOREM NothingIsStranded == Spec => []NothingStranded
<1>1. Spec => []QueueInv BY BooksInvariance, InitQueue, NextQueue, PTL DEF Spec
<1> QED BY <1>1, Invariance, QueueMoves, PTL

=============================================================================
