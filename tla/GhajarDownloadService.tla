----------------------- MODULE GhajarDownloadService -----------------------
(***************************************************************************)
(* The download queue of the browser: GhajarDownloadService, the jobs of   *)
(* DownloadEngine and the list that DownloadStorage keeps on disk.         *)
(*                                                                         *)
(* Thread Main handles the intents of the user; each started job is a      *)
(* thread of its own and keeps its number.  The map jobs is concurrent and *)
(* activeCount is volatile, so that single reads and writes are atomic;    *)
(* persist, startJob and onTerminal, which make several, are not.          *)
(*                                                                         *)
(* Abstractions: all files of known length have TotalBytes bytes; the      *)
(* downloads are listed in the order of their numbers, and each has a file *)
(* name of its own; a service that stopped itself and the one started next *)
(* are one, since a service stops only with no job and a count of zero.    *)
(***************************************************************************)
EXTENDS DownloadPlanner

CONSTANTS MaxItems,        \* bound: downloads in the list
          Unsized,         \* those whose server does not tell the length
          NoRanges,        \* those whose server ignores the Range header
          TotalBytes,      \* length of the other files
          MAX_CONCURRENT,  \* jobs at a time
          MaxJobs,         \* bound: jobs started
          MaxEnqueues,     \* bound: downloads requested by the user
          MaxActions,      \* bound: other commands of the user
          MaxCrashes,      \* bound: deaths of the process
          Faults           \* which of "ERROR", "UNSATISFIABLE" may happen

Items == 1..MaxItems       \* the downloads, in the order of their requests

ASSUME DownloadAssumption ==
  /\ MaxItems \in Nat \ {0}
  /\ Unsized \subseteq Items /\ NoRanges \subseteq Items
  /\ TotalBytes \in Nat \ {0} /\ MAX_CONCURRENT \in Nat \ {0}
  /\ MaxJobs \in Nat /\ MaxEnqueues \in Nat /\ MaxActions \in Nat /\ MaxCrashes \in Nat

VARIABLES saved,        \* the list on disk: an entry for each download
          part,         \* the .ghajar-part file of each download
          target,       \* its finished file
          jobs,         \* the job of each download, 0 when it has none
          activeCount,
          thread,       \* the threads, see Thread
          requests,     \* how many downloads there are
          actions, crashes,
          delivered,    \* intents the system delivers again if the process dies
          inbox,        \* intents being delivered again
          disturbed,    \* history, see Overlap
          spoiled       \* history, see segmentLeft and processDeath

diskVars == <<saved, part, target>>
bookVars == <<jobs, activeCount>>
userVars == <<requests, actions, crashes, delivered, inbox>>
vars == <<diskVars, bookVars, thread, userVars, disturbed, spoiled>>

Main == 0
Jobs == 1..MaxJobs
Threads == 0..MaxJobs

(***************************************************************************)
(* A DownloadItem: segments has the number of bytes fetched of each        *)
(* segment and is empty until they are planned.                            *)
(***************************************************************************)
DownloadItem == [state : DownloadState, total : {-1, TotalBytes}, segments : Seq(Nat)]
Requested == [state |-> "QUEUED", total |-> -1, segments |-> <<>>]
NotListed == [state |-> "NOT LISTED", total |-> -1, segments |-> <<>>]
List == [Items -> DownloadItem \cup {NotListed}]
Nothing == [i \in Items |-> NotListed]

File == [size : 0..TotalBytes, data : SUBSET (0..TotalBytes - 1)]
NoFile == [size |-> 0, data |-> {}]

(***************************************************************************)
(* A thread is at pc, between the steps of the code, and works for the     *)
(* download number it.                                                     *)
(***************************************************************************)
Bookkeeping == {"load", "save", "terminal", "dec", "next", "start", "inc"}
Transfer == {"alloc", "fetch", "check", "remove", "move"}
Working == Transfer \cup {"made", "run", "load", "save", "terminal", "dec"}

Thread == [pc : Bookkeeping \cup Working \cup {"idle", "new", "gone"},
           it : Items,
           item : DownloadItem,   \* the record to be saved or started; of a job, its item
           copy : List,           \* the list that is about to be saved
           count : Nat,           \* the activeCount that is about to be changed
           made : 0..MaxJobs,     \* the job that is about to be started
           paused : BOOLEAN, cancelled : BOOLEAN,   \* the flags of a job
           from : Nat,            \* where a job went on in its first segment
           left : SUBSET Nat]     \* segments whose threads left before their end

Fresh(l) == [pc |-> l, it |-> 1, item |-> Requested, copy |-> Nothing, count |-> 0,
             made |-> 0, paused |-> FALSE, cancelled |-> FALSE, from |-> 0, left |-> {}]

Command == {"ENQUEUE", "PAUSE", "RESUME", "RETRY", "CANCEL"}

TypeOK ==
  /\ saved \in List
  /\ part \in [Items -> File] /\ target \in [Items -> File]
  /\ jobs \in [Items -> 0..MaxJobs]
  /\ activeCount \in Nat
  /\ thread \in [Threads -> Thread]
  /\ requests \in Nat /\ actions \in Nat /\ crashes \in Nat
  /\ delivered \in Seq(Command \X Items) /\ inbox \in Seq(Command \X Items)
  /\ disturbed \in BOOLEAN /\ spoiled \subseteq Items

Init ==
  /\ saved = Nothing
  /\ part = [i \in Items |-> NoFile] /\ target = [i \in Items |-> NoFile]
  /\ jobs = [i \in Items |-> 0]
  /\ activeCount = 0
  /\ thread = [t \in Threads |-> Fresh(IF t = Main THEN "idle" ELSE "new")]
  /\ requests = 0 /\ actions = 0 /\ crashes = 0
  /\ delivered = <<>> /\ inbox = <<>>
  /\ disturbed = FALSE /\ spoiled = {}

At(t, l) == thread[t].pc = l
goto(t, l) == thread' = [thread EXCEPT ![t].pc = l]
End(t) == Fresh(IF t = Main THEN "idle" ELSE "gone")

-----------------------------------------------------------------------------
(***************************************************************************)
(* What the main thread and the jobs share.                                *)
(*                                                                         *)
(* persist: the list is loaded, and saved with the record of the download  *)
(* replaced or added.                                                      *)
(***************************************************************************)
persistLoad(t) ==
  /\ At(t, "load")
  /\ thread' = [thread EXCEPT ![t].copy = saved, ![t].pc = "save"]
  /\ UNCHANGED <<diskVars, bookVars, userVars, spoiled>>

stopIfIdle == delivered' = IF activeCount = 0 /\ \A i \in Items : jobs[i] = 0 THEN <<>>
                           ELSE delivered

persistSave(t) ==
  LET state == thread[t].item.state
  IN  /\ At(t, "save")
      /\ saved' = [thread[t].copy EXCEPT ![thread[t].it] = thread[t].item]
      /\ IF t = Main /\ state = "CANCELLED"
         THEN thread' = [thread EXCEPT ![t] = End(t)] /\ stopIfIdle
         ELSE /\ thread' = [thread EXCEPT ![t].copy = Nothing,
                                          ![t].pc = IF state = "QUEUED" THEN "start"
                                                    ELSE IF state = "RUNNING" THEN "alloc"
                                                    ELSE "terminal"]
              /\ UNCHANGED delivered
      /\ UNCHANGED <<part, target, bookVars, requests, actions, crashes, inbox, spoiled>>

(***************************************************************************)
(* startJob: nothing when enough jobs run.  activeCount is read, then      *)
(* written.                                                                *)
(***************************************************************************)
startRefused(t) ==
  /\ At(t, "start")
  /\ activeCount >= MAX_CONCURRENT
  /\ thread' = [thread EXCEPT ![t] = End(t)]
  /\ UNCHANGED <<diskVars, bookVars, userVars, spoiled>>

startJob(t) ==
  /\ At(t, "start")
  /\ activeCount < MAX_CONCURRENT
  /\ \E j \in Jobs :
       /\ At(j, "new") /\ \A k \in 1..j - 1 : ~At(k, "new")
       /\ jobs' = [jobs EXCEPT ![thread[t].it] = j]
       /\ thread' = [thread EXCEPT ![t].pc = "inc", ![t].made = j, ![t].count = activeCount,
                                   ![j].pc = "made", ![j].it = thread[t].it,
                                   ![j].item = thread[t].item]
  /\ UNCHANGED <<diskVars, activeCount, userVars, spoiled>>

jobStarted(t) ==
  /\ At(t, "inc")
  /\ activeCount' = thread[t].count + 1
  /\ thread' = [thread EXCEPT ![t] = End(t), ![thread[t].made].pc = "run"]
  /\ UNCHANGED <<diskVars, jobs, userVars, spoiled>>

-----------------------------------------------------------------------------
(***************************************************************************)
(* Intents, on the main thread.  The list of downloads, from which all but *)
(* ENQUEUE come, may be old: any command may come for any download.        *)
(***************************************************************************)
persist(i, item) ==
  [thread EXCEPT ![Main].pc = "load", ![Main].it = i, ![Main].item = item]

enqueue ==
  /\ requests + 1 \in Items
  /\ requests' = requests + 1
  /\ thread' = persist(requests + 1, Requested)
  /\ UNCHANGED <<part, jobs>>

pause(i) ==
  /\ thread' = IF jobs[i] = 0 THEN thread ELSE [thread EXCEPT ![jobs[i]].paused = TRUE]
  /\ UNCHANGED <<part, jobs, requests>>

(***************************************************************************)
(* resume also takes back the pause of the job the map has.                *)
(***************************************************************************)
resume(i) ==
  /\ IF saved[i].state = "PAUSED"
     THEN LET queued == persist(i, [saved[i] EXCEPT !.state = "QUEUED"])
          IN  thread' = IF jobs[i] = 0 THEN queued
                        ELSE [queued EXCEPT ![jobs[i]].paused = FALSE]
     ELSE UNCHANGED thread
  /\ UNCHANGED <<part, jobs, requests>>

retryKeepingSegments(i) ==
  /\ IF saved[i].state = "FAILED"
     THEN /\ part' = [part EXCEPT ![i] = NoFile]
          /\ thread' = persist(i, [saved[i] EXCEPT !.state = "QUEUED"])
     ELSE UNCHANGED <<part, thread>>
  /\ UNCHANGED <<jobs, requests>>

retry(i) ==
  /\ IF saved[i].state = "FAILED"
     THEN /\ part' = [part EXCEPT ![i] = NoFile]
          /\ thread' = persist(i, [saved[i] EXCEPT !.state = "QUEUED", !.segments = <<>>])
     ELSE UNCHANGED <<part, thread>>
  /\ UNCHANGED <<jobs, requests>>

cancel(i) ==
  /\ jobs' = [jobs EXCEPT ![i] = 0]
  /\ LET told == IF jobs[i] = 0 THEN {} ELSE {jobs[i]}
         stored == saved[i] # NotListed
         next == IF stored THEN persist(i, [saved[i] EXCEPT !.state = "CANCELLED"]) ELSE thread
     IN  /\ thread' = [t \in Threads |->
                         IF t \in told THEN [next[t] EXCEPT !.cancelled = TRUE] ELSE next[t]]
         /\ part' = IF stored THEN [part EXCEPT ![i] = NoFile] ELSE part
  /\ UNCHANGED requests

(***************************************************************************)
(* The service returns START_REDELIVER_INTENT.  Intents are remembered as  *)
(* long as a death of the process can still come.                          *)
(***************************************************************************)
onStartCommand(c, i) ==
  /\ At(Main, "idle")
  /\ \/ c = "ENQUEUE" /\ enqueue
     \/ c = "PAUSE" /\ pause(i)
     \/ c = "RESUME" /\ resume(i)
     \/ c = "RETRY" /\ retry(i)
     \/ c = "CANCEL" /\ cancel(i)
  /\ delivered' = IF crashes < MaxCrashes THEN Append(delivered, <<c, i>>) ELSE <<>>
  /\ UNCHANGED <<saved, target, activeCount, crashes, spoiled>>

userCommand(c, i) ==
  /\ inbox = <<>>
  /\ IF c = "ENQUEUE" THEN i = requests + 1 /\ i <= MaxEnqueues /\ UNCHANGED actions
     ELSE i <= requests /\ actions < MaxActions /\ actions' = actions + 1
  /\ onStartCommand(c, i)
  /\ UNCHANGED inbox

(***************************************************************************)
(* After the death of the process the service gets its intents again.      *)
(* Each of them has an action: recoverPending, the branch for an intent    *)
(* without one, is not reached.                                            *)
(***************************************************************************)
redeliver ==
  /\ inbox # <<>>
  /\ onStartCommand(Head(inbox)[1], Head(inbox)[2])
  /\ inbox' = Tail(inbox)
  /\ UNCHANGED actions

-----------------------------------------------------------------------------
(***************************************************************************)
(* A job.  The server is asked for the length when it is not known.        *)
(***************************************************************************)
plan(i, total) == Plan(i \notin NoRanges, total)

run(j) ==
  /\ At(j, "run")
  /\ LET i == thread[j].it
         item == thread[j].item
         total == IF item.total > 0 \/ i \in Unsized THEN item.total ELSE TotalBytes
         segments == IF item.segments # <<>> THEN item.segments
                     ELSE [k \in DOMAIN plan(i, total) |-> 0]
     IN  \/ thread' = [thread EXCEPT ![j].pc = "load", ![j].item =
                         [state |-> "RUNNING", total |-> total, segments |-> segments]]
         \/ /\ "ERROR" \in Faults /\ item.total <= 0
            /\ thread' = [thread EXCEPT ![j].pc = "load", ![j].item.state = "FAILED"]
  /\ UNCHANGED <<diskVars, bookVars, userVars, spoiled>>

(***************************************************************************)
(* The part file gets its full length before its bytes.                    *)
(***************************************************************************)
allocate(j) ==
  /\ At(j, "alloc")
  /\ part' = IF thread[j].item.total > 0 THEN [part EXCEPT ![thread[j].it].size = TotalBytes]
             ELSE part
  /\ thread' = [thread EXCEPT ![j].pc = "fetch", ![j].from = thread[j].item.segments[1]]
  /\ UNCHANGED <<saved, target, bookVars, userVars, spoiled>>

Segment(j, k) == plan(thread[j].it, thread[j].item.total)[k]
Position(j, k) == Segment(j, k).start + thread[j].item.segments[k]
UnfinishedPastEnd(j) ==
  {k \in DOMAIN thread[j].item.segments : Position(j, k) <= Segment(j, k).end + 1}
Unfinished(j) == {k \in DOMAIN thread[j].item.segments : Position(j, k) <= Segment(j, k).end}

(***************************************************************************)
(* downloadSegment: the next byte of segment k.  A server that ignores     *)
(* Range sends the file from its beginning, so that the byte is a wrong    *)
(* one unless the job began there too.  When the part file was deleted or  *)
(* moved meanwhile the byte may go to the old file.                        *)
(***************************************************************************)
downloadSegment(j, k) ==
  /\ At(j, "fetch")
  /\ ~thread[j].paused /\ ~thread[j].cancelled
  /\ k \in Unfinished(j) \ thread[j].left
  /\ thread' = [thread EXCEPT ![j].item.segments[k] = @ + 1]
  /\ LET i == thread[j].it
         b == Position(j, k)
         right == i \notin NoRanges \/ thread[j].from = 0
         written == [size |-> IF part[i].size > b THEN part[i].size ELSE b + 1,
                     data |-> IF right THEN part[i].data \cup {b} ELSE part[i].data \ {b}]
         lost == {f \in {part[i]} : f.size < TotalBytes}
     IN  \E f \in {written} \cup lost : part' = [part EXCEPT ![i] = f]
  /\ UNCHANGED <<saved, target, bookVars, userVars, spoiled>>

(***************************************************************************)
(* The thread of a segment leaves: the job is paused or cancelled, or the  *)
(* server answers 416, which is not treated as an error.                   *)
(***************************************************************************)
segmentLeft(j, k) ==
  /\ At(j, "fetch")
  /\ k \in Unfinished(j) \ thread[j].left
  /\ \/ (thread[j].paused \/ thread[j].cancelled) /\ UNCHANGED spoiled
     \/ "UNSATISFIABLE" \in Faults /\ spoiled' = spoiled \cup {thread[j].it}
  /\ thread' = [thread EXCEPT ![j].left = @ \cup {k}]
  /\ UNCHANGED <<diskVars, bookVars, userVars>>

joined(j) ==
  /\ At(j, "fetch")
  /\ Unfinished(j) \subseteq thread[j].left
  /\ thread' = [thread EXCEPT ![j].pc = "check", ![j].from = 0, ![j].left = {}]
  /\ UNCHANGED <<diskVars, bookVars, userVars, spoiled>>

(***************************************************************************)
(* Why the job ended.                                                      *)
(***************************************************************************)
ended(j, state) == thread' = [thread EXCEPT ![j].pc = "load", ![j].item.state = state]

check(j) ==
  /\ At(j, "check")
  /\ \/ thread[j].cancelled /\ ended(j, "CANCELLED")
     \/ ~thread[j].cancelled /\ thread[j].paused /\ ended(j, "PAUSED")
     \/ ~thread[j].cancelled /\ ~thread[j].paused /\ goto(j, "remove")
  /\ UNCHANGED <<diskVars, bookVars, userVars, spoiled>>

(***************************************************************************)
(* A part file of full length replaces the finished file, which is deleted *)
(* first.  A file of unknown length was never fetched.                     *)
(***************************************************************************)
remove(j) ==
  LET i == thread[j].it
  IN  /\ At(j, "remove")
      /\ \/ part[i].size = TotalBytes /\ target' = [target EXCEPT ![i] = NoFile] /\ goto(j, "move")
         \/ part[i].size < TotalBytes /\ ended(j, "FAILED") /\ UNCHANGED target
      /\ UNCHANGED <<saved, part, bookVars, userVars, spoiled>>

moved(j) == LET i == thread[j].it
            IN  /\ target' = [target EXCEPT ![i] = part[i]]
                /\ part' = [part EXCEPT ![i] = NoFile]
                /\ ended(j, "COMPLETED")

moveUnchecked(j) == /\ At(j, "move")
                    /\ moved(j)
                    /\ UNCHANGED <<saved, bookVars, userVars, spoiled>>

move(j) ==
  /\ At(j, "move")
  /\ \/ part[thread[j].it].size > 0 /\ moved(j)
     \/ /\ part[thread[j].it].size = 0 \/ "ERROR" \in Faults
        /\ ended(j, "FAILED") /\ UNCHANGED <<part, target>>
  /\ UNCHANGED <<saved, bookVars, userVars, spoiled>>

(***************************************************************************)
(* onTerminal: the job leaves the books and the first download that waits  *)
(* gets its place.                                                         *)
(***************************************************************************)
onTerminal(j) ==
  /\ At(j, "terminal")
  /\ jobs' = [jobs EXCEPT ![thread[j].it] = 0]
  /\ thread' = [thread EXCEPT ![j].pc = "dec", ![j].count = activeCount]
  /\ UNCHANGED <<diskVars, activeCount, userVars, spoiled>>

jobEndedUnlessCancelled(j) ==
  /\ At(j, "dec")
  /\ activeCount' = IF thread[j].cancelled THEN activeCount ELSE thread[j].count - 1
  /\ thread' = [thread EXCEPT ![j] = Fresh("next")]
  /\ UNCHANGED <<diskVars, jobs, userVars, spoiled>>

jobEnded(j) ==
  /\ At(j, "dec")
  /\ activeCount' = IF thread[j].count > 0 THEN thread[j].count - 1 ELSE 0
  /\ thread' = [thread EXCEPT ![j] = Fresh("next")]
  /\ UNCHANGED <<diskVars, jobs, userVars, spoiled>>

Waiting == {i \in Items : saved[i].state = "QUEUED"}

startNextNever(j) ==
  /\ At(j, "next")
  /\ stopIfIdle
  /\ goto(j, "gone")
  /\ UNCHANGED <<diskVars, bookVars, requests, actions, crashes, inbox, spoiled>>

startNext(j) ==
  /\ At(j, "next")
  /\ \/ /\ \E i \in Waiting :
             /\ \A w \in Waiting : i <= w
             /\ thread' = [thread EXCEPT ![j].pc = "start", ![j].it = i, ![j].item = saved[i]]
        /\ UNCHANGED delivered
     \/ /\ Waiting = {}
        /\ stopIfIdle
        /\ goto(j, "gone")
  /\ UNCHANGED <<diskVars, bookVars, requests, actions, crashes, inbox, spoiled>>

(***************************************************************************)
(* The process dies: the system kills it, or the thread of a segment meets *)
(* an error, which nothing catches there.  Only the files stay.  A cancel  *)
(* that was cut short has deleted the part file of a download that the     *)
(* list still shows as it was before.                                      *)
(***************************************************************************)
Cancelling == {i \in Items : /\ thread[Main].pc \in {"load", "save"} /\ thread[Main].it = i
                             /\ thread[Main].item.state = "CANCELLED"}

processDeath ==
  /\ crashes < MaxCrashes
  /\ crashes' = crashes + 1
  /\ inbox' = delivered \o inbox
  /\ delivered' = <<>>
  /\ jobs' = [i \in Items |-> 0]
  /\ activeCount' = 0
  /\ thread' = [t \in Threads |-> IF At(t, "new") THEN thread[t] ELSE End(t)]
  /\ spoiled' = spoiled \cup Cancelling
  /\ UNCHANGED <<diskVars, requests, actions>>

-----------------------------------------------------------------------------
(***************************************************************************)
(* disturbed becomes and stays TRUE when two threads are at the books at   *)
(* once, or two jobs work for one download: onTerminal takes a download    *)
(* for waiting whose job has not yet heard from the server.                *)
(***************************************************************************)
AtWork(j) == thread[j].pc \in Working
AtBooks(t) == thread[t].pc \in Bookkeeping

Overlap == \/ \E t, u \in Threads : t # u /\ AtBooks(t) /\ AtBooks(u)
           \/ \E j, k \in Jobs : j # k /\ AtWork(j) /\ AtWork(k) /\ thread[j].it = thread[k].it

Shared(t) == \/ persistLoad(t) \/ persistSave(t)
             \/ startRefused(t) \/ startJob(t) \/ jobStarted(t)

Job(j) == \/ run(j) \/ allocate(j)
          \/ \E k \in DOMAIN thread[j].item.segments : downloadSegment(j, k) \/ segmentLeft(j, k)
          \/ joined(j) \/ check(j) \/ remove(j) \/ move(j)
          \/ onTerminal(j) \/ jobEnded(j) \/ startNext(j)

Step == \/ \E c \in Command, i \in Items : userCommand(c, i)
        \/ redeliver \/ processDeath
        \/ \E t \in Threads : Shared(t)
        \/ \E j \in Jobs : Job(j)

Next == Step /\ disturbed' = (disturbed \/ Overlap')

Spec == Init /\ [][Next]_vars

-----------------------------------------------------------------------------
Settled == inbox = <<>> /\ \A t \in Threads : ~AtBooks(t)

(***************************************************************************)
(* The plans of the segments are as SegmentsTile says.  It does not depend *)
(* on the state and is evaluated in the first one.                         *)
(***************************************************************************)
PlansTile == requests = 0 => SegmentsTile

(***************************************************************************)
(* A download that the list calls COMPLETED has a file of full length:     *)
(* cancellations during the move, deaths of the process and commands for   *)
(* downloads that have changed meanwhile do not part the two.  Like the    *)
(* next it holds as long as no two threads were at the books at once.      *)
(***************************************************************************)
CompletedHasFile ==
  ~disturbed =>
    \A i \in Items : saved[i].state = "COMPLETED" => target[i].size = TotalBytes

(***************************************************************************)
(* That file has all its bytes, in pauses, resumptions, retries and deaths *)
(* of the process, as long as the server gave the bytes it announced and   *)
(* no death cut a cancel of the download short.  Its length proves         *)
(* nothing: the part file has its full length from the beginning.          *)
(***************************************************************************)
CompletedIsWhole ==
  ~disturbed =>
    \A i \in Items \ spoiled :
      saved[i].state = "COMPLETED" => target[i].data = 0..TotalBytes - 1

(***************************************************************************)
(* activeCount, on which the limit rests, counts the jobs that work, and   *)
(* each of them can be reached by the user, or was told to end: what is    *)
(* left of the books when no two threads were at them at once.             *)
(***************************************************************************)
BooksAreRight ==
  Settled /\ ~disturbed =>
    /\ activeCount = Cardinality({j \in Jobs : AtWork(j)})
    /\ activeCount <= MAX_CONCURRENT
    /\ \A j \in Jobs : AtWork(j) => jobs[thread[j].it] = j \/ thread[j].cancelled

(***************************************************************************)
(* Downloads the list calls RUNNING with no job, or QUEUED with no job and *)
(* none whose end would start one.                                         *)
(***************************************************************************)
Stranded ==
  {i \in Items : /\ \A j \in Jobs : ~(AtWork(j) /\ thread[j].it = i)
                 /\ \/ saved[i].state = "RUNNING"
                    \/ saved[i].state = "QUEUED" /\ activeCount < MAX_CONCURRENT}

(***************************************************************************)
(* While the process lives no download is forgotten: one that is shown as  *)
(* running runs, and one that waits will be started when a job ends, as    *)
(* long as no two threads were at the books at once.                       *)
(***************************************************************************)
NothingStranded == Settled /\ ~disturbed /\ crashes = 0 => Stranded = {}

(***************************************************************************)
(* GhajarDownloadService.kt 19-20: "persists state after every transition  *)
(* so process death and reboots can recover": once the intents were        *)
(* delivered again no download is left behind.                             *)
(***************************************************************************)
DeathIsRecovered == Settled /\ ~disturbed => Stranded = {}

=============================================================================
