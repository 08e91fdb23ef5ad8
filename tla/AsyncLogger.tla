----------------------------- MODULE AsyncLogger -----------------------------
(***************************************************************************)
(* rocket/common/log.cc: from pushLog to the log files.                    *)
(*                                                                         *)
(* Any thread logs a line into the Logger's m_buffer.  The timer of one    *)
(* EventLoop calls syncLoop, which swaps that buffer out and queues it as  *)
(* a batch for the AsyncLogger's thread, and that thread writes batch      *)
(* after batch to files named by date and number.  The Logger's two        *)
(* buffers (rpc and app) go through two such pipelines; this is either.    *)
(*                                                                         *)
(* The Logger's mutex guards the buffer, the AsyncLogger's the queue of    *)
(* batches.  Every guard on them calls unlock() and unlocks once more in   *)
(* its destructor, which is a step of its own here: see ScopeMutex.        *)
(***************************************************************************)
EXTENDS Integers, Sequences, SequencesExt

CONSTANTS
  Loggers,          \* threads that log
  Syncer,           \* the thread whose loop calls syncLoop
  Writer,           \* the AsyncLogger's thread
  m_max_file_size,  \* in lines
  MaxLines,         \* bound: no thread begins to log when so many lines have been
                    \* logged since the process started
  MaxStarts,        \* bound: starts of the process
  MaxDay,           \* bound: the date
  None

ASSUME LoggerAssumption ==
  /\ Syncer \notin Loggers \cup {Writer}
  /\ Writer \notin Loggers
  /\ m_max_file_size \in Nat
  /\ MaxLines \in Nat
  /\ MaxStarts \in Nat \ {0}
  /\ MaxDay \in Nat
  /\ None \notin [date : Nat, no : Nat]

VARIABLES
  pc,              \* where each thread is
  mutex,           \* which of the mutexes is locked
  m_buffer,        \* the Logger's
  tmp_vec,         \* syncLoop's
  batches,         \* the AsyncLogger's m_buffer
  tmp,             \* the batch the AsyncLogger's thread writes
  today,           \* the date
  m_date, m_no, m_file_handler,
  files,           \* contents of the files there are
  logged,          \* history: lines logged since the process started
  starts,          \* history: starts of the process
  overruns,        \* history: batches written to a file already too large
  stolen           \* history: in this run, a guard has released another's lock

lines == <<m_buffer, tmp_vec, batches, tmp>>
disk == <<m_date, m_no, m_file_handler, files, overruns>>
vars == <<pc, mutex, lines, disk, today, logged, starts, stolen>>

Lines == [run : Nat, n : Nat \ {0}]
Line(n) == [run |-> starts, n |-> n]
Names == [date : Nat, no : Nat]

Threads == Loggers \cup {Syncer, Writer}
Mutexes == {"log", "queue"}

\* Program points.  A thread at one of a mutex's points is between lock() and
\* unlock(); *_dtor: before the destructor of the guard.
Section == [log |-> {"push", "swap"}, queue |-> {"queue", "test", "wait"}]
Points == {"idle", "push", "push_dtor", "swap", "queue_lock", "queue", "queue_dtor",
           "swap_dtor", "lock", "test", "wait", "waiting", "write", "write_dtor"}

Start == [t \in Threads |-> IF t = Writer THEN "lock" ELSE "idle"]
Free == [m \in Mutexes |-> FALSE]

Init ==
  /\ pc = Start
  /\ mutex = Free
  /\ m_buffer = <<>>
  /\ tmp_vec = <<>>
  /\ batches = <<>>
  /\ tmp = <<>>
  /\ today = 1
  /\ m_date = 0
  /\ m_no = 0
  /\ m_file_handler = None
  /\ files = [f \in {} |-> <<>>]
  /\ logged = 0
  /\ starts = 1
  /\ overruns = [f \in {} |-> 0]
  /\ stolen = FALSE

-----------------------------------------------------------------------------
(* The guards.                                                             *)

Goto(t, here, there) == pc[t] = here /\ pc' = [pc EXCEPT ![t] = there]

Inside(t, m) == pc[t] \in Section[m]
Alone(t, m) == \A u \in Threads \ {t} : ~Inside(u, m)

Lock(t, m, here, there) ==
  /\ Goto(t, here, there)
  /\ ~mutex[m]
  /\ mutex' = [mutex EXCEPT ![m] = TRUE]
  /\ UNCHANGED <<lines, disk, today, logged, starts, stolen>>

Unlock(m) == mutex' = [mutex EXCEPT ![m] = FALSE]

\* The destructor unlocks again, whoever has locked the mutex since.
Destroy(t, m, here, there) ==
  /\ Goto(t, here, there)
  /\ Unlock(m)
  /\ stolen' = (stolen \/ ~Alone(t, m))
  /\ UNCHANGED <<lines, disk, today, logged, starts>>

-----------------------------------------------------------------------------
(* The Logger.  Two threads in a section at once are a data race: what one *)
(* adds may be lost.                                                       *)

LogLock(p) == logged < MaxLines /\ Lock(p, "log", "idle", "push")

pushLog(p) ==
  /\ Goto(p, "push", "push_dtor")
  /\ logged' = logged + 1
  /\ \/ m_buffer' = Append(m_buffer, Line(logged'))
     \/ ~Alone(p, "log") /\ UNCHANGED m_buffer
  /\ Unlock("log")
  /\ UNCHANGED <<tmp_vec, batches, tmp, disk, today, starts, stolen>>

LogDestroy(p) == Destroy(p, "log", "push_dtor", "idle")

\* syncLoop, called by the repeated timer event.
SyncLock == Lock(Syncer, "log", "idle", "swap")

\* Defect: the buffer is copied, not swapped out.
SyncCopies ==
  /\ Goto(Syncer, "swap", IF m_buffer = <<>> THEN "swap_dtor" ELSE "queue_lock")
  /\ tmp_vec' = m_buffer
  /\ Unlock("log")
  /\ UNCHANGED <<m_buffer, batches, tmp, disk, today, logged, starts, stolen>>

\* It takes the buffer...
SyncSwap ==
  /\ Goto(Syncer, "swap", IF m_buffer = <<>> THEN "swap_dtor" ELSE "queue_lock")
  /\ tmp_vec' = m_buffer
  /\ m_buffer' = <<>>
  /\ Unlock("log")
  /\ UNCHANGED <<batches, tmp, disk, today, logged, starts, stolen>>

QueueLock == Lock(Syncer, "queue", "queue_lock", "queue")

Signalled == IF pc[Writer] = "waiting" THEN [pc EXCEPT ![Writer] = "lock"] ELSE pc

\* Defect: the condition is not signalled.
PushQuietly ==
  /\ Goto(Syncer, "queue", "queue_dtor")
  /\ \/ batches' = Append(batches, tmp_vec)
     \/ ~Alone(Syncer, "queue") /\ UNCHANGED batches
  /\ tmp_vec' = <<>>
  /\ Unlock("queue")
  /\ UNCHANGED <<m_buffer, tmp, disk, today, logged, starts, stolen>>

\* ...and queues it, waking the thread that waits for one.
pushLogBuffer ==
  /\ pc[Syncer] = "queue"
  /\ pc' = [Signalled EXCEPT ![Syncer] = "queue_dtor"]
  /\ \/ batches' = Append(batches, tmp_vec)
     \/ ~Alone(Syncer, "queue") /\ UNCHANGED batches
  /\ tmp_vec' = <<>>
  /\ Unlock("queue")
  /\ UNCHANGED <<m_buffer, tmp, disk, today, logged, starts, stolen>>

QueueDestroy == Destroy(Syncer, "queue", "queue_dtor", "swap_dtor")

\* syncLoop's own guard lives to its end.
SyncDestroy == Destroy(Syncer, "log", "swap_dtor", "idle")

-----------------------------------------------------------------------------
(* The AsyncLogger's thread.                                               *)

WriterLock == Lock(Writer, "queue", "lock", "test")

TestEmpty ==
  /\ Goto(Writer, "test", "wait")
  /\ batches = <<>>
  /\ UNCHANGED <<mutex, lines, disk, today, logged, starts, stolen>>

\* pthread_cond_wait unlocks the mutex as it begins to wait.
Wait ==
  /\ Goto(Writer, "wait", "waiting")
  /\ Unlock("queue")
  /\ UNCHANGED <<lines, disk, today, logged, starts, stolen>>

\* It may return without a signal, and then locks the mutex as after one.
WakeUp ==
  /\ Goto(Writer, "waiting", "lock")
  /\ UNCHANGED <<mutex, lines, disk, today, logged, starts, stolen>>

\* Defect: the newest batch is taken first.
TakeNewest ==
  /\ Goto(Writer, "test", "write")
  /\ batches # <<>>
  /\ tmp' = Last(batches)
  /\ batches' = Front(batches)
  /\ Unlock("queue")
  /\ UNCHANGED <<m_buffer, tmp_vec, disk, today, logged, starts, stolen>>

TakeBatch ==
  /\ Goto(Writer, "test", "write")
  /\ batches # <<>>
  /\ tmp' = Head(batches)
  /\ batches' = Tail(batches)
  /\ Unlock("queue")
  /\ UNCHANGED <<m_buffer, tmp_vec, disk, today, logged, starts, stolen>>

Content(f) == IF f \in DOMAIN files THEN files[f] ELSE <<>>
Overruns(f) == IF f \in DOMAIN overruns THEN overruns[f] ELSE 0
TooLarge(f) == Len(Content(f)) > m_max_file_size

\* Defect: the file is opened for writing, not for appending.
WriteFromStart(f) ==
  /\ m_file_handler' = f
  /\ files' = [g \in DOMAIN files \cup {f} |-> IF g = f THEN tmp ELSE files[g]]
  /\ overruns' = [g \in DOMAIN overruns \cup {f} |->
                    IF g = f /\ TooLarge(f) THEN Overruns(f) + 1 ELSE Overruns(g)]
  /\ tmp' = <<>>

\* The batch goes to the end of file f (fopen "a", fwrite, fflush).
WriteTo(f) ==
  /\ m_file_handler' = f
  /\ files' = [g \in DOMAIN files \cup {f} |->
                 IF g = f THEN Content(f) \o tmp ELSE files[g]]
  /\ overruns' = [g \in DOMAIN overruns \cup {f} |->
                    IF g = f /\ TooLarge(f) THEN Overruns(f) + 1 ELSE Overruns(g)]
  /\ tmp' = <<>>

\* Defect: the number of the file does not grow.
WriteSameNumber ==
  /\ Goto(Writer, "write", "write_dtor")
  /\ m_date' = today
  /\ LET no == IF m_date # today THEN 0 ELSE m_no
         open == IF m_date # today \/ m_file_handler = None
                 THEN [date |-> today, no |-> no] ELSE m_file_handler
     IN  /\ m_no' = no
         /\ WriteTo(IF TooLarge(open) THEN [date |-> today, no |-> no] ELSE open)
  /\ UNCHANGED <<mutex, m_buffer, tmp_vec, batches, today, logged, starts, stolen>>

\* A new date, or no file yet, opens the first file of that date.  A file that
\* has become too large is closed for the one numbered m_no, which counts on
\* afterwards: from the first file the thread goes to the first file again.
WriteBatch ==
  /\ Goto(Writer, "write", "write_dtor")
  /\ m_date' = today
  /\ LET no == IF m_date # today THEN 0 ELSE m_no
         open == IF m_date # today \/ m_file_handler = None
                 THEN [date |-> today, no |-> no] ELSE m_file_handler
     IN  IF TooLarge(open)
         THEN WriteTo([date |-> today, no |-> no]) /\ m_no' = no + 1
         ELSE WriteTo(open) /\ m_no' = no
  /\ UNCHANGED <<mutex, m_buffer, tmp_vec, batches, today, logged, starts, stolen>>

\* The guard of the loop's body lives to its end, past the write.
WriterDestroy == Destroy(Writer, "queue", "write_dtor", "lock")

-----------------------------------------------------------------------------
NextDay ==
  /\ today < MaxDay
  /\ today' = today + 1
  /\ UNCHANGED <<pc, mutex, lines, disk, logged, starts, stolen>>

\* The process dies at any point and is started again: what is in memory is
\* gone, the files are there.
Restart ==
  /\ starts < MaxStarts
  /\ starts' = starts + 1
  /\ logged' = 0
  /\ pc' = Start /\ mutex' = Free /\ stolen' = FALSE
  /\ m_buffer' = <<>> /\ tmp_vec' = <<>> /\ batches' = <<>> /\ tmp' = <<>>
  /\ m_date' = 0 /\ m_no' = 0 /\ m_file_handler' = None
  /\ UNCHANGED <<files, overruns, today>>

LoggerStep(p) == LogLock(p) \/ pushLog(p) \/ LogDestroy(p)
SyncStep ==
  \/ SyncLock \/ SyncSwap \/ SyncDestroy
  \/ QueueLock \/ pushLogBuffer \/ QueueDestroy
WriterStep ==
  \/ WriterLock \/ TestEmpty \/ Wait \/ TakeBatch \/ WriteBatch \/ WriterDestroy

Next ==
  \/ \E p \in Loggers : LoggerStep(p)
  \/ SyncStep
  \/ WriterStep \/ WakeUp
  \/ NextDay \/ Restart

\* The timer event repeats, the loop runs its callback to the end, the logger's
\* thread and a thread that logs are scheduled.  Nobody need log, and no spurious
\* wake-up comes; if they come for ever, they do not keep syncLoop from the mutex for
\* ever.
Fairness ==
  /\ \A p \in Loggers : WF_vars(pushLog(p) \/ LogDestroy(p))
  /\ WF_vars(SyncStep)
  /\ SF_vars(QueueLock)
  /\ WF_vars(WriterStep)

Spec == Init /\ [][Next]_vars /\ Fairness

-----------------------------------------------------------------------------
Written(l) == \E f \in DOMAIN files : \E i \in DOMAIN files[f] : files[f][i] = l

\* The pipeline's parts agree: a batch is never empty, each thread holds one just
\* while it carries it on, the file that is open is one of the date last seen, and
\* until a guard has released another's lock the thread does not wait while a batch
\* is queued.
LogInv ==
  /\ pc \in [Threads -> Points] /\ mutex \in [Mutexes -> BOOLEAN] /\ stolen \in BOOLEAN
  /\ m_buffer \in Seq(Lines) /\ tmp_vec \in Seq(Lines) /\ tmp \in Seq(Lines)
  /\ batches \in Seq(Seq(Lines) \ {<<>>})
  /\ m_no \in Nat /\ m_date \in 0..today
  /\ DOMAIN files \subseteq Names /\ DOMAIN overruns = DOMAIN files
  /\ pc[Syncer] \in {"queue_lock", "queue"} <=> tmp_vec # <<>>
  /\ pc[Writer] = "write" <=> tmp # <<>>
  /\ ~stolen /\ pc[Writer] \in {"wait", "waiting"} => batches = <<>>
  /\ m_file_handler # None => /\ m_file_handler \in DOMAIN files
                             /\ m_file_handler.date = m_date
                             /\ m_no \in {m_file_handler.no, m_file_handler.no + 1}

\* The sequences a line passes through on its way to a file, the oldest first:
\* the thread's batch, the queued ones, syncLoop's, the Logger's buffer.
Stages == 0 .. Len(batches) + 2
Stage(k) ==
  CASE k = 0 -> tmp
    [] k \in DOMAIN batches -> batches[k]
    [] k = Len(batches) + 1 -> tmp_vec
    [] k = Len(batches) + 2 -> m_buffer

OnItsWay(l) == \E k \in Stages : \E i \in DOMAIN Stage(k) : Stage(k)[i] = l

\* A line on its way is on its way once, behind the lines logged before it, across
\* the two buffers, the queue and the thread's batch, and is not in a file yet.  "All the
\* data of the buffer" is printed to the file (log.cc:193) only until a guard has released
\* another's lock: till then no line is lost, those logged first are in the files, the
\* others on their way; afterwards lines do get lost.
LinesConserved ==
  /\ \A n \in 1..logged : Written(Line(n)) => ~OnItsWay(Line(n))
  /\ \A k, l \in Stages : \A i \in DOMAIN Stage(k), j \in DOMAIN Stage(l) :
       /\ Stage(k)[i] \in {Line(n) : n \in 1..logged}
       /\ k < l \/ (k = l /\ i < j) => Stage(k)[i].n < Stage(l)[j].n
  /\ ~stolen =>
       /\ \A n \in 1..logged : Written(Line(n)) \/ OnItsWay(Line(n))
       /\ \A m, n \in 1..logged : m < n /\ Written(Line(n)) => Written(Line(m))

\* Read in the order of their names, the files hold the lines of one run of the
\* process in the order they were logged, each once, whatever the dates and the
\* sizes at which the thread changed files.
Before(f, i, g, j) == \/ f.date < g.date
                      \/ f.date = g.date /\ f.no < g.no
                      \/ f = g /\ i <= j
FilesInOrder ==
  \A f, g \in DOMAIN files : \A i \in DOMAIN files[f], j \in DOMAIN files[g] :
    files[f][i].run = files[g][j].run /\ files[f][i].n <= files[g][j].n
      => Before(f, i, g, j)

\* The size limit is exceeded by the batch that crosses it, and then only by the
\* one batch the roll-over puts into the first file again, and by one more for
\* each further start of the process.
OverrunsBounded ==
  \A f \in DOMAIN files : overruns[f] <= IF f.no = 0 THEN starts ELSE starts - 1

\* The files are the journal of what was logged: a batch adds the lines that
\* follow those already there, whichever files the thread goes through, and no
\* roll-over, new date or restart takes a line back.  After a guard has released
\* another's lock a batch may leave lines out, until the next start of the process.
InFiles == UNION {ToSet(files[f]) : f \in DOMAIN files}
JournalImpl == INSTANCE Journal WITH kept <- InFiles, undefined <- stolen
ImplementsJournal == JournalImpl!Spec

\* Every line gets into a file, if the process lives and no guard releases another's
\* lock.
LinesWritten ==
  \A r \in 1..MaxStarts, n \in 1..MaxLines :
    starts = r /\ logged >= n
      ~> Written([run |-> r, n |-> n]) \/ stolen \/ starts > r
=============================================================================
