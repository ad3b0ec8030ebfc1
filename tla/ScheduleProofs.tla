--------------------------- MODULE ScheduleProofs ---------------------------
(***************************************************************************)
(* TLAPS proofs about Schedule, for every number of job objects and        *)
(* executions and every size of the history: what a job's status shows is  *)
(* true, and every job keeps the promise of AbstractJob.                   *)
(***************************************************************************)
EXTENDS Schedule, TLAPS

Entry   == [id : Nat, ended : BOOLEAN]
History == Seq(Entry)

(* The type of a job object, without the bounds of a finite run.           *)
JobRecord ==
    [state : {"idle", "executing", "paused"}, current : Nat, base : {"background", "run"},
     nextID : Nat \ {0}, history : History]

Typed ==
    /\ adding \in Jobs \cup {0} /\ registered \in Jobs \cup {0}
    /\ made \in Nat
    /\ job \in [Jobs -> JobRecord]
    /\ exec \in [Execs -> ExecType]
    /\ \A e \in Execs : exec[e].at \notin {"unused", "done"} => exec[e].job \in Jobs

(* A history in which nothing runs; one in which only the newest entry     *)
(* does, the run id.                                                       *)
AllEnded(h)      == \A i \in 1..Len(h) : h[i].ended
OpenEntry(h, id) ==
    /\ h # <<>> /\ h[Len(h)] = [id |-> id, ended |-> FALSE]
    /\ \A i \in 1..Len(h) : i # Len(h) => h[i].ended

(* The execution e holds executionMu of the object j.                      *)
Holds(e, j) == exec[e].job = j /\ exec[e].at \in Holding

(* Nobody executes the object ...                                          *)
Quiet(j) ==
    /\ \A e \in Execs : ~Holds(e, j)
    /\ AllEnded(job[j].history) /\ job[j].state # "executing"

(* ... or exactly one execution does, with its entry open.                 *)
Taken(j) ==
    \E e \in Execs :
        /\ Holds(e, j) /\ \A f \in Execs : Holds(f, j) => f = e
        /\ OpenEntry(job[j].history, exec[e].id)
        /\ job[j].nextID = exec[e].id + 1
        /\ (job[j].state = "executing") <=> (exec[e].at \in Running)
        /\ exec[e].at \in Running => job[j].current = exec[e].id

OneRun == \A j \in Jobs : Quiet(j) \/ Taken(j)

IInv == Typed /\ OneRun

-----------------------------------------------------------------------------
(* A run that begins in a quiet history becomes its one open entry, also   *)
(* when the ring is full and the oldest entry goes.                        *)
LEMMA StartExecutionOpens ==
    ASSUME NEW h \in History, NEW id \in Nat, AllEnded(h)
    PROVE  StartExecution(h, id) \in History /\ OpenEntry(StartExecution(h, id), id)
<1> DEFINE k == IF Len(h) >= HistorySize THEN Tail(h) ELSE h
           x == [id |-> id, ended |-> FALSE]
<1>1. k \in History /\ \A i \in 1..Len(k) : k[i].ended
    <2>1. CASE Len(h) >= HistorySize
        <3>1. h # <<>>
            BY <2>1, ScheduleAssumption DEF History
        <3>2. k \in History /\ Len(k) = Len(h) - 1 /\ \A i \in 1..Len(k) : k[i] = h[i + 1]
            BY <2>1, <3>1 DEF History
        <3> QED BY <3>2 DEF AllEnded, History
    <2>2. CASE ~(Len(h) >= HistorySize)
        BY <2>2 DEF AllEnded
    <2> QED BY <2>1, <2>2
<1>2. x \in Entry
    BY DEF Entry
<1>3. StartExecution(h, id) = Append(k, x)
    BY DEF StartExecution
<1> HIDE DEF k, x
<1> DEFINE g == Append(k, x)
<1>4. /\ g \in History /\ Len(g) = Len(k) + 1 /\ g[Len(k) + 1] = x
      /\ Len(k) \in Nat /\ \A i \in 1..Len(k) : g[i] = k[i]
    <2>1. k \in Seq(Entry) /\ Len(k) \in Nat
        BY <1>1 DEF History
    <2>2. g \in Seq(Entry)
        BY <1>2, <2>1
    <2>3. Len(g) = Len(k) + 1 /\ g[Len(k) + 1] = x
        BY <1>2, <2>1
    <2>4. \A i \in 1..Len(k) : g[i] = k[i]
        BY <1>2, <2>1
    <2> QED BY <2>1, <2>2, <2>3, <2>4 DEF History
<1> HIDE DEF g
<1>5. g # <<>>
    BY <1>4
<1>6. OpenEntry(g, id)
    BY <1>1, <1>4, <1>5 DEF OpenEntry, x
<1> QED BY <1>3, <1>4, <1>6 DEF g

(* The result is recorded: nothing is left open.                           *)
LEMMA EndExecutionEnds ==
    ASSUME NEW h \in History, NEW id \in Nat, OpenEntry(h, id)
    PROVE  EndExecution(h, id) \in History /\ AllEnded(EndExecution(h, id))
<1> DEFINE g == EndExecution(h, id)
           n == Len(h)
<1>1. n \in Nat /\ \A i \in 1..n : h[i] \in Entry
    BY DEF History
<1>2. g = [i \in 1..n |-> IF h[i].id = id THEN [h[i] EXCEPT !.ended = TRUE] ELSE h[i]]
    BY DEF EndExecution
<1>3. \A i \in 1..n : g[i] \in Entry /\ g[i].ended
    <2> TAKE i \in 1..n
    <2>1. CASE h[i].id = id
        BY <1>1, <1>2, <2>1 DEF Entry
    <2>2. CASE h[i].id # id
        <3>1. i # n
            BY <2>2 DEF OpenEntry
        <3> QED BY <1>1, <1>2, <2>2, <3>1 DEF OpenEntry
    <2> QED BY <2>1, <2>2
<1> HIDE DEF g
<1>4. g \in [1..n -> Entry]
    BY <1>2, <1>3
<1>5. g \in History /\ Len(g) = n
    BY <1>1, <1>4 DEF History
<1> QED BY <1>3, <1>5 DEF AllEnded, g

(* What the entries of a history say is running.                           *)
OpenIDs(h) == {x.id : x \in {y \in ToSet(h) : ~y.ended}}

(* A history whose entries have all ended has no open run.                 *)
LEMMA NothingOpen ==
    ASSUME NEW h \in History, AllEnded(h)
    PROVE  OpenIDs(h) = {}
BY DEF OpenIDs, AllEnded, ToSet, History

(* A history with an open entry has that one open run.                     *)
LEMMA OneOpen ==
    ASSUME NEW h \in History, NEW id, OpenEntry(h, id)
    PROVE  OpenIDs(h) = {id}
<1>1. Len(h) \in 1..Len(h) /\ DOMAIN h = 1..Len(h)
    BY DEF History, OpenEntry
<1>2. h[Len(h)].id = id /\ ~h[Len(h)].ended
    BY DEF OpenEntry
<1>3. \A i \in 1..Len(h) : ~h[i].ended => h[i].id = id
    BY <1>2 DEF OpenEntry
<1> QED BY <1>1, <1>2, <1>3 DEF OpenIDs, ToSet

-----------------------------------------------------------------------------
(* An object is left as it was when neither its own state nor who executes *)
(* it has changed.                                                         *)
LEMMA Untouched ==
    ASSUME NEW j \in Jobs, Quiet(j) \/ Taken(j),
           job'[j].history = job[j].history, job'[j].nextID = job[j].nextID,
           job'[j].current = job[j].current,
           (job'[j].state = "executing") <=> (job[j].state = "executing"),
           \A e \in Execs : /\ Holds(e, j)' <=> Holds(e, j)
                            /\ Holds(e, j) => /\ exec'[e].id = exec[e].id
                                              /\ exec'[e].at \in Running <=> exec[e].at \in Running
    PROVE  (Quiet(j) \/ Taken(j))'
<1>1. CASE Quiet(j)
    BY <1>1 DEF Quiet
<1>2. CASE Taken(j)
    BY <1>2 DEF Taken
<1> QED BY <1>1, <1>2

(* The invariant holds in the empty scheduler.                             *)
LEMMA InitIInv == Init => IInv
<1> SUFFICES ASSUME Init PROVE IInv
    OBVIOUS
<1>1. NewJob \in JobRecord /\ AllEnded(NewJob.history) /\ NewJob.state # "executing"
    BY DEF NewJob, JobRecord, History, AllEnded
<1>2. Unused \in ExecType /\ Unused.at = "unused" /\ Unused.at \notin Holding
    BY DEF Unused, ExecType, Steps, Holding, Running
<1>3. Typed
    BY <1>1, <1>2 DEF Init, Typed
<1>4. OneRun
    BY <1>1, <1>2 DEF Init, OneRun, Quiet, Holds
<1> QED BY <1>3, <1>4 DEF IInv

(* The scheduler's own steps change no more than the base context.         *)
LEMMA SchedulerStepKeeps ==
    ASSUME IInv, SchedulerStep
    PROVE  IInv'
<1>0. Typed /\ job \in [Jobs -> JobRecord]
    BY DEF IInv, Typed
<1>1. exec' = exec
    BY DEF SchedulerStep, AddJob, AddJobEnd, RemoveJob, UnregisterProcess, Start, Stop
<1>2. /\ job' \in [Jobs -> JobRecord]
      /\ \A j \in Jobs : \E b \in {"background", "run"} : job'[j] = [job[j] EXCEPT !.base = b]
    <2>1. CASE UNCHANGED job
        BY <1>0, <2>1 DEF JobRecord
    <2>2. CASE AddJobEnd
        <3>1. PICK b \in {"background", "run"} : job' = [job EXCEPT ![adding].base = b]
            BY <1>0, <2>2 DEF AddJobEnd, Typed, JobRecord
        <3> QED BY <1>0, <3>1 DEF JobRecord
    <2>3. CASE Start
        BY <1>0, <2>3 DEF Start, JobRecord
    <2> QED BY <2>1, <2>2, <2>3 DEF SchedulerStep, AddJob, RemoveJob, UnregisterProcess, Stop
<1>3. adding' \in Jobs \cup {0} /\ registered' \in Jobs \cup {0} /\ made' \in Nat
    BY DEF IInv, Typed, SchedulerStep, AddJob, AddJobEnd, RemoveJob, UnregisterProcess, Start, Stop
<1>4. Typed'
    BY <1>0, <1>1, <1>2, <1>3 DEF Typed
<1>5. ASSUME NEW j \in Jobs PROVE (Quiet(j) \/ Taken(j))'
    <2>1. /\ job'[j].history = job[j].history /\ job'[j].nextID = job[j].nextID
          /\ job'[j].current = job[j].current /\ job'[j].state = job[j].state
        BY <1>0, <1>2 DEF JobRecord
    <2>2. Quiet(j) \/ Taken(j)
        BY DEF IInv, OneRun
    <2> QED BY <1>1, <2>1, <2>2, Untouched DEF Holds
<1> QED BY <1>4, <1>5 DEF IInv, OneRun

(* A step of executions that are and stay outside executionMu.             *)
LEMMA OutsideKeeps ==
    ASSUME IInv, NEW e \in Execs, NEW r \in ExecType, exec' = [exec EXCEPT ![e] = r],
           exec[e].at \notin Holding, r.at \notin Holding,
           r.at \notin {"unused", "done"} => r.job \in Jobs,
           UNCHANGED <<made, adding, registered, job>>
    PROVE  IInv'
<1>0. exec \in [Execs -> ExecType]
    BY DEF IInv, Typed
<1>1. Typed'
    BY <1>0 DEF IInv, Typed
<1>2. \A f \in Execs, j \in Jobs :
          /\ Holds(f, j)' <=> Holds(f, j)
          /\ Holds(f, j) => exec'[f] = exec[f]
    BY <1>0 DEF Holds
<1>3. ASSUME NEW j \in Jobs PROVE (Quiet(j) \/ Taken(j))'
    BY <1>2, Untouched DEF IInv, OneRun
<1> QED BY <1>1, <1>3 DEF IInv, OneRun

(* Executions that come, and the pause.                                    *)
LEMMA ControlStepKeeps ==
    ASSUME IInv, ControlStep
    PROVE  IInv'
<1>0. /\ exec \in [Execs -> ExecType] /\ job \in [Jobs -> JobRecord]
      /\ registered \in Jobs \cup {0}
    BY DEF IInv, Typed
<1>1. ASSUME Pause \/ Resume PROVE IInv'
    <2>1. registered \in Jobs /\ UNCHANGED <<made, adding, registered, exec>>
        BY <1>0, <1>1 DEF Pause, Resume
    <2>2. PICK s \in {"idle", "paused"} : /\ job' = [job EXCEPT ![registered].state = s]
                                          /\ job[registered].state # "executing"
        BY <1>1 DEF Pause, Resume
    <2>3. job' \in [Jobs -> JobRecord]
        BY <1>0, <2>1, <2>2 DEF JobRecord
    <2>4. Typed'
        BY <2>1, <2>3 DEF IInv, Typed
    <2>5. ASSUME NEW j \in Jobs PROVE (Quiet(j) \/ Taken(j))'
        <3>1. /\ job'[j].history = job[j].history /\ job'[j].nextID = job[j].nextID
              /\ job'[j].current = job[j].current
              /\ (job'[j].state = "executing") <=> (job[j].state = "executing")
            BY <1>0, <2>1, <2>2 DEF JobRecord
        <3>2. Quiet(j) \/ Taken(j)
            BY DEF IInv, OneRun
        <3> QED BY <2>1, <3>1, <3>2, Untouched DEF Holds
    <2> QED BY <2>4, <2>5 DEF IInv, OneRun
<1>2. ASSUME NEW e \in Execs, NEW j \in Jobs, NEW by \in {"schedule", "trigger", "sync"},
             NEW ctx \in {"background", "run", "request"}, NEW step \in {"checked", "waiting"},
             Arrive(e, j, by, ctx, step), UNCHANGED <<made, adding, registered, job>>
      PROVE  IInv'
    <2> DEFINE overlap == job[j].state = "executing"
               early   == j = adding
               r == [Unused EXCEPT !.at = step, !.job = j, !.by = by, !.ctx = ctx,
                                   !.overlap = overlap, !.early = early]
    <2>1. exec' = [exec EXCEPT ![e] = r] /\ exec[e].at = "unused"
        BY <1>2 DEF Arrive, Fresh
    <2>2. overlap \in BOOLEAN /\ early \in BOOLEAN
        BY Zenon
    <2> HIDE DEF overlap, early
    <2>3. r \in ExecType /\ r.at = step /\ r.job = j
        BY <2>2 DEF Unused, ExecType, Steps
    <2> HIDE DEF r
    <2>4. exec[e].at \notin Holding /\ r.at \notin Holding
        BY <2>1, <2>3 DEF Holding, Running
    <2> QED BY <1>2, <2>1, <2>3, <2>4, OutsideKeeps
<1>3. ASSUME NEW e \in Execs, NEW j \in Jobs, Tick(e, j) PROVE IInv'
    <2>1. Arrive(e, j, "schedule", job[j].base, "waiting") /\ UNCHANGED <<made, adding, registered, job>>
        BY <1>3 DEF Tick
    <2>2. job[j].base \in {"background", "run", "request"}
        BY <1>0 DEF JobRecord
    <2> QED BY <1>2, <2>1, <2>2
<1>4. ASSUME NEW e \in Execs, NEW by \in {"trigger", "sync"}, Trigger(e, by) PROVE IInv'
    <2>1. /\ registered \in Jobs
          /\ Arrive(e, registered, by, IF by = "sync" THEN "request" ELSE "background", "checked")
          /\ UNCHANGED <<made, adding, registered, job>>
        BY <1>0, <1>4 DEF Trigger
    <2> QED BY <1>2, <2>1
<1>5. ASSUME NEW e \in Execs, ClientLeaves(e) PROVE IInv'
    <2>1. exec' = [exec EXCEPT ![e].ctx = "gone"] /\ UNCHANGED <<made, adding, registered, job>>
        BY <1>5 DEF ClientLeaves
    <2>2. exec' \in [Execs -> ExecType]
        BY <1>0, <2>1 DEF ExecType
    <2>3. \A f \in Execs : exec'[f].at = exec[f].at /\ exec'[f].job = exec[f].job
                           /\ exec'[f].id = exec[f].id
        BY <1>0, <2>1 DEF ExecType
    <2>4. Typed'
        BY <2>1, <2>2, <2>3 DEF IInv, Typed
    <2>5. ASSUME NEW j \in Jobs PROVE (Quiet(j) \/ Taken(j))'
        BY <2>1, <2>3, Untouched DEF IInv, OneRun, Holds
    <2> QED BY <2>4, <2>5 DEF IInv, OneRun
<1> QED BY <1>1, <1>3, <1>4, <1>5 DEF ControlStep

-----------------------------------------------------------------------------
(* executeSync.                                                            *)

(* executionMu is free: the object is quiet.                               *)
LEMMA UnlockedIsQuiet ==
    ASSUME IInv, NEW j \in Jobs, ~Locked(j)
    PROVE  Quiet(j)
BY DEF IInv, OneRun, Taken, Locked, Holds

(* Whoever holds executionMu is the only one.                              *)
LEMMA HolderIsAlone ==
    ASSUME IInv, NEW e \in Execs, exec[e].at \in Holding
    PROVE  LET j == exec[e].job IN
           /\ j \in Jobs
           /\ \A f \in Execs : Holds(f, j) => f = e
           /\ OpenEntry(job[j].history, exec[e].id)
           /\ job[j].nextID = exec[e].id + 1
           /\ (job[j].state = "executing") <=> (exec[e].at \in Running)
           /\ exec[e].at \in Running => job[j].current = exec[e].id
<1> DEFINE j == exec[e].job
<1>1. j \in Jobs
    BY DEF IInv, Typed, Holding, Running
<1>2. Holds(e, j)
    BY DEF Holds
<1>3. Taken(j)
    BY <1>1, <1>2 DEF IInv, OneRun, Quiet
<1> QED BY <1>1, <1>2, <1>3 DEF Taken

(* The three steps of an execution that change the job preserve the        *)
(* invariant, and do to the job what the refinement needs.                 *)
LEMMA BeginKeeps ==
    ASSUME IInv, NEW e \in Execs, Begin(e), NEW j, j = exec[e].job
    PROVE  /\ IInv'
           /\ j \in Jobs /\ Quiet(j) /\ job[j].state = "idle"
           /\ job'[j].state = "executing" /\ job'[j].nextID = job[j].nextID + 1
           /\ OpenEntry(job'[j].history, job[j].nextID)
           /\ \A k \in Jobs : k # j => job'[k] = job[k]
<1> DEFINE id == job[j].nextID
           h  == StartExecution(job[j].history, id)
           q  == [job[j] EXCEPT !.state = "executing", !.current = id, !.nextID = id + 1, !.history = h]
           r  == [exec[e] EXCEPT !.at = "executing", !.id = id]
<1>1. exec \in [Execs -> ExecType] /\ job \in [Jobs -> JobRecord]
    BY DEF IInv, Typed
<1>2. exec[e].at = "waiting" /\ ~Locked(j) /\ job[j].state = "idle"
      /\ UNCHANGED <<made, adding, registered>>
    BY DEF Begin, At
<1>3. j \in Jobs
    BY <1>2 DEF IInv, Typed
<1>4. Quiet(j)
    BY <1>2, <1>3, UnlockedIsQuiet
<1>5. id \in Nat \ {0} /\ job[j].history \in History /\ job[j] \in JobRecord /\ exec[e] \in ExecType
    BY <1>1, <1>3 DEF JobRecord
<1>6. h \in History /\ OpenEntry(h, id)
    BY <1>4, <1>5, StartExecutionOpens DEF Quiet
<1>7. job' = [job EXCEPT ![j] = q] /\ exec' = [exec EXCEPT ![e] = r]
    BY <1>1, <1>3 DEF Begin
<1> HIDE DEF h
<1>8. q \in JobRecord
    <2>1. id \in Nat /\ id + 1 \in Nat \ {0}
        BY <1>5
    <2> HIDE DEF id
    <2> QED BY <1>5, <1>6, <2>1 DEF JobRecord
<1>9. /\ q.state = "executing" /\ q.current = id /\ q.nextID = id + 1 /\ q.history = h
    BY <1>5 DEF JobRecord
<1>10. r \in ExecType
    BY <1>5 DEF ExecType, Steps
<1>11. r.at = "executing" /\ r.id = id /\ r.job = j
    BY <1>5 DEF ExecType
<1> HIDE DEF q, r
<1>12. Typed'
    BY <1>1, <1>2, <1>3, <1>7, <1>8, <1>10, <1>11 DEF IInv, Typed
<1>13. job'[j] = q /\ exec'[e] = r /\ (\A k \in Jobs : k # j => job'[k] = job[k])
       /\ \A f \in Execs : f # e => exec'[f] = exec[f]
    BY <1>1, <1>3, <1>7
<1>14. ASSUME NEW k \in Jobs PROVE (Quiet(k) \/ Taken(k))'
    <2>1. CASE k = j
        <3>1. Holds(e, j)' /\ r.at \in Running
            BY <1>11, <1>13 DEF Holds, Holding, Running
        <3>2. \A f \in Execs : Holds(f, j)' => f = e
            BY <1>4, <1>13 DEF Quiet, Holds
        <3>3. Taken(j)'
            BY <1>6, <1>9, <1>11, <1>13, <3>1, <3>2 DEF Taken
        <3> QED BY <2>1, <3>3
    <2>2. CASE k # j
        <3>1. \A f \in Execs : /\ Holds(f, k)' <=> Holds(f, k)
                               /\ Holds(f, k) => exec'[f] = exec[f]
            BY <1>2, <1>11, <1>13, <2>2 DEF Holds
        <3> QED BY <1>13, <2>2, <3>1, Untouched DEF IInv, OneRun
    <2> QED BY <2>1, <2>2
<1>15. IInv'
    BY <1>12, <1>14 DEF IInv, OneRun
<1> QED BY <1>2, <1>3, <1>4, <1>6, <1>9, <1>13, <1>15

LEMMA LeaveKeeps ==
    ASSUME IInv, NEW e \in Execs, Leave(e), NEW j, j = exec[e].job
    PROVE  /\ IInv'
           /\ j \in Jobs /\ job[j].state = "executing"
           /\ job'[j].state = "idle"
           /\ job'[j].history = job[j].history /\ job'[j].nextID = job[j].nextID
           /\ \A k \in Jobs : k # j => job'[k] = job[k]
<1> DEFINE q == [job[j] EXCEPT !.state = "idle", !.current = 0]
           r == [exec[e] EXCEPT !.at = "left"]
<1>1. exec \in [Execs -> ExecType] /\ job \in [Jobs -> JobRecord]
    BY DEF IInv, Typed
<1>2. exec[e].at = "returned" /\ UNCHANGED <<made, adding, registered>>
    BY DEF Leave, At
<1>3. exec[e].at \in Holding /\ exec[e].at \in Running
    BY <1>2 DEF Holding, Running
<1>4. /\ j \in Jobs /\ \A f \in Execs : Holds(f, j) => f = e
      /\ OpenEntry(job[j].history, exec[e].id)
      /\ job[j].nextID = exec[e].id + 1
      /\ job[j].state = "executing"
    BY <1>3, HolderIsAlone
<1>5. job' = [job EXCEPT ![j] = q] /\ exec' = [exec EXCEPT ![e] = r]
    BY <1>1, <1>4 DEF Leave, Go
<1>6. job[j] \in JobRecord /\ exec[e] \in ExecType
    BY <1>1, <1>4
<1>7. q \in JobRecord
    BY <1>6 DEF JobRecord
<1>8. q.state = "idle" /\ q.history = job[j].history /\ q.nextID = job[j].nextID
    BY <1>6 DEF JobRecord
<1>9. r \in ExecType
    BY <1>6 DEF ExecType, Steps
<1>10. r.at = "left" /\ r.job = j /\ r.id = exec[e].id
    BY <1>6 DEF ExecType
<1> HIDE DEF q, r
<1>11. Typed'
    BY <1>1, <1>2, <1>4, <1>5, <1>7, <1>9, <1>10 DEF IInv, Typed
<1>12. job'[j] = q /\ exec'[e] = r /\ (\A k \in Jobs : k # j => job'[k] = job[k])
       /\ \A f \in Execs : f # e => exec'[f] = exec[f]
    BY <1>1, <1>4, <1>5
<1>13. ASSUME NEW k \in Jobs PROVE (Quiet(k) \/ Taken(k))'
    <2>1. CASE k = j
        <3>1. Holds(e, j)' /\ r.at \notin Running
            BY <1>10, <1>12 DEF Holds, Holding, Running
        <3>2. \A f \in Execs : Holds(f, j)' => f = e
            BY <1>4, <1>12 DEF Holds
        <3>3. Taken(j)'
            BY <1>4, <1>8, <1>10, <1>12, <3>1, <3>2 DEF Taken
        <3> QED BY <2>1, <3>3
    <2>2. CASE k # j
        <3>1. \A f \in Execs : /\ Holds(f, k)' <=> Holds(f, k)
                               /\ Holds(f, k) => exec'[f] = exec[f]
            BY <1>10, <1>12, <2>2 DEF Holds
        <3> QED BY <1>12, <2>2, <3>1, Untouched DEF IInv, OneRun
    <2> QED BY <2>1, <2>2
<1>14. IInv'
    BY <1>11, <1>13 DEF IInv, OneRun
<1> QED BY <1>4, <1>8, <1>12, <1>14

LEMMA CloseKeeps ==
    ASSUME IInv, NEW e \in Execs, Close(e), NEW j, j = exec[e].job
    PROVE  /\ IInv'
           /\ j \in Jobs /\ OpenEntry(job[j].history, exec[e].id)
           /\ job[j].state # "executing" /\ job'[j].state = job[j].state
           /\ AllEnded(job'[j].history) /\ job'[j].nextID = job[j].nextID
           /\ \A k \in Jobs : k # j => job'[k] = job[k]
<1> DEFINE h == EndExecution(job[j].history, exec[e].id)
           q == [job[j] EXCEPT !.history = h]
<1>1. exec \in [Execs -> ExecType] /\ job \in [Jobs -> JobRecord]
    BY DEF IInv, Typed
<1>2. exec[e].at = "left" /\ UNCHANGED <<made, adding, registered>>
    BY DEF Close, At
<1>3. exec[e].at \in Holding /\ exec[e].at \notin Running
    BY <1>2 DEF Holding, Running
<1>4. /\ j \in Jobs /\ \A f \in Execs : Holds(f, j) => f = e
      /\ OpenEntry(job[j].history, exec[e].id)
      /\ job[j].state # "executing"
    BY <1>3, HolderIsAlone
<1>5. job' = [job EXCEPT ![j] = q] /\ exec' = [exec EXCEPT ![e] = Done]
    BY <1>1, <1>4 DEF Close
<1>6. job[j] \in JobRecord /\ exec[e].id \in Nat /\ job[j].history \in History
    BY <1>1, <1>4 DEF ExecType, JobRecord
<1>7. h \in History /\ AllEnded(h)
    BY <1>4, <1>6, EndExecutionEnds
<1> HIDE DEF h
<1>8. q \in JobRecord
    BY <1>6, <1>7 DEF JobRecord
<1>9. q.state = job[j].state /\ q.history = h /\ q.nextID = job[j].nextID
    BY <1>6 DEF JobRecord
<1>10. Done \in ExecType /\ Done.at = "done"
    BY DEF Done, Unused, ExecType, Steps
<1> HIDE DEF q
<1>11. Typed'
    BY <1>1, <1>2, <1>4, <1>5, <1>8, <1>10 DEF IInv, Typed
<1>12. job'[j] = q /\ exec'[e] = Done /\ (\A k \in Jobs : k # j => job'[k] = job[k])
       /\ \A f \in Execs : f # e => exec'[f] = exec[f]
    BY <1>1, <1>4, <1>5
<1>13. ASSUME NEW k \in Jobs PROVE (Quiet(k) \/ Taken(k))'
    <2>1. CASE k = j
        <3>1. \A f \in Execs : ~Holds(f, j)'
            BY <1>4, <1>10, <1>12 DEF Holds, Holding, Running
        <3>2. Quiet(j)'
            BY <1>4, <1>7, <1>9, <1>12, <3>1 DEF Quiet
        <3> QED BY <2>1, <3>2
    <2>2. CASE k # j
        <3>1. \A f \in Execs : /\ Holds(f, k)' <=> Holds(f, k)
                               /\ Holds(f, k) => exec'[f] = exec[f]
            BY <1>10, <1>12, <2>2 DEF Holds, Holding, Running
        <3> QED BY <1>12, <2>2, <3>1, Untouched DEF IInv, OneRun
    <2> QED BY <2>1, <2>2
<1>14. IInv'
    BY <1>11, <1>13 DEF IInv, OneRun
<1> QED BY <1>4, <1>7, <1>9, <1>12, <1>14

(* The command: the execution stays where it holds the lock and runs.      *)
LEMMA CommandKeeps ==
    ASSUME IInv, NEW e \in Execs,
           CommandStarts(e) \/ CommandFails(e) \/ CommandEnds(e) \/ Panics(e)
    PROVE  IInv' /\ job' = job
<1>1. exec \in [Execs -> ExecType]
    BY DEF IInv, Typed
<1>2. exec[e].at \in {"executing", "command"} /\ UNCHANGED <<made, adding, registered, job>>
    BY DEF CommandStarts, CommandFails, CommandEnds, Panics, Returns, At
<1>3. PICK s \in {"command", "returned"}, p \in BOOLEAN :
          exec' = [exec EXCEPT ![e].at = s, ![e].panics = p]
    <2>1. CASE CommandStarts(e)
        <3>1. exec' = [exec EXCEPT ![e].at = "command", ![e].panics = exec[e].panics]
            BY <1>1, <2>1 DEF CommandStarts, Go, ExecType
        <3>2. exec[e].panics \in BOOLEAN
            BY <1>1 DEF ExecType
        <3> QED BY <3>1, <3>2
    <2>2. CASE CommandFails(e) \/ CommandEnds(e) \/ Panics(e)
        BY <2>2 DEF CommandFails, CommandEnds, Panics, Returns
    <2> QED BY <2>1, <2>2
<1>4. exec' \in [Execs -> ExecType]
    <2>1. [exec[e] EXCEPT !.at = s, !.panics = p] \in ExecType
        BY <1>1 DEF ExecType, Steps
    <2> QED BY <1>1, <1>3, <2>1
<1>5. \A f \in Execs : /\ exec'[f].job = exec[f].job /\ exec'[f].id = exec[f].id
                       /\ f # e => exec'[f] = exec[f]
    BY <1>1, <1>3 DEF ExecType
<1>6. exec'[e].at \in Running /\ exec[e].at \in Running
    BY <1>1, <1>2, <1>3 DEF ExecType, Running
<1>7. Typed'
    BY <1>2, <1>4, <1>5 DEF IInv, Typed
<1>8. ASSUME NEW k \in Jobs PROVE (Quiet(k) \/ Taken(k))'
    <2>1. \A f \in Execs : /\ Holds(f, k)' <=> Holds(f, k)
                           /\ exec'[f].at \in Running <=> exec[f].at \in Running
        BY <1>5, <1>6 DEF Holds, Holding
    <2> QED BY <1>2, <1>5, <2>1, Untouched DEF IInv, OneRun
<1> QED BY <1>2, <1>7, <1>8 DEF IInv, OneRun

LEMMA WaitingKeeps ==
    ASSUME IInv, NEW e \in Execs, TriggerExecutes(e) \/ Skip(e)
    PROVE  IInv' /\ job' = job
<1>1. exec \in [Execs -> ExecType] /\ UNCHANGED <<made, adding, registered, job>>
    BY DEF IInv, Typed, TriggerExecutes, Skip
<1>2. CASE TriggerExecutes(e)
    <2> DEFINE r == [exec[e] EXCEPT !.at = "waiting"]
    <2>1. exec[e].at = "checked" /\ exec' = [exec EXCEPT ![e] = r]
        BY <1>2 DEF TriggerExecutes, At, Go
    <2>2. r \in ExecType /\ r.at = "waiting" /\ r.job = exec[e].job
        BY <1>1 DEF ExecType, Steps
    <2>3. exec[e].job \in Jobs
        BY <2>1 DEF IInv, Typed
    <2> HIDE DEF r
    <2> QED BY <1>1, <2>1, <2>2, <2>3, OutsideKeeps DEF Holding, Running
<1>3. CASE Skip(e)
    <2>1. exec[e].at = "waiting" /\ exec' = [exec EXCEPT ![e] = Done]
        BY <1>3 DEF Skip, At
    <2>2. Done \in ExecType /\ Done.at = "done"
        BY DEF Done, Unused, ExecType, Steps
    <2> QED BY <1>1, <2>1, <2>2, OutsideKeeps DEF Holding, Running
<1> QED BY <1>2, <1>3

(* One case per action.                                                    *)
LEMMA IInvNext == IInv /\ [Next]_vars => IInv'
<1> SUFFICES ASSUME IInv, [Next]_vars PROVE IInv'
    OBVIOUS
<1>1. CASE UNCHANGED vars
    <2>1. Typed'
        BY <1>1 DEF vars, IInv, Typed
    <2>2. OneRun'
        BY <1>1 DEF vars, IInv, OneRun, Quiet, Taken, Holds
    <2> QED BY <2>1, <2>2 DEF IInv
<1>2. ASSUME NEW e \in Execs, ExecuteStep(e) PROVE IInv'
    BY <1>2, BeginKeeps, LeaveKeeps, CloseKeeps, CommandKeeps, WaitingKeeps DEF ExecuteStep
<1> QED BY <1>1, <1>2, SchedulerStepKeeps, ControlStepKeeps DEF Next

(* The inductive invariant: each object has at most one execution that     *)
(* holds executionMu, and its state and history say just that.             *)
THEOREM Invariance == Spec => []IInv
BY InitIInv, IInvNext, PTL DEF Spec

-----------------------------------------------------------------------------
(* job.go: what Status and the API show of a job is true, whatever ticks,  *)
(* triggers, pauses, removals and panics coincide, for any number of them. *)
THEOREM StatusTruthful == Spec => []StatusIsTruthful
<1>1. IInv => StatusIsTruthful
    <2> SUFFICES ASSUME IInv, NEW j \in Jobs
                 PROVE  LET inside == {e \in Execs : exec[e].job = j /\ exec[e].at \in Running} IN
                        /\ (job[j].state = "executing") <=> (inside # {})
                        /\ \A e \in inside :
                              /\ job[j].current = exec[e].id
                              /\ Last(job[j].history) = [id |-> exec[e].id, ended |-> FALSE]
        BY DEF StatusIsTruthful
    <2> DEFINE inside == {e \in Execs : exec[e].job = j /\ exec[e].at \in Running}
    <2>1. \A e \in inside : Holds(e, j)
        BY DEF Holds, Holding
    <2>2. CASE Quiet(j)
        BY <2>1, <2>2 DEF Quiet
    <2>3. CASE Taken(j)
        <3>1. PICK e \in Execs :
                /\ Holds(e, j) /\ \A f \in Execs : Holds(f, j) => f = e
                /\ OpenEntry(job[j].history, exec[e].id)
                /\ job[j].nextID = exec[e].id + 1
                /\ (job[j].state = "executing") <=> (exec[e].at \in Running)
                /\ exec[e].at \in Running => job[j].current = exec[e].id
            BY <2>3 DEF Taken
        <3>2. \A f \in inside : f = e
            BY <2>1, <3>1
        <3>3. e \in inside <=> exec[e].at \in Running
            BY <3>1 DEF Holds
        <3>4. Last(job[j].history) = [id |-> exec[e].id, ended |-> FALSE]
            BY <3>1 DEF OpenEntry, Last
        <3> QED BY <3>1, <3>2, <3>3, <3>4
    <2> QED BY <2>2, <2>3 DEF IInv, OneRun
<1> QED BY <1>1, Invariance, PTL

-----------------------------------------------------------------------------
(* The refinement.  The state of AbstractJob that a state of Schedule      *)
(* stands for:                                                             *)
AState  == [j \in Jobs |-> job[j].state]
AOpen   == [j \in Jobs |-> OpenIDs(job[j].history)]
AOpened == [j \in Jobs |-> job[j].nextID - 1]

(* The refinement mapping, evaluated before and after a step.              *)
LEMMA Mapping ==
    /\ AOpen = [j \in Jobs |-> Unended(j)]
    /\ AOpen' = [j \in Jobs |-> Unended(j)']
BY DEF AOpen, OpenIDs, Unended

(* An abstract step in which one job's part changes.                       *)
LEMMA OneJobMoves ==
    ASSUME NEW j \in Jobs, \A k \in Jobs : k # j => job'[k] = job[k]
    PROVE  /\ AState' = [AState EXCEPT ![j] = job'[j].state]
           /\ AOpen' = [AOpen EXCEPT ![j] = OpenIDs(job'[j].history)]
           /\ AOpened' = [AOpened EXCEPT ![j] = job'[j].nextID - 1]
BY DEF AState, AOpen, AOpened

(* The refinement: initial states map to initial states ...                *)
LEMMA InitMaps == Init => Abstract!Init
<1> SUFFICES ASSUME Init PROVE Abstract!Init
    OBVIOUS
<1>1. \A j \in Jobs : job[j].state = "idle" /\ job[j].nextID - 1 = 0 /\ job[j].history = <<>>
    BY DEF Init, NewJob
<1>2. \A j \in Jobs : Unended(j) = {}
    BY <1>1 DEF Unended, ToSet
<1> QED BY <1>1, <1>2 DEF Abstract!Init

(* ... and every step to a step of one job, or to a stutter.               *)
LEMMA NextMaps == IInv /\ [Next]_vars => [Abstract!Next]_(Abstract!vars)
<1> SUFFICES ASSUME IInv, [Next]_vars PROVE Abstract!Next \/ UNCHANGED <<AState, AOpen, AOpened>>
    BY Mapping DEF Abstract!vars, AState, AOpened
<1>1. job \in [Jobs -> JobRecord] /\ registered \in Jobs \cup {0}
    BY DEF IInv, Typed
<1>2. \A j \in Jobs : job[j].history \in History /\ job[j].nextID \in Nat \ {0}
    BY <1>1 DEF JobRecord
<1>3. IInv'
    BY IInvNext
<1>4. \A j \in Jobs : job'[j].history \in History
    BY <1>3 DEF IInv, Typed, JobRecord
<1>5. ASSUME NEW e \in Execs, Begin(e) PROVE Abstract!Next
    <2>1. PICK j : j = exec[e].job
        OBVIOUS
    <2>2. /\ j \in Jobs /\ Quiet(j) /\ job[j].state = "idle"
          /\ job'[j].state = "executing" /\ job'[j].nextID = job[j].nextID + 1
          /\ OpenEntry(job'[j].history, job[j].nextID)
          /\ \A k \in Jobs : k # j => job'[k] = job[k]
        BY <1>5, <2>1, BeginKeeps
    <2>3. AOpen[j] = {} /\ OpenIDs(job'[j].history) = {job[j].nextID}
        BY <1>2, <1>4, <2>2, NothingOpen, OneOpen DEF AOpen, Quiet
    <2>4. AOpened[j] + 1 = job[j].nextID /\ AOpened[j] + 1 = job'[j].nextID - 1
        BY <1>2, <2>2 DEF AOpened
    <2>5. /\ AState' = [AState EXCEPT ![j] = "executing"]
          /\ AOpen' = [AOpen EXCEPT ![j] = {AOpened[j] + 1}]
          /\ AOpened' = [AOpened EXCEPT ![j] = AOpened[j] + 1]
        BY <2>2, <2>3, <2>4, OneJobMoves
    <2>6. AState[j] = "idle"
        BY <2>2 DEF AState
    <2>7. Abstract!Begin(j)
        BY <2>3, <2>5, <2>6, Mapping DEF Abstract!Begin, Abstract!To, AState, AOpened
    <2> QED BY <2>2, <2>7 DEF Abstract!Next
<1>6. ASSUME NEW e \in Execs, Leave(e) PROVE Abstract!Next
    <2>1. PICK j : j = exec[e].job
        OBVIOUS
    <2>2. /\ j \in Jobs /\ job[j].state = "executing" /\ job'[j].state = "idle"
          /\ job'[j].history = job[j].history /\ job'[j].nextID = job[j].nextID
          /\ \A k \in Jobs : k # j => job'[k] = job[k]
        BY <1>6, <2>1, LeaveKeeps
    <2>3. AState' = [AState EXCEPT ![j] = "idle"] /\ AOpen' = AOpen /\ AOpened' = AOpened
        BY <2>2 DEF AState, AOpen, AOpened
    <2>4. AState[j] = "executing"
        BY <2>2 DEF AState
    <2>5. Abstract!Leave(j)
        BY <2>3, <2>4, Mapping DEF Abstract!Leave, Abstract!To, AState, AOpened
    <2> QED BY <2>2, <2>5 DEF Abstract!Next
<1>7. ASSUME NEW e \in Execs, Close(e) PROVE Abstract!Next
    <2>1. PICK j : j = exec[e].job
        OBVIOUS
    <2>2. /\ j \in Jobs /\ OpenEntry(job[j].history, exec[e].id)
          /\ job[j].state # "executing" /\ job'[j].state = job[j].state
          /\ AllEnded(job'[j].history) /\ job'[j].nextID = job[j].nextID
          /\ \A k \in Jobs : k # j => job'[k] = job[k]
        BY <1>7, <2>1, CloseKeeps
    <2>3. AOpen[j] # {} /\ OpenIDs(job'[j].history) = {}
        BY <1>2, <1>4, <2>2, NothingOpen, OneOpen DEF AOpen
    <2>4. AState' = AState /\ AOpened' = AOpened /\ AOpen' = [AOpen EXCEPT ![j] = {}]
        BY <2>2, <2>3 DEF AState, AOpen, AOpened
    <2>5. AState[j] # "executing"
        BY <2>2 DEF AState
    <2>6. Abstract!Close(j)
        BY <2>3, <2>4, <2>5, Mapping DEF Abstract!Close, AState, AOpened
    <2> QED BY <2>2, <2>6 DEF Abstract!Next
<1>8. ASSUME Pause \/ Resume PROVE Abstract!Next
    <2>1. PICK j \in Jobs : j = registered
        BY <1>1, <1>8 DEF Pause, Resume
    <2>2. PICK s \in {"idle", "paused"}, t \in {"idle", "paused"} :
              s # t /\ job[j].state = s /\ job' = [job EXCEPT ![j].state = t]
        BY <1>8, <2>1 DEF Pause, Resume
    <2>3. /\ \A k \in Jobs : k # j => job'[k] = job[k]
          /\ job'[j].state = t /\ job'[j].history = job[j].history /\ job'[j].nextID = job[j].nextID
        BY <1>1, <2>2 DEF JobRecord
    <2>4. AState' = [AState EXCEPT ![j] = t] /\ AOpen' = AOpen /\ AOpened' = AOpened
        BY <2>3 DEF AState, AOpen, AOpened
    <2>5. AState[j] = s
        BY <2>2 DEF AState
    <2>6. Abstract!Pause(j) \/ Abstract!Resume(j)
        BY <2>2, <2>4, <2>5, Mapping DEF Abstract!Pause, Abstract!Resume, Abstract!To, AState, AOpened
    <2> QED BY <2>6 DEF Abstract!Next
<1>9. ASSUME \A j \in Jobs : /\ job'[j].state = job[j].state /\ job'[j].history = job[j].history
                              /\ job'[j].nextID = job[j].nextID
      PROVE  UNCHANGED <<AState, AOpen, AOpened>>
    BY <1>9 DEF AState, AOpen, AOpened
<1>10. ASSUME SchedulerStep PROVE UNCHANGED <<AState, AOpen, AOpened>>
    <2>1. CASE UNCHANGED job
        BY <1>9, <2>1
    <2>2. CASE AddJobEnd
        <3>1. PICK b : job' = [job EXCEPT ![adding].base = b]
            BY <2>2 DEF AddJobEnd
        <3> QED BY <1>1, <1>9, <3>1 DEF JobRecord
    <2>3. CASE Start
        BY <1>1, <1>9, <2>3 DEF Start, JobRecord
    <2> QED BY <1>10, <2>1, <2>2, <2>3 DEF SchedulerStep, AddJob, RemoveJob, UnregisterProcess, Stop
<1>11. ASSUME job' = job PROVE UNCHANGED <<AState, AOpen, AOpened>>
    BY <1>9, <1>11
<1>12. CASE UNCHANGED vars
    BY <1>11, <1>12 DEF vars
<1>13. ASSUME ControlStep PROVE Abstract!Next \/ UNCHANGED <<AState, AOpen, AOpened>>
    BY <1>8, <1>11, <1>13 DEF ControlStep, Tick, Trigger, ClientLeaves
<1>14. ASSUME NEW e \in Execs, ExecuteStep(e)
       PROVE  Abstract!Next \/ UNCHANGED <<AState, AOpen, AOpened>>
    BY <1>5, <1>6, <1>7, <1>11, <1>14, CommandKeeps, WaitingKeeps DEF ExecuteStep
<1> QED BY <1>10, <1>12, <1>13, <1>14 DEF Next

(* internal/schedule: every job object, removed ones included, keeps the   *)
(* promise of AbstractJob: one run at a time along the documented edges,   *)
(* each with an entry that is still in the ring when its result arrives.   *)
THEOREM Refinement == Spec => KeepsPromise
BY InitMaps, NextMaps, Invariance, PTL DEF Spec, KeepsPromise, Abstract!Spec

=============================================================================
