-------------------------- MODULE ImportRunsProofs --------------------------
(* Proofs about ImportRuns.  The inductive invariant says what a task and  *)
(* a request may still rely on of what they loaded earlier: the state of a *)
(* run only moves on, and each run has one task.                           *)
EXTENDS ImportRuns, TLAPS

(* Nothing has been written for a run in one of these.                     *)
NotStartedYet == {"absent", "validating", "validated", "confirmed"}

(* A request works on a run; those a cleanup selected had been validated;  *)
(* a probe gives back the lock it took.                                    *)
RequestOK(c) ==
    /\ request[c].pc \notin {"idle", "deleteExpired", "createRun"} => request[c].run \in Runs
    /\ request[c].pc = "claimConfirm" => request[c].status \in {"validated", "confirmed"}
    /\ request[c].pc = "releaseProbe" => lock = c
    /\ \A r \in request[c].expired : run[r].status \notin {"absent", "validating"}

(* A task finds its run as it was scheduled, or already ended or deleted;  *)
(* an execution that goes on to complete has no row left.                  *)
TaskOK(t) ==
    /\ task[t].pc = "validate" => run[task[t].run].status = "validating"
    /\ task[t].pc \notin {"idle", "validate"} => run[task[t].run].status \notin NotStartedYet
    /\ Holding(t) => lock = t
    /\ task[t].pc = "finalize" /\ ~task[t].cancelled => left[task[t].run] = 0

OneTaskPerRun ==
    \A t, u \in Tasks : task[t].run = task[u].run /\ task[t].run # NoRun => t = u

(* A chunk written late was the last one of its run.                       *)
RunOK(r) ==
    /\ run[r].status \in NotStartedYet => written[r] = 0 /\ late[r] = 0
    /\ run[r].status \in {"completed", "deleted"} => left[r] = 0
    /\ run[r].error = "notStarted" =>
         /\ run[r].status \in {"cancelled", "deleted"}
         /\ written[r] = 0
         /\ \A t \in Tasks : task[t].run # r
    /\ late[r] = 0 \/ late[r] = 1
    /\ late[r] = 1 =>
         /\ run[r].cancel
         /\ \A t \in Tasks :
              task[t].run = r => task[t].pc \in {"check", "finalize", "failed", "release"}

IInv ==
    /\ TypeOK
    /\ \A c \in Clients : RequestOK(c)
    /\ \A t \in Tasks : TaskOK(t)
    /\ OneTaskPerRun
    /\ \A r \in Runs : RunOK(r)

-----------------------------------------------------------------------------
(* What the helpers of the actions do.                                     *)

OtherRequests(c) == \A d \in Clients \ {c} : request'[d] = request[d]

OtherTasks(t) == \A u \in Tasks \ {t} : task'[u] = task[u]

OtherRuns(r) == \A q \in Runs \ {r} : run'[q] = run[q]

LEMMA ReplyEffect ==
  ASSUME TypeOK, NEW c \in Clients, Reply(c)
  PROVE  /\ request' \in [Clients -> Request] /\ OtherRequests(c)
         /\ request'[c].pc = "idle" /\ request'[c].expired = {}
  BY DEF TypeOK, Reply, IdleRequest, Request, OtherRequests, Statuses

LEMMA ContinueEffect ==
  ASSUME TypeOK, NEW c \in Clients,
         NEW place \in {"createRun", "releaseProbe", "claimRun", "cancelRunning"},
         Continue(c, place)
  PROVE  /\ request' \in [Clients -> Request] /\ OtherRequests(c)
         /\ request'[c].pc = place
         /\ request'[c].run = request[c].run /\ request'[c].expired = request[c].expired
<1>1. request[c] \in Request
  BY DEF TypeOK
<1> QED  BY <1>1 DEF TypeOK, Continue, Request, OtherRequests

LEMMA FinishEffect ==
  ASSUME TypeOK, NEW t \in Tasks, Finish(t)
  PROVE  /\ task' \in [Tasks -> Task] /\ OtherTasks(t)
         /\ task'[t].pc = "idle" /\ task'[t].run = NoRun
  BY DEF TypeOK, Finish, IdleTask, Task, OtherTasks

LEMMA GotoEffect ==
  ASSUME TypeOK, NEW t \in Tasks,
         NEW place \in {"refused", "load", "check", "chunk", "finalize", "failed", "release"},
         Goto(t, place)
  PROVE  /\ task' \in [Tasks -> Task] /\ OtherTasks(t)
         /\ task'[t].pc = place /\ task'[t].run = task[t].run
         /\ task'[t].cancelled = task[t].cancelled
<1>1. task[t] \in Task
  BY DEF TypeOK
<1> QED  BY <1>1 DEF TypeOK, Goto, Task, OtherTasks

LEMMA ScheduleEffect ==
  ASSUME TypeOK, NEW r \in Runs, NEW place \in {"validate", "start"}, Schedule(r, place)
  PROVE  /\ task' \in [Tasks -> Task]
         /\ \E t \in Tasks : /\ OtherTasks(t) /\ task[t].pc = "idle"
                             /\ task'[t].pc = place /\ task'[t].run = r
  BY DEF TypeOK, Schedule, Task, OtherTasks

(* A verdict only replaces "running".                                      *)
LEMMA EndRunningEffect ==
  ASSUME TypeOK, NEW r \in Runs, NEW status \in Ended, NEW error \in Errors,
         EndRunning(r, status, error)
  PROVE  /\ run' \in [Runs -> RunRow] /\ OtherRuns(r)
         /\ \/ run'[r] = run[r]
            \/ /\ run[r].status = "running" /\ run'[r].status = status
               /\ run'[r].error = error /\ run'[r].cancel = run[r].cancel
<1>1. run[r] \in RunRow /\ status \in Statuses
  BY DEF TypeOK, Ended, Statuses
<1> DEFINE row == [run[r] EXCEPT !.status = status, !.error = error, !.old = FALSE]
<1>2. CASE run[r].status = "running"
  <2>1. /\ row \in RunRow /\ row.status = status /\ row.error = error
        /\ row.cancel = run[r].cancel
    BY <1>1 DEF RunRow
  <2>2. run' = [run EXCEPT ![r] = row]
    BY <1>2 DEF EndRunning
  <2> HIDE DEF row
  <2> QED  BY <1>2, <2>1, <2>2 DEF TypeOK, OtherRuns
<1>3. CASE run[r].status # "running"
  BY <1>3 DEF EndRunning, TypeOK, OtherRuns
<1> QED  BY <1>2, <1>3

LEMMA StrandEffect ==
  ASSUME TypeOK, NEW r \in Runs, Strand(r)
  PROVE  stranded' \subseteq Runs
  BY DEF TypeOK, Strand

(* A task and a request past their first step have a run.                  *)
LEMMA ActorsHaveRuns ==
  ASSUME IInv
  PROVE  /\ \A t \in Tasks : task[t].pc # "idle" => task[t].run \in Runs
         /\ \A c \in Clients : request[c].pc \notin {"idle", "deleteExpired", "createRun"}
              => request[c].run \in Runs
         /\ \A c \in Clients : request[c].run \in Runs \cup {NoRun} /\ request[c].expired \subseteq Runs
<1>1. ASSUME NEW t \in Tasks, task[t].pc # "idle" PROVE task[t].run \in Runs
  BY <1>1 DEF IInv, TypeOK, Task
<1>2. ASSUME NEW c \in Clients, request[c].pc \notin {"idle", "deleteExpired", "createRun"}
      PROVE  request[c].run \in Runs
  BY <1>2 DEF IInv, RequestOK
<1>3. ASSUME NEW c \in Clients
      PROVE  request[c].run \in Runs \cup {NoRun} /\ request[c].expired \subseteq Runs
  BY DEF IInv, TypeOK, Request
<1> QED  BY <1>1, <1>2, <1>3

-----------------------------------------------------------------------------
(* Steps that leave runs and rows alone.                                   *)

rows == <<run, left, written, late>>

(* One request moves.                                                      *)
LEMMA RequestMoves ==
  ASSUME IInv, NEW c \in Clients, UNCHANGED <<rows, task, crashes, stranded>>,
         request' \in [Clients -> Request], OtherRequests(c), RequestOK(c)',
         tokens' \in Nat,
         \/ UNCHANGED lock
         \/ lock = Nobody /\ lock' = c
         \/ lock = c /\ lock' = Nobody
  PROVE  IInv'
<1>1. TypeOK'
  BY DEF IInv, TypeOK, rows
<1>2. \A d \in Clients : RequestOK(d)'
  BY ActorsAssumption DEF IInv, RequestOK, OtherRequests, rows
<1>3. \A t \in Tasks : TaskOK(t)'
  BY ActorsAssumption DEF IInv, TaskOK, Holding, rows
<1>4. OneTaskPerRun' /\ \A r \in Runs : RunOK(r)'
  BY DEF IInv, OneTaskPerRun, RunOK, rows
<1> QED  BY <1>1, <1>2, <1>3, <1>4 DEF IInv

(* One task moves on with its run.                                         *)
LEMMA TaskMoves ==
  ASSUME IInv, NEW t \in Tasks, UNCHANGED <<rows, tokens, request, crashes>>,
         stranded' \subseteq Runs, task' \in [Tasks -> Task], OtherTasks(t), TaskOK(t)',
         \/ task'[t].run = task[t].run /\ task'[t].pc # "idle" /\ task[t].pc # "idle"
         \/ task'[t].run = NoRun /\ task'[t].pc = "idle",
         task'[t].pc \in {"check", "finalize", "failed", "release"}
           \/ \A r \in Runs : task'[t].run = r => late[r] = 0,
         \/ UNCHANGED lock
         \/ lock = Nobody /\ lock' = t
         \/ lock = t /\ lock' = Nobody
  PROVE  IInv'
<1>1. TypeOK'
  BY DEF IInv, TypeOK, OtherTasks, rows
<1>2. \A d \in Clients : RequestOK(d)'
  BY ActorsAssumption DEF IInv, RequestOK, rows
<1>3. \A u \in Tasks : TaskOK(u)'
  BY ActorsAssumption DEF IInv, TaskOK, Holding, OtherTasks, rows
<1>4. OneTaskPerRun'
  BY DEF IInv, OneTaskPerRun, OtherTasks
<1>5. ASSUME NEW r \in Runs PROVE RunOK(r)'
  <2>1. \A u \in Tasks : task'[u].run = r =>
          task[u].run = r /\ (task'[u] = task[u] \/ u = t)
    BY ActorsAssumption DEF OtherTasks
  <2> QED  BY <2>1 DEF IInv, RunOK, OtherTasks, rows
<1> QED  BY <1>1, <1>2, <1>3, <1>4, <1>5 DEF IInv

-----------------------------------------------------------------------------
(* Requests.                                                               *)

LEMMA UploadKeeps ==
  ASSUME IInv, NEW c \in Clients, Upload(c) PROVE IInv'
<1>1. /\ request' \in [Clients -> Request] /\ OtherRequests(c)
      /\ request'[c].pc \in {"createRun", "deleteExpired"} /\ request'[c].expired = Expired
  BY DEF Upload, IInv, TypeOK, IdleRequest, Request, Statuses, Expired, OtherRequests
<1>2. RequestOK(c)'
  BY <1>1 DEF Upload, RequestOK, Expired
<1> QED  BY <1>1, <1>2, RequestMoves DEF Upload, rows, IInv, TypeOK

LEMMA DeleteExpiredKeeps ==
  ASSUME IInv, NEW c \in Clients, DeleteExpired(c) PROVE IInv'
<1>1. /\ request' \in [Clients -> Request] /\ OtherRequests(c)
      /\ request'[c].pc = "createRun" /\ request'[c].expired = request[c].expired
  BY ContinueEffect DEF DeleteExpired, IInv
<1>2. PICK gone \in {{}, request[c].expired} :
        /\ run' = [r \in Runs |-> IF r \in gone THEN [run[r] EXCEPT !.status = "deleted"]
                                                ELSE run[r]]
        /\ left' = [r \in Runs |-> IF r \in gone THEN 0 ELSE left[r]]
  BY DEF DeleteExpired
<1>3. \A r \in gone : run[r].status \notin {"absent", "validating"}
  BY <1>2 DEF IInv, RequestOK
<1>4. \A r \in Runs : run[r] \in RunRow
  BY DEF IInv, TypeOK
<1>5. \A r \in Runs :
        /\ r \notin gone => run'[r] = run[r] /\ left'[r] = left[r]
        /\ r \in gone => /\ run'[r].status = "deleted" /\ left'[r] = 0
                         /\ run'[r].error = run[r].error /\ run'[r].cancel = run[r].cancel
        /\ run'[r] \in RunRow
  BY <1>2, <1>4 DEF RunRow, Statuses
<1>6. TypeOK'
  BY <1>1, <1>2, <1>5 DEF DeleteExpired, IInv, TypeOK
<1>7. \A d \in Clients : RequestOK(d)'
  BY <1>1, <1>5, ActorsHaveRuns DEF DeleteExpired, IInv, RequestOK, OtherRequests
<1>8. ASSUME NEW t \in Tasks PROVE TaskOK(t)'
  <2>1. TaskOK(t) /\ UNCHANGED <<task, lock>>
    BY DEF DeleteExpired, IInv
  <2>2. CASE task[t].pc = "idle"
    BY <2>1, <2>2 DEF TaskOK, Holding
  <2>3. CASE task[t].run \in gone
    BY <1>3, <1>5, <2>1, <2>3, ActorsHaveRuns DEF TaskOK, Holding, NotStartedYet
  <2>4. CASE task[t].run \in Runs \ gone
    BY <1>5, <2>1, <2>4 DEF TaskOK, Holding
  <2> QED  BY <2>2, <2>3, <2>4, ActorsHaveRuns
<1>9. OneTaskPerRun'
  BY DEF DeleteExpired, IInv, OneTaskPerRun
<1>10. \A r \in Runs : RunOK(r)'
  BY <1>3, <1>5 DEF DeleteExpired, IInv, RunOK, NotStartedYet
<1> QED  BY <1>6, <1>7, <1>8, <1>9, <1>10 DEF IInv

(* A run that gets a task had none: CreateRun, ClaimRun.                   *)
LEMMA RunIsScheduled ==
  ASSUME IInv, NEW c \in Clients, NEW r \in Runs, NEW place \in {"validate", "start"},
         Schedule(r, place), Reply(c), run' \in [Runs -> RunRow], OtherRuns(r),
         run'[r].error = run[r].error, run'[r].cancel = run[r].cancel,
         UNCHANGED <<left, tokens, lock, written, late, crashes, stranded>>,
         \/ run[r].status = "absent" /\ place = "validate" /\ run'[r].status = "validating"
         \/ run[r].status = "confirmed" /\ place = "start" /\ run'[r].status = "running"
  PROVE  IInv'
<1>1. PICK t \in Tasks : /\ OtherTasks(t) /\ task[t].pc = "idle"
                         /\ task'[t].pc = place /\ task'[t].run = r
  BY ScheduleEffect DEF IInv
<1>2. \A u \in Tasks : task[u].run # r
  <2>1. ASSUME NEW u \in Tasks, task[u].run = r PROVE FALSE
    BY <2>1, ActorsAssumption DEF IInv, TypeOK, TaskOK, NotStartedYet
  <2> QED  BY <2>1
<1>3. TypeOK'
  BY <1>1, ReplyEffect, ScheduleEffect, ActorsAssumption DEF IInv, TypeOK, OtherTasks
<1>4. \A d \in Clients : RequestOK(d)'
  BY ReplyEffect, ActorsHaveRuns DEF IInv, RequestOK, OtherRequests, OtherRuns
<1>5. \A u \in Tasks : TaskOK(u)'
  BY <1>1, <1>2, ActorsHaveRuns DEF IInv, TaskOK, Holding, OtherTasks, OtherRuns, NotStartedYet
<1>6. OneTaskPerRun'
  BY <1>1, <1>2 DEF IInv, OneTaskPerRun, OtherTasks
<1>7. \A q \in Runs : RunOK(q)'
  BY <1>1, <1>2 DEF IInv, RunOK, OtherTasks, OtherRuns, NotStartedYet
<1> QED  BY <1>3, <1>4, <1>5, <1>6, <1>7 DEF IInv

LEMMA CreateRunKeeps ==
  ASSUME IInv, NEW c \in Clients, CreateRun(c) PROVE IInv'
<1>1. PICK r \in Runs : /\ run[r].status = "absent"
                        /\ run' = [run EXCEPT ![r].status = "validating"]
                        /\ Schedule(r, "validate")
  BY DEF CreateRun
<1>2. run[r] \in RunRow
  BY DEF IInv, TypeOK
<1>3. /\ run' \in [Runs -> RunRow] /\ OtherRuns(r) /\ run'[r].status = "validating"
      /\ run'[r].error = run[r].error /\ run'[r].cancel = run[r].cancel
  BY <1>1, <1>2 DEF IInv, TypeOK, RunRow, Statuses, OtherRuns
<1> QED  BY <1>1, <1>3, RunIsScheduled DEF CreateRun

LEMMA ConfirmKeeps ==
  ASSUME IInv, NEW c \in Clients, NEW r \in Runs, Confirm(c, r) PROVE IInv'
<1>1. tokens' \in Nat /\ tokens + 1 \in Nat
  BY DEF Confirm, IInv, TypeOK
<1> DEFINE q == [IdleRequest EXCEPT !.pc = "claimConfirm", !.run = r,
                                    !.status = run[r].status, !.token = tokens + 1]
<1>2. /\ q \in Request /\ q.pc = "claimConfirm" /\ q.run = r
      /\ q.status \in {"validated", "confirmed"} /\ q.expired = {}
  BY <1>1 DEF Confirm, IdleRequest, Request, Statuses
<1> HIDE DEF q
<1>3. request' = [request EXCEPT ![c] = q]
  BY DEF Confirm, q
<1>4. request' \in [Clients -> Request] /\ OtherRequests(c) /\ request'[c] = q
  BY <1>2, <1>3 DEF IInv, TypeOK, OtherRequests
<1>5. RequestOK(c)'
  BY <1>2, <1>4 DEF RequestOK
<1> QED  BY <1>1, <1>4, <1>5, RequestMoves DEF Confirm, rows

LEMMA ExecuteKeeps ==
  ASSUME IInv, NEW c \in Clients, NEW r \in Runs, Execute(c, r) PROVE IInv'
<1>1. run[r] \in RunRow
  BY DEF IInv, TypeOK
<1>2. /\ request' \in [Clients -> Request] /\ OtherRequests(c)
      /\ request'[c].pc = "probe" /\ request'[c].run = r /\ request'[c].expired = {}
  BY <1>1 DEF Execute, IInv, TypeOK, IdleRequest, Request, Statuses, RunRow, OtherRequests
<1>3. RequestOK(c)'
  BY <1>2 DEF RequestOK
<1> QED  BY <1>2, <1>3, RequestMoves DEF Execute, rows, IInv, TypeOK

LEMMA CancelKeeps ==
  ASSUME IInv, NEW c \in Clients, NEW r \in Runs, Cancel(c, r) PROVE IInv'
<1>1. /\ request' \in [Clients -> Request] /\ OtherRequests(c)
      /\ request'[c].pc = "claimCancel" /\ request'[c].run = r /\ request'[c].expired = {}
  BY DEF Cancel, IInv, TypeOK, IdleRequest, Request, Statuses, OtherRequests
<1>2. RequestOK(c)'
  BY <1>1 DEF RequestOK
<1> QED  BY <1>1, <1>2, RequestMoves DEF Cancel, rows, IInv, TypeOK

LEMMA ProbeKeeps ==
  ASSUME IInv, NEW c \in Clients, Probe(c) \/ ReleaseProbe(c) PROVE IInv'
<1>1. CASE Reply(c) /\ Probe(c)
  <2>1. RequestOK(c)'
    BY <1>1, ReplyEffect DEF IInv, RequestOK
  <2> QED  BY <1>1, <2>1, ReplyEffect, RequestMoves DEF Probe, rows, IInv, TypeOK
<1>2. CASE Probe(c) /\ lock = Nobody
  <2>1. Continue(c, "releaseProbe") /\ lock' = c
    BY <1>2 DEF Probe
  <2>2. RequestOK(c)'
    BY <1>2, <2>1, ContinueEffect DEF Probe, IInv, RequestOK
  <2> QED  BY <1>2, <2>1, <2>2, ContinueEffect, RequestMoves DEF Probe, rows, IInv, TypeOK
<1>3. CASE ReleaseProbe(c)
  <2>1. RequestOK(c)' /\ lock = c
    BY <1>3, ContinueEffect DEF ReleaseProbe, IInv, RequestOK
  <2> QED  BY <1>3, <2>1, ContinueEffect, RequestMoves DEF ReleaseProbe, rows, IInv, TypeOK
<1> QED  BY <1>1, <1>2, <1>3 DEF Probe

(* A run that did not start, or only its cancel flag, changes and the      *)
(* request answers or goes on: ClaimRun, ClaimConfirm, ClaimCancel,        *)
(* CancelRunning.                                                          *)
LEMMA RunIsUpdated ==
  ASSUME IInv, NEW c \in Clients, NEW r \in Runs,
         request' \in [Clients -> Request], OtherRequests(c), RequestOK(c)',
         run' \in [Runs -> RunRow], OtherRuns(r),
         UNCHANGED <<left, tokens, lock, task, written, late, crashes>>,
         stranded' \subseteq Runs,
         run[r].cancel => run'[r].cancel,
         \/ /\ run[r].status \in {"validated", "confirmed"}
            /\ \/ run'[r].status \in {"confirmed", "running"} /\ run'[r].error = run[r].error
               \/ run'[r].status = "cancelled"
         \/ run'[r].status = run[r].status /\ run'[r].error = run[r].error
  PROVE  IInv'
<1>1. run[r].status \in {"validated", "confirmed"} => \A u \in Tasks : task[u].run # r
  BY ActorsAssumption DEF IInv, TypeOK, TaskOK, NotStartedYet
<1>2. TypeOK'
  BY DEF IInv, TypeOK
<1>3. \A d \in Clients : RequestOK(d)'
  BY ActorsHaveRuns DEF IInv, RequestOK, OtherRequests, OtherRuns
<1>4. \A u \in Tasks : TaskOK(u)'
  BY <1>1, ActorsHaveRuns DEF IInv, TaskOK, Holding, OtherRuns
<1>5. OneTaskPerRun'
  BY DEF IInv, OneTaskPerRun
<1>6. \A q \in Runs : RunOK(q)'
  BY <1>1 DEF IInv, RunOK, OtherRuns, NotStartedYet
<1> QED  BY <1>2, <1>3, <1>4, <1>5, <1>6 DEF IInv

LEMMA ClaimRunKeeps ==
  ASSUME IInv, NEW c \in Clients, ClaimRun(c) PROVE IInv'
<1> DEFINE r == request[c].run
<1>1. r \in Runs /\ run[r] \in RunRow
  BY ActorsHaveRuns DEF ClaimRun, IInv, TypeOK
<1>2. CASE run[r].status = "confirmed" /\ run[r].token = request[c].token
  <2>1. run' = [run EXCEPT ![r].status = "running"]
    BY <1>2 DEF ClaimRun
  <2>2. /\ run' \in [Runs -> RunRow] /\ OtherRuns(r) /\ run'[r].status = "running"
        /\ run'[r].error = run[r].error /\ run'[r].cancel = run[r].cancel
    BY <1>1, <2>1 DEF IInv, TypeOK, RunRow, Statuses, OtherRuns
  <2>3. CASE Schedule(r, "start") /\ UNCHANGED stranded
    BY <1>1, <1>2, <2>2, <2>3, RunIsScheduled DEF ClaimRun
  <2>4. CASE UNCHANGED task /\ Strand(r)
    <3>1. RequestOK(c)' /\ Reply(c) /\ stranded' \subseteq Runs
      BY <1>1, <2>4, ReplyEffect, StrandEffect DEF ClaimRun, IInv, RequestOK
    <3>2. UNCHANGED <<left, tokens, lock, task, written, late, crashes>>
      BY <2>4 DEF ClaimRun
    <3> QED  BY <1>1, <1>2, <2>2, <3>1, <3>2, ReplyEffect, RunIsUpdated DEF IInv
  <2> QED  BY <1>2, <2>3, <2>4 DEF ClaimRun
<1>3. CASE ~(run[r].status = "confirmed" /\ run[r].token = request[c].token)
  <2>1. RequestOK(c)' /\ UNCHANGED <<rows, task, crashes, stranded, lock, tokens>> /\ Reply(c)
    BY <1>3, ReplyEffect DEF ClaimRun, IInv, RequestOK, rows
  <2> QED  BY <2>1, ReplyEffect, RequestMoves DEF IInv, TypeOK
<1> QED  BY <1>2, <1>3

LEMMA ClaimConfirmKeeps ==
  ASSUME IInv, NEW c \in Clients, ClaimConfirm(c) PROVE IInv'
<1> DEFINE r == request[c].run
<1>1. /\ r \in Runs /\ run[r] \in RunRow
      /\ request[c].status \in {"validated", "confirmed"} /\ request[c].token \in Nat
  BY ActorsHaveRuns DEF ClaimConfirm, IInv, TypeOK, RequestOK, Request
<1>2. Reply(c) /\ RequestOK(c)'
  BY ReplyEffect DEF ClaimConfirm, IInv, RequestOK
<1>3. /\ run' \in [Runs -> RunRow] /\ OtherRuns(r) /\ run'[r].cancel = run[r].cancel
      /\ run'[r].error = run[r].error
      /\ \/ run'[r].status = "confirmed" /\ run[r].status \in {"validated", "confirmed"}
         \/ run'[r].status = run[r].status
  <2>1. CASE run[r].status = request[c].status
    <3>1. run' = [run EXCEPT ![r] = [run[r] EXCEPT !.status = "confirmed",
                                                   !.token = request[c].token]]
      BY <2>1, <1>1 DEF ClaimConfirm, IInv, TypeOK
    <3> DEFINE row == [run[r] EXCEPT !.status = "confirmed", !.token = request[c].token]
    <3>2. /\ row \in RunRow /\ row.status = "confirmed"
          /\ row.cancel = run[r].cancel /\ row.error = run[r].error
      BY <1>1 DEF RunRow, Statuses
    <3> HIDE DEF row
    <3>3. run' = [run EXCEPT ![r] = row]
      BY <3>1 DEF row
    <3> QED  BY <1>1, <2>1, <3>2, <3>3 DEF IInv, TypeOK, OtherRuns
  <2>2. CASE run[r].status # request[c].status
    BY <2>2 DEF ClaimConfirm, IInv, TypeOK, OtherRuns
  <2> QED  BY <2>1, <2>2
<1> QED  BY <1>1, <1>2, <1>3, ReplyEffect, RunIsUpdated DEF ClaimConfirm, IInv, TypeOK

LEMMA ClaimCancelKeeps ==
  ASSUME IInv, NEW c \in Clients, ClaimCancel(c) PROVE IInv'
<1> DEFINE r == request[c].run
<1>1. r \in Runs /\ run[r] \in RunRow
  BY ActorsHaveRuns DEF ClaimCancel, IInv, TypeOK
<1>2. CASE run[r].status \in {"validated", "confirmed"}
  <2>1. Reply(c) /\ RequestOK(c)' /\ run' = [run EXCEPT ![r] = NotStarted(run[r])]
    BY <1>2, ReplyEffect DEF ClaimCancel, IInv, RequestOK
  <2>2. /\ NotStarted(run[r]) \in RunRow /\ NotStarted(run[r]).status = "cancelled"
        /\ NotStarted(run[r]).cancel
    BY <1>1 DEF NotStarted, RunRow, Statuses, Errors
  <2>3. /\ run' \in [Runs -> RunRow] /\ OtherRuns(r)
        /\ run'[r].status = "cancelled" /\ run'[r].cancel
    BY <1>1, <2>1, <2>2 DEF IInv, TypeOK, OtherRuns
  <2> QED  BY <1>1, <1>2, <2>1, <2>3, ReplyEffect, RunIsUpdated DEF ClaimCancel, IInv, TypeOK
<1>3. CASE run[r].status \notin {"validated", "confirmed"}
  <2>1. /\ Continue(c, "cancelRunning") /\ UNCHANGED <<rows, task, crashes, stranded, lock, tokens>>
    BY <1>3 DEF ClaimCancel, rows
  <2>2. RequestOK(c)'
    BY <1>1, <2>1, ContinueEffect DEF IInv, RequestOK, rows
  <2> QED  BY <2>1, <2>2, ContinueEffect, RequestMoves DEF IInv, TypeOK
<1> QED  BY <1>2, <1>3

LEMMA CancelRunningKeeps ==
  ASSUME IInv, NEW c \in Clients, CancelRunning(c) PROVE IInv'
<1> DEFINE r == request[c].run
<1>1. r \in Runs /\ run[r] \in RunRow
  BY ActorsHaveRuns DEF CancelRunning, IInv, TypeOK
<1>2. Reply(c) /\ RequestOK(c)'
  BY ReplyEffect DEF CancelRunning, IInv, RequestOK
<1>3. /\ run' \in [Runs -> RunRow] /\ OtherRuns(r)
      /\ run'[r].status = run[r].status /\ run'[r].error = run[r].error
      /\ run[r].cancel => run'[r].cancel
  BY <1>1 DEF CancelRunning, IInv, TypeOK, RunRow, OtherRuns
<1> QED  BY <1>1, <1>2, <1>3, ReplyEffect, RunIsUpdated DEF CancelRunning, IInv, TypeOK

-----------------------------------------------------------------------------
(* Tasks.                                                                  *)

(* A task ends: Validate, MarkRefused, ReleaseLock, or a verdict is        *)
(* recorded before the lock is released: MarkFailed, Finalize.             *)
LEMMA VerdictIsRecorded ==
  ASSUME IInv, NEW t \in Tasks, NEW status \in Ended, NEW error \in Errors \ {"notStarted"},
         task[t].pc \notin {"idle", "validate"},
         EndRunning(task[t].run, status, error),
         status = "completed" => left[task[t].run] = 0,
         UNCHANGED <<left, tokens, lock, request, written, late, crashes, stranded>>,
         \/ /\ task[t].pc \notin {"start", "validate"} /\ lock = t
            /\ Goto(t, "release") \/ Goto(t, "failed")
         \/ Finish(t)
  PROVE  IInv'
<1> DEFINE r == task[t].run
<1>1. r \in Runs /\ run[r].status \notin NotStartedYet
  BY ActorsHaveRuns DEF IInv, TaskOK
<1>2. /\ run' \in [Runs -> RunRow] /\ OtherRuns(r)
      /\ \/ run'[r] = run[r]
         \/ /\ run[r].status = "running" /\ run'[r].status = status
            /\ run'[r].error = error /\ run'[r].cancel = run[r].cancel
  BY <1>1, EndRunningEffect DEF IInv
<1>3. /\ task' \in [Tasks -> Task] /\ OtherTasks(t)
      /\ \/ task'[t].pc = "idle" /\ task'[t].run = NoRun
         \/ task'[t].pc \in {"release", "failed"} /\ task'[t].run = r /\ lock = t
  BY FinishEffect, GotoEffect DEF IInv
<1>4. TypeOK'
  BY <1>2, <1>3, ActorsAssumption, ActorsHaveRuns DEF IInv, TypeOK, OtherTasks
<1>5. \A d \in Clients : RequestOK(d)'
  BY <1>2, ActorsHaveRuns DEF IInv, RequestOK, OtherRuns, Ended
<1>6. ASSUME NEW u \in Tasks PROVE TaskOK(u)'
  <2>1. CASE u = t
    BY <1>1, <1>2, <1>3, <2>1 DEF TaskOK, Holding, Ended, NotStartedYet
  <2>2. CASE u # t
    <3>1. TaskOK(u) /\ task'[u] = task[u]
      BY <1>3, <2>2 DEF IInv, OtherTasks
    <3>2. task[u].pc = "idle" \/ task[u].run \in Runs \ {r}
      BY <1>1, <2>2, ActorsHaveRuns, ActorsAssumption DEF IInv, OneTaskPerRun
    <3>3. task[u].pc = "idle" \/ run'[task[u].run] = run[task[u].run]
      BY <1>2, <3>2 DEF OtherRuns
    <3> QED  BY <3>1, <3>3 DEF TaskOK, Holding
  <2> QED  BY <2>1, <2>2
<1>7. OneTaskPerRun'
  BY <1>3 DEF IInv, OneTaskPerRun, OtherTasks
<1>8. ASSUME NEW q \in Runs PROVE RunOK(q)'
  <2>1. \A u \in Tasks : task'[u].run = q =>
          task[u].run = q /\ (task'[u] = task[u] \/ task'[u].pc \in {"release", "failed"})
    BY <1>3, ActorsAssumption DEF OtherTasks
  <2>2. RunOK(q) /\ (q # r => run'[q] = run[q])
    BY <1>2 DEF IInv, OtherRuns
  <2>3. CASE run'[q] = run[q]
    BY <2>1, <2>2, <2>3 DEF RunOK
  <2>4. CASE run'[q] # run[q]
    BY <1>2, <2>1, <2>2, <2>4 DEF RunOK, Ended, NotStartedYet
  <2> QED  BY <2>3, <2>4
<1> QED  BY <1>4, <1>5, <1>6, <1>7, <1>8 DEF IInv

LEMMA ValidateKeeps ==
  ASSUME IInv, NEW t \in Tasks, Validate(t) PROVE IInv'
<1> DEFINE r == task[t].run
<1>1. r \in Runs /\ run[r] \in RunRow /\ run[r].status = "validating" /\ Finish(t)
  BY ActorsHaveRuns DEF Validate, At, IInv, TypeOK, TaskOK
<1>2. /\ run' \in [Runs -> RunRow] /\ OtherRuns(r)
      /\ run'[r].status \in {"validated", "failed", "validating"}
      /\ run'[r].status = "validating" => UNCHANGED <<run, left>>
      /\ run'[r].error # "notStarted"
      /\ run'[r].cancel = run[r].cancel
  <2>1. run[r].error # "notStarted"
    BY <1>1 DEF IInv, RunOK
  <2>2. CASE run' = [run EXCEPT ![r].status = "validated", ![r].old = FALSE]
    BY <1>1, <2>1, <2>2 DEF IInv, TypeOK, RunRow, Statuses, OtherRuns
  <2>3. CASE run' = [run EXCEPT ![r].status = "failed", ![r].old = FALSE,
                                ![r].error = "validation"]
    BY <1>1, <2>3 DEF IInv, TypeOK, RunRow, Statuses, Errors, OtherRuns
  <2>4. CASE UNCHANGED <<run, left>>
    BY <1>1, <2>1, <2>4 DEF IInv, TypeOK, OtherRuns
  <2> QED  BY <2>2, <2>3, <2>4 DEF Validate
<1>3. left' \in [Runs -> Nat] /\ \A q \in Runs \ {r} : left'[q] = left[q]
  BY <1>1, BoundsAssumption DEF Validate, IInv, TypeOK
<1>4. \A u \in Tasks \ {t} : task[u].run # r
  BY <1>1, ActorsAssumption DEF IInv, OneTaskPerRun
<1>5. TypeOK'
  BY <1>1, <1>2, <1>3, FinishEffect, ActorsAssumption DEF Validate, IInv, TypeOK, OtherTasks
<1>6. \A d \in Clients : RequestOK(d)'
  BY <1>1, <1>2, ActorsHaveRuns DEF Validate, IInv, RequestOK, OtherRuns
<1>7. ASSUME NEW u \in Tasks PROVE TaskOK(u)'
  <2>1. CASE u = t
    BY <1>1, <2>1, FinishEffect DEF IInv, TaskOK, Holding
  <2>2. CASE u # t
    <3>1. TaskOK(u) /\ task'[u] = task[u] /\ UNCHANGED lock
      BY <1>1, <2>2, FinishEffect DEF Validate, IInv, OtherTasks
    <3>2. task[u].pc = "idle" \/ task[u].run \in Runs \ {r}
      BY <1>4, <2>2, ActorsHaveRuns
    <3>3. task[u].pc = "idle" \/ /\ run'[task[u].run] = run[task[u].run]
                                 /\ left'[task[u].run] = left[task[u].run]
      BY <1>2, <1>3, <3>2 DEF OtherRuns
    <3> QED  BY <3>1, <3>3 DEF TaskOK, Holding
  <2> QED  BY <2>1, <2>2
<1>8. OneTaskPerRun'
  BY <1>1, FinishEffect DEF IInv, OneTaskPerRun, OtherTasks
<1>9. ASSUME NEW q \in Runs PROVE RunOK(q)'
  <2>1. \A u \in Tasks : task'[u].run = q => task[u].run = q /\ task'[u] = task[u]
    BY <1>1, FinishEffect, ActorsAssumption DEF IInv, OtherTasks
  <2>2. RunOK(q) /\ UNCHANGED <<written, late>>
    BY DEF Validate, IInv
  <2>3. CASE q = r
    BY <1>1, <1>2, <2>1, <2>2, <2>3 DEF RunOK, NotStartedYet
  <2>4. CASE q # r
    BY <1>2, <1>3, <2>1, <2>2, <2>4 DEF RunOK, OtherRuns
  <2> QED  BY <2>3, <2>4
<1> QED  BY <1>5, <1>6, <1>7, <1>8, <1>9 DEF IInv

LEMMA GetLockKeeps ==
  ASSUME IInv, NEW t \in Tasks, GetLock(t) PROVE IInv'
<1>1. /\ task[t].run \in Runs /\ late[task[t].run] = 0
      /\ run[task[t].run].status \notin NotStartedYet
  BY ActorsHaveRuns DEF GetLock, At, IInv, TaskOK, RunOK
<1>2. CASE lock = Nobody /\ lock' = t /\ Goto(t, "load") /\ UNCHANGED stranded
  <2>1. Goto(t, "load") /\ lock' = t /\ stranded' \subseteq Runs
    BY <1>2 DEF IInv, TypeOK
  <2>2. TaskOK(t)'
    BY <1>1, <2>1, GotoEffect DEF GetLock, IInv, TaskOK, Holding
  <2> QED  BY <1>1, <1>2, <2>1, <2>2, GotoEffect, TaskMoves DEF GetLock, At, IInv, rows
<1>3. CASE UNCHANGED <<lock, stranded>> /\ Goto(t, "refused")
  <2>1. Goto(t, "refused") /\ UNCHANGED lock /\ stranded' \subseteq Runs
    BY <1>3 DEF IInv, TypeOK
  <2>2. TaskOK(t)'
    BY <1>1, <2>1, GotoEffect DEF GetLock, IInv, TaskOK, Holding
  <2> QED  BY <1>1, <2>1, <2>2, GotoEffect, TaskMoves DEF GetLock, At, IInv, rows
<1>4. CASE UNCHANGED <<run, lock>> /\ Strand(task[t].run) /\ Finish(t)
  <2>1. TaskOK(t)' /\ stranded' \subseteq Runs
    BY <1>1, <1>4, FinishEffect, StrandEffect DEF IInv, TaskOK, Holding
  <2> QED  BY <1>1, <1>4, <2>1, FinishEffect, TaskMoves, ActorsAssumption DEF GetLock, IInv, rows
<1> QED  BY <1>2, <1>3, <1>4 DEF GetLock

LEMMA LoadRunKeeps ==
  ASSUME IInv, NEW t \in Tasks, LoadRun(t) PROVE IInv'
<1>1. /\ task[t].run \in Runs /\ late[task[t].run] = 0
      /\ run[task[t].run].status \notin NotStartedYet /\ lock = t
  BY ActorsHaveRuns DEF LoadRun, At, IInv, TaskOK, RunOK, Holding
<1>2. PICK place \in {"check", "release"} : Goto(t, place)
  BY DEF LoadRun
<1>3. stranded' \subseteq Runs
  BY <1>1, StrandEffect DEF LoadRun, IInv, TypeOK
<1>4. TaskOK(t)'
  BY <1>1, <1>2, GotoEffect DEF LoadRun, IInv, TaskOK, Holding
<1> QED  BY <1>1, <1>2, <1>3, <1>4, GotoEffect, TaskMoves DEF LoadRun, At, IInv, rows

LEMMA CheckCancelKeeps ==
  ASSUME IInv, NEW t \in Tasks, CheckCancel(t) PROVE IInv'
<1> DEFINE r         == task[t].run
           cancelled == run[r].cancel /\ run[r].status # "deleted"
           place     == IF cancelled \/ left[r] = 0 THEN "finalize" ELSE "chunk"
<1>1. /\ r \in Runs /\ run[r].status \notin NotStartedYet /\ lock = t
      /\ RunOK(r) /\ task[t] \in Task /\ run[r] \in RunRow
  BY ActorsHaveRuns DEF CheckCancel, At, IInv, TypeOK, TaskOK, Holding
<1>2. cancelled \in BOOLEAN
  OBVIOUS
<1>3. place = "chunk" => late[r] = 0 /\ left[r] # 0
  BY <1>1 DEF RunOK
<1>4. place \in {"finalize", "chunk"} /\ (place = "finalize" => cancelled \/ left[r] = 0)
  OBVIOUS
<1>5. task' = [task EXCEPT ![t] = [task[t] EXCEPT !.cancelled = cancelled, !.pc = place]]
  BY <1>1 DEF CheckCancel, IInv, TypeOK
<1> HIDE DEF cancelled, place
<1>6. /\ task' \in [Tasks -> Task] /\ OtherTasks(t)
      /\ task'[t].pc = place /\ task'[t].run = r /\ task'[t].cancelled = cancelled
  BY <1>1, <1>2, <1>4, <1>5 DEF IInv, TypeOK, Task, OtherTasks
<1>7. TaskOK(t)'
  BY <1>1, <1>4, <1>6 DEF CheckCancel, TaskOK, Holding
<1> QED  BY <1>1, <1>3, <1>4, <1>6, <1>7, TaskMoves DEF CheckCancel, At, rows, IInv, TypeOK

LEMMA ExecuteChunkKeeps ==
  ASSUME IInv, NEW t \in Tasks, ExecuteChunk(t) PROVE IInv'
<1> DEFINE r == task[t].run
<1>1. /\ r \in Runs /\ run[r].status \notin NotStartedYet /\ lock = t
      /\ late[r] = 0 /\ run[r].error # "notStarted"
      /\ \A u \in Tasks \ {t} : task[u].run # r
  <2>1. r \in Runs /\ TaskOK(t) /\ RunOK(r) /\ task[t].pc = "chunk"
    BY ActorsHaveRuns DEF ExecuteChunk, At, IInv
  <2>2. \A u \in Tasks \ {t} : task[u].run # r
    BY <2>1, ActorsAssumption DEF IInv, OneTaskPerRun
  <2> QED  BY <2>1, <2>2 DEF TaskOK, RunOK, Holding
<1>2. /\ task' \in [Tasks -> Task] /\ OtherTasks(t)
      /\ task'[t].pc = "check" /\ task'[t].run = r
  BY GotoEffect DEF ExecuteChunk, IInv
<1>3. /\ left' \in [Runs -> Nat] /\ written' \in [Runs -> Nat] /\ late' \in [Runs -> Nat]
      /\ \A q \in Runs \ {r} :
           left'[q] = left[q] /\ written'[q] = written[q] /\ late'[q] = late[q]
      /\ left[r] = 0 => left'[r] = 0
      /\ late'[r] = 0 \/ (late'[r] = 1 /\ run[r].cancel)
  <2>1. left \in [Runs -> Nat] /\ written \in [Runs -> Nat] /\ late \in [Runs -> Nat]
    BY DEF IInv, TypeOK
  <2>2. /\ left' = [left EXCEPT ![r] = IF @ = 0 THEN 0 ELSE @ - 1]
        /\ written' = [written EXCEPT ![r] = @ + 1]
        /\ late' = IF run[r].cancel THEN [late EXCEPT ![r] = @ + 1] ELSE late
    BY DEF ExecuteChunk
  <2>3. left' \in [Runs -> Nat] /\ (left[r] = 0 => left'[r] = 0)
    BY <1>1, <2>1, <2>2
  <2>4. written' \in [Runs -> Nat]
    BY <1>1, <2>1, <2>2
  <2>5. /\ late' \in [Runs -> Nat]
        /\ late'[r] = 0 \/ (late'[r] = 1 /\ run[r].cancel)
    <3>1. CASE run[r].cancel
      <4>1. late' = [late EXCEPT ![r] = 1]
        BY <1>1, <2>1, <2>2, <3>1
      <4> QED  BY <1>1, <2>1, <3>1, <4>1
    <3>2. CASE ~run[r].cancel
      BY <1>1, <2>1, <2>2, <3>2
    <3> QED  BY <3>1, <3>2
  <2> QED  BY <2>1, <2>2, <2>3, <2>4, <2>5
<1>4. UNCHANGED <<run, tokens, lock, request, crashes, stranded>>
  BY DEF ExecuteChunk
<1>5. TypeOK'
  BY <1>1, <1>2, <1>3, <1>4, ActorsAssumption DEF IInv, TypeOK, OtherTasks
<1>6. \A d \in Clients : RequestOK(d)'
  BY <1>4 DEF IInv, RequestOK
<1>7. ASSUME NEW u \in Tasks PROVE TaskOK(u)'
  <2>1. CASE u = t
    BY <1>1, <1>2, <1>4, <2>1 DEF TaskOK, Holding
  <2>2. CASE u # t
    BY <1>1, <1>2, <1>3, <1>4, <2>2, ActorsHaveRuns DEF IInv, TaskOK, Holding, OtherTasks
  <2> QED  BY <2>1, <2>2
<1>8. OneTaskPerRun'
  BY <1>2 DEF IInv, OneTaskPerRun, OtherTasks
<1>9. ASSUME NEW q \in Runs PROVE RunOK(q)'
  <2>1. CASE q = r
    BY <1>1, <1>2, <1>3, <1>4, <2>1 DEF IInv, RunOK, OtherTasks
  <2>2. CASE q # r
    BY <1>1, <1>2, <1>3, <1>4, <2>2 DEF IInv, RunOK, OtherTasks
  <2> QED  BY <2>1, <2>2
<1> QED  BY <1>5, <1>6, <1>7, <1>8, <1>9 DEF IInv

LEMMA ExecutionErrorKeeps ==
  ASSUME IInv, NEW t \in Tasks, ExecutionError(t) PROVE IInv'
<1>1. /\ task[t].run \in Runs /\ run[task[t].run].status \notin NotStartedYet /\ lock = t
  BY ActorsHaveRuns DEF ExecutionError, IInv, TaskOK, Holding
<1>2. TaskOK(t)'
  BY <1>1, GotoEffect DEF ExecutionError, IInv, TaskOK, Holding
<1> QED  BY <1>2, GotoEffect, TaskMoves DEF ExecutionError, IInv, TypeOK, rows

LEMMA VerdictsKeep ==
  ASSUME IInv, NEW t \in Tasks, MarkRefused(t) \/ MarkFailed(t) \/ Finalize(t) PROVE IInv'
<1> USE DEF Ended, Errors
<1>1. CASE MarkRefused(t)
  <2>1. task[t].pc = "refused" /\ task[t].run \in Runs /\ Finish(t)
    BY <1>1, ActorsHaveRuns DEF MarkRefused, At
  <2>2. CASE EndRunning(task[t].run, "failed", "concurrency") /\ UNCHANGED stranded
    BY <1>1, <2>1, <2>2, VerdictIsRecorded DEF MarkRefused
  <2>3. CASE UNCHANGED run /\ Strand(task[t].run)
    <3>1. TaskOK(t)' /\ stranded' \subseteq Runs
      BY <2>1, <2>3, FinishEffect, StrandEffect DEF IInv, TaskOK, Holding
    <3> QED  BY <1>1, <2>1, <2>3, <3>1, FinishEffect, TaskMoves, ActorsAssumption
                DEF MarkRefused, IInv, rows
  <2> QED  BY <1>1, <2>2, <2>3 DEF MarkRefused, RecordFailure
<1>2. CASE MarkFailed(t)
  <2>1. /\ task[t].pc = "failed" /\ task[t].run \in Runs /\ Goto(t, "release") /\ lock = t
        /\ run[task[t].run].status \notin NotStartedYet
    BY <1>2, ActorsHaveRuns DEF MarkFailed, At, IInv, TaskOK, Holding
  <2>2. CASE EndRunning(task[t].run, "failed", "execution") /\ UNCHANGED stranded
    BY <1>2, <2>1, <2>2, VerdictIsRecorded DEF MarkFailed
  <2>3. CASE UNCHANGED run /\ Strand(task[t].run)
    <3>1. TaskOK(t)' /\ stranded' \subseteq Runs
      BY <1>2, <2>1, <2>3, GotoEffect, StrandEffect DEF MarkFailed, IInv, TaskOK, Holding
    <3> QED  BY <1>2, <2>1, <2>3, <3>1, GotoEffect, TaskMoves DEF MarkFailed, IInv, rows
  <2> QED  BY <1>2, <2>2, <2>3 DEF MarkFailed, RecordFailure
<1>3. CASE Finalize(t)
  <2>1. /\ lock = t /\ task[t].pc = "finalize" /\ (Goto(t, "release") \/ Goto(t, "failed"))
        /\ ~task[t].cancelled => left[task[t].run] = 0
        /\ UNCHANGED <<left, tokens, lock, request, written, late, crashes, stranded>>
    BY <1>3 DEF Finalize, At, IInv, TaskOK, Holding
  <2>2. CASE EndRunning(task[t].run, "failed", "consistency")
    BY <2>1, <2>2, VerdictIsRecorded
  <2>3. CASE EndRunning(task[t].run, "cancelled", "cancelled")
    BY <2>1, <2>3, VerdictIsRecorded
  <2>4. CASE ~task[t].cancelled /\ EndRunning(task[t].run, "completed", "")
    BY <2>1, <2>4, VerdictIsRecorded
  <2> QED  BY <1>3, <2>2, <2>3, <2>4 DEF Finalize
<1> QED  BY <1>1, <1>2, <1>3

LEMMA ReleaseLockKeeps ==
  ASSUME IInv, NEW t \in Tasks, ReleaseLock(t) PROVE IInv'
<1>1. lock = t /\ Finish(t)
  BY DEF ReleaseLock, At, IInv, TaskOK, Holding
<1>2. TaskOK(t)'
  BY <1>1, FinishEffect DEF IInv, TaskOK, Holding
<1> QED  BY <1>1, <1>2, FinishEffect, TaskMoves, ActorsAssumption DEF ReleaseLock, IInv, TypeOK, rows

-----------------------------------------------------------------------------

LEMMA CrashKeeps ==
  ASSUME IInv, Crash PROVE IInv'
<1>1. /\ task' = [t \in Tasks |-> IdleTask] /\ request' = [c \in Clients |-> IdleRequest]
      /\ lock' = Nobody /\ UNCHANGED <<run, left, tokens, written, late, stranded>>
  BY DEF Crash
<1>2. IdleTask \in Task /\ IdleTask.pc = "idle" /\ IdleTask.run = NoRun
  BY DEF IdleTask, Task
<1>3. IdleRequest \in Request /\ IdleRequest.pc = "idle" /\ IdleRequest.expired = {}
  BY DEF IdleRequest, Request, Statuses
<1>4. crashes' \in Nat
  BY DEF Crash, IInv, TypeOK
<1>5. TypeOK'
  BY <1>1, <1>2, <1>3, <1>4 DEF IInv, TypeOK
<1>6. \A c \in Clients : RequestOK(c)'
  BY <1>1, <1>3 DEF RequestOK
<1>7. \A t \in Tasks : TaskOK(t)'
  BY <1>1, <1>2 DEF TaskOK, Holding
<1>8. OneTaskPerRun'
  BY <1>1, <1>2 DEF OneTaskPerRun
<1>9. \A r \in Runs : RunOK(r)'
  BY <1>1, <1>2, ActorsAssumption DEF IInv, RunOK
<1> QED  BY <1>5, <1>6, <1>7, <1>8, <1>9 DEF IInv

LEMMA AgeKeeps ==
  ASSUME IInv, NEW r \in Runs, Age(r) PROVE IInv'
<1>1. run[r] \in RunRow
  BY DEF IInv, TypeOK
<1>2. /\ run' \in [Runs -> RunRow]
      /\ \A q \in Runs : /\ run'[q].status = run[q].status /\ run'[q].error = run[q].error
                         /\ run'[q].cancel = run[q].cancel
  BY <1>1 DEF Age, IInv, TypeOK, RunRow
<1>3. UNCHANGED <<left, tokens, lock, request, task, written, late, crashes, stranded>>
  BY DEF Age
<1>4. TypeOK'
  BY <1>2, <1>3 DEF IInv, TypeOK
<1>5. \A c \in Clients : RequestOK(c)'
  BY <1>2, <1>3, ActorsHaveRuns DEF IInv, RequestOK
<1>6. \A t \in Tasks : TaskOK(t)'
  BY <1>2, <1>3, ActorsHaveRuns DEF IInv, TaskOK, Holding
<1>7. OneTaskPerRun' /\ \A q \in Runs : RunOK(q)'
  BY <1>2, <1>3 DEF IInv, OneTaskPerRun, RunOK
<1> QED  BY <1>4, <1>5, <1>6, <1>7 DEF IInv

LEMMA Initially == Init => IInv
<1> SUFFICES ASSUME Init PROVE IInv
  OBVIOUS
<1>1. IdleTask \in Task /\ IdleTask.pc = "idle" /\ IdleTask.run = NoRun
  BY DEF IdleTask, Task
<1>2. IdleRequest \in Request /\ IdleRequest.pc = "idle" /\ IdleRequest.expired = {}
  BY DEF IdleRequest, Request, Statuses
<1>3. /\ NewRun \in RunRow /\ NewRun.status = "absent" /\ NewRun.error = ""
  BY DEF NewRun, RunRow, Statuses, Errors
<1>4. TypeOK
  <2>1. run \in [Runs -> RunRow] /\ request \in [Clients -> Request] /\ task \in [Tasks -> Task]
    BY <1>1, <1>2, <1>3 DEF Init
  <2>2. /\ left \in [Runs -> Nat] /\ written \in [Runs -> Nat] /\ late \in [Runs -> Nat]
        /\ tokens \in Nat /\ crashes \in Nat /\ stranded \subseteq Runs
    BY DEF Init
  <2>3. \A t \in Tasks : task[t].run = NoRun <=> task[t].pc = "idle"
    BY <1>1 DEF Init
  <2> QED  BY <2>1, <2>2, <2>3 DEF Init, TypeOK
<1>5. (\A c \in Clients : RequestOK(c)) /\ (\A t \in Tasks : TaskOK(t)) /\ OneTaskPerRun
  BY <1>1, <1>2 DEF Init, RequestOK, TaskOK, Holding, OneTaskPerRun
<1>6. \A r \in Runs : RunOK(r)
  <2>1. ASSUME NEW r \in Runs
        PROVE  /\ run[r].status = "absent" /\ run[r].error = "" /\ left[r] = 0
               /\ written[r] = 0 /\ late[r] = 0
    BY <1>3 DEF Init
  <2>2. ASSUME NEW r \in Runs PROVE RunOK(r)
    <3>1. run[r].error # "notStarted" /\ run[r].status \notin {"completed", "deleted"}
      BY <2>1
    <3>2. late[r] \in Nat /\ late[r] = 0
      BY <2>1, <1>4 DEF TypeOK
    <3>3. late[r] # 1
      BY <3>2
    <3> QED  BY <2>1, <3>1, <3>3 DEF RunOK
  <2> QED  BY <2>2
<1> QED  BY <1>4, <1>5, <1>6 DEF IInv

LEMMA InductiveStep == IInv /\ [Next]_vars => IInv'
<1> SUFFICES ASSUME IInv, [Next]_vars PROVE IInv'
  OBVIOUS
<1>1. ASSUME NEW c \in Clients, NEW r \in Runs,
             Confirm(c, r) \/ Execute(c, r) \/ Cancel(c, r)
      PROVE  IInv'
  BY <1>1, ConfirmKeeps, ExecuteKeeps, CancelKeeps
<1>2. ASSUME NEW c \in Clients, Upload(c) PROVE IInv'
  BY <1>2, UploadKeeps
<1>3. ASSUME NEW c \in Clients, Handle(c) PROVE IInv'
  BY <1>3, DeleteExpiredKeeps, CreateRunKeeps, ClaimConfirmKeeps, ProbeKeeps, ClaimRunKeeps,
     ClaimCancelKeeps, CancelRunningKeeps DEF Handle
<1>4. ASSUME NEW t \in Tasks, Perform(t) PROVE IInv'
  BY <1>4, ValidateKeeps, GetLockKeeps, LoadRunKeeps, CheckCancelKeeps, ExecuteChunkKeeps,
     ExecutionErrorKeeps, VerdictsKeep, ReleaseLockKeeps DEF Perform
<1>5. CASE \E r \in Runs : Age(r)
  BY <1>5, AgeKeeps
<1>6. CASE Crash
  BY <1>6, CrashKeeps
<1>7. CASE UNCHANGED vars
  BY <1>7 DEF vars, IInv, TypeOK, RequestOK, TaskOK, Holding, OneTaskPerRun, RunOK
<1> QED  BY <1>1, <1>2, <1>3, <1>4, <1>5, <1>6, <1>7 DEF Next

(* The inductive invariant: what tasks and requests may still rely on.     *)
THEOREM ImportInvariant == Spec => []IInv
  BY Initially, InductiveStep, PTL DEF Spec

(* Every variable keeps its type.                                          *)
THEOREM TypeCorrect == Spec => []TypeOK
<1>1. IInv => TypeOK
  BY DEF IInv
<1> QED  BY <1>1, ImportInvariant, PTL

(* Executions exclude each other for any number of runs, requests and      *)
(* tasks: an executing task has the named lock until it releases it, and   *)
(* no run has two tasks.                                                   *)
THEOREM ImportsAreExclusive == Spec => []OneImportAtATime
<1>1. IInv => OneImportAtATime
  BY DEF IInv, TaskOK, OneTaskPerRun, OneImportAtATime
<1> QED  BY <1>1, ImportInvariant, PTL

(* "Cancelled before execution, no order was written" is never said of a   *)
(* run that wrote an order or still has a task.                            *)
THEOREM NotStartedIsTrue == Spec => []NotStartedWroteNothing
<1>1. IInv => NotStartedWroteNothing
  BY DEF IInv, RunOK, NotStartedWroteNothing
<1> QED  BY <1>1, ImportInvariant, PTL

(* A cancel request lets at most the chunk under way through, whatever the *)
(* size of the file.                                                       *)
THEOREM CancellationIsPrompt == Spec => []CancelStopsTheNextChunk
<1>1. IInv => CancelStopsTheNextChunk
  BY DEF IInv, RunOK, CancelStopsTheNextChunk
<1> QED  BY <1>1, ImportInvariant, PTL

(* A completed run left no staged row unwritten.                           *)
THEOREM CompletionIsTotal == Spec => []CompletedRunsAreComplete
<1>1. IInv => CompletedRunsAreComplete
  BY DEF IInv, RunOK, CompletedRunsAreComplete
<1> QED  BY <1>1, ImportInvariant, PTL

-----------------------------------------------------------------------------
(* Action properties.                                                      *)

(* What a step may do to a run that has ended.                             *)
KeepsVerdict(r) ==
    run[r].status \in Ended =>
        \/ run'[r].status = "deleted"
        \/ run'[r].status = run[r].status /\ run'[r].error = run[r].error

(* Only ClaimRun starts a run.                                             *)
StartsWithToken(r) ==
    run[r].status # "running" /\ run'[r].status = "running" =>
        \E c \in Clients : /\ request[c].pc = "claimRun" /\ request[c].run = r
                           /\ request[c].token = run[r].token

LEMMA StepsOfRuns ==
  ASSUME IInv, [Next]_vars, NEW r \in Runs
  PROVE  KeepsVerdict(r) /\ StartsWithToken(r)
<1> USE DEF KeepsVerdict, StartsWithToken
<1>1. TypeOK /\ run[r] \in RunRow
  BY DEF IInv, TypeOK
<1>2. CASE UNCHANGED run
  BY <1>2
<1>3. ASSUME NEW c \in Clients, DeleteExpired(c)
      PROVE  KeepsVerdict(r) /\ StartsWithToken(r)
  <2>1. run'[r] = run[r] \/ run'[r] = [run[r] EXCEPT !.status = "deleted"]
    BY <1>3 DEF DeleteExpired
  <2> QED  BY <1>1, <2>1 DEF RunRow
<1>4. ASSUME NEW c \in Clients, NEW q \in Runs, run[q].status = "absent",
             run' = [run EXCEPT ![q].status = "validating"]
      PROVE  KeepsVerdict(r) /\ StartsWithToken(r)
  BY <1>1, <1>4 DEF TypeOK, RunRow, Ended
<1>5. ASSUME NEW c \in Clients, ClaimConfirm(c) \/ ClaimCancel(c) \/ CancelRunning(c)
      PROVE  KeepsVerdict(r) /\ StartsWithToken(r)
  <2> DEFINE q == request[c].run
  <2>1. q \in Runs
    BY <1>5, ActorsHaveRuns DEF ClaimConfirm, ClaimCancel, CancelRunning
  <2>2. CASE ClaimConfirm(c)
    <3>1. \/ UNCHANGED run
          \/ /\ run[q].status \in {"validated", "confirmed"}
             /\ run' = [run EXCEPT ![q].status = "confirmed", ![q].token = request[c].token]
      BY <2>2 DEF ClaimConfirm, IInv, RequestOK
    <3> QED  BY <1>1, <1>2, <2>1, <3>1 DEF TypeOK, RunRow, Ended
  <2>3. CASE ClaimCancel(c)
    <3>1. \/ UNCHANGED run
          \/ /\ run[q].status \in {"validated", "confirmed"}
             /\ run' = [run EXCEPT ![q] = NotStarted(run[q])]
      BY <2>3 DEF ClaimCancel
    <3>2. run[q] \in RunRow
      BY <1>1, <2>1 DEF TypeOK
    <3>3. NotStarted(run[q]).status = "cancelled"
      BY <3>2 DEF NotStarted, RunRow
    <3> QED  BY <1>1, <1>2, <2>1, <3>1, <3>3 DEF TypeOK, Ended
  <2>4. CASE CancelRunning(c)
    <3>1. UNCHANGED run \/ run' = [run EXCEPT ![q].cancel = TRUE]
      BY <2>4 DEF CancelRunning
    <3> QED  BY <1>1, <1>2, <2>1, <3>1 DEF TypeOK, RunRow
  <2> QED  BY <1>5, <2>2, <2>3, <2>4
<1>6. ASSUME NEW c \in Clients, ClaimRun(c)
      PROVE  KeepsVerdict(r) /\ StartsWithToken(r)
  <2>1. CASE r = request[c].run
    BY <1>1, <1>6, <2>1 DEF ClaimRun, TypeOK, RunRow, Ended
  <2>2. CASE r # request[c].run
    BY <1>6, <2>2 DEF ClaimRun, TypeOK, IInv
  <2> QED  BY <2>1, <2>2
<1>7. ASSUME NEW t \in Tasks, Validate(t)
      PROVE  KeepsVerdict(r) /\ StartsWithToken(r)
  <2> DEFINE q == task[t].run
  <2>1. q \in Runs /\ run[q].status = "validating"
    BY <1>7, ActorsHaveRuns DEF Validate, At, IInv, TaskOK
  <2>2. \/ run' = [run EXCEPT ![q].status = "validated", ![q].old = FALSE]
        \/ run' = [run EXCEPT ![q].status = "failed", ![q].old = FALSE,
                              ![q].error = "validation"]
        \/ UNCHANGED run
    BY <1>7 DEF Validate
  <2> QED  BY <1>1, <2>1, <2>2 DEF TypeOK, RunRow, Ended
<1>8. ASSUME NEW t \in Tasks, MarkRefused(t) \/ MarkFailed(t) \/ Finalize(t)
      PROVE  KeepsVerdict(r) /\ StartsWithToken(r)
  <2>1. CASE UNCHANGED run
    BY <1>2, <2>1
  <2>2. CASE ~UNCHANGED run
    <3>1. PICK status \in Ended, error \in Errors : EndRunning(task[t].run, status, error)
       BY <1>8, <2>2 DEF MarkRefused, MarkFailed, RecordFailure, Finalize, Ended, Errors
    <3>2. task[t].run \in Runs
      BY <1>8, ActorsHaveRuns DEF MarkRefused, MarkFailed, Finalize, At
    <3>3. \/ run'[r] = run[r]
          \/ run[r].status = "running" /\ run'[r].status = status
      BY <1>1, <3>1, <3>2, EndRunningEffect DEF OtherRuns
    <3> QED  BY <3>3 DEF Ended
  <2> QED  BY <2>1, <2>2
<1>9. ASSUME NEW q \in Runs, Age(q)
      PROVE  KeepsVerdict(r) /\ StartsWithToken(r)
  BY <1>1, <1>9 DEF Age, TypeOK, RunRow
<1>10. ASSUME NEW c \in Clients, CreateRun(c)
       PROVE  KeepsVerdict(r) /\ StartsWithToken(r)
  BY <1>4, <1>10 DEF CreateRun
<1>11. ASSUME NEW c \in Clients,
              \/ Upload(c) \/ Probe(c) \/ ReleaseProbe(c)
              \/ \E q \in Runs : Confirm(c, q) \/ Execute(c, q) \/ Cancel(c, q)
       PROVE  UNCHANGED run
  BY <1>11 DEF Upload, Probe, ReleaseProbe, Confirm, Execute, Cancel
<1>12. ASSUME NEW t \in Tasks,
              \/ GetLock(t) \/ LoadRun(t) \/ CheckCancel(t) \/ ExecuteChunk(t)
              \/ ExecutionError(t) \/ ReleaseLock(t)
       PROVE  UNCHANGED run
  BY <1>12 DEF GetLock, LoadRun, CheckCancel, ExecuteChunk, ExecutionError, ReleaseLock
<1>13. CASE Crash \/ UNCHANGED vars
  BY <1>13, <1>2 DEF Crash, vars
<1> HIDE DEF KeepsVerdict, StartsWithToken
<1> QED
  BY <1>2, <1>3, <1>5, <1>6, <1>7, <1>8, <1>9, <1>10, <1>11, <1>12, <1>13
     DEF Next, Handle, Perform

(* No stale request or task changes the verdict of a run that ended.       *)
THEOREM VerdictsAreFinal == Spec => EndedRunsAreFinal
<1>1. IInv /\ [Next]_vars =>
        [\A r \in Runs : run[r].status \in Ended =>
           \/ run'[r].status = "deleted"
           \/ run'[r].status = run[r].status /\ run'[r].error = run[r].error]_vars
  BY StepsOfRuns DEF KeepsVerdict
<1> QED  BY <1>1, ImportInvariant, PTL DEF Spec, EndedRunsAreFinal

(* A rotated token starts nothing.                                         *)
THEOREM TokensAreCurrent == Spec => LatestTokenStarts
<1>1. IInv /\ [Next]_vars =>
        [\A r \in Runs : run[r].status # "running" /\ run'[r].status = "running" =>
           \E c \in Clients : /\ request[c].pc = "claimRun" /\ request[c].run = r
                              /\ request[c].token = run[r].token]_vars
  BY StepsOfRuns DEF StartsWithToken
<1> QED  BY <1>1, ImportInvariant, PTL DEF Spec, LatestTokenStarts
=============================================================================
