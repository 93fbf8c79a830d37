----------------------------- MODULE ImportRuns -----------------------------
(***************************************************************************)
(* The life of a data import (src/backend/services/data_import_service.py):*)
(* upload and cleanup, background validation, confirmation with a rotating *)
(* token, the atomic claim of "running", the background execution under a  *)
(* MySQL named lock, cancellation, crashes of the process.                 *)
(*                                                                         *)
(* A request or a task is a sequence of statements; each conditional       *)
(* UPDATE is one atomic step, and what a handler loaded before it may be   *)
(* stale by then.  Rows are counted in chunks here, ImportRows has them.   *)
(***************************************************************************)
EXTENDS Naturals, FiniteSets

CONSTANTS
    Runs,         \* rows of data_import_runs (ids are never reused)
    Clients,      \* concurrent HTTP requests
    Tasks,        \* background tasks (validation or execution)
    NoRun,
    Nobody,       \* the named lock is free
    MaxChunks,    \* bound on the chunks of valid rows a file has
    MaxTokens,    \* bound on confirmations
    MaxCrashes    \* bound on crashes

ASSUME ActorsAssumption ==
    /\ NoRun \notin Runs
    /\ Nobody \notin Clients \cup Tasks
    /\ Clients \cap Tasks = {}

ASSUME BoundsAssumption == MaxChunks \in Nat /\ MaxTokens \in Nat /\ MaxCrashes \in Nat

VARIABLES
    run,       \* the run records
    left,      \* chunks of rows still "valid"
    tokens,    \* confirmation tokens generated
    lock,      \* who holds GET_LOCK('ea_data_import_...')
    request,   \* where each request is, with what it loaded
    task,      \* where each background task is
    written,   \* chunks of orders a run committed
    late,      \* those of them committed after a cancel request
    crashes,
    stranded   \* runs left running by an error that nothing records

vars == <<run, left, tokens, lock, request, task, written, late, crashes, stranded>>

(* "absent": not uploaded yet; "deleted": removed by the cleanup.          *)
Statuses == {"absent", "validating", "validated", "confirmed", "running",
             "completed", "failed", "cancelled", "deleted"}

Ended == {"completed", "failed", "cancelled"}

(* error_code, as far as the properties tell them apart; "notStarted" is   *)
(* the message "cancelled before execution, no order was written".         *)
Errors == {"", "validation", "notStarted", "cancelled", "concurrency",
           "execution", "consistency"}

(* token: confirm_token_hash, 0 before the first; old: past the retention  *)
(* period by COALESCE(finished_at, heartbeat_at, started_at).              *)
RunRow == [status : Statuses, token : Nat, cancel : BOOLEAN, old : BOOLEAN,
           error : Errors]

NewRun == [status |-> "absent", token |-> 0, cancel |-> FALSE, old |-> FALSE,
           error |-> ""]

Request == [pc : {"idle", "deleteExpired", "createRun", "claimConfirm", "probe",
                  "releaseProbe", "claimRun", "claimCancel", "cancelRunning"},
            run : Runs \cup {NoRun}, status : Statuses, token : Nat,
            expired : SUBSET Runs]

IdleRequest == [pc |-> "idle", run |-> NoRun, status |-> "absent", token |-> 0,
                expired |-> {}]

Task == [pc : {"idle", "validate", "start", "refused", "load", "check", "chunk",
               "finalize", "failed", "release"},
         run : Runs \cup {NoRun}, cancelled : BOOLEAN]

IdleTask == [pc |-> "idle", run |-> NoRun, cancelled |-> FALSE]

TypeOK ==
    /\ run \in [Runs -> RunRow]
    /\ left \in [Runs -> Nat]
    /\ tokens \in Nat
    /\ lock \in Clients \cup Tasks \cup {Nobody}
    /\ request \in [Clients -> Request]
    /\ task \in [Tasks -> Task]
    /\ \A t \in Tasks : task[t].run = NoRun <=> task[t].pc = "idle"
    /\ written \in [Runs -> Nat]
    /\ late \in [Runs -> Nat]
    /\ crashes \in Nat
    /\ stranded \subseteq Runs

Init ==
    /\ run = [r \in Runs |-> NewRun]
    /\ left = [r \in Runs |-> 0]
    /\ tokens = 0
    /\ lock = Nobody
    /\ request = [c \in Clients |-> IdleRequest]
    /\ task = [t \in Tasks |-> IdleTask]
    /\ written = [r \in Runs |-> 0]
    /\ late = [r \in Runs |-> 0]
    /\ crashes = 0
    /\ stranded = {}

-----------------------------------------------------------------------------

Idle(c) == request[c].pc = "idle"

Reply(c) == request' = [request EXCEPT ![c] = IdleRequest]

Continue(c, pc) == request' = [request EXCEPT ![c].pc = pc]

(* BackgroundTasks.add_task: the work starts once the response is out.     *)
Schedule(r, pc) ==
    \E t \in Tasks :
        /\ task[t].pc = "idle"
        /\ task' = [task EXCEPT ![t] = [pc |-> pc, run |-> r, cancelled |-> FALSE]]

(* No handler covers the statement that raised: the task or the request    *)
(* ends, no other one works on its run, and a running run stays so.        *)
Strand(r) == stranded' = stranded \cup {q \in {r} : run'[q].status = "running"}

Expired == {r \in Runs : run[r].old /\ run[r].status \notin
                           {"absent", "deleted", "validating", "running"}}

(* upload_import_file: an upload first selects what to clean up.           *)
Upload(c) ==
    /\ Idle(c)
    /\ \E r \in Runs : run[r].status = "absent"
    /\ request' = [request EXCEPT
                     ![c] = [IdleRequest EXCEPT
                               !.pc = IF Expired = {} THEN "createRun" ELSE "deleteExpired",
                               !.expired = Expired]]
    /\ UNCHANGED <<run, left, tokens, lock, task, written, late, crashes, stranded>>

(* The DELETEs name ids, whatever has become of the runs since; a failing  *)
(* cleanup is rolled back and ignored.                                     *)
DeleteExpired(c) ==
    /\ request[c].pc = "deleteExpired"
    /\ \E gone \in {{}, request[c].expired} :
         /\ run' = [r \in Runs |-> IF r \in gone THEN [run[r] EXCEPT !.status = "deleted"]
                                                 ELSE run[r]]
         /\ left' = [r \in Runs |-> IF r \in gone THEN 0 ELSE left[r]]
    /\ Continue(c, "createRun")
    /\ UNCHANGED <<tokens, lock, task, written, late, crashes, stranded>>

CreateRun(c) ==
    /\ request[c].pc = "createRun"
    /\ \E r \in Runs :
         /\ run[r].status = "absent"
         /\ run' = [run EXCEPT ![r].status = "validating"]
         /\ Schedule(r, "validate")
    /\ Reply(c)
    /\ UNCHANGED <<left, tokens, lock, written, late, crashes, stranded>>

(* confirm_run loads the run and generates a token; a run in any other     *)
(* status, of another owner or with another digest is refused here.        *)
Confirm(c, r) ==
    /\ Idle(c)
    /\ run[r].status \in {"validated", "confirmed"}
    /\ tokens < MaxTokens
    /\ tokens' = tokens + 1
    /\ request' = [request EXCEPT
                     ![c] = [IdleRequest EXCEPT !.pc = "claimConfirm", !.run = r,
                               !.status = run[r].status, !.token = tokens + 1]]
    /\ UNCHANGED <<run, left, lock, task, written, late, crashes, stranded>>

(* Faulty variant of ClaimConfirm: the UPDATE trusts the loaded status.    *)
ClaimConfirmBlindly(c) ==
    LET r == request[c].run
    IN  /\ request[c].pc = "claimConfirm"
        /\ run' = [run EXCEPT ![r].status = "confirmed", ![r].token = request[c].token]
        /\ Reply(c)
        /\ UNCHANGED <<left, tokens, lock, task, written, late, crashes, stranded>>

(* UPDATE ... WHERE status = the loaded one: validated becomes confirmed,  *)
(* a confirmed run gets the new token.                                     *)
ClaimConfirm(c) ==
    LET r == request[c].run
    IN  /\ request[c].pc = "claimConfirm"
        /\ run' = IF run[r].status = request[c].status
                  THEN [run EXCEPT ![r].status = "confirmed", ![r].token = request[c].token]
                  ELSE run
        /\ Reply(c)
        /\ UNCHANGED <<left, tokens, lock, task, written, late, crashes, stranded>>

(* request_execution compares the presented token with the loaded hash;    *)
(* a cancelled run gets past this point too.                               *)
Execute(c, r) ==
    /\ Idle(c)
    /\ run[r].status \in {"confirmed", "cancelled"}
    /\ run[r].token # 0
    /\ request' = [request EXCEPT
                     ![c] = [IdleRequest EXCEPT !.pc = "probe", !.run = r,
                               !.token = run[r].token]]
    /\ UNCHANGED <<run, left, tokens, lock, task, written, late, crashes, stranded>>

(* import_lock_is_free takes the lock to see whether it is free.           *)
Probe(c) ==
    /\ request[c].pc = "probe"
    /\ IF lock = Nobody THEN lock' = c /\ Continue(c, "releaseProbe")
                        ELSE UNCHANGED lock /\ Reply(c)
    /\ UNCHANGED <<run, left, tokens, task, written, late, crashes, stranded>>

ReleaseProbe(c) ==
    /\ request[c].pc = "releaseProbe"
    /\ lock' = Nobody
    /\ Continue(c, "claimRun")
    /\ UNCHANGED <<run, left, tokens, task, written, late, crashes, stranded>>

(* Faulty variant of ClaimRun: the UPDATE does not repeat the token.       *)
ClaimRunWithAnyToken(c) ==
    LET r == request[c].run
    IN  /\ request[c].pc = "claimRun"
        /\ IF run[r].status = "confirmed"
           THEN /\ run' = [run EXCEPT ![r].status = "running"]
                /\ \/ Schedule(r, "start") /\ UNCHANGED stranded
                   \/ UNCHANGED task /\ Strand(r)
           ELSE UNCHANGED <<run, task, stranded>>
        /\ Reply(c)
        /\ UNCHANGED <<left, tokens, lock, written, late, crashes>>

(* UPDATE ... SET running WHERE status = confirmed AND the same token; the *)
(* one request whose UPDATE matches schedules the execution, unless it     *)
(* fails to load the run again after the commit.                           *)
ClaimRun(c) ==
    LET r == request[c].run
    IN  /\ request[c].pc = "claimRun"
        /\ IF run[r].status = "confirmed" /\ run[r].token = request[c].token
           THEN /\ run' = [run EXCEPT ![r].status = "running"]
                /\ \/ Schedule(r, "start") /\ UNCHANGED stranded
                   \/ UNCHANGED task /\ Strand(r)
           ELSE UNCHANGED <<run, task, stranded>>
        /\ Reply(c)
        /\ UNCHANGED <<left, tokens, lock, written, late, crashes>>

Cancel(c, r) ==
    /\ Idle(c)
    /\ run[r].status \in {"validated", "confirmed", "running"}
    /\ request' = [request EXCEPT ![c] = [IdleRequest EXCEPT !.pc = "claimCancel", !.run = r]]
    /\ UNCHANGED <<run, left, tokens, lock, task, written, late, crashes, stranded>>

NotStarted(row) ==
    [row EXCEPT !.status = "cancelled", !.cancel = TRUE, !.old = FALSE,
                !.error = "notStarted"]

(* Faulty variant of ClaimCancel: the UPDATE trusts the loaded status.     *)
ClaimCancelBlindly(c) ==
    LET r == request[c].run
    IN  /\ request[c].pc = "claimCancel"
        /\ IF run[r].status \in {"validated", "confirmed", "running"}
           THEN run' = [run EXCEPT ![r] = NotStarted(run[r])] /\ Reply(c)
           ELSE UNCHANGED run /\ Continue(c, "cancelRunning")
        /\ UNCHANGED <<left, tokens, lock, task, written, late, crashes, stranded>>

(* cancel_run ends a run that did not start; the UPDATE's condition keeps  *)
(* it from calling a started one "no order was written".                   *)
ClaimCancel(c) ==
    LET r == request[c].run
    IN  /\ request[c].pc = "claimCancel"
        /\ IF run[r].status \in {"validated", "confirmed"}
           THEN run' = [run EXCEPT ![r] = NotStarted(run[r])] /\ Reply(c)
           ELSE UNCHANGED run /\ Continue(c, "cancelRunning")
        /\ UNCHANGED <<left, tokens, lock, task, written, late, crashes, stranded>>

CancelRunning(c) ==
    LET r == request[c].run
    IN  /\ request[c].pc = "cancelRunning"
        /\ run' = IF run[r].status = "running" THEN [run EXCEPT ![r].cancel = TRUE] ELSE run
        /\ Reply(c)
        /\ UNCHANGED <<left, tokens, lock, task, written, late, crashes, stranded>>

-----------------------------------------------------------------------------

At(t, pc) == task[t].pc = pc

Goto(t, pc) == task' = [task EXCEPT ![t].pc = pc]

Finish(t) == task' = [task EXCEPT ![t] = IdleTask]

(* UPDATE ... SET status, error, finished_at = now WHERE status = running. *)
EndRunning(r, status, error) ==
    run' = IF run[r].status = "running"
           THEN [run EXCEPT ![r] = [@ EXCEPT !.status = status, !.error = error,
                                             !.old = FALSE]]
           ELSE run

(* validate_import_run: stages the rows, or drops them and fails the run;  *)
(* _mark_run_failed logs an error of its own and leaves the run as it is.  *)
Validate(t) ==
    LET r == task[t].run
    IN  /\ At(t, "validate")
        /\ \/ \E n \in 0..MaxChunks :
                /\ run' = [run EXCEPT ![r].status = "validated", ![r].old = FALSE]
                /\ left' = [left EXCEPT ![r] = n]
           \/ /\ run' = [run EXCEPT ![r].status = "failed", ![r].old = FALSE,
                                    ![r].error = "validation"]
              /\ UNCHANGED left
           \/ UNCHANGED <<run, left>>
        /\ Finish(t)
        /\ UNCHANGED <<tokens, lock, request, written, late, crashes, stranded>>

(* Faulty variant of GetLock: the execution starts whoever has the lock.   *)
GetLockRegardless(t) ==
    /\ At(t, "start")
    /\ lock' = t
    /\ Goto(t, "load")
    /\ UNCHANGED <<run, left, tokens, request, written, late, crashes, stranded>>

(* execute_import_run: SELECT GET_LOCK(name, 0) on its own connection; an  *)
(* error there ends the task and leaves the run running.                   *)
GetLock(t) ==
    /\ At(t, "start")
    /\ \/ /\ IF lock = Nobody THEN lock' = t /\ Goto(t, "load")
                              ELSE UNCHANGED lock /\ Goto(t, "refused")
          /\ UNCHANGED stranded
       \/ UNCHANGED <<run, lock>> /\ Strand(task[t].run) /\ Finish(t)
    /\ UNCHANGED <<run, left, tokens, request, written, late, crashes>>

(* _mark_execution_failed in a session of its own, or its error.           *)
RecordFailure(r, error) ==
    \/ EndRunning(r, "failed", error) /\ UNCHANGED stranded
    \/ UNCHANGED run /\ Strand(r)

MarkRefused(t) ==
    /\ At(t, "refused")
    /\ RecordFailure(task[t].run, "concurrency")
    /\ Finish(t)
    /\ UNCHANGED <<left, tokens, lock, request, written, late, crashes>>

(* Loads the run again, outside the handlers that mark it failed; then the *)
(* version before and the conflict policy.                                 *)
LoadRun(t) ==
    /\ At(t, "load")
    /\ \/ /\ Goto(t, IF run[task[t].run].status = "running" THEN "check" ELSE "release")
          /\ UNCHANGED stranded
       \/ UNCHANGED run /\ Strand(task[t].run) /\ Goto(t, "release")
    /\ UNCHANGED <<run, left, tokens, lock, request, written, late, crashes>>

(* Faulty variants of CheckCancel: the loop ends, but finalization is not  *)
(* told why; only the end of the file ends the loop.                       *)
CheckCancelForgetting(t) ==
    LET r == task[t].run
    IN  /\ At(t, "check")
        /\ Goto(t, IF run[r].cancel \/ left[r] = 0 THEN "finalize" ELSE "chunk")
        /\ UNCHANGED <<run, left, tokens, lock, request, written, late, crashes, stranded>>

CheckCancelNever(t) ==
    LET r == task[t].run
    IN  /\ At(t, "check")
        /\ Goto(t, IF left[r] = 0 THEN "finalize" ELSE "chunk")
        /\ UNCHANGED <<run, left, tokens, lock, request, written, late, crashes, stranded>>

(* _is_cancel_requested and the SELECT of the next chunk, in one snapshot; *)
(* both find nothing of a deleted run.                                     *)
CheckCancel(t) ==
    LET r         == task[t].run
        cancelled == run[r].cancel /\ run[r].status # "deleted"
    IN  /\ At(t, "check")
        /\ task' = [task EXCEPT
                      ![t].cancelled = cancelled,
                      ![t].pc = IF cancelled \/ left[r] = 0 THEN "finalize" ELSE "chunk"]
        /\ UNCHANGED <<run, left, tokens, lock, request, written, late, crashes, stranded>>

(* _execute_chunk commits the orders of the rows it has in memory, even if *)
(* the run is deleted in the meantime.                                     *)
ExecuteChunk(t) ==
    LET r == task[t].run
    IN  /\ At(t, "chunk")
        /\ left' = [left EXCEPT ![r] = IF @ = 0 THEN 0 ELSE @ - 1]
        /\ written' = [written EXCEPT ![r] = @ + 1]
        /\ late' = IF run[r].cancel THEN [late EXCEPT ![r] = @ + 1] ELSE late
        /\ Goto(t, "check")
        /\ UNCHANGED <<run, tokens, lock, request, crashes, stranded>>

(* Any statement of the execution may raise; its transaction rolls back.   *)
ExecutionError(t) ==
    /\ task[t].pc \in {"check", "chunk", "finalize"}
    /\ Goto(t, "failed")
    /\ UNCHANGED <<run, left, tokens, lock, request, written, late, crashes, stranded>>

(* Faulty variant of MarkFailed: the failure is only logged.               *)
MarkFailedInLogOnly(t) ==
    /\ At(t, "failed")
    /\ Goto(t, "release")
    /\ UNCHANGED <<run, left, tokens, lock, request, written, late, crashes, stranded>>

(* The two handlers around _execute_run; finally frees the lock also when  *)
(* they raise.                                                             *)
MarkFailed(t) ==
    /\ At(t, "failed")
    /\ RecordFailure(task[t].run, "execution")
    /\ Goto(t, "release")
    /\ UNCHANGED <<left, tokens, lock, request, written, late, crashes>>

(* _finalize_execution: the consistency check comes first, then cancelled, *)
(* then completed; loading the run again after the commit may still raise. *)
Finalize(t) ==
    /\ At(t, "finalize")
    /\ \/ EndRunning(task[t].run, "failed", "consistency")
       \/ IF task[t].cancelled THEN EndRunning(task[t].run, "cancelled", "cancelled")
                               ELSE EndRunning(task[t].run, "completed", "")
    /\ Goto(t, "release") \/ Goto(t, "failed")
    /\ UNCHANGED <<left, tokens, lock, request, written, late, crashes, stranded>>

ReleaseLock(t) ==
    /\ At(t, "release")
    /\ lock' = Nobody
    /\ Finish(t)
    /\ UNCHANGED <<run, left, tokens, request, written, late, crashes, stranded>>

-----------------------------------------------------------------------------

(* The retention period of a run ends; confirming or starting the run does *)
(* not move finished_at, the end of its validation.                        *)
Age(r) ==
    /\ run[r].status \in {"validated", "confirmed"} \cup Ended
    /\ ~run[r].old
    /\ run' = [run EXCEPT ![r].old = TRUE]
    /\ UNCHANGED <<left, tokens, lock, request, task, written, late, crashes, stranded>>

(* The process dies: requests and tasks are gone, MySQL frees the lock of  *)
(* their connections, and no one takes the tasks up again.                 *)
Crash ==
    /\ crashes < MaxCrashes
    /\ crashes' = crashes + 1
    /\ request' = [c \in Clients |-> IdleRequest]
    /\ task' = [t \in Tasks |-> IdleTask]
    /\ lock' = Nobody
    /\ UNCHANGED <<run, left, tokens, written, late, stranded>>

Handle(c) ==
    \/ DeleteExpired(c)
    \/ CreateRun(c)
    \/ ClaimConfirm(c)
    \/ Probe(c)
    \/ ReleaseProbe(c)
    \/ ClaimRun(c)
    \/ ClaimCancel(c)
    \/ CancelRunning(c)

Perform(t) ==
    \/ Validate(t)
    \/ GetLock(t)
    \/ MarkRefused(t)
    \/ LoadRun(t)
    \/ CheckCancel(t)
    \/ ExecuteChunk(t)
    \/ ExecutionError(t)
    \/ MarkFailed(t)
    \/ Finalize(t)
    \/ ReleaseLock(t)

Next ==
    \/ \E c \in Clients :
         \/ Upload(c)
         \/ \E r \in Runs : Confirm(c, r) \/ Execute(c, r) \/ Cancel(c, r)
         \/ Handle(c)
    \/ \E t \in Tasks : Perform(t)
    \/ \E r \in Runs : Age(r)
    \/ Crash

Spec == Init /\ [][Next]_vars

(* The event loop runs every task that has something left to do; nothing   *)
(* is promised of clients.                                                 *)
FairSpec == Spec /\ \A t \in Tasks : WF_vars(Perform(t))

-----------------------------------------------------------------------------

Holding(t) == task[t].pc \in {"load", "check", "chunk", "finalize", "failed", "release"}

(* "The named lock makes executions exclusive": whoever executes holds it, *)
(* no probe or second execution takes or frees it meanwhile, and no run is *)
(* executed by two tasks.                                                  *)
OneImportAtATime ==
    /\ \A t \in Tasks : Holding(t) => lock = t
    /\ \A t, u \in Tasks : task[t].run = task[u].run /\ task[t].run # NoRun => t = u

(* A cancellation that says no order was written is right, and stays so    *)
(* (cancel_run's comment on its conditional UPDATE).                       *)
NotStartedWroteNothing ==
    \A r \in Runs : run[r].error = "notStarted" =>
        /\ written[r] = 0
        /\ \A t \in Tasks : task[t].run # r

(* After a cancel request at most the chunk under way is committed         *)
(* ("cancelling only stops the chunks that follow").                       *)
CancelStopsTheNextChunk == \A r \in Runs : late[r] <= 1

(* A completed run has written every chunk its validation staged.          *)
CompletedRunsAreComplete ==
    \A r \in Runs : run[r].status = "completed" => left[r] = 0

(* A run that has ended keeps its verdict, whatever requests and tasks     *)
(* that loaded it earlier still do; it can only be cleaned up.             *)
EndedRunsAreFinal ==
    [][\A r \in Runs : run[r].status \in Ended =>
         \/ run'[r].status = "deleted"
         \/ run'[r].status = run[r].status /\ run'[r].error = run[r].error]_vars

(* A run is started by a request that presented its latest token, even if  *)
(* a confirmation rotated the token while the request was under way.       *)
LatestTokenStarts ==
    [][\A r \in Runs : run[r].status # "running" /\ run'[r].status = "running" =>
         \E c \in Clients : /\ request[c].pc = "claimRun" /\ request[c].run = r
                            /\ request[c].token = run[r].token]_vars

(* A run that was started ends, unless the process crashes or a statement  *)
(* no handler covers raises: loading the run after the claim, connecting   *)
(* and GET_LOCK, opening the session, _mark_execution_failed itself.       *)
(* Whatever raises, the named lock is given back afterwards.               *)
StartedRunsEnd ==
    \A r \in Runs : run[r].status = "running" ~>
        \/ crashes > 0
        \/ /\ run[r].status \in Ended \cup {"deleted"} \/ r \in stranded
           /\ lock \notin Tasks

(* "Runs being validated or executed are never deleted"                    *)
(* (cleanup_expired_imports' docstring).                                   *)
ActiveRunsAreKept ==
    \A t \in Tasks : task[t].pc \in {"validate", "check", "chunk", "finalize"} =>
        run[task[t].run].status # "deleted"
=============================================================================
