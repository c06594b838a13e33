-------------------------- MODULE ContainerTeardown --------------------------
(***************************************************************************)
(* deleteContainer (src/pkg/scheme/core/v1/k8s/utils.go): kill and remove *)
(* every container of a containerd namespace during uninstall.  For each   *)
(* listed container: look its task up (an error means "no task, move on"), *)
(* subscribe to its exit (Wait), SIGKILL it (NotFound: skip to the next    *)
(* container), block on the exit channel, delete the task (errors ignored) *)
(* and delete the container (errors ignored).                              *)
(*                                                                         *)
(* containerd runs concurrently: tasks exit on their own or after the      *)
(* kill, and other clients may delete exited tasks and task-less           *)
(* containers at any moment.  An RPC named in FailingCalls may in addition *)
(* fail for reasons outside the model (connection, context).               *)
(***************************************************************************)
EXTENDS Integers, Sequences, SequencesExt, FiniteSets

CONSTANTS
    Containers,     \* the containers of the namespace when uninstall starts
    FailingCalls    \* RPCs that may fail spuriously, a subset of Calls

Calls == {"New", "Containers", "Task", "Kill", "Result", "DeleteTask", "DeleteCtr"}

ASSUME FailingCalls \subseteq Calls

TaskStates == {"none", "running", "stopped"}

VARIABLES
    ctrExists,   \* containerd: container object present
    task,        \* containerd: state of the container's task
    killed,      \* containerd: SIGKILL delivered to the task
    ctrs,        \* the list client.Containers returned
    k,           \* loop index into ctrs
    pc,          \* where deleteContainer is
    failedAt,    \* the call whose error deleteContainer returned
    waitRPC,     \* the Wait RPC behind exitStatusC: idle, pending, subscribed, exited, error
    lookupFailed \* history: containers whose ctr.Task failed while they had a task

env  == <<ctrExists, task, killed>>
vars == <<ctrExists, task, killed, ctrs, k, pc, failedAt, waitRPC, lookupFailed>>

Cur == ctrs[k]

Fails(call) == call \in FailingCalls

-----------------------------------------------------------------------------
Init ==
    /\ ctrExists = [c \in Containers |-> TRUE]
    /\ task \in [Containers -> TaskStates]
    /\ killed = [c \in Containers |-> FALSE]
    /\ ctrs = <<>>
    /\ k = 1
    /\ pc = "connect"
    /\ failedAt = "none"
    /\ waitRPC = "idle"
    /\ lookupFailed = {}

Fail(call) ==
    /\ pc' = "failed"
    /\ failedAt' = call
    /\ UNCHANGED <<env, ctrs, k, waitRPC, lookupFailed>>

\* containerd.New: return err on failure.
Connect ==
    /\ pc = "connect"
    /\ \/ /\ pc' = "list"
          /\ UNCHANGED <<env, ctrs, k, failedAt, waitRPC, lookupFailed>>
       \/ Fails("New") /\ Fail("New")

\* client.Containers(ctx): the snapshot the loop walks.
List ==
    /\ pc = "list"
    /\ \/ /\ ctrs' = SetToSeq({c \in Containers : ctrExists[c]})
          /\ k' = 1
          /\ pc' = "task"
          /\ UNCHANGED <<env, failedAt, waitRPC, lookupFailed>>
       \/ Fails("Containers") /\ Fail("Containers")

LoopDone ==
    /\ pc = "task"
    /\ k > Len(ctrs)
    /\ pc' = "done"
    /\ UNCHANGED <<env, ctrs, k, failedAt, waitRPC, lookupFailed>>

\* mutant: the error path advances the loop itself before falling through
\* to ctr.Delete, which advances it again.
IndexAfterTaskErrorTwice(i) == i + 1

\* The error path leaves the index to ctr.Delete.
IndexAfterTaskError(i) == i

\* ctr.Task(ctx, nil): with a task, go on to Wait; on any error (no task,
\* container gone, or a failing RPC) warn and go straight to ctr.Delete.
GetTask ==
    /\ pc = "task"
    /\ k <= Len(ctrs)
    /\ \/ /\ ctrExists[Cur] /\ task[Cur] # "none"
          /\ pc' = "wait" /\ UNCHANGED <<k, lookupFailed>>
       \/ /\ ctrExists[Cur] => task[Cur] = "none" \/ Fails("Task")
          /\ pc' = "deleteCtr" /\ k' = IndexAfterTaskError(k)
          /\ lookupFailed' = IF ctrExists[Cur] /\ task[Cur] # "none"
                                THEN lookupFailed \cup {Cur} ELSE lookupFailed
    /\ UNCHANGED <<env, ctrs, failedAt, waitRPC>>

\* task.Wait(ctx): the client returns the channel and a nil error at once
\* and issues the Wait RPC from a goroutine (WaitServed), so the error
\* branch after it is never taken.
Wait ==
    /\ pc = "wait"
    /\ pc' = "kill"
    /\ waitRPC' = "pending"
    /\ UNCHANGED <<env, ctrs, k, failedAt, lookupFailed>>

\* mutant: the errdefs.IsNotFound test is dropped, every kill error continues.
KillContinuesAnyError(c) == task[c] # "running" \/ Fails("Kill")

\* errdefs.IsNotFound(err): the task has exited or is gone.
KillContinues(c) == task[c] # "running"

\* mutant: a signal the task may ignore is sent instead of SIGKILL.
SignalIgnored(kd, c) == kd

\* SIGKILL reaches the task.
Signalled(kd, c) == [kd EXCEPT ![c] = TRUE]

\* task.Kill(ctx, SIGKILL): a task that has already exited or been deleted
\* answers NotFound and the loop continues with the next container (skipping
\* task and container deletion); any other error is returned.
Kill ==
    /\ pc = "kill"
    /\ \/ /\ task[Cur] = "running"
          /\ killed' = Signalled(killed, Cur)
          /\ pc' = "recv"
          /\ UNCHANGED <<ctrExists, task, ctrs, k, failedAt, waitRPC, lookupFailed>>
       \/ /\ KillContinues(Cur)
          /\ k' = k + 1
          /\ pc' = "task"
          /\ waitRPC' = "idle"      \* nothing reads the abandoned channel
          /\ UNCHANGED <<env, ctrs, failedAt, lookupFailed>>
       \/ Fails("Kill") /\ Fail("Kill")

\* status := <-exitStatusC blocks until the Wait RPC has answered;
\* status.Result() returns its error, or fails spuriously.
Recv ==
    /\ pc = "recv"
    /\ waitRPC \in {"exited", "error"}
    /\ \/ /\ waitRPC = "exited"
          /\ pc' = "deleteTask"
          /\ UNCHANGED <<env, ctrs, k, failedAt, waitRPC, lookupFailed>>
       \/ (waitRPC = "error" \/ Fails("Result")) /\ Fail("Result")

\* task.Delete(ctx): an error is logged and ignored.
DeleteTask ==
    /\ pc = "deleteTask"
    /\ \/ /\ task[Cur] = "stopped"
          /\ task' = [task EXCEPT ![Cur] = "none"]
       \/ /\ task[Cur] # "stopped" \/ Fails("DeleteTask")
          /\ UNCHANGED task
    /\ pc' = "deleteCtr"
    /\ UNCHANGED <<ctrExists, killed, ctrs, k, failedAt, waitRPC, lookupFailed>>

\* ctr.Delete(ctx): containerd refuses while a task exists; an error is
\* logged and the loop continues.
DeleteCtr ==
    /\ pc = "deleteCtr"
    /\ \/ /\ ctrExists[Cur] /\ task[Cur] = "none"
          /\ ctrExists' = [ctrExists EXCEPT ![Cur] = FALSE]
       \/ /\ ~ctrExists[Cur] \/ task[Cur] # "none" \/ Fails("DeleteCtr")
          /\ UNCHANGED ctrExists
    /\ k' = k + 1
    /\ pc' = "task"
    /\ UNCHANGED <<task, killed, ctrs, failedAt, waitRPC, lookupFailed>>

Returned ==
    /\ pc \in {"done", "failed"}
    /\ UNCHANGED vars

\* The Wait RPC reaches containerd: a task that no longer exists is an
\* error; otherwise the waiter is subscribed to the task's exit.
WaitServed ==
    /\ waitRPC = "pending"
    /\ waitRPC' = IF task[Cur] = "none" THEN "error" ELSE "subscribed"
    /\ UNCHANGED <<env, ctrs, k, pc, failedAt, lookupFailed>>

\* A subscribed waiter is answered once the task has exited.
WaitAnswered ==
    /\ waitRPC = "subscribed"
    /\ task[Cur] # "running"
    /\ waitRPC' = "exited"
    /\ UNCHANGED <<env, ctrs, k, pc, failedAt, lookupFailed>>

-----------------------------------------------------------------------------
(* containerd and its other clients.                                       *)

\* A running task exits: on its own, or because SIGKILL was delivered.
TaskExit(c) ==
    /\ task[c] = "running"
    /\ task' = [task EXCEPT ![c] = "stopped"]
    /\ UNCHANGED <<ctrExists, killed, ctrs, k, pc, failedAt, waitRPC, lookupFailed>>

\* Another client deletes an exited task.
OtherDeletesTask(c) ==
    /\ task[c] = "stopped"
    /\ task' = [task EXCEPT ![c] = "none"]
    /\ UNCHANGED <<ctrExists, killed, ctrs, k, pc, failedAt, waitRPC, lookupFailed>>

\* Another client deletes a container that has no task.
OtherDeletesCtr(c) ==
    /\ ctrExists[c] /\ task[c] = "none"
    /\ ctrExists' = [ctrExists EXCEPT ![c] = FALSE]
    /\ UNCHANGED <<task, killed, ctrs, k, pc, failedAt, waitRPC, lookupFailed>>

Teardown ==
    Connect \/ List \/ LoopDone \/ GetTask \/ Wait \/ Kill \/ Recv \/ DeleteTask \/ DeleteCtr

WaitGoroutine == WaitServed \/ WaitAnswered

Environment ==
    \E c \in Containers : TaskExit(c) \/ OtherDeletesTask(c) \/ OtherDeletesCtr(c)

Next == Teardown \/ WaitGoroutine \/ Environment \/ Returned

\* deleteContainer and its Wait goroutine are scheduled until they block,
\* containerd answers RPCs, and the kernel ends a task that SIGKILL was
\* delivered to.
Fairness ==
    /\ WF_vars(Teardown)
    /\ WF_vars(WaitGoroutine)
    /\ \A c \in Containers : WF_vars(killed[c] /\ TaskExit(c))

Spec == Init /\ [][Next]_vars /\ Fairness

-----------------------------------------------------------------------------
(* Properties                                                              *)

TypeOK ==
    /\ ctrExists \in [Containers -> BOOLEAN]
    /\ task \in [Containers -> TaskStates]
    /\ killed \in [Containers -> BOOLEAN]
    /\ ctrs \in Seq(Containers)
    /\ k \in 1..(Len(ctrs) + 1)
    /\ pc \in {"wait", "kill", "recv", "deleteTask", "deleteCtr"} => k \in 1..Len(ctrs)
    /\ pc \in {"connect", "list", "task", "wait", "kill", "recv", "deleteTask",
               "deleteCtr", "done", "failed"}
    /\ failedAt \in {"none"} \cup Calls
    /\ waitRPC \in {"idle", "pending", "subscribed", "exited", "error"}
    /\ lookupFailed \subseteq Containers

\* When deleteContainer returns nil, a task of a listed container is still
\* running only if ctr.Task failed for it while the task existed (the
\* warning "it may has not task at all" and the move on, spec section 8):
\* whatever containerd and its other clients did in between, every other
\* running task was killed and its exit observed, or had already exited.
NoRunningTaskAfterSuccess ==
    pc = "done" => \A c \in ToSet(ctrs) : task[c] = "running" => c \in lookupFailed

\* deleteContainer always returns: the receive on the exit channel cannot
\* block forever once SIGKILL has been delivered.
TeardownReturns ==
    <>(pc \in {"done", "failed"})

\* Violated: deleteContainer returns an error only when client creation,
\* listing, or a kill (other than NotFound) fails; a task that disappears
\* is tolerated as already torn down.
FailsOnlyOnKill ==
    pc = "failed" => failedAt \in {"New", "Containers", "Kill"}

=============================================================================
