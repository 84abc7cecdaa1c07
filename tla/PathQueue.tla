------------------------------- MODULE PathQueue -------------------------------
(***************************************************************************)
(* The queue in which the file operations of the SFTP tabs wait for their  *)
(* paths (src/stores/transferStore.ts), the rows of the transfer list, and *)
(* the tasks that run when they are granted (hooks/useSftpConnection.ts,   *)
(* hooks/useSftpPaneActions.ts, components/sftp/index.tsx).                *)
(*                                                                         *)
(* One renderer runs everything here: an action is what one event of its   *)
(* loop does (a click, an answer of the core, a timer).  A granted task    *)
(* starts as a microtask, before any other event: see Quiet.  The commands *)
(* the tasks invoke run in the core and end when they like.                *)
(***************************************************************************)
EXTENDS Naturals, Sequences

LOCAL INSTANCE SequencesExt

CONSTANTS
  Op,           \* the operations, by operationId
  Owner,        \* the SFTP tabs that own them
  KindOf,       \* "batch" (upload, download), "copy", "delete" or "rename"
  OwnerOf,
  Dropped,      \* the operations of batches dropped while another batch ran
  Scope,        \* the paths of an operation: <<connection, name, ...>>
  RetryCount,   \* sftpRetryCount, a setting
  MaxRequests,  \* bound: requests put to the queue
  MaxCancels    \* bound: cancel calls

Kinds == {"batch", "copy", "delete", "rename"}
Seqno == 1..MaxRequests

ASSUME QueueAssumption ==
  /\ Op # {} /\ KindOf \in [Op -> Kinds]
  /\ OwnerOf \in [Op -> Owner]
  /\ Dropped \subseteq {op \in Op : KindOf[op] \in {"batch", "copy"}}
  /\ DOMAIN Scope = Op
  /\ RetryCount \in Nat /\ MaxRequests \in Nat /\ MaxCancels \in Nat

VARIABLES
  row,       \* operations: what the list shows of an operation, see Rows
  request,   \* queuedPathOperations and the tasks, by sequence number
  last,      \* nextPathOperationSequence
  closed,    \* closedPathOwners
  calls,     \* the operations whose cancel() has not returned
  progress,  \* the progress event that is on its way, or NoEvent
  cancels    \* how many calls there have been

vars == <<row, request, last, closed, calls, progress, cancels>>

-----------------------------------------------------------------------------
(* Rows.  "full" says completedSteps >= totalSteps > 0.                    *)

Absent == [status |-> "absent", full |-> FALSE]
Fresh  == [status |-> "running", full |-> FALSE]

Rows ==
  [status : {"absent", "pending", "running", "cancelling", "failed",
             "completed", "cancelled"},
   full : BOOLEAN]

NoEvent == [op |-> "none"]

Complete(op, rw) ==
  \/ rw.status = "completed"
  \/ rw.status = "running" /\ rw.full /\ KindOf[op] # "delete"

(* isTransferActive, of the rows that have paths: a pending row has none.  *)
Active(op, rw) ==
  rw.status \in {"running", "cancelling"} /\ ~Complete(op, rw)

Mark(op, status) ==
  [row EXCEPT ![op] =
     IF @.status = "absent" THEN @
     ELSE [status |-> status,
           full |-> IF status = "completed" THEN TRUE ELSE @.full]]

(* Mutant: a row the user cancelled is left to the cancel command.         *)
SettledByCommand(op, status) ==
  IF row[op].status = "cancelling" THEN row ELSE Mark(op, status)

(* The row a task finds when it ends: a row the user cancelled reads       *)
(* cancelling, whatever became of the command.                             *)
Settled(op, status) ==
  Mark(op, IF row[op].status = "cancelling" THEN "cancelled" ELSE status)

-----------------------------------------------------------------------------
(* Paths and requests.                                                     *)

(* The root is normalized to "/", and no path starts with "//".            *)
Covers(a, b) == Len(a) > 1 /\ IsStrictPrefix(a, b)

PathsOverlap(a, b) == a = b \/ Covers(a, b) \/ Covers(b, a)

Conflicts ==
  {pair \in Op \X Op :
     \E a \in Scope[pair[1]], b \in Scope[pair[2]] : PathsOverlap(a, b)}

(* pathScopesOverlap, and scopeHasActiveOperation for the scope of a row.  *)
Overlap(op, other) == <<op, other>> \in Conflicts

Running == {"command", "backoff", "settling"}

Requests ==
  [op : Op,
   again : BOOLEAN,     \* a retry
   phase : {"none", "queued", "granted", "gone"} \cup Running,
   attempt : 0..RetryCount + 1]  \* of runWithConfiguredRetries

Holds(rq)   == rq.phase \in {"granted"} \cup Running
InQueue(rq) == rq.phase = "queued" \/ Holds(rq)

(* Mutant: a granted request no longer counts; its row does.               *)
CanGrantByRows(r, reqs, rows) ==
  /\ \A op \in Op : Active(op, rows[op]) => ~Overlap(op, reqs[r].op)
  /\ \A s \in Seqno \ {r} :
       reqs[s].phase = "queued" /\ s < r => ~Overlap(reqs[s].op, reqs[r].op)

(* Mutant: only a granted request is in the way of a later one.            *)
CanGrantUnordered(r, reqs, rows) ==
  /\ \A op \in Op : Active(op, rows[op]) => ~Overlap(op, reqs[r].op)
  /\ \A s \in Seqno \ {r} : Holds(reqs[s]) => ~Overlap(reqs[s].op, reqs[r].op)

CanGrant(r, reqs, rows) ==
  /\ \A op \in Op : Active(op, rows[op]) => ~Overlap(op, reqs[r].op)
  /\ \A s \in Seqno \ {r} :
       InQueue(reqs[s]) /\ (Holds(reqs[s]) \/ s < r) => ~Overlap(reqs[s].op, reqs[r].op)

(* drainPathOperations scans the queue once.  A grant made during the scan *)
(* only denies later requests that overlap it, which its mere presence     *)
(* denied before: all requests may be judged in the state the scan finds.  *)
Drain(reqs, rows) ==
  [r \in Seqno |->
     IF reqs[r].phase = "queued" /\ CanGrant(r, reqs, rows)
     THEN [reqs[r] EXCEPT !.phase = "granted"] ELSE reqs[r]]

Gone(rq) == [rq EXCEPT !.phase = "gone", !.attempt = 0]

(* cancelQueuedPathOperations: granted requests stay.                      *)
Without(out) ==
  [r \in Seqno |->
     IF request[r].phase = "queued" /\ r \in out
     THEN Gone(request[r]) ELSE request[r]]

Push(op, again) ==
  [request EXCEPT ![last + 1] =
     [op |-> op, again |-> again, phase |-> "queued", attempt |-> 0]]

To(r, phase) == [request EXCEPT ![r].phase = phase]

(* No granted task waits to start: the microtasks have all run.            *)
Quiet == \A r \in Seqno : request[r].phase # "granted"

Init ==
  /\ row = [op \in Op |-> Absent]
  /\ request \in [Seqno -> {[op |-> CHOOSE op \in Op : TRUE, again |-> FALSE,
                             phase |-> "none", attempt |-> 0]}]
  /\ last = 0 /\ cancels = 0
  /\ closed = {} /\ calls = {}
  /\ progress = NoEvent

-----------------------------------------------------------------------------
(* The user.                                                               *)

Submitted(op) == \E r \in 1..last : request[r].op = op

(* enqueueUploadBatch, behind another batch: a row without paths.          *)
Enqueue(op) ==
  /\ Quiet /\ op \in Dropped
  /\ row[op] = Absent /\ ~Submitted(op) /\ OwnerOf[op] \notin closed
  /\ row' = [row EXCEPT ![op] = [status |-> "pending", full |-> FALSE]]
  /\ request' = Drain(request, row')
  /\ UNCHANGED <<last, closed, calls, progress, cancels>>

(* runPathOperation, which does nothing for a closed owner.  A batch that  *)
(* was cancelled while it was pending never gets here.                     *)
Submit(op) ==
  /\ Quiet /\ ~Submitted(op) /\ last < MaxRequests
  /\ op \in Dropped => row[op].status = "pending"
  /\ OwnerOf[op] \notin closed
  /\ last' = last + 1
  /\ request' = Drain(Push(op, FALSE), row)
  /\ UNCHANGED <<row, closed, calls, progress, cancels>>

(* retryOperation, of a failed row.  retryingOperationIds is the set of    *)
(* operations with a retry in the queue.                                   *)
Retry(op) ==
  /\ Quiet /\ last < MaxRequests
  /\ row[op].status = "failed" /\ KindOf[op] \in {"batch", "copy"}
  /\ ~\E r \in Seqno : request[r].op = op /\ request[r].again /\ InQueue(request[r])
  /\ OwnerOf[op] \notin closed
  /\ last' = last + 1
  /\ request' = Drain(Push(op, TRUE), row)
  /\ UNCHANGED <<row, closed, calls, progress, cancels>>

RunsOf(op) == {r \in Seqno : request[r].op = op /\ Holds(request[r])}

(* cancelOperation of a running row.  It does not touch the revision, so   *)
(* nothing is drained.                                                     *)
CancelRunning(op) ==
  /\ Quiet /\ cancels < MaxCancels /\ op \notin calls
  /\ row[op].status = "running" /\ ~Complete(op, row[op])
  /\ cancels' = cancels + 1
  /\ row' = [row EXCEPT ![op].status = "cancelling"]
  /\ calls' = calls \cup {op}
  /\ UNCHANGED <<request, last, closed, progress>>

(* The cancel command flips a flag in the core, which may show as an error *)
(* reply of the running command; or the call itself fails.                 *)
CancelReturns(op) ==
  /\ Quiet /\ op \in calls
  /\ calls' = calls \ {op}
  /\ UNCHANGED <<row, request, last, closed, progress, cancels>>

CancelFails(op) ==
  /\ Quiet /\ op \in calls
  /\ calls' = calls \ {op}
  /\ row' = Mark(op, "failed")
  /\ request' = Drain(request, row')
  /\ UNCHANGED <<last, closed, progress, cancels>>

(* Mutant: the request of a discarded row stays in the queue.              *)
DiscardRow(op) ==
  /\ Quiet /\ row[op].status # "absent"
  /\ row' = [row EXCEPT ![op] = Absent]
  /\ request' = Drain(request, row')
  /\ UNCHANGED <<last, closed, calls, progress, cancels>>

(* removeOperation: the user discards the row, cancels a pending one, or a *)
(* timer dismisses a completed one.  A running task goes on.               *)
Discard(op) ==
  /\ Quiet /\ row[op].status # "absent"
  /\ row' = [row EXCEPT ![op] = Absent]
  /\ request' = Drain(Without({r \in Seqno : request[r].op = op}), row')
  /\ UNCHANGED <<last, closed, calls, progress, cancels>>

(* Mutant: the queue is not drained when requests are taken out of it.     *)
CloseUndrained(owner) ==
  /\ Quiet /\ owner \notin closed
  /\ closed' = closed \cup {owner}
  /\ row' = [op \in Op |-> IF OwnerOf[op] = owner /\ row[op].status = "pending"
                           THEN Absent ELSE row[op]]
  /\ request' = Without({r \in Seqno : OwnerOf[request[r].op] = owner})
  /\ UNCHANGED <<last, calls, progress, cancels>>

(* removeConnection: cancelQueuedPathOperationsForOwner and the handlers   *)
(* of its batches, which remove their pending rows.                        *)
Close(owner) ==
  /\ Quiet /\ owner \notin closed
  /\ closed' = closed \cup {owner}
  /\ row' = [op \in Op |-> IF OwnerOf[op] = owner /\ row[op].status = "pending"
                           THEN Absent ELSE row[op]]
  /\ request' = Drain(Without({r \in Seqno : OwnerOf[request[r].op] = owner}), row')
  /\ UNCHANGED <<last, calls, progress, cancels>>

-----------------------------------------------------------------------------
(* The tasks.                                                              *)

(* addOperation and the first command; a retry of a copy only marks its    *)
(* row running and keeps the counters.  A rename has no row.               *)
Start(r) ==
  LET op == request[r].op IN
  /\ request[r].phase = "granted"
  /\ row' = CASE KindOf[op] = "rename" -> row
              [] KindOf[op] = "copy" /\ request[r].again -> Mark(op, "running")
              [] OTHER -> [row EXCEPT ![op] = Fresh]
  /\ request' = Drain([To(r, "command") EXCEPT ![r].attempt = 1], row')
  /\ UNCHANGED <<last, closed, calls, progress, cancels>>

(* The core emits progress while the command runs.  An event may be        *)
(* delivered after the reply, and after what the reply led to.  Bound: one *)
(* event is on its way at a time.                                          *)
CoreEmits(r, full) ==
  LET op == request[r].op IN
  /\ Quiet /\ request[r].phase = "command" /\ KindOf[op] # "rename"
  /\ progress = NoEvent
  /\ progress' = [op |-> op, full |-> full]
  /\ UNCHANGED <<row, request, last, closed, calls, cancels>>

(* updateOperationProgress: a completed row is left alone, and the queue   *)
(* is drained only when the counters gave the paths up or took them.       *)
Deliver(op) ==
  /\ Quiet /\ progress # NoEvent /\ progress.op = op
  /\ progress' = NoEvent
  /\ row' = IF row[op].status \in {"absent", "completed"} THEN row
            ELSE [row EXCEPT ![op].full = progress.full]
  /\ request' = IF Active(op, row[op]) # Active(op, row'[op])
                THEN Drain(request, row') ELSE request
  /\ UNCHANGED <<last, closed, calls, cancels>>

(* Mutant: the request leaves the queue, and nothing looks at the others.  *)
FinishUndrained(r, rows) ==
  /\ row' = rows
  /\ request' = [request EXCEPT ![r] = Gone(@)]

(* The end of a task: its row is marked, its request leaves the queue.     *)
Finish(r, rows) ==
  /\ row' = rows
  /\ request' = Drain([request EXCEPT ![r] = Gone(@)], rows)

(* A task that still lists the directory holds its paths meanwhile.        *)
Settling(r, rows) ==
  /\ row' = rows
  /\ request' = Drain(To(r, "settling"), rows)

(* uploadLocalPaths and downloadRemotePaths: what failed is tried again.   *)
(* When "some" items failed, addOperation shows the rest as running before *)
(* shouldRetry looks at the row.                                           *)
BatchReturns(r, reply) ==
  LET op   == request[r].op
      rows == IF reply = "some" THEN [row EXCEPT ![op] = Fresh] ELSE row IN
  \/ reply = "ok" /\ Finish(r, Settled(op, "completed"))
  \/ /\ reply # "ok" /\ rows[op].status = "cancelling"
     /\ Finish(r, Mark(op, "cancelled"))
  \/ /\ reply # "ok" /\ rows[op].status # "cancelling"
     /\ request[r].attempt <= RetryCount
     /\ row' = rows
     /\ request' = Drain(To(r, "backoff"), rows)
  \/ /\ reply # "ok" /\ rows[op].status # "cancelling"
     /\ request[r].attempt > RetryCount
     /\ Finish(r, [rows EXCEPT ![op] = IF @ = Absent THEN @
                                       ELSE [@ EXCEPT !.status = "failed"]])

(* deleteRemotePaths, runCopy and renameRemotePath: a success is shown as  *)
(* one even when the user had cancelled.  The directory is listed after a  *)
(* success, and after a deletion in every case.                            *)
SingleReturns(r, reply) ==
  LET op == request[r].op IN
  \/ reply = "ok" /\ Settling(r, Mark(op, "completed"))
  \/ reply = "error" /\ KindOf[op] = "delete" /\ Settling(r, Settled(op, "failed"))
  \/ reply = "error" /\ KindOf[op] # "delete" /\ Finish(r, Settled(op, "failed"))

(* The reply of a command reaches the task.  It may be any reply whether   *)
(* the user has cancelled or not: the core may have answered already.      *)
CommandReturns(r, reply) ==
  /\ Quiet /\ request[r].phase = "command"
  /\ IF KindOf[request[r].op] = "batch"
     THEN BatchReturns(r, reply) ELSE SingleReturns(r, reply)
  /\ UNCHANGED <<last, closed, calls, progress, cancels>>

(* Mutant: an attempt is counted twice.                                    *)
BackoffTwice(r) ==
  /\ Quiet /\ request[r].phase = "backoff"
  /\ request' = [To(r, "command") EXCEPT ![r].attempt = @ + 2]
  /\ UNCHANGED <<row, last, closed, calls, progress, cancels>>

(* runWithConfiguredRetries between two attempts.                          *)
Backoff(r) ==
  LET op == request[r].op IN
  /\ Quiet /\ request[r].phase = "backoff"
  /\ \/ row[op].status = "cancelling" /\ Finish(r, Mark(op, "cancelled"))
     \/ /\ row[op].status # "cancelling"
        /\ request' = [To(r, "command") EXCEPT ![r].attempt = @ + 1]
        /\ UNCHANGED row
  /\ UNCHANGED <<last, closed, calls, progress, cancels>>

Settle(r) ==
  /\ Quiet /\ request[r].phase = "settling"
  /\ Finish(r, row)
  /\ UNCHANGED <<last, closed, calls, progress, cancels>>

-----------------------------------------------------------------------------

Next ==
  \/ \E op \in Op :
       \/ Enqueue(op) \/ Submit(op) \/ Retry(op) \/ Discard(op)
       \/ CancelRunning(op) \/ CancelReturns(op) \/ CancelFails(op) \/ Deliver(op)
  \/ \E owner \in Owner : Close(owner)
  \/ \E r \in Seqno :
       \/ Start(r) \/ Backoff(r) \/ Settle(r)
       \/ \E reply \in {"ok", "some", "error"} : CommandReturns(r, reply)
       \/ \E full \in BOOLEAN : CoreEmits(r, full)

Spec == Init /\ [][Next]_vars

(* Microtasks run, commands return, timers fire, directories are listed.   *)
(* Nothing is assumed of the user, of progress or of cancel calls.         *)
Fairness ==
  \A r \in Seqno :
    WF_vars(\/ Start(r) \/ Backoff(r) \/ Settle(r)
            \/ \E reply \in {"ok", "error"} : CommandReturns(r, reply))

FairSpec == Spec /\ Fairness

-----------------------------------------------------------------------------
(* Properties.                                                             *)

(* Every variable keeps its type. *)
TypeOK ==
  /\ row \in [Op -> Rows]
  /\ request \in [Seqno -> Requests]
  /\ last \in 0..MaxRequests /\ cancels \in 0..MaxCancels
  /\ closed \subseteq Owner /\ calls \subseteq Op
  /\ progress = NoEvent \/ progress \in [op : Op, full : BOOLEAN]

(* Tasks whose paths overlap never run at the same time, whatever became   *)
(* of their rows: discarded while running, marked failed because the       *)
(* cancel call failed, or complete by a counter before the command ended.  *)
Exclusive ==
  \A r, s \in Seqno :
    r # s /\ Holds(request[r]) /\ Holds(request[s])
      => ~Overlap(request[r].op, request[s].op)

(* Requests with overlapping paths are granted in the order they came: one *)
(* that holds the paths has no earlier one left waiting.                   *)
NoOvertaking ==
  \A r, s \in Seqno :
    Holds(request[r]) /\ request[s].phase = "queued"
      /\ Overlap(request[r].op, request[s].op) => r < s

(* The queue is drained whenever it has to be: no request waits that could *)
(* be granted.  It would wait until something else happened to the queue,  *)
(* perhaps forever, if one change of a row forgot pathOccupancyRevision.   *)
NothingOverlooked ==
  \A r \in Seqno : request[r].phase = "queued" => ~CanGrant(r, request, row)

(* A row that keeps paths busy has a task that will give them up: late     *)
(* progress, retries and cancellations never leave an orphan that would    *)
(* keep hasActivePathOperation true for ever.                              *)
OccupancyOwned ==
  \A op \in Op : Active(op, row[op]) => RunsOf(op) # {}

(* What waits is still wanted: its tab is open and, when it is a retry,    *)
(* its row has not been discarded.                                         *)
StillWanted ==
  \A r \in Seqno :
    request[r].phase = "queued" =>
      /\ OwnerOf[request[r].op] \notin closed
      /\ request[r].again => row[request[r].op].status # "absent"

(* Every request is granted or dropped in the end: of the MaxRequests      *)
(* there are, a time comes when none is waiting any more.                  *)
QueueServed ==
  <>[](\A r \in Seqno : request[r].phase # "queued")

=============================================================================
