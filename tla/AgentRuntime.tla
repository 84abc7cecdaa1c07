------------------------------ MODULE AgentRuntime ------------------------------
(***************************************************************************)
(* How ONE Agent Session runs, electron/node-core/agent-runtime.ts: the    *)
(* Turn (runTurn, processTool), the user's commands that race with it, and *)
(* the Session's log, which AgentEventStore keeps.                         *)
(*                                                                         *)
(* All of it runs on one thread, but every await lets other code in.  An   *)
(* append is such an await: its events are queued, become visible in the   *)
(* log (and are emitted) when the store has committed them, and only then  *)
(* does its caller continue, having seen nothing of what happened between. *)
(*                                                                         *)
(* Everything the runtime knows of the past it computes from the log; the  *)
(* Turn, the pending decision and the pending question are in memory only. *)
(* request/header, assistant/chunk, request/usage and artifacts steer      *)
(* nothing and are left out.                                               *)
(***************************************************************************)
EXTENDS Naturals, Sequences

LOCAL INSTANCE SequencesExt

CONSTANTS
  Messages,     \* user messages, each with an id of its own
  Goal,         \* the message made of the Session's goal
  CallKinds,    \* the tool calls the model may ask for
  MaxCalls,     \* the most tool calls in one response of the model
  MaxSteps,     \* maxStepsPerTurn
  MaxRequests,  \* bound: user commands
  MaxCrashes,   \* bound: how often the process dies
  AppendsFail,  \* whether an append may fail (log full, I/O error)
  None

(*   command    run_terminal_command: it changes state                     *)
(*   list       list_directory: read only                                  *)
(*   question   ask_user_question                                          *)
(*   denied     not registered, or outside the Session's capability scope  *)
(*   malformed  arguments that the tool's schema rejects                   *)
Kinds == {"command", "list", "question", "denied", "malformed"}
Lanes == {"nextTurn", "nextStep"}
Modes == {"requestApproval", "operator"}

ASSUME RuntimeAssumption ==
  /\ CallKinds \subseteq Kinds
  /\ MaxCalls \in Nat
  /\ MaxSteps \in Nat \ {0}
  /\ MaxRequests \in Nat
  /\ MaxCrashes \in Nat
  /\ AppendsFail \in BOOLEAN
  /\ Goal \notin Messages

(* What a Turn waits for: an append of its own, unless it is Resting.      *)
Resting == {"asking", "waiting", "deaf", "executing"}
Points  ==
  Resting \cup {"claiming", "answering", "calling", "requesting", "dispatching", "completing",
                "recording", "stopping", "finishing", "continuing", "ending", "failing"}

TurnRecord ==
  [id : Nat, step : Nat, pc : Points, calls : Seq(Kinds), call : Nat, final : BOOLEAN,
   aborted : BOOLEAN, turnOpen : BOOLEAN, stepOpen : BOOLEAN]

ASSUME SentinelAssumption == None \notin TurnRecord /\ None \notin Nat

VARIABLES
  log,              \* the committed events of the Session
  archived,         \* the log is read-only
  queue,            \* appends (and the archiving) in the order they were asked for
  shown,            \* the head of the queue is in the log, its caller not yet resumed
  turn,             \* the Turn that holds the Session's controller, or None
  pendingDecision,  \* the call whose approval the Turn waits for, or None
  pendingQuestion,  \* the call whose answers the Turn waits for, or None
  starting,         \* start commands that await prepareAgent
  effects,          \* history: the calls whose tool was run, in order
  ids,              \* the last Turn or call id given out
  requests,         \* how many commands the user has sent
  boots             \* history: the length of the log at each crash

turnVars   == <<turn, pendingDecision, pendingQuestion, effects, ids>>
clientVars == <<starting, requests>>
vars == <<log, archived, queue, shown, turnVars, clientVars, boots>>

-----------------------------------------------------------------------------
(* Events, and what the projection reads off the log                       *)

Event(type, id, what, messages) ==
  [type |-> type, id |-> id, what |-> what, messages |-> messages]

About(type, id, what) == Event(type, id, what, <<>>)
Status(what)          == About("agent/status", 0, what)
SessionEnded(what)    == About("session/ended", 0, what)

Places(types) == { i \in DOMAIN log : log[i].type \in types }

(* The what of the last event of these types.                              *)
LastOf(types, default) ==
  IF Places(types) = {} THEN default
  ELSE log[CHOOSE i \in Places(types) : \A j \in Places(types) : j <= i].what

SessionStatus == LastOf({"agent/status", "session/ended", "session/resumed"}, "idle")

Ended == \E i \in Places({"session/ended"}) : \A j \in Places({"session/resumed"}) : j < i

PermissionMode == LastOf({"session/permission_changed"}, "requestApproval")

(* removeMessages                                                          *)
Without(messages, taken) ==
  LET kept[n \in 0..Len(messages)] ==
        IF n = 0 THEN <<>>
        ELSE IF Contains(taken, messages[n]) THEN kept[n - 1]
        ELSE Append(kept[n - 1], messages[n])
  IN  kept[Len(messages)]

Splice(inbox, event) ==
  CASE event.type = "inbox/enqueued" -> [inbox EXCEPT ![event.what] = @ \o event.messages]
    [] event.type = "inbox/claimed"  -> [inbox EXCEPT ![event.what] = Without(@, event.messages)]
    [] OTHER -> inbox

(* The Inbox after the first n events.                                     *)
InboxAt[n \in 0..Len(log)] ==
  IF n = 0 THEN [lane \in Lanes |-> <<>>] ELSE Splice(InboxAt[n - 1], log[n])

Inbox == InboxAt[Len(log)]

InLog(m) == \E i \in Places({"inbox/enqueued"}) : Contains(log[i].messages, m)

-----------------------------------------------------------------------------
(* The append queue                                                        *)

(* then: what continues when the append has been committed.                *)
Entry(events, then) == [events |-> events, then |-> then]

(* A command that appends and only reports back.                           *)
Appends(events, then) ==
  /\ queue' = Append(queue, Entry(events, then))
  /\ UNCHANGED <<log, archived, shown, boots>>

Commit ==
  /\ queue # <<>> /\ ~shown /\ ~archived
  /\ Head(queue).then # "rename"
  /\ log' = log \o Head(queue).events
  /\ shown' = TRUE
  /\ UNCHANGED <<archived, queue, turnVars, clientVars, boots>>

(* store.archive, when its turn in the queue has come.                     *)
Rename ==
  /\ queue # <<>> /\ Head(queue).then = "rename"
  /\ archived' = TRUE
  /\ queue' = Tail(queue)
  /\ UNCHANGED <<log, shown, turnVars, clientVars, boots>>

(* The caller of the head of the queue continues; then says which it is.   *)
Resumes(then) ==
  /\ queue # <<>> /\ shown /\ Head(queue).then = then
  /\ shown' = FALSE
  /\ UNCHANGED <<log, archived, clientVars, boots>>

-----------------------------------------------------------------------------
(* The Turn.  t is its state before the step, rest the queue without what  *)
(* has just been committed.                                                *)

(* The Turn appends events and awaits them at pc.                          *)
Goes(t, pc, events, rest) ==
  /\ turn' = [t EXCEPT !.pc = pc]
  /\ queue' = Append(rest, Entry(events, "turn"))

(* Mutant: the messages are given before they are claimed, so that a crash *)
(* can come between.                                                       *)
StepEventsGivenFirst(id, step) ==
  LET queued == IF step = 0 THEN Inbox["nextTurn"] ELSE <<>>
      steps  == Inbox["nextStep"]
      given  == IF step > 0 THEN steps
                ELSE IF queued = <<>> /\ Places({"user/message"}) = {} THEN <<Goal>>
                ELSE queued
  IN  (IF step = 0 THEN <<About("turn/start", id, "")>> ELSE <<>>)
        \o <<About("step/start", id, "")>>
        \o [i \in 1..Len(given) |-> Event("user/message", id, "", <<given[i]>>)]
        \o (IF queued # <<>> THEN <<Event("inbox/claimed", id, "nextTurn", queued)>> ELSE <<>>)
        \o (IF steps # <<>> THEN <<Event("inbox/claimed", id, "nextStep", steps)>> ELSE <<>>)

(* What a Step claims from the Inbox and what it gives the model.  In the  *)
(* first Step only the nextTurn messages (or the goal) are given.          *)
StepEvents(id, step) ==
  LET queued == IF step = 0 THEN Inbox["nextTurn"] ELSE <<>>
      steps  == Inbox["nextStep"]
      given  == IF step > 0 THEN steps
                ELSE IF queued = <<>> /\ Places({"user/message"}) = {} THEN <<Goal>>
                ELSE queued
  IN  (IF step = 0 THEN <<About("turn/start", id, "")>> ELSE <<>>)
        \o <<About("step/start", id, "")>>
        \o (IF queued # <<>> THEN <<Event("inbox/claimed", id, "nextTurn", queued)>> ELSE <<>>)
        \o (IF steps # <<>> THEN <<Event("inbox/claimed", id, "nextStep", steps)>> ELSE <<>>)
        \o [i \in 1..Len(given) |-> Event("user/message", id, "", <<given[i]>>)]

NewTurn(id) ==
  [id |-> id, step |-> 0, pc |-> "claiming", calls |-> <<>>, call |-> 0, final |-> FALSE,
   aborted |-> FALSE, turnOpen |-> FALSE, stepOpen |-> FALSE]

(* Mutant: the test for a running Turn is missing.                         *)
RunTurnAnyway(rest) ==
  /\ Goes(NewTurn(ids + 1), "claiming", StepEvents(ids + 1, 0), rest)
  /\ ids' = ids + 1

(* runTurn: nothing to do when a Turn is running already.                  *)
RunTurn(rest) ==
  IF turn # None THEN queue' = rest /\ UNCHANGED <<turn, ids>>
  ELSE /\ Goes(NewTurn(ids + 1), "claiming", StepEvents(ids + 1, 0), rest)
       /\ ids' = ids + 1

(* The catch clause: close what is open; unless interrupted, end the       *)
(* Session.                                                                *)
Fails(t, rest) ==
  Goes(t, "failing",
       (IF t.stepOpen THEN <<About("step/end", t.id, "")>> ELSE <<>>)
         \o (IF t.turnOpen THEN <<About("turn/end", t.id, "")>> ELSE <<>>)
         \o (IF t.aborted THEN <<Status("idle")>>
             ELSE <<Status("failed"), SessionEnded("failed")>>),
       rest)

(* The loop over the response's calls, and the end of the Step.            *)
NextCall(t, rest) ==
  IF t.calls # <<>>
  THEN /\ Goes([t EXCEPT !.call = ids + 1], "calling",
               <<About("tool/call", ids + 1, Head(t.calls))>>, rest)
       /\ ids' = ids + 1
  ELSE /\ Goes(t, IF t.aborted THEN "stopping" ELSE IF t.final THEN "finishing" ELSE "continuing",
               <<About("step/end", t.id, "")>>, rest)
       /\ UNCHANGED ids

(* toolResult; a result of the tool itself is recorded inside the try.     *)
ToolResult(t, pc, status, rest) == Goes(t, pc, <<About("tool/result", t.call, status)>>, rest)

Dispatch(t, rest) == Goes(t, "dispatching", <<About("tool/execution", t.call, "dispatched")>>, rest)

(* The Turn's own append has been committed.                               *)
TurnResumes(pc) == Resumes("turn") /\ turn.pc = pc

Claimed ==
  /\ TurnResumes("claiming")
  /\ turn' = [turn EXCEPT !.pc = "asking", !.turnOpen = TRUE, !.stepOpen = TRUE]
  /\ queue' = Tail(queue)
  /\ UNCHANGED <<pendingDecision, pendingQuestion, effects, ids>>

(* The provider answers; an aborted request has no answer.                 *)
Respond ==
  /\ turn # None /\ turn.pc = "asking" /\ ~turn.aborted
  /\ \E n \in 0..MaxCalls : \E calls \in [1..n -> CallKinds] :
       Goes([turn EXCEPT !.calls = calls, !.final = n = 0], "answering",
            <<About("assistant/message", turn.id, "")>>, queue)
  /\ UNCHANGED <<log, archived, shown, pendingDecision, pendingQuestion, effects, ids,
                 clientVars, boots>>

ModelFails ==
  /\ turn # None /\ turn.pc = "asking"
  /\ Fails(turn, queue)
  /\ UNCHANGED <<log, archived, shown, pendingDecision, pendingQuestion, effects, ids,
                 clientVars, boots>>

Answered ==
  /\ TurnResumes("answering")
  /\ NextCall(turn, Tail(queue))
  /\ UNCHANGED <<pendingDecision, pendingQuestion, effects>>

(* processTool, once the call is in the log: validation, capability scope, *)
(* then approval if the mode asks for it now.                              *)
Called ==
  /\ TurnResumes("calling")
  /\ LET kind == Head(turn.calls)
         rest == Tail(queue)
     IN  \/ kind = "malformed" /\ Fails(turn, rest)
         \/ kind = "denied" /\ ToolResult(turn, "recording", "rejected", rest)
         \/ kind = "question" /\ Goes(turn, "requesting",
                                      <<About("question/requested", turn.call, "")>>, rest)
         \/ kind = "list" /\ Dispatch(turn, rest)
         \/ kind = "command" /\ PermissionMode # "requestApproval" /\ Dispatch(turn, rest)
         \/ kind = "command" /\ PermissionMode = "requestApproval"
              /\ Goes(turn, "requesting", <<About("tool/approval", turn.call, "requested")>>, rest)
  /\ UNCHANGED <<pendingDecision, pendingQuestion, effects, ids>>

(* Only now are the pending entry and the abort listener registered: an    *)
(* abort that came before is not noticed here.                             *)
Requested ==
  /\ TurnResumes("requesting")
  /\ turn' = [turn EXCEPT !.pc = IF turn.aborted THEN "deaf" ELSE "waiting"]
  /\ queue' = Tail(queue)
  /\ IF Head(turn.calls) = "question"
     THEN pendingQuestion' = turn.call /\ UNCHANGED pendingDecision
     ELSE pendingDecision' = turn.call /\ UNCHANGED pendingQuestion
  /\ UNCHANGED <<effects, ids>>

Waits(t) == t # None /\ t.pc \in {"waiting", "deaf"}

(* executeTool, after the dispatch is in the log.                          *)
Dispatched ==
  /\ TurnResumes("dispatching")
  /\ IF turn.aborted
     THEN ToolResult(turn, "recording", "cancelled", Tail(queue)) /\ UNCHANGED effects
     ELSE /\ turn' = [turn EXCEPT !.pc = "executing"]
          /\ queue' = Tail(queue)
          /\ effects' = Append(effects, turn.call)
  /\ UNCHANGED <<pendingDecision, pendingQuestion, ids>>

(* Mutant: a tool that failed is run once more.                            *)
ToolEndsOrRetries ==
  /\ turn # None /\ turn.pc = "executing"
  /\ \/ ToolResult(turn, "completing", "completed", queue) /\ UNCHANGED effects
     \/ Len(effects) < 2 /\ effects' = Append(effects, turn.call) /\ UNCHANGED <<turn, queue>>
  /\ UNCHANGED <<log, archived, shown, pendingDecision, pendingQuestion, ids, clientVars, boots>>

(* The tool ends, with or without an abort having reached it.              *)
ToolEnds ==
  /\ turn # None /\ turn.pc = "executing"
  /\ \/ ToolResult(turn, "completing", "completed", queue)
     \/ ToolResult(turn, "recording", IF turn.aborted THEN "cancelled" ELSE "failed", queue)
  /\ UNCHANGED <<log, archived, shown, pendingDecision, pendingQuestion, effects, ids,
                 clientVars, boots>>

Recorded ==
  /\ TurnResumes("completing") \/ TurnResumes("recording")
  /\ NextCall([turn EXCEPT !.calls = Tail(@)], Tail(queue))
  /\ UNCHANGED <<pendingDecision, pendingQuestion, effects>>

(* After step/end: interrupted, finished, or the next Step, which sees the *)
(* Inbox as it is now.                                                     *)
StepEnded ==
  /\ \E pc \in {"stopping", "finishing", "continuing"} : TurnResumes(pc)
  /\ LET t    == [turn EXCEPT !.stepOpen = FALSE]
         rest == Tail(queue)
     IN  CASE turn.pc = "stopping" ->
                Goes(t, "ending", <<About("turn/end", t.id, ""), Status("idle")>>, rest)
           [] turn.pc = "finishing" ->
                Goes(t, "ending", <<About("turn/end", t.id, ""), Status("completed"),
                                    SessionEnded("completed")>>, rest)
           [] turn.pc = "continuing" /\ turn.step + 1 < MaxSteps ->
                Goes([t EXCEPT !.step = @ + 1], "claiming", StepEvents(t.id, t.step + 1), rest)
           [] OTHER -> Fails(t, rest)
  /\ UNCHANGED <<pendingDecision, pendingQuestion, effects, ids>>

(* The finally clause gives the controller back.                           *)
TurnEnded ==
  /\ TurnResumes("ending") \/ TurnResumes("failing")
  /\ turn' = None
  /\ queue' = Tail(queue)
  /\ UNCHANGED <<pendingDecision, pendingQuestion, effects, ids>>

(* An append is refused: the log is archived, or full, or cannot be        *)
(* written.  A Turn fails, other callers just report it.                   *)
HeadRefused ==
  /\ queue # <<>> /\ ~shown /\ Head(queue).then # "rename"
  /\ archived \/ AppendsFail

Refused ==
  /\ HeadRefused /\ Head(queue).then # "questionCancelled"
  /\ LET rest == Tail(queue)
         then == Head(queue).then
     IN  CASE then = "turn" /\ turn.pc = "failing" -> turn' = None /\ queue' = rest
           [] then = "turn" /\ turn.pc = "completing" ->
                ToolResult(turn, "recording", IF turn.aborted THEN "cancelled" ELSE "failed", rest)
           [] then = "turn" /\ turn.pc \notin {"completing", "failing"} -> Fails(turn, rest)
           [] OTHER -> queue' = rest /\ UNCHANGED turn
  /\ UNCHANGED <<log, archived, shown, pendingDecision, pendingQuestion, effects, ids,
                 clientVars, boots>>
-----------------------------------------------------------------------------
(* The user's commands                                                     *)

Asks == requests < MaxRequests /\ requests' = requests + 1

OnlyAppends(events, then) ==
  /\ Asks
  /\ Appends(events, then)
  /\ UNCHANGED <<turnVars, starting>>

(* followup and steer look the message up in the log only.  A client that  *)
(* has waited 15 s for its append sends it again (waitForCommittedOperation*)
(* of agent-session-adapter.ts): both are then appended.                   *)
Enqueue(m, lane) ==
  /\ ~InLog(m)
  /\ OnlyAppends(<<Event("inbox/enqueued", 0, lane, <<m>>)>>, "none")

SetPermission(mode) ==
  OnlyAppends(<<About("session/permission_changed", 0, mode)>>, "none")

(* start, up to the await of prepareAgent ...                              *)
Start ==
  /\ ~archived /\ ~Ended
  /\ Asks
  /\ starting' = starting + 1
  /\ UNCHANGED <<log, archived, queue, shown, turnVars, boots>>

(* ... and from there.                                                     *)
Prepared ==
  /\ starting > 0
  /\ starting' = starting - 1
  /\ Appends(<<Status("running")>>, "start")
  /\ UNCHANGED <<turnVars, requests>>

(* Mutant: a failed preparation is counted down also by its caller.        *)
PrepareFailsTwice ==
  /\ starting > 0
  /\ starting' = starting - 2
  /\ UNCHANGED <<log, archived, queue, shown, turnVars, requests, boots>>

PrepareFails ==
  /\ starting > 0
  /\ starting' = starting - 1
  /\ UNCHANGED <<log, archived, queue, shown, turnVars, requests, boots>>

Started ==
  /\ Resumes("start")
  /\ RunTurn(Tail(queue))
  /\ UNCHANGED <<pendingDecision, pendingQuestion, effects>>

Resume ==
  /\ Ended
  /\ OnlyAppends(<<About("session/resumed", 0, "idle"), Status("idle")>>, "resume")

(* A resumed Session runs at once when messages are waiting.               *)
Resumed ==
  /\ Resumes("resume")
  /\ IF Inbox["nextTurn"] # <<>> THEN RunTurn(Tail(queue))
     ELSE queue' = Tail(queue) /\ UNCHANGED <<turn, ids>>
  /\ UNCHANGED <<pendingDecision, pendingQuestion, effects>>

(* Mutant: the decision is taken from the pending ones only when it is in  *)
(* the log.                                                                *)
DecidePending(status) ==
  /\ pendingDecision # None
  /\ Asks
  /\ Appends(<<About("tool/approval", pendingDecision, status)>>, status)
  /\ UNCHANGED <<turn, pendingDecision, pendingQuestion, effects, ids, starting>>

(* approve and reject.                                                     *)
Decide(status) ==
  /\ pendingDecision # None
  /\ Asks
  /\ Appends(<<About("tool/approval", pendingDecision, status)>>, status)
  /\ pendingDecision' = None
  /\ UNCHANGED <<turn, pendingQuestion, effects, ids, starting>>

(* Mutant: a rejection settles the promise like an approval.               *)
DecidedEitherWay(status) ==
  /\ Resumes(status)
  /\ IF Waits(turn) /\ turn.call = Head(queue).events[1].id
     THEN Dispatch(turn, Tail(queue))
     ELSE queue' = Tail(queue) /\ UNCHANGED turn
  /\ UNCHANGED <<pendingDecision, pendingQuestion, effects, ids>>

(* The decision settles the Turn's promise, unless an abort already has.   *)
Decided(status) ==
  /\ Resumes(status)
  /\ IF Waits(turn) /\ turn.call = Head(queue).events[1].id
     THEN IF status = "approved" THEN Dispatch(turn, Tail(queue))
          ELSE ToolResult(turn, "recording", "rejected", Tail(queue))
     ELSE queue' = Tail(queue) /\ UNCHANGED turn
  /\ UNCHANGED <<pendingDecision, pendingQuestion, effects, ids>>

(* answerQuestion.  A question that is no longer pending (the process has  *)
(* been restarted, or it was cancelled) gets its tool result here.         *)
Answer(call) ==
  /\ \E i \in Places({"question/requested"}) : log[i].id = call
  /\ ~\E i \in Places({"question/answered"}) : log[i].id = call
  /\ IF pendingQuestion = call
     THEN OnlyAppends(<<About("question/answered", call, "")>>, "answer")
     ELSE OnlyAppends(<<About("question/answered", call, ""),
                        About("tool/result", call, "completed")>>, "none")

(* Mutant: the question is forgotten, but its promise not settled.         *)
QuestionForgotten ==
  /\ Resumes("answer") \/ Resumes("questionCancelled")
  /\ queue' = Tail(queue)
  /\ pendingQuestion' = IF pendingQuestion = Head(queue).events[1].id THEN None ELSE pendingQuestion
  /\ UNCHANGED <<turn, pendingDecision, effects, ids>>

QuestionSettled ==
  /\ Resumes("answer") \/ Resumes("questionCancelled")
  /\ LET call == Head(queue).events[1].id
     IN  /\ IF Waits(turn) /\ turn.call = call
            THEN ToolResult(turn, "recording",
                            IF Head(queue).then = "answer" THEN "completed" ELSE "cancelled",
                            Tail(queue))
            ELSE queue' = Tail(queue) /\ UNCHANGED turn
         /\ pendingQuestion' = IF pendingQuestion = call THEN None ELSE pendingQuestion
  /\ UNCHANGED <<pendingDecision, effects, ids>>

(* controller.abort(): whoever listens reacts at once, a question by an    *)
(* append of its own, before the command's entries; the waiting Turn only  *)
(* after them.                                                             *)
Abort(entries) ==
  LET t == [turn EXCEPT !.aborted = TRUE]
  IN  IF turn = None \/ turn.aborted
      THEN queue' = queue \o entries /\ UNCHANGED <<turn, pendingDecision, pendingQuestion>>
      ELSE IF turn.pc # "waiting"
      THEN queue' = queue \o entries /\ turn' = t /\ UNCHANGED <<pendingDecision, pendingQuestion>>
      ELSE IF Head(turn.calls) = "question"
      THEN /\ turn' = t
           /\ pendingQuestion' = None
           /\ queue' = Append(queue, Entry(<<About("question/cancelled", t.call, "")>>,
                                           "questionCancelled")) \o entries
           /\ UNCHANGED pendingDecision
      ELSE /\ ToolResult(t, "recording", "rejected", queue \o entries)
           /\ pendingDecision' = None
           /\ UNCHANGED pendingQuestion

Interrupt ==
  /\ Asks
  /\ Abort(<<Entry(<<Status("idle")>>, "none")>>)
  /\ UNCHANGED <<log, archived, shown, effects, ids, starting, boots>>

CancelEntries ==
  IF Ended /\ SessionStatus = "cancelled" THEN <<>>
  ELSE <<Entry(<<Status("cancelled"), SessionEnded("cancelled")>>, "none")>>

(* Mutant: the Session is ended without aborting its Turn.                 *)
CancelWithoutAbort ==
  /\ Asks
  /\ queue' = queue \o CancelEntries
  /\ UNCHANGED <<log, archived, shown, turnVars, starting, boots>>

(* cancel rejects a pending approval also when the abort is not heard.     *)
Cancel ==
  /\ Asks
  /\ IF turn # None /\ turn.pc = "deaf" /\ pendingDecision # None
     THEN /\ ToolResult(turn, "recording", "rejected", queue \o CancelEntries)
          /\ pendingDecision' = None
          /\ UNCHANGED pendingQuestion
     ELSE Abort(CancelEntries)
  /\ UNCHANGED <<log, archived, shown, effects, ids, starting, boots>>

(* archive: refused while a Turn runs or work is waiting.                  *)
Archive ==
  /\ ~archived /\ turn = None
  /\ \/ Ended /\ OnlyAppends(<<>>, "rename")
     \/ /\ ~Ended /\ SessionStatus = "idle" /\ \A lane \in Lanes : Inbox[lane] = <<>>
        /\ OnlyAppends(<<Status("completed"), SessionEnded("completed")>>, "archive")

ArchiveEnded ==
  /\ Resumes("archive")
  /\ queue' = Append(Tail(queue), Entry(<<>>, "rename"))
  /\ UNCHANGED turnVars

Reported ==
  /\ Resumes("none")
  /\ queue' = Tail(queue)
  /\ UNCHANGED turnVars

-----------------------------------------------------------------------------
(* The process dies and is started again.                                  *)
Restart ==
  /\ boots' = Append(boots, Len(log'))
  /\ queue' = <<>> /\ shown' = FALSE
  /\ turn' = None /\ pendingDecision' = None /\ pendingQuestion' = None
  /\ starting' = 0
  /\ UNCHANGED <<archived, effects, ids, requests>>

(* Of the append being written any number of whole events may be in the    *)
(* file (AgentEventStore).                                                 *)
Crash ==
  /\ Len(boots) < MaxCrashes
  /\ \/ UNCHANGED log
     \/ /\ queue # <<>> /\ ~shown /\ ~archived
        /\ \E k \in 1..Len(Head(queue).events) :
             log' = log \o SubSeq(Head(queue).events, 1, k)
  /\ Restart

(* Nobody catches the rejection of question/cancelled, and an unhandled    *)
(* rejection ends the process (entry.ts).                                  *)
CancelRefused ==
  /\ HeadRefused /\ Head(queue).then = "questionCancelled"
  /\ UNCHANGED log
  /\ Restart

Init ==
  /\ log = <<>> /\ archived = FALSE
  /\ queue = <<>> /\ shown = FALSE
  /\ turn = None /\ pendingDecision = None /\ pendingQuestion = None
  /\ effects = <<>> /\ ids = 0
  /\ starting = 0 /\ requests = 0
  /\ boots = <<>>

StoreStep == Commit \/ Rename \/ Refused \/ CancelRefused

TurnStep ==
  \/ Claimed \/ Respond \/ ModelFails \/ Answered \/ Called \/ Requested
  \/ Dispatched \/ ToolEnds \/ Recorded \/ StepEnded \/ TurnEnded

CommandStep ==
  \/ Prepared \/ PrepareFails \/ Started \/ Resumed
  \/ \E status \in {"approved", "rejected"} : Decided(status)
  \/ QuestionSettled \/ ArchiveEnded \/ Reported

UserStep ==
  \/ \E m \in Messages, lane \in Lanes : Enqueue(m, lane)
  \/ \E mode \in Modes : SetPermission(mode)
  \/ Start \/ Resume \/ Interrupt \/ Cancel \/ Archive
  \/ \E status \in {"approved", "rejected"} : Decide(status)
  \/ \E call \in 1..ids : Answer(call)

Next == StoreStep \/ TurnStep \/ CommandStep \/ UserStep \/ Crash

Spec == Init /\ [][Next]_vars

(* The store, the provider (bounded by its timeouts), the tools (bounded   *)
(* by theirs) and the runtime's own continuations go on; the user need not.*)
Fairness ==
  /\ WF_vars(StoreStep)
  /\ WF_vars(TurnStep)
  /\ WF_vars(CommandStep)

FairSpec == Spec /\ Fairness

-----------------------------------------------------------------------------
(* Properties                                                              *)

(* What commands append, what a Turn appends, and what continues after.    *)
CommandTypes ==
  {"agent/status", "session/ended", "session/resumed", "session/permission_changed",
   "inbox/enqueued", "question/answered", "question/cancelled", "tool/result", "tool/approval"}
TurnTypes ==
  {"agent/status", "session/ended", "turn/start", "turn/end", "step/start", "step/end",
   "inbox/claimed", "user/message", "assistant/message", "tool/call", "tool/approval",
   "tool/execution", "tool/result", "question/requested"}
Statuses == {"idle", "running", "completed", "failed", "cancelled"}
Verdicts == {"approved", "rejected"}
Replies  == {"none", "start", "resume", "answer", "questionCancelled", "archive", "rename"}

Events ==
  [type : CommandTypes \cup TurnTypes, id : Nat,
   what : {"", "requested", "dispatched"} \cup Statuses \cup Verdicts \cup Kinds \cup Lanes \cup Modes,
   messages : Seq(Messages \cup {Goal})]

Entries == [events : Seq(Events), then : {"turn"} \cup Verdicts \cup Replies]

(* Every variable has its type.                                            *)
TypeOK ==
  /\ log \in Seq(Events)
  /\ archived \in BOOLEAN /\ shown \in BOOLEAN
  /\ queue \in Seq(Entries)
  /\ turn \in TurnRecord \cup {None}
  /\ pendingDecision \in Nat \cup {None}
  /\ pendingQuestion \in Nat \cup {None}
  /\ effects \in Seq(Nat)
  /\ ids \in Nat /\ starting \in Nat
  /\ requests \in 0..MaxRequests
  /\ boots \in Seq(Nat)

(* The positions of the events of this type about this call or Turn.       *)
Records(type, id, whats) ==
  { i \in Places({type}) : log[i].id = id /\ log[i].what \in whats }

(* The permission mode that a reader of the first n events sees.           *)
ModeAt(n) ==
  LET changes == { i \in Places({"session/permission_changed"}) : i <= n }
  IN  IF changes = {} THEN "requestApproval"
      ELSE log[CHOOSE i \in changes : \A j \in changes : j <= i].what

(* No tool changes anything unless the log holds, before its one dispatch, *)
(* the user's approval of this very call, or the mode did not ask for one  *)
(* at some moment since the model made the call; and no rejection.         *)
EffectsAuthorized ==
  \A n \in DOMAIN effects :
    \A call \in Records("tool/call", effects[n], {"command"}) :
      \E dispatch \in Records("tool/execution", effects[n], {"dispatched"}) :
        /\ Records("tool/approval", effects[n], {"rejected"}) = {}
        /\ \/ \E i \in Records("tool/approval", effects[n], {"approved"}) : i < dispatch
           \/ \E i \in call..(dispatch - 1) : ModeAt(i) # "requestApproval"

(* A tool runs at most once for a call, after exactly one dispatch record, *)
(* whatever was committed or lost in a crash.                              *)
DispatchedOnce ==
  \A n \in DOMAIN effects :
    /\ \A m \in DOMAIN effects : effects[m] = effects[n] => m = n
    /\ \E i \in DOMAIN log : Records("tool/execution", effects[n], {"dispatched"}) = {i}

(* An approval is decided at most once, however often and quickly the user *)
(* clicks both buttons.                                                    *)
DecidedOnce ==
  \A i, j \in Places({"tool/approval"}) :
    log[i].id = log[j].id /\ {log[i].what, log[j].what} \subseteq {"approved", "rejected"} => i = j

(* No tool is run for a Turn after the Session was ended under it.         *)
EffectsBeforeEnd ==
  \A n \in DOMAIN effects :
    \A dispatch \in Records("tool/execution", effects[n], {"dispatched"}) :
      \A end \in Places({"session/ended"}) : end < dispatch =>
        \E i \in Places({"turn/start"}) : end < i /\ i < dispatch

(* The log holds two submissions of this message: the second was accepted  *)
(* while the first was not yet committed.                                  *)
SubmittedTwice(messages) ==
  \E i, j \in Places({"inbox/enqueued"}) :
    i # j /\ log[i].messages = messages /\ log[j].messages = messages

(* A message is given to the model at most once, also when its submission  *)
(* was repeated after a crash, unless it was submitted a second time while *)
(* the first submission was not yet committed (enqueue accepts both).      *)
DeliveredOnce ==
  \A i, j \in Places({"user/message"}) :
    log[i].messages = log[j].messages /\ ~SubmittedTwice(log[i].messages) => i = j

(* Turns do not overlap: a Turn's events lie between its turn/start and    *)
(* its turn/end, or the crash that cut it off, and no other Turn starts    *)
(* there.                                                                  *)
TurnsDoNotOverlap ==
  \A i, j \in Places({"turn/start"}) : i < j =>
    \/ \E k \in Places({"turn/end"}) : i < k /\ k < j /\ log[k].id = log[i].id
    \/ \E n \in DOMAIN boots : i <= boots[n] /\ boots[n] < j

(* Every message taken from the Inbox reaches the model ("Tool results and *)
(* nextStep steering continue the same Turn", docs/migration/              *)
(* stage-6-completion.md:24).  The code does not do it for messages that   *)
(* steer before a Turn's first Step.                                       *)
ClaimedIsGiven ==
  \A i \in Places({"inbox/claimed"}) : \A n \in DOMAIN log[i].messages :
    \E j \in Places({"user/message"}) : log[j].messages = <<log[i].messages[n]>>

(* The user can still decide the approval, or answer the question, the     *)
(* Turn waits for.                                                         *)
UserMayAct ==
  /\ Waits(turn)
  /\ \/ pendingDecision = turn.call
     \/ pendingQuestion = turn.call /\ Records("question/answered", turn.call, {""}) = {}

(* The answer was committed while the question's own append still awaited  *)
(* the emission of its event: the Turn waits for what has happened already.*)
AnswerOvertook ==
  Waits(turn) /\ pendingQuestion = turn.call
    /\ Records("tool/result", turn.call, {"completed"}) # {}

(* A Turn always ends, or comes to wait for a user who can act.  The one   *)
(* exception is an answer that overtook its question.                      *)
TurnSettles == turn # None ~> turn = None \/ UserMayAct \/ AnswerOvertook

(* An interrupted Turn ends, without any further command of the user.      *)
InterruptedTurnEnds == (turn # None /\ turn.aborted) ~> turn = None

=============================================================================
