----------------------------- MODULE TerminalOutput -----------------------------
(***************************************************************************)
(* The output of ONE terminal session, from its shell to the screen:       *)
(*                                                                         *)
(*   shell -> Session (Node Core, electron/node-core/terminal.ts), which   *)
(*   gates it until the renderer has subscribed and while it is paused     *)
(*         -> wire, the terminal pipe                                      *)
(*         -> TerminalFlow (main, electron/terminal-flow.ts), which reads  *)
(*   the pipe as long as the renderer acknowledges what it was sent        *)
(*         -> ipc, Electron's queue to the renderer                        *)
(*         -> the controller (terminal-registry.ts), which pauses the      *)
(*   Session over the control channel when xterm falls behind.             *)
(*                                                                         *)
(* The events are the chunks 1, 2, ... of the output, each of size one,    *)
(* the status connected, and the end (ssh-status and then ssh-closed).     *)
(***************************************************************************)
EXTENDS Naturals, Sequences, FiniteSets

LOCAL INSTANCE SequencesExt

CONSTANTS
  MaxChunks,      \* bound: chunks the shell writes
  MaxGated,       \* MAX_GATED_OUTPUT
  WireCap,        \* highWaterMark of the terminal socket
  MaxBurst,       \* bound: frames in one read of the terminal socket
  FlowHigh, FlowLow,      \* TerminalFlow's high and low
  ScreenHigh, ScreenLow,  \* OUTPUT_PAUSE_HIGH_WATERMARK, OUTPUT_RESUME_LOW_WATERMARK
  MaxFaults       \* bound: pause or resume calls that fail in transit, and reloads

ASSUME OutputAssumption ==
  /\ {MaxChunks, MaxGated, WireCap, MaxBurst, MaxFaults} \subseteq Nat
  /\ WireCap > 0 /\ MaxBurst > 0
  /\ {FlowHigh, FlowLow, ScreenHigh, ScreenLow} \subseteq Nat
  /\ FlowLow < FlowHigh /\ ScreenLow < ScreenHigh

Chunks       == 1..MaxChunks
Connected    == 0
Disconnected == MaxChunks + 1
Events       == Connected..Disconnected

Statuses == {"connecting", "connected", "disconnected"}

VARIABLES
  produced,   \* how many chunks the shell has written
  core,       \* the Session in TerminalManager, see Init
  emitting,   \* the flushes that await a write: what each has still to emit
  wire,       \* emitted, not yet read by main
  flow,       \* the TerminalFlow
  ipc,        \* sent to the renderer, not yet dispatched
  acks,       \* acknowledgements on their way to main
  page,       \* the renderer's controller and its entry in terminalStore
  commands,   \* outputPauseCommand: set_session_output_paused calls in order
  screen,     \* history: the chunks handed to xterm, in order
  lost,       \* history: chunks discarded at Finish, or before the controller listened
  slips,      \* history: "overtaken", "forgotten", when that has happened
  unseen,     \* history: the session ended when no controller was subscribed
  faults      \* how many there have been

coreVars == <<produced, core, emitting>>
flowVars == <<flow, acks>>
history  == <<lost, slips, unseen>>
vars == <<coreVars, wire, flowVars, ipc, page, commands, screen, history, faults>>

Init ==
  /\ produced = 0
  /\ core = [listed |-> TRUE, ready |-> FALSE, paused |-> FALSE,
             buffered |-> <<>>, gated |-> 0]   \* gated: bufferedBytes
  /\ emitting = <<>>
  /\ wire = <<Connected>>   \* createLocal and createRemote end with this status
  /\ flow = [pending |-> {}, paused |-> FALSE, awaitingRenderer |-> FALSE]
  /\ ipc = <<>> /\ acks = <<>>
  /\ page = [setup |-> "new", attached |-> FALSE, status |-> "connecting",
             outputPaused |-> FALSE, writing |-> 0, retry |-> FALSE]
  /\ commands = <<>>
  /\ screen = <<>> /\ lost = {} /\ slips = {} /\ unseen = FALSE
  /\ faults = 0

-----------------------------------------------------------------------------
(* Node Core                                                               *)

(* A loop that emits events one await at a time.  An emit is in the pipe   *)
(* when it is called; the await ends at once unless the pipe is full.      *)
Written(events) ==
  LET room == IF Len(wire) < WireCap THEN WireCap - Len(wire) ELSE 1
  IN  IF Len(events) < room THEN Len(events) ELSE room

Waits(events) == events # <<>> /\ Len(wire) + Written(events) >= WireCap

(* Something is emitted while another loop still has older events in hand. *)
Overtakes(events, others) ==
  IF \E i \in DOMAIN others : \E old \in ToSet(others[i]), new \in ToSet(events) : old < new
  THEN {"overtaken"} ELSE {}

Emits(events, others) ==
  LET now == SubSeq(events, 1, Written(events)) IN
  /\ wire' = wire \o now
  /\ emitting' = IF Waits(events)
                 THEN Append(others, SubSeq(events, Written(events) + 1, Len(events)))
                 ELSE others
  /\ slips' = slips \cup Overtakes(now, others)

(* Mutant: the buffer is read but not emptied.                             *)
SplicedCopy(c) == [c EXCEPT !.gated = IF Waits(c.buffered) THEN @ ELSE 0]

(* The Session after flush has spliced its buffer; bufferedBytes is reset  *)
(* when the loop is through.                                               *)
Spliced(c) == [c EXCEPT !.buffered = <<>>, !.gated = IF Waits(c.buffered) THEN @ ELSE 0]

(* flush: c is the Session as it is when flush is called.                  *)
Flush(c) ==
  IF c.ready /\ ~c.paused
  THEN /\ core' = Spliced(c)
       /\ Emits(c.buffered, emitting)
  ELSE core' = c /\ UNCHANGED <<emitting, wire, slips>>

Overflows(gated) == gated > MaxGated

(* output                                                                  *)
Output ==
  LET chunk == produced + 1
      full  == [core EXCEPT !.buffered = Append(@, chunk), !.gated = @ + 1]
  IN
  /\ core.listed /\ chunk \in Chunks
  /\ produced' = chunk
  /\ \/ /\ ~core.ready \/ core.paused
        /\ IF Overflows(full.gated)
           THEN Flush([full EXCEPT !.ready = TRUE])
           ELSE core' = full /\ UNCHANGED <<emitting, wire, slips>>
     \/ /\ core.ready /\ ~core.paused
        /\ wire' = Append(wire, chunk)
        /\ slips' = slips \cup Overtakes(<<chunk>>, emitting)
        /\ UNCHANGED <<core, emitting>>
  /\ UNCHANGED <<flowVars, ipc, page, commands, screen, lost, unseen, faults>>

(* The oldest await of a flush or of finish ends.                          *)
Drained ==
  /\ emitting # <<>> /\ Len(wire) < WireCap
  /\ Emits(Head(emitting), Tail(emitting))
  /\ core' = [core EXCEPT !.gated = IF Waits(Head(emitting)) THEN @ ELSE 0]
  /\ UNCHANGED <<produced, flowVars, ipc, page, commands, screen, lost, unseen, faults>>

(* Mutant: a gated session ends without a word.                            *)
EndingIfOpen(open) == IF open THEN core.buffered \o <<Disconnected>> ELSE <<>>

Ending(open) == (IF open THEN core.buffered ELSE <<>>) \o <<Disconnected>>

(* finish: the shell has ended.  flush emits what is buffered, but nothing *)
(* when the output is gated; the status and the closing follow.            *)
Finish ==
  LET open == core.ready /\ ~core.paused IN
  /\ core.listed
  /\ core' = [core EXCEPT !.listed = FALSE, !.buffered = <<>>]
  /\ Emits(Ending(open), emitting)
  /\ lost' = IF open THEN lost ELSE lost \cup ToSet(core.buffered)
  /\ unseen' = (page.setup = "new")
  /\ UNCHANGED <<produced, flowVars, ipc, page, commands, screen, faults>>

-----------------------------------------------------------------------------
(* Main                                                                    *)

(* push, for every frame of one read of the terminal socket.               *)
Push ==
  /\ ~flow.paused
  /\ \E n \in 1..MaxBurst :
       /\ n <= Len(wire)
       /\ wire' = SubSeq(wire, n + 1, Len(wire))
       /\ ipc' = ipc \o SubSeq(wire, 1, n)
       /\ flow' = [flow EXCEPT
            !.pending = @ \cup ToSet(SubSeq(wire, 1, n)),
            !.paused = Cardinality(flow.pending) + n >= FlowHigh]
  /\ UNCHANGED <<coreVars, acks, page, commands, screen, history, faults>>

(* ack: an id that is not pending (any more) is ignored.                   *)
Ack ==
  /\ acks # <<>>
  /\ acks' = Tail(acks)
  /\ IF Head(acks) \notin flow.pending THEN flow' = flow
     ELSE LET left == flow.pending \ {Head(acks)}
          IN  flow' = [flow EXCEPT
                !.pending = left,
                !.paused = @ /\ (flow.awaitingRenderer \/ Cardinality(left) > FlowLow)]
  /\ UNCHANGED <<coreVars, wire, ipc, page, commands, screen, history, faults>>

(* Mutant: the credits of the old page are kept.                           *)
NavigatingKeeps == [flow EXCEPT !.paused = TRUE, !.awaitingRenderer = TRUE]

Navigating == [pending |-> {}, paused |-> TRUE, awaitingRenderer |-> TRUE]

(* did-start-navigation.  The page goes, with all that was on its way to   *)
(* it; a call it has made already is still served.                         *)
Navigation ==
  /\ page.setup # "gone"
  /\ faults < MaxFaults
  /\ faults' = faults + 1
  /\ flow' = Navigating
  /\ ipc' = <<>>
  /\ page' = [setup |-> IF page.setup = "marking" THEN "marking" ELSE "gone",
              attached |-> FALSE, status |-> page.status,
              outputPaused |-> FALSE, writing |-> 0, retry |-> FALSE]
  /\ commands' = IF commands # <<>> /\ Head(commands).state = "sent"
                 THEN <<Head(commands)>> ELSE <<>>
  /\ UNCHANGED <<coreVars, wire, acks, screen, history>>

Ready == [flow EXCEPT !.awaitingRenderer = FALSE, !.paused = FALSE]

(* ready, when the new page has been parsed.                               *)
PageReady ==
  /\ flow.awaitingRenderer
  /\ flow' = Ready
  /\ UNCHANGED <<coreVars, wire, acks, ipc, page, commands, screen, history, faults>>

-----------------------------------------------------------------------------
(* The renderer's controller                                               *)

Call(paused) == [paused |-> paused, state |-> "sent"]

(* setOutputPaused(paused), when it does something: p the controller       *)
(* otherwise unchanged.                                                    *)
SetOutputPaused(p, paused) ==
  /\ page' = [p EXCEPT !.outputPaused = paused, !.retry = @ /\ ~paused]
  /\ commands' = Append(commands, Call(paused))

(* setupListeners: subscribe, then ask for the status.                     *)
Listen ==
  /\ page.setup = "new"
  /\ page' = [page EXCEPT !.setup = "asking", !.attached = TRUE]
  /\ UNCHANGED <<coreVars, wire, flowVars, ipc, commands, screen, history, faults>>

(* get_session_status; it throws when the session is not in the map.       *)
ServeStatus ==
  /\ page.setup = "asking"
  /\ page' = [page EXCEPT !.setup = IF core.listed THEN "connected" ELSE "failed"]
  /\ UNCHANGED <<coreVars, wire, flowVars, ipc, commands, screen, history, faults>>

Reconciled ==
  IF page.setup = "connected" /\ page.attached /\ page.status = "connecting"
  THEN "connected" ELSE page.status

(* The answer comes, and mark_session_ready is sent whatever it was.       *)
Reconcile ==
  /\ page.setup \in {"connected", "failed"}
  /\ page' = [page EXCEPT !.setup = "marking", !.status = Reconciled]
  /\ UNCHANGED <<coreVars, wire, flowVars, ipc, commands, screen, history, faults>>

(* Mutant: what was buffered waits for the next flush.                     *)
MarkReadyOnly ==
  /\ page.setup = "marking"
  /\ page' = [page EXCEPT !.setup = "marked"]
  /\ core' = [core EXCEPT !.ready = @ \/ core.listed]
  /\ UNCHANGED <<produced, emitting, wire, slips>>
  /\ UNCHANGED <<flowVars, ipc, commands, screen, lost, unseen, faults>>

(* markReady                                                               *)
MarkReady ==
  /\ page.setup = "marking"
  /\ page' = [page EXCEPT !.setup = "marked"]
  /\ IF core.listed THEN Flush([core EXCEPT !.ready = TRUE])
     ELSE UNCHANGED <<core, emitting, wire, slips>>
  /\ UNCHANGED <<produced, flowVars, ipc, commands, screen, lost, unseen, faults>>

(* preload dispatches an event to whoever listens, and acknowledges it.    *)
(* A chunk goes to writeSessionOutput, the others to terminalStore.        *)
Dispatch ==
  LET event == Head(ipc) IN
  /\ ipc # <<>>
  /\ ipc' = Tail(ipc)
  /\ acks' = Append(acks, event)
  /\ \/ /\ ~page.attached
        /\ lost' = IF event \in Chunks /\ page.setup = "new" THEN lost \cup {event} ELSE lost
        /\ UNCHANGED <<page, commands, screen>>
     \/ /\ page.attached /\ event \in Chunks
        /\ screen' = Append(screen, event)
        /\ LET p == [page EXCEPT !.writing = @ + 1]
           IN  IF ~p.outputPaused /\ p.writing >= ScreenHigh
               THEN SetOutputPaused(p, TRUE)
               ELSE page' = p /\ UNCHANGED commands
        /\ UNCHANGED lost
     \/ /\ page.attached /\ event \notin Chunks
        /\ page' = [page EXCEPT !.status = IF event = Connected THEN "connected"
                                           ELSE "disconnected"]
        /\ UNCHANGED <<commands, screen, lost>>
  /\ UNCHANGED <<coreVars, wire, flow, slips, unseen, faults>>

(* Mutant: a callback that comes twice counts twice, below zero.           *)
ParsedTwice ==
  /\ page.attached
  /\ page' = [page EXCEPT !.writing = @ - 1]
  /\ UNCHANGED <<coreVars, wire, flowVars, ipc, commands, screen, history, faults>>

(* xterm has parsed a chunk and calls back.                                *)
Parsed ==
  LET p == [page EXCEPT !.writing = @ - 1] IN
  /\ page.attached /\ page.writing > 0
  /\ IF p.outputPaused /\ p.writing <= ScreenLow
     THEN SetOutputPaused(p, FALSE)
     ELSE page' = p /\ UNCHANGED commands
  /\ UNCHANGED <<coreVars, wire, flowVars, ipc, screen, history, faults>>

(* setPaused, in the Core; it throws when the session is not in the map.   *)
ServePause ==
  /\ commands # <<>> /\ Head(commands).state = "sent"
  /\ commands' = [commands EXCEPT ![1].state = IF core.listed THEN "done" ELSE "failed"]
  /\ IF ~core.listed THEN UNCHANGED <<core, emitting, wire, slips>>
     ELSE IF Head(commands).paused
     THEN core' = [core EXCEPT !.paused = TRUE] /\ UNCHANGED <<emitting, wire, slips>>
     ELSE Flush([core EXCEPT !.paused = FALSE])
  /\ UNCHANGED <<produced, flowVars, ipc, page, screen, lost, unseen, faults>>

(* The call fails before it reaches the Session.                           *)
PauseFails ==
  /\ faults < MaxFaults
  /\ faults' = faults + 1
  /\ commands # <<>> /\ Head(commands).state = "sent"
  /\ commands' = [commands EXCEPT ![1].state = "failed"]
  /\ UNCHANGED <<coreVars, wire, flowVars, ipc, page, screen, history>>

(* What a failed call leaves behind for good: a pause that is queued       *)
(* behind it, or that a failed resumption left in force, is no longer      *)
(* believed in, or a resumption is not tried again.                        *)
Forgets(call) ==
  IF call.paused
  THEN page.outputPaused
       /\ (core.paused \/ \E i \in 2..Len(commands) : commands[i].paused)
  ELSE ~page.outputPaused /\ page.status = "connecting"

(* Mutant: a failed resumption is not tried again.                         *)
RetriesNever(call) == FALSE

Retries(call) ==
  call.state = "failed" /\ ~call.paused /\ ~page.outputPaused /\ page.status = "connected"

(* The call returns: outputPauseCommand's handlers.                        *)
PauseReturns ==
  LET call == Head(commands) IN
  /\ commands # <<>> /\ call.state # "sent"
  /\ commands' = Tail(commands)
  /\ \/ /\ page.attached
        /\ \/ /\ call.state = "done"
              /\ page' = [page EXCEPT !.retry = @ /\ (call.paused \/ page.outputPaused)]
           \/ /\ call.state = "failed" /\ call.paused
              /\ page' = [page EXCEPT !.outputPaused = FALSE]
           \/ /\ call.state = "failed" /\ ~call.paused
              /\ page' = [page EXCEPT !.retry = @ \/ Retries(call)]
     \/ ~page.attached /\ page' = page
  /\ slips' = slips \cup (IF page.attached /\ call.state = "failed" /\ Forgets(call)
                         THEN {"forgotten"} ELSE {})
  /\ UNCHANGED <<coreVars, wire, flowVars, ipc, screen, lost, unseen, faults>>

(* scheduleOutputResumeRetry's timer.                                      *)
Retry ==
  /\ page.retry
  /\ IF page.attached /\ ~page.outputPaused /\ page.status = "connected"
     THEN SetOutputPaused([page EXCEPT !.retry = FALSE], FALSE)
     ELSE page' = [page EXCEPT !.retry = FALSE] /\ UNCHANGED commands
  /\ UNCHANGED <<coreVars, wire, flowVars, ipc, screen, history, faults>>

(* dispose, and what rebindSession does to the session it leaves.          *)
Detach ==
  LET p == [page EXCEPT !.attached = FALSE, !.retry = FALSE, !.writing = 0,
                        !.setup = IF @ = "new" THEN "gone" ELSE @]
  IN
  /\ page.setup \notin {"gone"} /\ (page.attached \/ page.setup = "new")
  /\ IF page.outputPaused THEN SetOutputPaused(p, FALSE) ELSE page' = p /\ UNCHANGED commands
  /\ UNCHANGED <<coreVars, wire, flowVars, ipc, screen, history, faults>>

-----------------------------------------------------------------------------
Controller ==
  Listen \/ ServeStatus \/ Reconcile \/ MarkReady \/ Dispatch \/ Parsed
    \/ ServePause \/ PauseReturns \/ Retry

Next ==
  \/ Output \/ Drained \/ Finish
  \/ Push \/ Ack \/ Navigation \/ PageReady
  \/ Controller \/ PauseFails \/ Detach

Spec == Init /\ [][Next]_vars

(* The event loops of the three processes take what waits for them, and a  *)
(* page that is being loaded is loaded.  The shell, its end, reloads,      *)
(* failures and the user owe nothing.                                      *)
Fairness ==
  /\ WF_vars(Drained)
  /\ WF_vars(Push) /\ WF_vars(Ack) /\ WF_vars(PageReady)
  /\ WF_vars(Listen) /\ WF_vars(ServeStatus) /\ WF_vars(Reconcile) /\ WF_vars(MarkReady)
  /\ WF_vars(Dispatch) /\ WF_vars(Parsed)
  /\ WF_vars(ServePause) /\ WF_vars(PauseReturns) /\ WF_vars(Retry)

FairSpec == Spec /\ Fairness

-----------------------------------------------------------------------------
(* Properties                                                              *)

(* Every variable keeps its type. *)
TypeOK ==
  /\ produced \in 0..MaxChunks
  /\ core \in [listed : BOOLEAN, ready : BOOLEAN, paused : BOOLEAN,
               buffered : Seq(Chunks), gated : 0..MaxChunks]
  /\ emitting \in Seq(Seq(Events)) /\ wire \in Seq(Events)
  /\ flow \in [pending : SUBSET Events, paused : BOOLEAN, awaitingRenderer : BOOLEAN]
  /\ ipc \in Seq(Events) /\ acks \in Seq(Events)
  /\ page \in [setup : {"new", "asking", "connected", "failed", "marking", "marked", "gone"},
               attached : BOOLEAN, status : Statuses, outputPaused : BOOLEAN,
               writing : 0..MaxChunks, retry : BOOLEAN]
  /\ commands \in Seq([paused : BOOLEAN, state : {"sent", "done", "failed"}])
  /\ screen \in Seq(Chunks) /\ lost \subseteq Chunks

(* The screen shows each chunk at most once, in the order the shell wrote  *)
(* them.                                                                   *)
InOrder == \A i, j \in DOMAIN screen : i < j => screen[i] < screen[j]

(* Through gate, overflow, pauses, resumptions, retries and reloads the    *)
(* output stays in order and is never duplicated, and the end of the       *)
(* session comes last, except where output has overtaken a flush.          *)
OrderKept ==
  "overtaken" \notin slips =>
    /\ InOrder
    /\ page.status = "disconnected" => \A n \in 1..produced :
         n \in ToSet(screen) \cup lost

(* The credits of TerminalFlow are those of the events that are on the way *)
(* to this page or whose acknowledgements are on the way back, and the     *)
(* backlog exceeds the limit by less than one read of the socket.          *)
CreditsExact ==
  /\ flow.pending \subseteq ToSet(ipc) \cup ToSet(acks)
  /\ ToSet(ipc) \subseteq flow.pending
  /\ Len(ipc) < FlowHigh + MaxBurst

(* When no call is under way and no retry is scheduled, the Session is     *)
(* paused exactly when its controller believes so, except after a failure  *)
(* of the kind Forgets describes.                                          *)
PauseAgrees ==
  commands = <<>> /\ ~page.retry /\ page.attached /\ core.listed
    /\ page.status = "connected" /\ "forgotten" \notin slips
  => core.paused = page.outputPaused

Gone == ~page.attached /\ page.setup # "new"

(* Again and again all that the shell has written so far is on the screen, *)
(* unless the controller has let go of the session, except for what is     *)
(* recorded in lost, and unless a failed call has left the Session paused  *)
(* (Forgets).                                                              *)
OutputShown ==
  []<>(\/ 1..produced \subseteq ToSet(screen) \cup lost
       \/ Gone \/ "forgotten" \in slips)

(* The end of the shell is shown, unless it ended before the controller    *)
(* had subscribed or the controller has let go.                            *)
EndShown == ~core.listed ~> page.status = "disconnected" \/ Gone \/ unseen
=============================================================================
