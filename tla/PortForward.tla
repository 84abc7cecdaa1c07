------------------------------ MODULE PortForward ------------------------------
(***************************************************************************)
(* The port forwards of ONE connection profile: the renderer's             *)
(* portForwardStore (src/stores/portForwardStore.ts), which keeps a row    *)
(* for each forward and the terminals and SFTP views that own it, and the  *)
(* PortForwardManager of the core (node-core/port-forward.ts), which holds *)
(* the SSH connections and the listeners.                                  *)
(*                                                                         *)
(* A process is a call in progress: startAutoForOwner of an owner,         *)
(* stopOwner of an owner, a start or a stop from the dialog.  What runs    *)
(* between two awaits is one action.  A call to the core is handled when   *)
(* it is made; what comes back waits in "inbox", so that all the delay is  *)
(* there.                                                                  *)
(***************************************************************************)
EXTENDS Naturals, Sequences, FiniteSets

LOCAL INSTANCE SequencesExt

CONSTANTS
  Rules,    \* profile.portForwards, in its order; all start automatically
  Owners,   \* how many terminals and SFTP views use the profile
  User,
  MaxOps,   \* bound: the operations, one for each rule of each call
  MaxInbox  \* bound: what is on its way when the core goes on

ASSUME ForwardAssumption ==
  /\ Rules \in Seq(STRING) /\ Rules # <<>>
  /\ {MaxOps, MaxInbox} \subseteq Nat \ {0}
  /\ Owners \in Nat /\ User \notin 1..Owners

VARIABLES
  of,      \* which rule an operation is for and who asked for it
  rows,    \* the store's runtimes, by operation
  proc,    \* the calls in progress
  core,    \* the manager's forwards and the start calls in it, by operation
  inbox    \* events and answers on their way to the renderer

vars == <<of, rows, proc, core, inbox>>

-----------------------------------------------------------------------------

(* Owners are numbered in the order in which they open.                    *)
Owner == 1..Owners
Op   == 1..MaxOps
Rule == ToSet(Rules)

Status == {"none", "starting", "running", "stopping", "stopped", "failed"}
Active == {"starting", "running", "stopping"}

Starters == {"start"} \X (Owner \cup {User})
Leavers  == {"leave"} \X Owner
Button   == <<"button", User>>
Process  == Starters \cup Leavers \cup {Button}

(* Where a call is.  It is at "find", "leaving" or "prepare" in the store, *)
(* at "emitted", "closing" or "closed" in stopOne of the core, and waits   *)
(* for an answer otherwise.                                                *)
InStopOne == {"emitted", "closing", "closed"}
Places == {"new", "find", "prepare", "invoke", "hydrate", "stop", "leaving", "done"}
            \cup InStopOne

Row     == [status : Status, owners : SUBSET Owner]
Snap    == [op : Op, owners : SUBSET Owner, active : BOOLEAN]
Forward ==
  [status    : Status,
   listed    : BOOLEAN,   \* in the map of forwards
   start     : {"none", "connect", "listen", "emitted", "over"},
   server    : BOOLEAN,   \* managed.server or managed.remotePort is set
   listening : BOOLEAN,
   connected : BOOLEAN]   \* the SSH connection is open

Message ==
  [kind : {"event", "started", "failed", "stopped"}, to : Process \cup {User},
   op : Op, status : Status]
    \cup [kind : {"active", "refused"}, to : Process]
    \cup [kind : {"list"}, to : Process, list : [Op -> Status]]

NoRow   == [status |-> "none", owners |-> {}]
Unused  == [rule |-> "", mode |-> ""]
Nothing == [status |-> "none", listed |-> FALSE, start |-> "none",
            server |-> FALSE, listening |-> FALSE, connected |-> FALSE]

RowsOf(r) == {op \in Op : rows[op].status # "none" /\ of[op].rule = r}

Init ==
  /\ of = [op \in Op |-> Unused]
  /\ rows = [op \in Op |-> NoRow]
  /\ proc = [p \in Process |-> [at |-> "new", rules |-> <<>>, op |-> 0, owned |-> {}]]
  /\ core = [op \in Op |-> Nothing]
  /\ inbox = <<>>

(* startRule looks for a row when it is called, and when the row that was  *)
(* stopping (its op) has come to its end.                                  *)
Current(p) == Head(proc[p].rules)

Looks(p) ==
  /\ proc[p].at = "find"
  /\ proc[p].op \in Op => rows[proc[p].op].status \notin Active

(* No call can go on without an await: the microtasks have all run.        *)
Quiet == \A p \in Process : proc[p].at # "leaving" /\ ~Looks(p)

At(p, at) == [proc EXCEPT ![p].at = at]

(* Mutant: the owners are not taken over.                                  *)
MergeAlone(op, status) == [rows EXCEPT ![op] = [status |-> status]]

(* mergeRuntime: a row that is there keeps its owners.                     *)
Merge(op, status) == [rows EXCEPT ![op].status = status]

Event(op, status) == [kind |-> "event", to |-> User, op |-> op, status |-> status]

Answer(p, kind, op, status) == [kind |-> kind, to |-> p, op |-> op, status |-> status]

-----------------------------------------------------------------------------
(* The manager in the core.                                                *)

Claims(r) == {op \in Op : /\ core[op].listed /\ of[op].rule = r
                          /\ core[op].status \in Active}

(* start, up to its first await.                                           *)
CallStart(p, op, r) ==
  IF Claims(r) # {}
  THEN /\ inbox' = Append(inbox, [kind |-> "active", to |-> p])
       /\ UNCHANGED core
  ELSE /\ core' = [core EXCEPT ![op].start = "connect", ![op].status = "starting"]
       /\ UNCHANGED inbox

Starter(op) == CHOOSE p \in Starters : proc[p].op = op /\ proc[p].at = "invoke"

(* bound *)
Room == Len(inbox) < MaxInbox

Connect(op) ==
  /\ core[op].start = "connect" /\ Room
  /\ core' = [core EXCEPT ![op].start = "listen", ![op].listed = TRUE,
                          ![op].connected = TRUE]
  /\ UNCHANGED <<of, rows, proc, inbox>>

(* Mutant: the connection stays open.                                      *)
DroppedOpen(op) == [core EXCEPT ![op].start = "over", ![op].listed = FALSE]

(* What a start that fails leaves behind.                                  *)
Dropped(op) == [core EXCEPT ![op].start = "over", ![op].listed = FALSE,
                            ![op].connected = FALSE]

(* The port is taken, or the server refuses.                               *)
StartFails(op) ==
  /\ core[op].start \in {"connect", "listen"} /\ Room
  /\ core' = Dropped(op)
  /\ inbox' = Append(inbox, Answer(Starter(op), "failed", op, "failed"))
  /\ UNCHANGED <<of, rows, proc>>

Listen(op) ==
  /\ core[op].start = "listen" /\ Room
  /\ \A other \in Op : of[other].rule = of[op].rule => ~core[other].listening
  /\ core' = [core EXCEPT ![op].start = "emitted", ![op].server = TRUE,
                          ![op].listening = TRUE, ![op].status = "running"]
  /\ inbox' = Append(inbox, Event(op, "running"))
  /\ UNCHANGED <<of, rows, proc>>

Started(op) ==
  /\ core[op].start = "emitted" /\ Room
  /\ core' = [core EXCEPT ![op].start = "over"]
  /\ inbox' = Append(inbox, Answer(Starter(op), "started", op, core[op].status))
  /\ UNCHANGED <<of, rows, proc>>

(* stopOne, up to its first await; procs and box are what it updates.      *)
CallStop(procs, p, op, box) ==
  LET stopping(at) == [procs EXCEPT ![p].at = at, ![p].op = op] IN
  \/ /\ ~core[op].listed
     /\ inbox' = Append(box, [kind |-> "refused", to |-> p])
     /\ proc' = stopping("stop") /\ UNCHANGED core
  \/ /\ core[op].listed /\ core[op].status = "stopped"
     /\ inbox' = Append(box, Answer(p, "stopped", op, "stopped"))
     /\ proc' = stopping("stop") /\ UNCHANGED core
  \/ /\ core[op].listed /\ core[op].status # "stopped"
     /\ core' = [core EXCEPT ![op].status = "stopping"]
     /\ inbox' = Append(box, Event(op, "stopping"))
     /\ proc' = stopping("emitted")

(* The event is written: what the forward holds is released.               *)
StopReleases(p) ==
  LET op == proc[p].op IN
  /\ proc[p].at = "emitted" /\ Room
  /\ IF core[op].server
     THEN /\ core' = [core EXCEPT ![op].status = "stopped", ![op].listening = FALSE]
          /\ proc' = At(p, "closing")
          /\ UNCHANGED inbox
     ELSE /\ core' = [core EXCEPT ![op].status = "stopped", ![op].connected = FALSE]
          /\ proc' = At(p, "closed")
          /\ inbox' = Append(inbox, Event(op, "stopped"))
  /\ UNCHANGED <<of, rows>>

StopCloses(p) ==
  LET op == proc[p].op IN
  /\ proc[p].at = "closing" /\ Room
  /\ core' = [core EXCEPT ![op].connected = FALSE]
  /\ proc' = At(p, "closed")
  /\ inbox' = Append(inbox, Event(op, core[op].status))
  /\ UNCHANGED <<of, rows>>

(* Mutant: the answer says what the first event said.                      *)
StopAnswersFirst(p) ==
  LET op == proc[p].op IN
  /\ proc[p].at = "closed" /\ Room
  /\ proc' = At(p, "stop")
  /\ inbox' = Append(inbox, Answer(p, "stopped", op, "stopping"))
  /\ UNCHANGED <<of, rows, core>>

StopAnswers(p) ==
  LET op == proc[p].op IN
  /\ proc[p].at = "closed" /\ Room
  /\ proc' = At(p, "stop")
  /\ inbox' = Append(inbox, Answer(p, "stopped", op, core[op].status))
  /\ UNCHANGED <<of, rows, core>>

-----------------------------------------------------------------------------
(* The store: startRule and startAutoForOwner.                             *)

(* A call of startRule returns; startAutoForOwner goes on to the next.     *)
Return(p) ==
  [proc EXCEPT ![p].rules = Tail(@), ![p].op = 0,
               ![p].at = IF Len(proc[p].rules) = 1 THEN "done" ELSE "find"]

Own(rs, p, op) == IF p[2] = User THEN rs ELSE [rs EXCEPT ![op].owners = @ \cup {p[2]}]

(* bound *)
MayStart ==
  Len(Rules) * (Cardinality({p \in Starters : proc[p].at # "new"}) + 1) <= MaxOps

Open(o) ==
  LET p == <<"start", o>> IN
  /\ \A earlier \in 1..(o - 1) : proc[<<"start", earlier>>].at # "new"
  /\ Quiet /\ MayStart /\ proc[p].at = "new"
  /\ proc' = [proc EXCEPT ![p].at = "find", ![p].rules = Rules]
  /\ UNCHANGED <<of, rows, core, inbox>>

UserStarts(r) ==
  LET p == <<"start", User>> IN
  /\ Quiet /\ MayStart /\ proc[p].at = "new"
  /\ proc' = [proc EXCEPT ![p].at = "find", ![p].rules = <<r>>]
  /\ UNCHANGED <<of, rows, core, inbox>>

(* The optimistic row, and the call.                                       *)
Begin(p) ==
  LET r == Current(p) IN
  \E op \in Op :
    /\ rows[op].status = "none" /\ core[op].start = "none"
    /\ \A lower \in 1..(op - 1) : rows[lower].status # "none" \/ core[lower].start # "none"
    /\ of' = [of EXCEPT ![op] = [rule |-> r, mode |-> IF p[2] = User THEN "manual" ELSE "auto"]]
    /\ rows' = [rows EXCEPT ![op] = [status |-> "starting",
                                     owners |-> {p[2]} \cap Owner]]
    /\ proc' = [At(p, "invoke") EXCEPT ![p].op = op]
    /\ CallStart(p, op, r)

(* It also looks 5 s later, and waits again while there is a row that is   *)
(* stopping.                                                               *)
Find(p) ==
  LET r == Current(p)
      stopping == {op \in RowsOf(r) : rows[op].status = "stopping"} IN
  /\ Looks(p) \/ (Quiet /\ proc[p].at = "find")
  /\ \/ \E op \in stopping :
          /\ proc' = [proc EXCEPT ![p].op = op]
          /\ UNCHANGED <<of, rows, core, inbox>>
     \/ /\ stopping = {}
        /\ \E op \in RowsOf(r) :
             /\ rows[op].status \in Active
             /\ rows' = Own(rows, p, op)
             /\ proc' = Return(p)
             /\ UNCHANGED <<of, core, inbox>>
     \/ /\ \A op \in RowsOf(r) : rows[op].status \notin Active
        /\ IF p[2] = User
           THEN proc' = [At(p, "prepare") EXCEPT ![p].op = 0] /\ UNCHANGED <<of, rows, core, inbox>>
           ELSE Begin(p)

(* prepareManualProfile: the user is asked for a password, or gives up.    *)
Prepared(p) ==
  /\ Quiet /\ proc[p].at = "prepare"
  /\ \/ Begin(p)
     \/ proc' = Return(p) /\ UNCHANGED <<of, rows, core, inbox>>

(* Electron Main answers a call in a microtask and passes an event on at   *)
(* once, so an event may overtake answers.                                 *)
Due(i) ==
  \/ i = 1
  \/ inbox[i].kind = "event" /\ \A j \in 1..(i - 1) : inbox[j].kind # "event"

Take(kind, i) ==
  /\ Quiet
  /\ i \in DOMAIN inbox /\ Due(i) /\ inbox[i].kind = kind

OnEvent ==
  \E i \in DOMAIN inbox :
    /\ Take("event", i)
    /\ rows' = Merge(inbox[i].op, inbox[i].status)
    /\ inbox' = RemoveAt(inbox, i)
    /\ UNCHANGED <<of, proc, core>>

(* Mutant: the owners are not looked at again.                             *)
StillOwned(op) == FALSE

Unwanted(op) == of[op].mode = "auto" /\ rows[op].owners = {}

(* startRule has its answer: an automatic forward whose owners left in the *)
(* meantime is stopped.                                                    *)
OnStarted ==
  LET m == Head(inbox) IN
  /\ Take("started", 1)
  /\ rows' = Merge(m.op, m.status)
  /\ IF Unwanted(m.op)
     THEN CallStop(proc, m.to, m.op, Tail(inbox))
     ELSE proc' = Return(m.to) /\ inbox' = Tail(inbox) /\ UNCHANGED core
  /\ UNCHANGED of

OnFailed ==
  LET m == Head(inbox) IN
  /\ Take("failed", 1)
  /\ rows' = Merge(m.op, "failed")
  /\ proc' = Return(m.to)
  /\ inbox' = Tail(inbox)
  /\ UNCHANGED <<of, core>>

(* Mutant: the row of the refused start stays.                             *)
Kept(op) == rows

Removed(op) == [rows EXCEPT ![op] = NoRow]

(* "already active": the row goes, and the store asks what there is.       *)
OnActive ==
  LET m == Head(inbox)
      list == [op \in Op |-> IF core[op].listed THEN core[op].status ELSE "none"] IN
  /\ Take("active", 1)
  /\ rows' = Removed(proc[m.to].op)
  /\ of' = [of EXCEPT ![proc[m.to].op] = Unused]
  /\ proc' = [At(m.to, "hydrate") EXCEPT ![m.to].op = 0]
  /\ inbox' = Append(Tail(inbox), [kind |-> "list", to |-> m.to, list |-> list])
  /\ UNCHANGED core

(* hydrate, and what startRule does with it.                               *)
OnList ==
  LET m == Head(inbox)
      merged == [op \in Op |-> IF m.list[op] = "none" THEN rows[op]
                               ELSE [rows[op] EXCEPT !.status = m.list[op]]]
      here(statuses) == {op \in Op : /\ merged[op].status \in statuses
                                     /\ of[op].rule = Current(m.to)} IN
  /\ Take("list", 1)
  /\ \/ /\ here({"starting", "running"}) # {}
        /\ \E op \in here({"starting", "running"}) : rows' = Own(merged, m.to, op)
        /\ proc' = Return(m.to)
     \/ /\ here({"starting", "running"}) = {}
        /\ rows' = merged
        /\ proc' = IF here({"stopping"}) = {} THEN Return(m.to) ELSE At(m.to, "find")
  /\ inbox' = Tail(inbox)
  /\ UNCHANGED <<of, core>>

-----------------------------------------------------------------------------
(* The store: stopOwner, stop, clearFinished.                              *)

(* What the caller of stop does next, whether it failed or not.            *)
Continue(p) ==
  CASE p \in Starters -> Return(p)
    [] p \in Leavers  -> [At(p, "leaving") EXCEPT ![p].op = 0]
    [] p = Button     -> [At(p, "done") EXCEPT ![p].op = 0]

OnStopped ==
  LET m == Head(inbox) IN
  /\ Take("stopped", 1)
  /\ rows' = Merge(m.op, m.status)
  /\ proc' = Continue(m.to)
  /\ inbox' = Tail(inbox)
  /\ UNCHANGED <<of, core>>

OnRefused ==
  /\ Take("refused", 1)
  /\ proc' = Continue(Head(inbox).to)
  /\ inbox' = Tail(inbox)
  /\ UNCHANGED <<of, rows, core>>

(* The terminal closed, or the view is gone.  stopOwner keeps what it read *)
(* of the rows while it awaits one stop after the other.                   *)
Leave(o) ==
  LET p == <<"leave", o>>
      owned == {op \in Op : o \in rows[op].owners} IN
  /\ Quiet /\ proc[p].at = "new" /\ proc[<<"start", o>>].at # "new"
  /\ proc' = [At(p, "leaving") EXCEPT
       ![p].owned = {[op |-> op, owners |-> rows[op].owners,
                      active |-> rows[op].status \in Active] : op \in owned}]
  /\ UNCHANGED <<of, rows, core, inbox>>

LeaveNext(o) ==
  LET p == <<"leave", o>> IN
  /\ proc[p].at = "leaving"
  /\ \/ /\ proc[p].owned = {}
        /\ proc' = At(p, "done")
        /\ UNCHANGED <<rows, core, inbox>>
     \/ \E snap \in proc[p].owned :
          LET remaining == snap.owners \ {o}
              op == snap.op
              next == [proc EXCEPT ![p].owned = @ \ {snap}] IN
          /\ rows' = IF rows[op].status = "none" THEN rows
                     ELSE [rows EXCEPT ![op].owners = remaining]
          /\ IF of[op].mode = "auto" /\ remaining = {} /\ snap.active
             THEN CallStop(next, p, op, inbox)
             ELSE proc' = next /\ UNCHANGED <<core, inbox>>
  /\ UNCHANGED of

UserStops(op) ==
  /\ Quiet /\ proc[Button].at = "new"
  /\ rows[op].status \in Active \ {"stopping"}
  /\ CallStop(proc, Button, op, inbox)
  /\ UNCHANGED <<of, rows>>

ClearFinished ==
  /\ Quiet
  /\ rows' = [op \in Op |-> IF rows[op].status \in Active THEN rows[op] ELSE NoRow]
  /\ UNCHANGED <<of, proc, core, inbox>>

-----------------------------------------------------------------------------

Core ==
  \/ \E op \in Op : Connect(op) \/ StartFails(op) \/ Listen(op) \/ Started(op)
  \/ \E p \in Process : StopReleases(p) \/ StopCloses(p) \/ StopAnswers(p)

Answers == OnEvent \/ OnStarted \/ OnFailed \/ OnActive \/ OnList \/ OnStopped \/ OnRefused

Store == Answers \/ (\E p \in Starters : Find(p)) \/ (\E o \in Owner : LeaveNext(o))

Use ==
  \/ \E o \in Owner : Open(o) \/ Leave(o)
  \/ \E r \in Rule : UserStarts(r)
  \/ Prepared(<<"start", User>>)
  \/ \E op \in Op : UserStops(op)
  \/ ClearFinished

Next == Core \/ Store \/ Use

Spec == Init /\ [][Next]_vars

(* The core's awaits end, one way or the other, and what is sent arrives.  *)
(* Nothing is assumed of the user, or of owners.                           *)
Fairness ==
  /\ \A op \in Op : /\ WF_vars(Connect(op) \/ StartFails(op) \/ Listen(op))
                    /\ WF_vars(Started(op))
  /\ \A p \in Process : WF_vars(StopReleases(p) \/ StopCloses(p) \/ StopAnswers(p))
  /\ \A p \in Starters : WF_vars(Find(p))
  /\ \A o \in Owner : WF_vars(LeaveNext(o))
  /\ WF_vars(Answers)

FairSpec == Spec /\ Fairness

-----------------------------------------------------------------------------
(* Properties.                                                             *)

(* Every variable keeps its type.                                          *)
TypeOK ==
  /\ of \in [Op -> [rule : Rule \cup {""}, mode : {"", "auto", "manual"}]]
  /\ rows \in [Op -> Row]
  /\ \A p \in Process : /\ proc[p].at \in Places
                        /\ proc[p].rules \in Seq(Rule)
                        /\ proc[p].op \in Op \cup {0}
                        /\ proc[p].owned \subseteq Snap
  /\ core \in [Op -> Forward]
  /\ inbox \in Seq(Message)

(* Nothing is under way in the core, or on its way from there.             *)
Settled ==
  /\ inbox = <<>>
  /\ \A op \in Op : core[op].start \in {"none", "over"}
  /\ \A p \in Process : proc[p].at \notin InStopOne

Serving(op) == core[op].listed /\ core[op].status \in Active

(* What the user sees is what there is: whatever the order events and      *)
(* answers came in, whoever started, stopped, left or cleared meanwhile,   *)
(* once all has arrived a row is active exactly when the core's forward    *)
(* is, in the same state.                                                  *)
RowsAgree ==
  Settled => \A op \in Op : rows[op].status \in Active \/ Serving(op) =>
               Serving(op) /\ rows[op].status = core[op].status

(* When no call is at work on a forward, it holds a port or a connection   *)
(* only if it is in the map and running, where a stop finds it: the error  *)
(* path of start and all the ways through stopOne release both.            *)
NothingLeftBehind ==
  \A op \in Op :
    /\ core[op].start \in {"none", "over"}
    /\ \A p \in Process : proc[p].at \in InStopOne => proc[p].op # op
    /\ core[op].listening \/ core[op].connected
    => core[op].listed /\ core[op].status = "running"

(* An automatic forward without owners is stopped, also when the last one  *)
(* left while it was starting ("instead of orphaning it").                 *)
Ownerless(op) == /\ rows[op].status \in Active
                 /\ of[op].mode = "auto" /\ rows[op].owners = {}

OwnerlessStops == \A op \in Op : Ownerless(op) ~> ~Ownerless(op)

(* Whoever opens gets an answer for every rule: the wait for a row that is *)
(* stopping always ends.                                                   *)
StartReturns ==
  \A o \in Owner : proc[<<"start", o>>].at = "find" ~> proc[<<"start", o>>].at = "done"

=============================================================================
