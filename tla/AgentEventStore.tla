---------------------------- MODULE AgentEventStore ----------------------------
(***************************************************************************)
(* The durable event log of ONE Agent Session, electron/node-core/         *)
(* agent-store.ts: creating it, appending batches of events to it, moving  *)
(* it to the archive, and loading it again when the Node Core process      *)
(* starts.  The process may be killed between any two steps, and in the    *)
(* middle of a write; see the fault model below.                           *)
(*                                                                         *)
(* A file is a sequence of lines.  A line is an event, or Torn: text that  *)
(* JSON.parse rejects.  The last line may lack its newline; what is        *)
(* appended next then continues that same line.                            *)
(*                                                                         *)
(* Sessions are independent of each other (the store keeps one promise     *)
(* chain per Session), except for the limit MAX_SESSIONS.                  *)
(***************************************************************************)
EXTENDS Naturals, Sequences, FiniteSets

CONSTANTS
  Creators,   \* requests that create this Session (several race for one id)
  Calls,      \* append calls, each made at most once
  Archivals,  \* archive requests, each made at most once
  MaxBatch,   \* the longest batch of one append call
  MaxLog,     \* MAX_LOG_BYTES, in lines
  MaxTime,    \* Date.now() returns any value in 1..MaxTime, also a smaller one later
  MaxStarts,  \* bound: how often the process starts
  Faults,     \* what the environment does beyond a clean kill
  Torn,       \* a line that is not JSON
  None        \* no file, no record

(***************************************************************************)
(* The fault model.  A clean kill is always possible: the process ends     *)
(* between two steps, or in the write of a creation or of an append, which *)
(* may then have reached the file up to any byte but the newline of a line *)
(* that is complete.  Two other kills are faults that a run may allow or   *)
(* leave out, because the code loses committed events in both:             *)
(*   unterminated  a kill that cuts a write exactly between a line and its *)
(*                 newline; the line is read as an event at the next start *)
(*                 and the next append runs into it                        *)
(*   repairCrash   a kill during the rewrite that discards a bad tail,     *)
(*                 which begins by truncating the whole file               *)
(* and two more faults are not kills:                                      *)
(*   writeError    a write, fsync, close or rename to fail part-way while  *)
(*                 the process lives on (disk full, I/O error)             *)
(*   powerLoss     loss of everything that was not fsynced                 *)
(***************************************************************************)
FaultKinds == {"unterminated", "writeError", "repairCrash", "powerLoss"}

ASSUME ConstantsAssumption ==
  /\ MaxBatch \in Nat \ {0}
  /\ MaxLog \in Nat
  /\ MaxTime \in Nat \ {0}
  /\ MaxStarts \in Nat \ {0}
  /\ Faults \subseteq FaultKinds

Ops   == Calls \cup Archivals
Roots == {"active", "archive"}

CreationTypes == {"session/created", "agent/created"}

(* type is "session/created", "agent/created", or the call it came from.   *)
Event == [seq : Nat, time : Nat \ {0}, type : CreationTypes \cup Calls]
File  == [lines : Seq(Event \cup {Torn}), ended : BOOLEAN, synced : Nat]

ASSUME SentinelsAssumption ==
  /\ Torn \notin Event
  /\ None \notin File
  /\ None \notin [events : Seq(Event), archived : BOOLEAN]
  /\ Calls \cap CreationTypes = {}
  /\ Calls \cap Archivals = {}

VARIABLES
  disk,       \* the Session's file in each root, or None
  store,      \* "down", loading "archive", loading "active", "open", "failed"
  record,     \* the in-memory record of the Session, or None
  creates,    \* where each create request stands
  announce,   \* the creation events each create request has still to emit
  queue,      \* the Session's promise chain; its head is running
  pc,         \* where the head of the queue stands
  batch,      \* the events the running append is writing or emitting
  outcome,    \* what the caller of each operation has been told
  published,  \* sequence numbers emitted by this process, in order
  committed,  \* history: the events readers have been able to see so far
  starts      \* how often the process has started

storeVars  == <<record, creates, announce, queue, pc, batch, outcome>>
vars == <<disk, store, storeVars, published, committed, starts>>

-----------------------------------------------------------------------------
(* Files                                                                   *)

EmptyFile == [lines |-> <<>>, ended |-> TRUE, synced |-> 0]

Chunk(lines, ended) == [lines |-> lines, ended |-> ended]

(* All of the batch's lines, encoded with the final newline.               *)
Encoded(events) == Chunk(events, TRUE)

(* What a write of these events that stops part-way may have written.      *)
Cuts(events) ==
  { Chunk(SubSeq(events, 1, k), TRUE) : k \in 0..Len(events) }
    \cup { Chunk(Append(SubSeq(events, 1, k), Torn), FALSE) : k \in 0..(Len(events) - 1) }
    \cup IF "unterminated" \in Faults
         THEN { Chunk(SubSeq(events, 1, k), FALSE) : k \in 1..Len(events) }
         ELSE {}

(* What a write that reports an error may have written.                    *)
FailedCuts(events) ==
  IF "writeError" \in Faults THEN Cuts(events) ELSE { Chunk(<<>>, TRUE) }

(* A file after a chunk is appended to it.  If its last line has no        *)
(* newline, the first new line runs into it and the two no longer parse.   *)
Written(file, chunk) ==
  IF chunk.lines = <<>> THEN file
  ELSE [file EXCEPT !.ended = chunk.ended,
                    !.lines = IF file.ended THEN @ \o chunk.lines
                              ELSE SubSeq(@, 1, Len(@) - 1)
                                     \o <<Torn>> \o Tail(chunk.lines)]

Synced(file) == [file EXCEPT !.synced = Len(file.lines)]

-----------------------------------------------------------------------------
(* Reading a log back                                                      *)

TornLines(lines) == { i \in DOMAIN lines : lines[i] = Torn }

(* The events before the first line that does not parse.                   *)
GoodPrefix(lines) ==
  IF TornLines(lines) = {} THEN lines
  ELSE LET first == CHOOSE i \in TornLines(lines) : \A j \in TornLines(lines) : i <= j
       IN  SubSeq(lines, 1, first - 1)

(* Mutant: a bad tail is repaired only when three events precede it.       *)
BadTailAfterThree(lines) == TornLines(lines) = {Len(lines)} /\ Len(lines) >= 4

(* Only the last line is bad, and the creation prefix precedes it.         *)
BadTail(lines) == TornLines(lines) = {Len(lines)} /\ Len(lines) >= 3

(* validateLoaded: sequence numbers count from 0, times never decrease,    *)
(* and the log starts with the two creation events.                        *)
ValidLog(events) ==
  /\ Len(events) >= 2
  /\ \A i \in DOMAIN events : events[i].seq = i - 1
  /\ \A i \in DOMAIN events : i > 1 => events[i - 1].time <= events[i].time
  /\ events[1].type = "session/created"
  /\ events[2].type = "agent/created"

Loadable(file) ==
  /\ TornLines(file.lines) = {} \/ BadTail(file.lines)
  /\ ValidLog(GoodPrefix(file.lines))

(* Mutant: the bad tail is ignored in memory but left in the file.         *)
RepairedInMemoryOnly(file) == file

(* What loading leaves of a file it accepts: a bad tail is cut off by      *)
(* writing the whole file again, without an fsync.                         *)
Repaired(file) ==
  IF BadTail(file.lines)
  THEN [lines |-> GoodPrefix(file.lines), ended |-> TRUE, synced |-> 0]
  ELSE file

(* The events a restart would find, were the process to end now.           *)
LiveFile == IF disk["archive"] # None THEN disk["archive"] ELSE disk["active"]

Recovered ==
  IF LiveFile # None /\ Loadable(LiveFile) THEN GoodPrefix(LiveFile.lines) ELSE <<>>

-----------------------------------------------------------------------------
(* create                                                                  *)

(* Mutant: the clamp Math.max(1, now) is dropped.                          *)
CreationEventsUnclamped(now) ==
  << [seq |-> 0, time |-> now - 1, type |-> "session/created"],
     [seq |-> 1, time |-> now - 1, type |-> "agent/created"] >>

CreationEvents(now) ==
  << [seq |-> 0, time |-> now, type |-> "session/created"],
     [seq |-> 1, time |-> now, type |-> "agent/created"] >>

Init ==
  /\ disk = [r \in Roots |-> None]
  /\ store = "down"
  /\ record = None
  /\ creates = [c \in Creators |-> "idle"]
  /\ announce = [c \in Creators |-> <<>>]
  /\ queue = <<>>
  /\ pc = "idle"
  /\ batch = <<>>
  /\ outcome = [o \in Ops |-> "none"]
  /\ published = <<>>
  /\ committed = <<>>
  /\ starts = 0

(* The Session is not known yet; writeFile is called and not awaited here, *)
(* so another request may pass the same test.                              *)
CreateCheck(c) ==
  /\ store = "open"
  /\ creates[c] = "idle"
  /\ record = None
  /\ creates' = [creates EXCEPT ![c] = "checked"]
  /\ UNCHANGED <<disk, store, record, announce, queue, pc, batch, outcome,
                 published, committed, starts>>

(* The exclusive write (flag wx) of both creation events.                  *)
CreateWrite(c) ==
  /\ creates[c] = "checked"
  /\ disk["active"] = None
  /\ \E now \in 1..MaxTime :
       /\ disk' = [disk EXCEPT !["active"] = Written(EmptyFile, Encoded(CreationEvents(now)))]
       /\ announce' = [announce EXCEPT ![c] = CreationEvents(now)]
  /\ creates' = [creates EXCEPT ![c] = "written"]
  /\ UNCHANGED <<store, record, queue, pc, batch, outcome,
                 published, committed, starts>>

(* The write is refused because the file exists, or fails and may leave    *)
(* part of the file behind; the request is rejected.                       *)
CreateFails(c) ==
  /\ creates[c] = "checked"
  /\ creates' = [creates EXCEPT ![c] = "idle"]
  /\ \/ UNCHANGED disk
     \/ /\ "writeError" \in Faults
        /\ disk["active"] = None
        /\ \E now \in 1..MaxTime : \E cut \in FailedCuts(CreationEvents(now)) :
             disk' = [disk EXCEPT !["active"] = Written(EmptyFile, cut)]
  /\ UNCHANGED <<store, record, announce, queue, pc, batch, outcome,
                 published, committed, starts>>

(* sessions.set: the Session exists from here on.                          *)
CreateRegister(c) ==
  /\ creates[c] = "written"
  /\ record' = [events |-> announce[c], archived |-> FALSE]
  /\ committed' = announce[c]
  /\ creates' = [creates EXCEPT ![c] = "emitting"]
  /\ UNCHANGED <<disk, store, announce, queue, pc, batch, outcome, published, starts>>

(* Emits the creation events one by one, outside the Session's queue.      *)
CreateEmit(c) ==
  /\ creates[c] = "emitting"
  /\ announce[c] # <<>>
  /\ published' = Append(published, Head(announce[c]).seq)
  /\ announce' = [announce EXCEPT ![c] = Tail(@)]
  /\ creates' = [creates EXCEPT ![c] = IF Len(announce[c]) = 1 THEN "idle" ELSE @]
  /\ UNCHANGED <<disk, store, record, queue, pc, batch, outcome, committed, starts>>

-----------------------------------------------------------------------------
(* The Session's queue: appends and archivals, one at a time.              *)

Submit(o) ==
  /\ store = "open"
  /\ record # None
  /\ outcome[o] = "none"
  /\ outcome' = [outcome EXCEPT ![o] = "queued"]
  /\ queue' = Append(queue, o)
  /\ UNCHANGED <<disk, store, record, creates, announce, pc, batch,
                 published, committed, starts>>

Running(o) == queue # <<>> /\ Head(queue) = o

(* Mutant: a rejected operation stays at the end of the promise chain.     *)
SettleOnlyAcked(o, result) ==
  /\ queue' = IF result = "acked" THEN Tail(queue) ELSE queue
  /\ pc' = "idle"
  /\ batch' = <<>>
  /\ outcome' = [outcome EXCEPT ![o] = result]

(* The head of the queue settles and the next operation may run.           *)
Settle(o, result) ==
  /\ queue' = Tail(queue)
  /\ pc' = "idle"
  /\ batch' = <<>>
  /\ outcome' = [outcome EXCEPT ![o] = result]

Home == IF record.archived THEN "archive" ELSE "active"

LastTime == record.events[Len(record.events)].time

Larger(a, b) == IF a >= b THEN a ELSE b

(* Mutant: the times follow the clock even when it has been set back.      *)
NewBatchClockOnly(c, n, now) ==
  [i \in 1..n |-> [seq  |-> Len(record.events) + i - 1,
                   time |-> now + i - 1,
                   type |-> c]]

(* Mutant: sequence numbers counted from one.                              *)
NewBatchFromOne(c, n, now) ==
  [i \in 1..n |-> [seq  |-> Len(record.events) + i,
                   time |-> Larger(now, LastTime) + i - 1,
                   type |-> c]]

(* n consecutive events that continue the in-memory log; the clock may     *)
(* have been set back, the times in the log never are.                     *)
NewBatch(c, n, now) ==
  [i \in 1..n |-> [seq  |-> Len(record.events) + i - 1,
                   time |-> Larger(now, LastTime) + i - 1,
                   type |-> c]]

FitsLog(n) == Len(disk[Home].lines) + n <= MaxLog

(* append, up to the write: an archived Session or a full log rejects it,  *)
(* otherwise the batch is built and written after the end of the file.     *)
AppendRefused(c) ==
  /\ Running(c)
  /\ pc = "idle"
  /\ record.archived \/ \E n \in 1..MaxBatch : ~FitsLog(n)
  /\ Settle(c, "rejected")
  /\ UNCHANGED <<disk, store, record, creates, announce, published, committed, starts>>

(* Mutant: the read-only check on archived logs is dropped.                *)
AppendWriteAnywhere(c) ==
  /\ Running(c)
  /\ pc = "idle"
  /\ \E n \in 1..MaxBatch, now \in 1..MaxTime :
       /\ FitsLog(n)
       /\ batch' = NewBatch(c, n, now)
       /\ disk' = [disk EXCEPT ![Home] = Written(@, Encoded(NewBatch(c, n, now)))]
  /\ pc' = "syncing"
  /\ UNCHANGED <<store, record, creates, announce, queue, outcome,
                 published, committed, starts>>

AppendWrite(c) ==
  /\ Running(c)
  /\ pc = "idle"
  /\ ~record.archived
  /\ \E n \in 1..MaxBatch, now \in 1..MaxTime :
       /\ FitsLog(n)
       /\ batch' = NewBatch(c, n, now)
       /\ disk' = [disk EXCEPT ![Home] = Written(@, Encoded(NewBatch(c, n, now)))]
  /\ pc' = "syncing"
  /\ UNCHANGED <<store, record, creates, announce, queue, outcome,
                 published, committed, starts>>

(* open or write fails: the caller sees a rejection, memory is as before.  *)
AppendFails(c) ==
  /\ Running(c)
  /\ pc = "idle"
  /\ ~record.archived
  /\ \E n \in 1..MaxBatch, now \in 1..MaxTime : \E cut \in FailedCuts(NewBatch(c, n, now)) :
       /\ FitsLog(n)
       /\ disk' = [disk EXCEPT ![Home] = Written(@, cut)]
  /\ Settle(c, "rejected")
  /\ UNCHANGED <<store, record, creates, announce, published, committed, starts>>

(* fsync and close succeed; record.events.push.                            *)
AppendCommit(c) ==
  /\ Running(c)
  /\ pc = "syncing"
  /\ disk' = [disk EXCEPT ![Home] = Synced(@)]
  /\ record' = [record EXCEPT !.events = @ \o batch]
  /\ committed' = record.events \o batch
  /\ pc' = "emitting"
  /\ UNCHANGED <<store, creates, announce, queue, batch, outcome, published, starts>>

(* fsync or close fails: rejected, with the whole batch in the file.       *)
SyncFails(c) ==
  /\ "writeError" \in Faults
  /\ Running(c)
  /\ pc = "syncing"
  /\ Settle(c, "rejected")
  /\ UNCHANGED <<disk, store, record, creates, announce, published, committed, starts>>

(* Emits the batch one event at a time.                                    *)
AppendEmit(c) ==
  /\ Running(c)
  /\ pc = "emitting"
  /\ batch # <<>>
  /\ published' = Append(published, Head(batch).seq)
  /\ batch' = Tail(batch)
  /\ UNCHANGED <<disk, store, record, creates, announce, queue, pc, outcome,
                 committed, starts>>

(* Mutant: the append settles without awaiting all of its emits.           *)
AppendDoneEarly(c) ==
  /\ Running(c)
  /\ pc = "emitting"
  /\ Settle(c, "acked")
  /\ UNCHANGED <<disk, store, record, creates, announce, published, committed, starts>>

AppendDone(c) ==
  /\ Running(c)
  /\ pc = "emitting"
  /\ batch = <<>>
  /\ Settle(c, "acked")
  /\ UNCHANGED <<disk, store, record, creates, announce, published, committed, starts>>

(* Mutant: the log is copied to the archive root instead of renamed.       *)
ArchiveByCopy(a) ==
  /\ Running(a)
  /\ pc = "idle"
  /\ IF record.archived THEN UNCHANGED <<disk, record>>
     ELSE /\ disk' = [disk EXCEPT !["archive"] = disk["active"]]
          /\ record' = [record EXCEPT !.archived = TRUE]
  /\ Settle(a, "acked")
  /\ UNCHANGED <<store, creates, announce, published, committed, starts>>

(* archive: rename into the archive root, at once when already archived.   *)
Archive(a) ==
  /\ Running(a)
  /\ pc = "idle"
  /\ IF record.archived THEN UNCHANGED <<disk, record>>
     ELSE /\ disk' = [disk EXCEPT !["archive"] = disk["active"], !["active"] = None]
          /\ record' = [record EXCEPT !.archived = TRUE]
  /\ Settle(a, "acked")
  /\ UNCHANGED <<store, creates, announce, published, committed, starts>>

ArchiveFails(a) ==
  /\ Running(a)
  /\ pc = "idle"
  /\ ~record.archived
  /\ Settle(a, "rejected")
  /\ UNCHANGED <<disk, store, record, creates, announce, published, committed, starts>>

-----------------------------------------------------------------------------
(* The end of the process, and loading at the next start                   *)

Start ==
  /\ store = "down"
  /\ starts < MaxStarts
  /\ store' = "archive"
  /\ starts' = starts + 1
  /\ UNCHANGED <<disk, storeVars, published, committed>>

(* Everything in memory is gone; callers never hear of what was queued.    *)
ProcessEnds ==
  /\ store' = "down"
  /\ record' = None
  /\ creates' = [c \in Creators |-> "idle"]
  /\ announce' = [c \in Creators |-> <<>>]
  /\ queue' = <<>>
  /\ pc' = "idle"
  /\ batch' = <<>>
  /\ outcome' = [o \in Ops |-> IF outcome[o] = "queued" THEN "lost" ELSE outcome[o]]
  /\ published' = <<>>
  /\ UNCHANGED <<committed, starts>>

Kill ==
  /\ store # "down"
  /\ ProcessEnds
  /\ UNCHANGED disk

KillInCreate(c) ==
  /\ creates[c] = "checked"
  /\ disk["active"] = None
  /\ \E now \in 1..MaxTime : \E cut \in Cuts(CreationEvents(now)) :
       disk' = [disk EXCEPT !["active"] = Written(EmptyFile, cut)]
  /\ ProcessEnds

KillInAppend(c) ==
  /\ Running(c)
  /\ pc = "idle"
  /\ ~record.archived
  /\ \E n \in 1..MaxBatch, now \in 1..MaxTime : \E cut \in Cuts(NewBatch(c, n, now)) :
       /\ FitsLog(n)
       /\ disk' = [disk EXCEPT ![Home] = Written(@, cut)]
  /\ ProcessEnds

(* The rewrite of a log with a bad tail truncates the file first.          *)
KillInRepair(r) ==
  /\ "repairCrash" \in Faults
  /\ store = r
  /\ disk[r] # None
  /\ BadTail(disk[r].lines)
  /\ \E cut \in Cuts(GoodPrefix(disk[r].lines)) :
       disk' = [disk EXCEPT ![r] = Written(EmptyFile, cut)]
  /\ ProcessEnds

(* Only what was fsynced is certain to survive; the lines after it may be  *)
(* missing or garbled from some point on.                                  *)
PowerLoss ==
  /\ "powerLoss" \in Faults
  /\ \E r \in Roots :
       /\ disk[r] # None
       /\ \E k \in disk[r].synced..(Len(disk[r].lines) - 1), torn \in BOOLEAN :
            disk' = [disk EXCEPT ![r] =
                       [lines  |-> SubSeq(@.lines, 1, k) \o (IF torn THEN <<Torn>> ELSE <<>>),
                        ended  |-> ~torn,
                        synced |-> @.synced]]
  /\ ProcessEnds

AfterLoading(r) == IF r = "archive" THEN "active" ELSE "open"

(* The file is accepted, a bad tail being cut off; a Session found in both *)
(* roots fails the whole store.                                            *)
LoadKeep(r) ==
  /\ store = r
  /\ disk[r] # None
  /\ Loadable(disk[r])
  /\ disk' = [disk EXCEPT ![r] = Repaired(@)]
  /\ IF record # None
     THEN store' = "failed" /\ UNCHANGED <<record, committed>>
     ELSE /\ store' = AfterLoading(r)
          /\ record' = [events |-> GoodPrefix(disk[r].lines), archived |-> r = "archive"]
          /\ committed' = record'.events
  /\ UNCHANGED <<creates, announce, queue, pc, batch, outcome, published, starts>>

(* Any other file is set aside under another name.                         *)
LoadQuarantine(r) ==
  /\ store = r
  /\ disk[r] # None
  /\ ~Loadable(disk[r])
  /\ disk' = [disk EXCEPT ![r] = None]
  /\ store' = AfterLoading(r)
  /\ UNCHANGED <<storeVars, published, committed, starts>>

LoadNothing(r) ==
  /\ store = r
  /\ disk[r] = None
  /\ store' = AfterLoading(r)
  /\ UNCHANGED <<disk, storeVars, published, committed, starts>>

(* The evidence cannot be written, or the log not renamed or rewritten     *)
(* (then it may be left in part): the store does not open.                 *)
LoadFails(r) ==
  /\ "writeError" \in Faults
  /\ store = r
  /\ disk[r] # None
  /\ TornLines(disk[r].lines) # {} \/ ~Loadable(disk[r])
  /\ \/ UNCHANGED disk
     \/ /\ BadTail(disk[r].lines)
        /\ \E cut \in FailedCuts(GoodPrefix(disk[r].lines)) :
             disk' = [disk EXCEPT ![r] = Written(EmptyFile, cut)]
  /\ store' = "failed"
  /\ UNCHANGED <<storeVars, published, committed, starts>>

CreateStep(c) ==
  CreateCheck(c) \/ CreateWrite(c) \/ CreateFails(c) \/ CreateRegister(c) \/ CreateEmit(c)

AppendStep(c) ==
  \/ AppendRefused(c) \/ AppendWrite(c) \/ AppendFails(c)
  \/ AppendCommit(c) \/ SyncFails(c) \/ AppendEmit(c) \/ AppendDone(c)

ArchiveStep(a) == Archive(a) \/ ArchiveFails(a)

LoadStep(r) == LoadKeep(r) \/ LoadQuarantine(r) \/ LoadNothing(r) \/ LoadFails(r)

End ==
  \/ Kill
  \/ PowerLoss
  \/ \E c \in Creators : KillInCreate(c)
  \/ \E c \in Calls : KillInAppend(c)
  \/ \E r \in Roots : KillInRepair(r)

Next ==
  \/ Start
  \/ End
  \/ \E r \in Roots : LoadStep(r)
  \/ \E c \in Creators : CreateStep(c)
  \/ \E o \in Ops : Submit(o)
  \/ \E c \in Calls : AppendStep(c)
  \/ \E a \in Archivals : ArchiveStep(a)

Spec == Init /\ [][Next]_vars

-----------------------------------------------------------------------------
(* Fairness: file operations and emits complete, so the operation at the   *)
(* head of the queue and the loading of files always take their next step. *)
(* Nothing obliges a caller to make a request, or the process to start     *)
(* or end.                                                                 *)
Fairness ==
  /\ \A c \in Calls : WF_vars(AppendStep(c))
  /\ \A a \in Archivals : WF_vars(ArchiveStep(a))
  /\ \A r \in Roots : WF_vars(LoadStep(r))

FairSpec == Spec /\ Fairness

-----------------------------------------------------------------------------
(* Properties                                                              *)

(* Every variable has its type.                                            *)
TypeOK ==
  /\ disk \in [Roots -> File \cup {None}]
  /\ store \in {"down", "archive", "active", "open", "failed"}
  /\ record \in [events : Seq(Event), archived : BOOLEAN] \cup {None}
  /\ creates \in [Creators -> {"idle", "checked", "written", "emitting"}]
  /\ announce \in [Creators -> Seq(Event)]
  /\ queue \in Seq(Ops)
  /\ pc \in {"idle", "syncing", "emitting"}
  /\ batch \in Seq(Event)
  /\ outcome \in [Ops -> {"none", "queued", "acked", "rejected", "lost"}]
  /\ published \in Seq(Nat)
  /\ committed \in Seq(Event)
  /\ starts \in 0..MaxStarts

Extends(short, long) ==
  /\ Len(short) <= Len(long)
  /\ SubSeq(long, 1, Len(short)) = short

(* Whatever a reader has been able to see (a snapshot, a page of events,   *)
(* an emitted event) is found again by a restart after a clean kill:       *)
(* agent-store.ts pushes to record.events only after the write and the     *)
(* fsync.  It is NOT so after a kill in the rewrite of a repair, nor when  *)
(* a kill has left a complete last line without its newline.               *)
CommittedSurvives == Extends(committed, Recovered)

(* The in-memory log always passes validateLoaded, however the clock       *)
(* jumps: otherwise the whole Session is quarantined at the next start.    *)
LogReloadable == record # None => ValidLog(record.events)

(* Where the published sequence numbers are those of appended events.      *)
Appended == { i \in DOMAIN published : published[i] >= 2 }

(* The appends of one process emit consecutive sequence numbers, each      *)
(* exactly once, and none is left out once the queue is empty, whichever   *)
(* of them were rejected on the way.                                       *)
AppendsPublishedInOrder ==
  /\ \A i, j \in Appended :
       i < j /\ Appended \cap (i + 1)..(j - 1) = {} => published[j] = published[i] + 1
  /\ \A i \in Appended :
       queue = <<>> /\ (\A j \in Appended : j <= i) =>
         published[i] = Len(record.events) - 1

(* With clean kills, an acknowledged append is in the log, as one block    *)
(* that no other append's events interrupt.                                *)
AckedAsOneBlock ==
  \A c \in Calls : outcome[c] = "acked" =>
    LET places == { i \in DOMAIN Recovered : Recovered[i].type = c }
    IN  /\ places # {}
        /\ \A i, j \in places : \A k \in i..j : k \in places

(* The Session's log is in one root only; a start that finds it in both    *)
(* refuses to open the store.                                              *)
OneHome == disk["active"] = None \/ disk["archive"] = None

(* With clean kills, no step changes the lines of an archived log or takes *)
(* it away; the rewrite of a repair, cut short, would.                     *)
ArchiveImmutable ==
  [][disk["archive"] # None =>
       /\ disk'["archive"] # None
       /\ disk'["archive"].lines = disk["archive"].lines]_vars

(* With clean kills, the store is a durable log: nothing recoverable is    *)
(* ever lost, and readers only see what is recoverable.                    *)
Abstract == INSTANCE DurableLog WITH log <- Recovered, seen <- committed
ImplementsDurableLog == Abstract!Spec

(* A queued operation is settled, or lost with its process: a rejected     *)
(* operation does not block those behind it.                               *)
QueueDrains == \A o \in Ops : outcome[o] = "queued" ~> outcome[o] # "queued"

=============================================================================
