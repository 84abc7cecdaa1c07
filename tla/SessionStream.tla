----------------------------- MODULE SessionStream -----------------------------
(***************************************************************************)
(* The renderer's copy of the committed log of ONE Agent Session:          *)
(* AgentSessionCommittedClient (src/lib/ai/agent-session-client.ts), the   *)
(* calls of the adapter that connect it (agent-session-adapter.ts), and    *)
(* what it reads from, the committed events of the core and the stream of  *)
(* live events (agent-runtime.ts, getEvents).                              *)
(*                                                                         *)
(* The client is a JavaScript object: what runs between two awaits is one  *)
(* action.  A process is a connect() or reconnect() in progress, or the    *)
(* chain "work" that takes in live events one after the other.  Processes  *)
(* share the events, and interleave at every await.                        *)
(*                                                                         *)
(* An event is its sequence number, from 1; what it says is not modelled.  *)
(***************************************************************************)
EXTENDS Naturals, Sequences, FiniteSets, Functions

CONSTANTS
  Calls,      \* bound: the calls of connect and reconnect
  Work,       \* the chain "work"
  None,
  PageSize,   \* PAGE_SIZE, what the client asks for
  MaxLimit,   \* the limit up to which getEvents accepts
  MaxEvents,  \* bound: events committed
  MaxLost,    \* bound: live events lost
  MaxFaults   \* bound: calls to the core that fail

Process == Calls \cup {Work}

ASSUME StreamAssumption ==
  /\ Work \notin Calls /\ None \notin Calls
  /\ {PageSize, MaxLimit} \subseteq Nat \ {0}
  /\ {MaxEvents, MaxLost, MaxFaults} \subseteq Nat

VARIABLES
  committed,  \* how many events the core has committed
  wire,       \* live events on their way to the renderer
  subs,       \* the listeners that are registered, by the call that did it
  client,     \* the fields of the client, see Init
  proc,       \* what each process does, see Processes
  since,      \* history: what was committed when a call was made
  shown,      \* history: how many events the listeners saw last
  lost,       \* history: the live events that were lost
  faults      \* history: how many calls to the core have failed

vars == <<committed, wire, subs, client, proc, since, shown, lost, faults>>

-----------------------------------------------------------------------------

Seqs == 1..MaxEvents

(* Where a process awaits, and "ingest" when it is about to take in the    *)
(* next of its events: connect its buffered ones, work the live ones.      *)
Waits == {"subscribe", "snapshot", "fetch",      \* connect
          "backfill",                            \* ingestLive, fetchAfter
          "resync1", "refetch1",                 \* fullResync after a failure
          "resync2", "refetch2"}                 \* fullResync after a gap

Processes ==
  [at : {"new", "ingest", "done", "failed"} \cup Waits,
   opens : BOOLEAN,         \* a call of openEntry, not of reconnect
   todo : Seq(Seqs),
   cursor : 0..MaxEvents,   \* afterSeq of the page it waits for
   asked : 0..MaxEvents]    \* what was committed when it asked

Idle == [at |-> "new", opens |-> FALSE, todo |-> <<>>, cursor |-> 0, asked |-> 0]

(* No process can go on without an await: the microtasks have all run.     *)
Quiet == \A p \in Process : proc[p].at = "ingest" => p = Work /\ proc[p].todo = <<>>

Init ==
  /\ committed \in 0..MaxEvents
  /\ wire = <<>> /\ subs = {}
  /\ client = [events |-> <<>>, unlisten |-> None,
               buffering |-> FALSE, buffered |-> <<>>]
  /\ proc = [p \in Process |-> IF p = Work THEN [Idle EXCEPT !.at = "ingest"] ELSE Idle]
  /\ since = [c \in Calls |-> 0]
  /\ shown = 0 /\ lost = {} /\ faults = 0

-----------------------------------------------------------------------------
(* The core and the stream.                                                *)

(* An event is committed before it is published.                           *)
Commit ==
  /\ Quiet /\ committed < MaxEvents
  /\ committed' = committed + 1
  /\ wire' = Append(wire, committed + 1)
  /\ UNCHANGED <<subs, client, proc, since, shown, lost, faults>>

(* Each registered listener hears the event.                               *)
Deliver ==
  LET copies == [i \in 1..Cardinality(subs) |-> Head(wire)] IN
  /\ Quiet /\ wire # <<>>
  /\ wire' = Tail(wire)
  /\ IF client.buffering
     THEN /\ client' = [client EXCEPT !.buffered = @ \o copies]
          /\ UNCHANGED proc
     ELSE /\ proc' = [proc EXCEPT ![Work].todo = @ \o copies]
          /\ UNCHANGED client
  /\ UNCHANGED <<committed, subs, since, shown, lost, faults>>

Lose ==
  /\ Quiet /\ wire # <<>> /\ Cardinality(lost) < MaxLost
  /\ wire' = Tail(wire)
  /\ lost' = lost \cup {Head(wire)}
  /\ UNCHANGED <<committed, subs, client, proc, since, shown, faults>>

-----------------------------------------------------------------------------
(* connect, reconnect, disconnect.                                         *)

Await(p, at) == [proc EXCEPT ![p].at = at]

AwaitPage(p, at, cursor) ==
  [proc EXCEPT ![p].at = at, ![p].cursor = cursor, ![p].asked = committed]

Opening == \E c \in Calls : proc[c].opens /\ proc[c].at \notin {"done", "failed"}

(* openEntry: connect, unless it is connected; one at a time.              *)
Open(c) ==
  /\ Quiet /\ proc[c].at = "new" /\ ~Opening
  /\ since' = [since EXCEPT ![c] = committed]
  /\ IF client.unlisten # None
     THEN proc' = Await(c, "done") /\ UNCHANGED client
     ELSE /\ proc' = [Await(c, "subscribe") EXCEPT ![c].opens = TRUE]
          /\ client' = [client EXCEPT !.buffering = TRUE]
  /\ UNCHANGED <<committed, wire, subs, shown, lost, faults>>

Reconnect(c) ==
  /\ Quiet /\ proc[c].at = "new"
  /\ since' = [since EXCEPT ![c] = committed]
  /\ subs' = subs \ {client.unlisten}
  /\ client' = [client EXCEPT !.unlisten = None, !.buffering = TRUE]
  /\ proc' = Await(c, "subscribe")
  /\ UNCHANGED <<committed, wire, shown, lost, faults>>

Subscribed(c) ==
  /\ Quiet /\ proc[c].at = "subscribe"
  /\ subs' = subs \cup {c}
  /\ client' = [client EXCEPT !.unlisten = c]
  /\ proc' = Await(c, "snapshot")
  /\ UNCHANGED <<committed, wire, since, shown, lost, faults>>

Disconnected == [client EXCEPT !.unlisten = None, !.buffering = FALSE, !.buffered = <<>>]

(* The last listener of the adapter goes away; it waits for an openEntry.  *)
Disconnect ==
  /\ Quiet /\ ~Opening
  /\ subs' = subs \ {client.unlisten}
  /\ client' = Disconnected
  /\ UNCHANGED <<committed, wire, proc, since, shown, lost, faults>>

(* Mutant: a call reads everything again.                                  *)
SnapshotClears(p) ==
  /\ Quiet
  /\ proc[p].at \in {"snapshot", "resync1", "resync2"}
  /\ proc' = AwaitPage(p, CASE proc[p].at = "resync1" -> "refetch1"
                            [] proc[p].at = "resync2" -> "refetch2"
                            [] OTHER -> "fetch", 0)
  /\ client' = [client EXCEPT !.events = <<>>]
  /\ UNCHANGED <<committed, wire, subs, since, shown, lost, faults>>

(* The snapshot arrives.                                                   *)
Snapshot(p) ==
  /\ Quiet
  /\ \/ /\ proc[p].at = "snapshot"
        /\ proc' = AwaitPage(p, "fetch", Len(client.events))
        /\ UNCHANGED client
     \/ /\ proc[p].at \in {"resync1", "resync2"}
        /\ proc' = AwaitPage(p, IF proc[p].at = "resync1" THEN "refetch1" ELSE "refetch2", 0)
        /\ client' = [client EXCEPT !.events = <<>>]
  /\ UNCHANGED <<committed, wire, subs, since, shown, lost, faults>>

-----------------------------------------------------------------------------
(* Pages and events.                                                       *)

(* Mutant: a gap goes unnoticed.                                           *)
MergesAnything(events, first) == TRUE

(* merge, for the consecutive events of a page: known ones are skipped, a  *)
(* gap is an error.                                                        *)
Merges(events, first) == first <= Len(events) + 1

(* Mutant: events that are known already are not skipped.                  *)
MergedTwice(events, first, last) ==
  IF Merges(events, first) /\ first <= last
  THEN events \o [i \in 1..last - first + 1 |-> first + i - 1]
  ELSE events

Merged(events, first, last) ==
  LET from == IF first > Len(events) THEN first ELSE Len(events) + 1
  IN  IF Merges(events, first) /\ from <= last
      THEN events \o [i \in 1..last - from + 1 |-> from + i - 1]
      ELSE events

(* A process fails: ingestLive rejects, and the chain goes on with the     *)
(* next event, or connect disconnects and rejects.                         *)
Fails(p, events) ==
  IF p = Work
  THEN /\ proc' = [proc EXCEPT ![p].at = "ingest", ![p].todo = Tail(@)]
       /\ client' = [client EXCEPT !.events = events]
       /\ UNCHANGED subs
  ELSE /\ proc' = [proc EXCEPT ![p] = [Idle EXCEPT !.at = "failed"]]
       /\ client' = [Disconnected EXCEPT !.events = events]
       /\ subs' = subs \ {client.unlisten}

(* fetchAfter fails: connect and fullResync fail with it; a backfill is    *)
(* followed by a full resync.                                              *)
FetchFails(p, events) ==
  IF proc[p].at = "backfill"
  THEN /\ proc' = Await(p, "resync1")
       /\ client' = [client EXCEPT !.events = events]
       /\ UNCHANGED subs
  ELSE Fails(p, events)

(* Mutant: connect drops what arrived while it was reading.                *)
BufferedDropped == <<>>

(* Array.sort, by number.                                                  *)
Sorted(s) ==
  LET order == CHOOSE p \in Bijection(DOMAIN s, DOMAIN s) :
                 \A i, j \in DOMAIN s : i < j => s[p[i]] <= s[p[j]]
  IN  [i \in DOMAIN s |-> s[order[i]]]

Buffered == Sorted(client.buffered)

(* fetchAfter has returned: connect stops buffering and takes in what was  *)
(* buffered, in order; ingestLive goes on with its event.                  *)
Fetched(p, events) ==
  LET next == Head(proc[p].todo) IN
  IF proc[p].at = "fetch"
  THEN /\ proc' = [proc EXCEPT ![p].at = "ingest",
                               ![p].todo = Buffered]
       /\ client' = [client EXCEPT !.events = events, !.buffering = FALSE,
                                   !.buffered = <<>>]
       /\ UNCHANGED <<subs, shown>>
  ELSE IF Merges(events, next)
  THEN /\ proc' = [proc EXCEPT ![p].at = "ingest", ![p].todo = Tail(@)]
       /\ client' = [client EXCEPT !.events = Merged(events, next, next)]
       /\ shown' = Len(Merged(events, next, next))
       /\ UNCHANGED subs
  ELSE IF proc[p].at \in {"backfill", "refetch1"}
  THEN /\ proc' = Await(p, "resync2")
       /\ client' = [client EXCEPT !.events = events]
       /\ UNCHANGED <<subs, shown>>
  ELSE Fails(p, events) /\ UNCHANGED shown

(* Mutant: only one page is read.                                          *)
OnePage(last, upto) == FALSE

(* The page says there are more.                                           *)
MorePages(last, upto) == last < upto

(* A page arrives.  The core read it at some time since it was asked, when *)
(* "upto" events were committed.                                           *)
Page(p) ==
  LET first  == proc[p].cursor + 1
      events == client.events IN
  /\ Quiet /\ proc[p].at \in {"fetch", "backfill", "refetch1", "refetch2"}
  /\ PageSize <= MaxLimit
  /\ \E upto \in proc[p].asked..committed :
       LET last   == IF proc[p].cursor + PageSize < upto
                     THEN proc[p].cursor + PageSize ELSE upto
           merged == Merged(events, first, last) IN
       IF first <= last /\ ~Merges(events, first)
       THEN FetchFails(p, events) /\ UNCHANGED shown
       ELSE IF MorePages(last, upto)
       THEN /\ proc' = AwaitPage(p, proc[p].at, last)
            /\ client' = [client EXCEPT !.events = merged]
            /\ UNCHANGED <<subs, shown>>
       ELSE Fetched(p, merged)
  /\ UNCHANGED <<committed, wire, since, lost, faults>>

(* A call to the core fails, or getEvents rejects the limit.               *)
CallFails(p) ==
  LET paging  == proc[p].at \in {"fetch", "backfill", "refetch1", "refetch2"}
      refused == paging /\ PageSize > MaxLimit IN
  /\ Quiet
  /\ refused \/ faults < MaxFaults
  /\ faults' = IF refused THEN faults ELSE faults + 1
  /\ \/ proc[p].at \in {"snapshot", "resync1", "resync2"} /\ Fails(p, client.events)
     \/ paging /\ FetchFails(p, client.events)
  /\ UNCHANGED <<committed, wire, since, shown, lost>>

(* ingestLive up to its first await.                                       *)
Ingest(p) ==
  LET next == Head(proc[p].todo)
      events == client.events IN
  /\ proc[p].at = "ingest" /\ proc[p].todo # <<>>
  /\ IF Merges(events, next)
     THEN /\ client' = [client EXCEPT !.events = Merged(events, next, next)]
          /\ proc' = [proc EXCEPT ![p].todo = Tail(@)]
          /\ shown' = IF next > Len(events) THEN next ELSE shown
     ELSE /\ proc' = AwaitPage(p, "backfill", Len(events))
          /\ UNCHANGED <<client, shown>>
  /\ UNCHANGED <<committed, wire, subs, since, lost, faults>>

(* connect returns.                                                        *)
Connected(c) ==
  /\ proc[c].at = "ingest" /\ proc[c].todo = <<>>
  /\ proc' = [proc EXCEPT ![c] = [Idle EXCEPT !.at = "done"]]
  /\ shown' = Len(client.events)
  /\ UNCHANGED <<committed, wire, subs, client, since, lost, faults>>

-----------------------------------------------------------------------------

Step(p) == Snapshot(p) \/ Page(p) \/ Ingest(p)

Next ==
  \/ Commit \/ Deliver \/ Lose \/ Disconnect
  \/ \E c \in Calls : Open(c) \/ Reconnect(c) \/ Subscribed(c) \/ Connected(c)
  \/ \E p \in Process : Step(p) \/ CallFails(p)

Spec == Init /\ [][Next]_vars

(* Live events arrive, calls to the core return, microtasks run.           *)
Fairness ==
  /\ WF_vars(Deliver)
  /\ WF_vars(Step(Work))
  /\ \A c \in Calls : WF_vars(Subscribed(c) \/ Step(c) \/ Connected(c))

FairSpec == Spec /\ Fairness

-----------------------------------------------------------------------------
(* Properties.                                                             *)

(* Every variable keeps its type. *)
TypeOK ==
  /\ committed \in 0..MaxEvents /\ shown \in 0..MaxEvents
  /\ lost \subseteq Seqs /\ faults \in 0..MaxFaults
  /\ wire \in Seq(Seqs) /\ subs \subseteq Calls
  /\ client \in [events : Seq(Seqs), unlisten : Calls \cup {None},
                 buffering : BOOLEAN, buffered : Seq(Seqs)]
  /\ proc \in [Process -> Processes]
  /\ since \in [Calls -> 0..MaxEvents]

(* The client's events are a prefix of the committed log, whatever the     *)
(* interleaving of backfills, resyncs and live events.                     *)
PrefixOfLog ==
  /\ Len(client.events) <= committed
  /\ \A i \in 1..Len(client.events) : client.events[i] = i

(* A connect that succeeds shows at least what was committed when it was   *)
(* called.  The adapter counts on it to see what it has just submitted.    *)
ConnectReadsAll ==
  [][\A c \in Calls :
       faults = 0 /\ proc[c].at = "ingest" /\ proc'[c].at = "done"
         => Len(client'.events) >= since[c]]_vars

(* connect and reconnect reject only when a call to the core failed.       *)
FailsOnlyOnFault ==
  \A c \in Calls : proc[c].at = "failed" => faults > 0

(* What the listeners see only grows.                                      *)
ShownGrows == [][faults = 0 => shown' >= shown]_vars

(* An event that reaches a client that stays connected comes to be shown,  *)
(* with all that were lost before it, while calls to the core succeed.     *)
Follows ==
  \A n \in Seqs :
    (committed >= n /\ client.unlisten # None)
      ~> (shown >= n \/ client.unlisten = None \/ n \in lost \/ faults > 0)

=============================================================================
