---------------------------- MODULE PathQueue_proofs ----------------------------
(***************************************************************************)
(* Theorems about PathQueue, for any operations, paths, tabs and number of *)
(* requests.                                                               *)
(*                                                                         *)
(* Every action first changes the queue without granting anything, which   *)
(* gives a queue X, and then, most of them, drains X.  The proof has three *)
(* parts: what Drain does to any queue (Draining), what the changes do to  *)
(* the queue (Changing), and that each action is such a change (Steps).    *)
(***************************************************************************)
EXTENDS PathQueue, TLAPS

Queues == [Seqno -> Requests]

(* The properties, of any queue.                                           *)
Apart(reqs) ==
  \A r, s \in Seqno :
    r # s /\ Holds(reqs[r]) /\ Holds(reqs[s]) => ~Overlap(reqs[r].op, reqs[s].op)

InOrder(reqs) ==
  \A r, s \in Seqno :
    Holds(reqs[r]) /\ reqs[s].phase = "queued"
      /\ Overlap(reqs[r].op, reqs[s].op) => r < s

Served(reqs, rows) ==
  \A r \in Seqno : reqs[r].phase = "queued" => ~CanGrant(r, reqs, rows)

(* Sequence numbers that were not given out yet, and attempts between two  *)
(* of which a task waits.                                                  *)
Unused(reqs, n) == \A r \in Seqno : r > n => reqs[r].phase = "none"

Attempts(reqs) ==
  \A r \in Seqno : reqs[r].phase = "backoff" => reqs[r].attempt <= RetryCount

-----------------------------------------------------------------------------
(* Draining.                                                               *)

LEMMA OverlapSymmetric ==
  ASSUME NEW op \in Op, NEW other \in Op, Overlap(op, other)
  PROVE  Overlap(other, op)
  BY DEF Overlap, Conflicts, PathsOverlap

LEMMA DrainGrants ==
  ASSUME NEW reqs \in Queues, NEW rows, NEW r \in Seqno
  PROVE  LET d == Drain(reqs, rows)[r] IN
         /\ d \in Requests
         /\ d.op = reqs[r].op /\ d.again = reqs[r].again /\ d.attempt = reqs[r].attempt
         /\ \/ d.phase = reqs[r].phase
               /\ ~(reqs[r].phase = "queued" /\ CanGrant(r, reqs, rows))
            \/ /\ reqs[r].phase = "queued" /\ CanGrant(r, reqs, rows)
               /\ d.phase = "granted"
<1>1. CASE reqs[r].phase = "queued" /\ CanGrant(r, reqs, rows)
  <2>1. Drain(reqs, rows)[r] = [reqs[r] EXCEPT !.phase = "granted"]
    BY <1>1 DEF Drain
  <2> QED  BY <1>1, <2>1 DEF Queues, Requests
<1>2. CASE ~(reqs[r].phase = "queued" /\ CanGrant(r, reqs, rows))
  <2>1. Drain(reqs, rows)[r] = reqs[r]
    BY <1>2 DEF Drain
  <2> QED  BY <1>2, <2>1 DEF Queues, Requests
<1> QED  BY <1>1, <1>2

LEMMA DrainType ==
  ASSUME NEW reqs \in Queues, NEW rows
  PROVE  Drain(reqs, rows) \in Queues
<1>1. \A r \in Seqno : Drain(reqs, rows)[r] \in Requests
  BY DrainGrants
<1>2. Drain(reqs, rows) = [r \in Seqno |-> Drain(reqs, rows)[r]]
  BY DEF Drain
<1> QED  BY <1>1, <1>2 DEF Queues

LEMMA DrainApart ==
  ASSUME NEW reqs \in Queues, NEW rows, Apart(reqs)
  PROVE  Apart(Drain(reqs, rows))
<1> DEFINE d == Drain(reqs, rows)
<1> SUFFICES ASSUME NEW r \in Seqno, NEW s \in Seqno, r # s,
                    Holds(d[r]), Holds(d[s]), Overlap(d[r].op, d[s].op)
             PROVE  FALSE
  BY DEF Apart
<1>1. d[r].op = reqs[r].op /\ d[s].op = reqs[s].op /\ reqs[r].op \in Op /\ reqs[s].op \in Op
  BY DrainGrants DEF Queues, Requests
<1>2. Overlap(reqs[r].op, reqs[s].op) /\ Overlap(reqs[s].op, reqs[r].op)
  BY <1>1, OverlapSymmetric
<1>3. /\ Holds(reqs[r]) \/ (reqs[r].phase = "queued" /\ CanGrant(r, reqs, rows))
      /\ Holds(reqs[s]) \/ (reqs[s].phase = "queued" /\ CanGrant(s, reqs, rows))
  BY DrainGrants DEF Holds, Running
<1>4. CASE Holds(reqs[r]) /\ Holds(reqs[s])
  BY <1>2, <1>4 DEF Apart
<1>5. CASE CanGrant(r, reqs, rows) /\ (Holds(reqs[s]) \/ (reqs[s].phase = "queued" /\ s < r))
  BY <1>2, <1>5 DEF CanGrant, InQueue
<1>6. CASE CanGrant(s, reqs, rows) /\ (Holds(reqs[r]) \/ (reqs[r].phase = "queued" /\ r < s))
  BY <1>2, <1>6 DEF CanGrant, InQueue
<1>7. r < s \/ s < r
  BY QueueAssumption DEF Seqno
<1> QED  BY <1>3, <1>4, <1>5, <1>6, <1>7

LEMMA DrainInOrder ==
  ASSUME NEW reqs \in Queues, NEW rows, InOrder(reqs)
  PROVE  InOrder(Drain(reqs, rows))
<1> DEFINE d == Drain(reqs, rows)
<1> SUFFICES ASSUME NEW r \in Seqno, NEW s \in Seqno,
                    Holds(d[r]), d[s].phase = "queued", Overlap(d[r].op, d[s].op)
             PROVE  r < s
  BY DEF InOrder
<1>1. d[r].op = reqs[r].op /\ d[s].op = reqs[s].op /\ reqs[r].op \in Op /\ reqs[s].op \in Op
  BY DrainGrants DEF Queues, Requests
<1>2. Overlap(reqs[r].op, reqs[s].op) /\ Overlap(reqs[s].op, reqs[r].op)
  BY <1>1, OverlapSymmetric
<1>3. reqs[s].phase = "queued"
  BY DrainGrants
<1>4. Holds(reqs[r]) \/ (reqs[r].phase = "queued" /\ CanGrant(r, reqs, rows))
  BY DrainGrants DEF Holds, Running
<1>5. CASE Holds(reqs[r])
  BY <1>2, <1>3, <1>5 DEF InOrder
<1>6. CASE CanGrant(r, reqs, rows)
  <2>1. s # r
    BY DEF Holds, Running
  <2>2. ~(s < r)
    BY <1>2, <1>3, <1>6, <2>1 DEF CanGrant, InQueue
  <2> QED  BY <2>1, <2>2, QueueAssumption DEF Seqno
<1> QED  BY <1>4, <1>5, <1>6

(* One scan is enough: what it leaves waiting could not be granted by      *)
(* another one.                                                            *)
LEMMA DrainServes ==
  ASSUME NEW reqs \in Queues, NEW rows
  PROVE  Served(Drain(reqs, rows), rows)
<1> DEFINE d == Drain(reqs, rows)
<1> SUFFICES ASSUME NEW r \in Seqno, d[r].phase = "queued", CanGrant(r, d, rows)
             PROVE  FALSE
  BY DEF Served
<1>1. reqs[r].phase = "queued" /\ ~CanGrant(r, reqs, rows) /\ d[r].op = reqs[r].op
  BY DrainGrants
<1>2. \A op \in Op : Active(op, rows[op]) => ~Overlap(op, reqs[r].op)
  BY <1>1 DEF CanGrant
<1>3. PICK s \in Seqno \ {r} :
        /\ InQueue(reqs[s]) /\ (Holds(reqs[s]) \/ s < r)
        /\ Overlap(reqs[s].op, reqs[r].op)
  BY <1>1, <1>2 DEF CanGrant
<1>4. InQueue(d[s]) /\ (Holds(d[s]) \/ s < r) /\ d[s].op = reqs[s].op
  BY <1>3, DrainGrants DEF InQueue, Holds, Running
<1> QED  BY <1>1, <1>3, <1>4 DEF CanGrant

-----------------------------------------------------------------------------
(* Changing.                                                               *)

(* A queue in which nothing new waits and no new task holds its paths.     *)
Kept(X) ==
  \A r \in Seqno :
    /\ X[r].op = request[r].op /\ X[r].again = request[r].again
    /\ Holds(X[r]) => Holds(request[r])
    /\ X[r].phase = "queued" => request[r].phase = "queued"
    /\ X[r].phase # "none" => request[r].phase # "none"

Pushed(X) ==
  \E op \in Op, again \in BOOLEAN :
    last < MaxRequests /\ X = Push(op, again)

(* A queue that leaves everything waiting as it was.                       *)
Still(X) ==
  \A r \in Seqno :
    /\ Holds(request[r]) <=> Holds(X[r])
    /\ request[r].phase = "queued" <=> X[r].phase = "queued"

(* What the actions do to the queue.                                       *)
Changes ==
  \E X \in Queues :
    /\ Attempts(X)
    /\ \/ Kept(X) /\ last' = last
       \/ Pushed(X) /\ last' = last + 1
    /\ \/ request' = Drain(X, row')
       \/ /\ request' = X /\ Kept(X) /\ Still(X)
          /\ \A op \in Op : Active(op, row[op]) => Active(op, row'[op])

Typed == TypeOK /\ Attempts(request) /\ Unused(request, last)

LEMMA PushedRequest ==
  ASSUME Typed, last < MaxRequests, NEW op \in Op, NEW again \in BOOLEAN
  PROVE  /\ last + 1 \in Seqno /\ Push(op, again) \in Queues
         /\ Push(op, again)[last + 1].op = op
         /\ Push(op, again)[last + 1].again = again
         /\ Push(op, again)[last + 1].phase = "queued"
         /\ \A r \in Seqno : r # last + 1 => Push(op, again)[r] = request[r]
<1>1. last \in Nat /\ last + 1 \in Seqno
  BY QueueAssumption DEF Typed, TypeOK, Seqno
<1>2. [op |-> op, again |-> again, phase |-> "queued", attempt |-> 0] \in Requests
  BY QueueAssumption DEF Requests
<1>3. request \in [Seqno -> Requests]
  BY DEF Typed, TypeOK
<1> QED  BY <1>1, <1>2, <1>3 DEF Push, Queues

LEMMA ChangeApart ==
  ASSUME Typed, NEW X \in Queues, Kept(X) \/ Pushed(X), Apart(request)
  PROVE  Apart(X)
<1>1. CASE Kept(X)
  BY <1>1 DEF Kept, Apart
<1>2. CASE Pushed(X)
  <2>1. PICK op \in Op, again \in BOOLEAN : last < MaxRequests /\ X = Push(op, again)
    BY <1>2 DEF Pushed
  <2>2. X[last + 1].phase = "queued"
    BY <2>1, PushedRequest
  <2>3. \A r \in Seqno : r # last + 1 => X[r] = request[r]
    BY <2>1, PushedRequest
  <2>4. \A r \in Seqno : Holds(X[r]) => X[r] = request[r]
    BY <2>2, <2>3 DEF Holds, Running
  <2> QED  BY <2>4 DEF Apart
<1> QED  BY <1>1, <1>2

LEMMA ChangeInOrder ==
  ASSUME Typed, NEW X \in Queues, Kept(X) \/ Pushed(X), InOrder(request)
  PROVE  InOrder(X)
<1>1. CASE Kept(X)
  BY <1>1 DEF Kept, InOrder
<1>2. CASE Pushed(X)
  <2>1. PICK op \in Op, again \in BOOLEAN : last < MaxRequests /\ X = Push(op, again)
    BY <1>2 DEF Pushed
  <2> SUFFICES ASSUME NEW r \in Seqno, NEW s \in Seqno, Holds(X[r]),
                      X[s].phase = "queued", Overlap(X[r].op, X[s].op)
               PROVE  r < s
    BY DEF InOrder
  <2>2. r # last + 1 /\ X[r] = request[r]
    <3>1. X[last + 1].phase = "queued"
      BY <2>1, PushedRequest
    <3>2. r # last + 1
      BY <3>1 DEF Holds, Running
    <3> QED  BY <2>1, <3>2, PushedRequest
  <2>3. CASE s # last + 1
    BY <2>1, <2>2, <2>3, PushedRequest DEF InOrder
  <2>4. CASE s = last + 1
    <3>1. request[r].phase # "none"
      BY <2>2 DEF Holds, Running
    <3>2. ~(r > last)
      BY <3>1 DEF Typed, Unused
    <3> QED  BY <2>4, <3>2, QueueAssumption DEF Typed, TypeOK, Seqno
  <2> QED  BY <2>3, <2>4
<1> QED  BY <1>1, <1>2

LEMMA ChangesKeepOrder ==
  ASSUME Typed, Changes, Apart(request), InOrder(request), Served(request, row)
  PROVE  Apart(request') /\ InOrder(request') /\ Served(request', row')
<1>1. PICK X \in Queues :
        /\ Kept(X) \/ Pushed(X)
        /\ \/ request' = Drain(X, row')
           \/ /\ request' = X /\ Kept(X) /\ Still(X)
              /\ \A op \in Op : Active(op, row[op]) => Active(op, row'[op])
  BY DEF Changes
<1>2. Apart(X) /\ InOrder(X)
  BY <1>1, ChangeApart, ChangeInOrder
<1>3. CASE request' = Drain(X, row')
  BY <1>2, <1>3, DrainApart, DrainInOrder, DrainServes
<1>4. CASE /\ request' = X /\ Kept(X) /\ Still(X)
           /\ \A op \in Op : Active(op, row[op]) => Active(op, row'[op])
  <2> SUFFICES ASSUME NEW r \in Seqno, X[r].phase = "queued", CanGrant(r, X, row')
               PROVE  FALSE
    BY <1>2, <1>4 DEF Served
  <2>1. request[r].phase = "queued" /\ X[r].op = request[r].op
    BY <1>4 DEF Kept
  <2>2. \A op \in Op : Active(op, row[op]) => ~Overlap(op, request[r].op)
    BY <1>4, <2>1 DEF CanGrant
  <2>3. \A s \in Seqno \ {r} :
          InQueue(request[s]) /\ (Holds(request[s]) \/ s < r)
            => ~Overlap(request[s].op, request[r].op)
    BY <1>4, <2>1 DEF CanGrant, Kept, Still, InQueue
  <2>4. CanGrant(r, request, row)
    BY <2>2, <2>3 DEF CanGrant
  <2> QED  BY <2>1, <2>4 DEF Served
<1> QED  BY <1>1, <1>3, <1>4

(* The request part of the type.                                           *)
LEMMA ChangesKeepQueue ==
  ASSUME Typed, Changes
  PROVE  /\ request' \in Queues /\ Attempts(request') /\ Unused(request', last')
         /\ last' \in 0..MaxRequests
<1>1. PICK X \in Queues :
        /\ Attempts(X)
        /\ \/ Kept(X) /\ last' = last
           \/ Pushed(X) /\ last' = last + 1
        /\ request' = Drain(X, row') \/ request' = X
  BY DEF Changes
<1>2. last' \in 0..MaxRequests
  BY <1>1, QueueAssumption DEF Typed, TypeOK, Pushed
<1>3. Unused(X, last')
  <2>1. CASE Kept(X) /\ last' = last
    BY <2>1 DEF Kept, Typed, Unused
  <2>2. CASE Pushed(X) /\ last' = last + 1
    <3>1. PICK op \in Op, again \in BOOLEAN : last < MaxRequests /\ X = Push(op, again)
      BY <2>2 DEF Pushed
    <3> SUFFICES ASSUME NEW r \in Seqno, r > last + 1
                 PROVE  X[r].phase = "none"
      BY <2>2 DEF Unused
    <3>2. r # last + 1 /\ r > last
      BY QueueAssumption DEF Typed, TypeOK, Seqno
    <3> QED  BY <3>1, <3>2, PushedRequest DEF Typed, Unused
  <2> QED  BY <1>1, <2>1, <2>2
<1>4. CASE request' = X
  BY <1>1, <1>2, <1>3, <1>4
<1>5. CASE request' = Drain(X, row')
  <2>1. request' \in Queues
    BY <1>5, DrainType
  <2>2. Attempts(request')
    BY <1>1, <1>5, DrainGrants DEF Attempts
  <2>3. Unused(request', last')
    BY <1>3, <1>5, DrainGrants DEF Unused
  <2> QED  BY <1>2, <2>1, <2>2, <2>3
<1> QED  BY <1>1, <1>4, <1>5

-----------------------------------------------------------------------------
(* What the changes are made of.                                           *)

LEMMA KeepAll ==
  ASSUME Typed
  PROVE  request \in Queues /\ Attempts(request) /\ Kept(request) /\ Still(request)
  BY DEF Typed, TypeOK, Queues, Kept, Still

LEMMA MoveTask ==
  ASSUME Typed, NEW r \in Seqno, Holds(request[r]), NEW phase \in Running,
         NEW attempt \in 0..RetryCount + 1,
         phase = "backoff" => attempt <= RetryCount
  PROVE  LET X == [To(r, phase) EXCEPT ![r].attempt = attempt] IN
         X \in Queues /\ Attempts(X) /\ Kept(X) /\ Still(X)
<1> DEFINE X == [To(r, phase) EXCEPT ![r].attempt = attempt]
<1>1. request \in [Seqno -> Requests] /\ Attempts(request)
  BY DEF Typed, TypeOK
<1>2. X \in [Seqno -> Requests] /\ \A s \in Seqno : s # r => X[s] = request[s]
  BY <1>1 DEF To, Requests
<1>3. /\ X[r].op = request[r].op /\ X[r].again = request[r].again
      /\ X[r].phase = phase /\ X[r].attempt = attempt
  BY <1>1 DEF To, Requests
<1>4. Holds(X[r]) /\ X[r].phase # "queued" /\ X[r].phase # "none"
  BY <1>3 DEF Holds, Running
<1>5. request[r].phase # "queued" /\ request[r].phase # "none"
  BY DEF Holds, Running
<1>6. Attempts(X)
  BY <1>1, <1>2, <1>3 DEF Attempts
<1>7. Kept(X) /\ Still(X)
  BY <1>2, <1>3, <1>4, <1>5 DEF Kept, Still
<1> QED  BY <1>2, <1>6, <1>7 DEF Queues

LEMMA MovePhase ==
  ASSUME Typed, NEW r \in Seqno, Holds(request[r]), NEW phase \in Running,
         phase = "backoff" => request[r].attempt <= RetryCount
  PROVE  To(r, phase) \in Queues /\ Attempts(To(r, phase)) /\ Kept(To(r, phase))
<1>1. request \in [Seqno -> Requests] /\ request[r].attempt \in 0..RetryCount + 1
  BY DEF Typed, TypeOK, Requests
<1>2. To(r, phase) = [To(r, phase) EXCEPT ![r].attempt = request[r].attempt]
  BY <1>1 DEF To, Requests
<1> QED  BY <1>1, <1>2, MoveTask

LEMMA GoneType ==
  ASSUME NEW rq \in Requests
  PROVE  /\ Gone(rq) \in Requests
         /\ Gone(rq).op = rq.op /\ Gone(rq).again = rq.again /\ Gone(rq).phase = "gone"
<1>1. 0 \in 0..RetryCount + 1
  BY QueueAssumption
<1>2. "gone" \in {"none", "queued", "granted", "gone"} \cup Running
  OBVIOUS
<1> QED  BY <1>1, <1>2 DEF Gone, Requests

LEMMA EndTask ==
  ASSUME Typed, NEW r \in Seqno, Holds(request[r])
  PROVE  LET X == [request EXCEPT ![r] = Gone(@)] IN
         X \in Queues /\ Attempts(X) /\ Kept(X)
<1> DEFINE X == [request EXCEPT ![r] = Gone(@)]
<1>1. request \in [Seqno -> Requests] /\ Attempts(request)
  BY DEF Typed, TypeOK
<1>2. X \in [Seqno -> Requests] /\ \A s \in Seqno : s # r => X[s] = request[s]
  BY <1>1, GoneType
<1>3. /\ X[r].op = request[r].op /\ X[r].again = request[r].again
      /\ X[r].phase = "gone"
  BY <1>1, GoneType
<1>4. ~Holds(X[r]) /\ request[r].phase # "none"
  BY <1>3 DEF Holds, Running
<1>5. Attempts(X)
  BY <1>1, <1>2, <1>3 DEF Attempts
<1>6. Kept(X)
  BY <1>2, <1>3, <1>4 DEF Kept
<1> QED  BY <1>2, <1>5, <1>6 DEF Queues

LEMMA DropRequests ==
  ASSUME Typed, NEW out
  PROVE  Without(out) \in Queues /\ Attempts(Without(out)) /\ Kept(Without(out))
<1>1. request \in [Seqno -> Requests] /\ Attempts(request)
  BY DEF Typed, TypeOK
<1>2. \A r \in Seqno :
        /\ Without(out)[r] \in Requests
        /\ \/ Without(out)[r] = request[r]
           \/ /\ request[r].phase = "queued" /\ r \in out
              /\ Without(out)[r] = Gone(request[r])
  BY <1>1, GoneType DEF Without
<1>3. \A r \in Seqno : LET gone == Gone(request[r]) IN
        /\ gone.op = request[r].op /\ gone.again = request[r].again
        /\ gone.phase = "gone"
  BY <1>1, GoneType
<1>4. Without(out) \in Queues
  BY <1>2 DEF Without, Queues
<1>5. Attempts(Without(out))
  BY <1>1, <1>2, <1>3 DEF Attempts
<1>6. Kept(Without(out))
  BY <1>2, <1>3 DEF Kept, Holds, Running
<1> QED  BY <1>4, <1>5, <1>6

Statuses == {"absent", "pending", "running", "cancelling", "failed", "completed", "cancelled"}

LEMMA MarkType ==
  ASSUME row \in [Op -> Rows], NEW op \in Op, NEW status \in Statuses
  PROVE  /\ Mark(op, status) \in [Op -> Rows]
         /\ \A other \in Op : other # op => Mark(op, status)[other] = row[other]
         /\ Mark(op, status)[op].status =
              IF row[op].status = "absent" THEN "absent" ELSE status
  BY DEF Mark, Rows, Statuses

LEMMA SettledType ==
  ASSUME row \in [Op -> Rows], NEW op \in Op, NEW status \in {"completed", "failed"}
  PROVE  /\ Settled(op, status) \in [Op -> Rows]
         /\ \A other \in Op : other # op => Settled(op, status)[other] = row[other]
         /\ Settled(op, status)[op].status \in {"absent", "completed", "failed", "cancelled"}
  BY MarkType DEF Settled, Statuses

-----------------------------------------------------------------------------
(* Steps.                                                                  *)

RestTyped ==
  /\ row' \in [Op -> Rows]
  /\ closed' \subseteq Owner /\ calls' \subseteq Op
  /\ progress' = NoEvent \/ progress' \in [op : Op, full : BOOLEAN]
  /\ cancels' \in 0..MaxCancels

LEMMA Drains ==
  ASSUME NEW X \in Queues, Attempts(X), Kept(X), last' = last,
         request' = Drain(X, row')
  PROVE  Changes
  BY DEF Changes

LEMMA Stays ==
  ASSUME Typed, UNCHANGED <<request, last>>,
         \A op \in Op : Active(op, row[op]) => Active(op, row'[op])
  PROVE  Changes
<1>1. request' = request /\ last' = last
  OBVIOUS
<1> QED  BY <1>1, KeepAll DEF Changes

LEMMA UserSteps ==
  ASSUME Typed, NEW op \in Op
  PROVE  /\ Enqueue(op) => Changes /\ RestTyped
         /\ Submit(op) => Changes /\ RestTyped
         /\ Retry(op) => Changes /\ RestTyped
         /\ CancelRunning(op) => Changes /\ RestTyped
         /\ CancelReturns(op) => Changes /\ RestTyped
         /\ CancelFails(op) => Changes /\ RestTyped
         /\ Discard(op) => Changes /\ RestTyped
<1> USE DEF Typed
<1>1. ASSUME Enqueue(op) PROVE Changes /\ RestTyped
  <2>1. RestTyped
    BY <1>1 DEF Enqueue, TypeOK, RestTyped, Rows
  <2> QED  BY <1>1, <2>1, KeepAll, Drains DEF Enqueue
<1>2. ASSUME Submit(op) \/ Retry(op) PROVE Changes /\ RestTyped
  <2>1. RestTyped
    BY <1>2 DEF Submit, Retry, TypeOK, RestTyped
  <2>2. PICK again \in BOOLEAN :
          /\ last < MaxRequests /\ last' = last + 1
          /\ request' = Drain(Push(op, again), row) /\ row' = row
    BY <1>2 DEF Submit, Retry
  <2>3. Push(op, again) \in Queues /\ Pushed(Push(op, again))
    BY <2>2, PushedRequest DEF Pushed
  <2>4. Attempts(Push(op, again))
    <3>1. \A r \in Seqno : \/ Push(op, again)[r].phase = "queued"
                           \/ Push(op, again)[r] = request[r]
      BY <2>2, PushedRequest
    <3> QED  BY <3>1 DEF Attempts
  <2>5. request' = Drain(Push(op, again), row')
    BY <2>2
  <2> QED  BY <2>1, <2>2, <2>3, <2>4, <2>5 DEF Changes
<1>3. ASSUME CancelRunning(op) PROVE Changes /\ RestTyped
  <2>1. RestTyped
    BY <1>3, QueueAssumption DEF CancelRunning, TypeOK, RestTyped, Rows
  <2>2. \A other \in Op : Active(other, row[other]) => Active(other, row'[other])
    BY <1>3 DEF CancelRunning, TypeOK, Rows, Active, Complete
  <2> QED  BY <1>3, <2>1, <2>2, Stays DEF CancelRunning
<1>4. ASSUME CancelReturns(op) PROVE Changes /\ RestTyped
  <2>1. RestTyped
    BY <1>4 DEF CancelReturns, TypeOK, RestTyped
  <2> QED  BY <1>4, <2>1, Stays DEF CancelReturns
<1>5. ASSUME CancelFails(op) PROVE Changes /\ RestTyped
  <2>1. RestTyped
    BY <1>5, MarkType DEF CancelFails, TypeOK, RestTyped, Statuses
  <2> QED  BY <1>5, <2>1, KeepAll, Drains DEF CancelFails
<1>6. ASSUME Discard(op) PROVE Changes /\ RestTyped
  <2>1. RestTyped
    BY <1>6 DEF Discard, TypeOK, RestTyped, Rows, Absent
  <2> QED  BY <1>6, <2>1, DropRequests, Drains DEF Discard
<1> QED  BY <1>1, <1>2, <1>3, <1>4, <1>5, <1>6

LEMMA CloseStep ==
  ASSUME Typed, NEW owner \in Owner, Close(owner)
  PROVE  Changes /\ RestTyped
<1>1. RestTyped
  BY DEF Close, Typed, TypeOK, RestTyped, Rows, Absent
<1> QED  BY <1>1, DropRequests, Drains DEF Close

LEMMA ProgressSteps ==
  ASSUME Typed
  PROVE  /\ \A op \in Op : Deliver(op) => Changes /\ RestTyped
         /\ \A r \in Seqno, full \in BOOLEAN : CoreEmits(r, full) => Changes /\ RestTyped
<1>1. ASSUME NEW op \in Op, Deliver(op) PROVE Changes /\ RestTyped
  <2>1. progress.full \in BOOLEAN
    BY <1>1 DEF Deliver, Typed, TypeOK
  <2>2. RestTyped
    BY <1>1, <2>1 DEF Deliver, Typed, TypeOK, RestTyped, Rows
  <2>3. CASE request' = Drain(request, row')
    BY <1>1, <2>2, <2>3, KeepAll, Drains DEF Deliver
  <2>4. CASE request' = request /\ Active(op, row[op]) = Active(op, row'[op])
    <3>1. \A other \in Op : other # op => row'[other] = row[other]
      BY <1>1 DEF Deliver, Typed, TypeOK
    <3> QED  BY <1>1, <2>2, <2>4, <3>1, Stays DEF Deliver
  <2> QED  BY <1>1, <2>3, <2>4 DEF Deliver
<1>2. ASSUME NEW r \in Seqno, NEW full \in BOOLEAN, CoreEmits(r, full)
      PROVE  Changes /\ RestTyped
  <2>1. RestTyped
    BY <1>2 DEF CoreEmits, Typed, TypeOK, RestTyped, Requests
  <2> QED  BY <1>2, <2>1, Stays DEF CoreEmits
<1> QED  BY <1>1, <1>2

LEMMA FinishStep ==
  ASSUME Typed, NEW r \in Seqno, Holds(request[r]), NEW rows, Finish(r, rows), last' = last
  PROVE  Changes /\ row' = rows
  BY EndTask, Drains DEF Finish

LEMMA SettlingStep ==
  ASSUME Typed, NEW r \in Seqno, Holds(request[r]), NEW rows, Settling(r, rows), last' = last
  PROVE  Changes /\ row' = rows
<1>1. "settling" \in Running
  BY DEF Running
<1> QED  BY <1>1, MovePhase, Drains DEF Settling

LEMMA TaskOperation ==
  ASSUME Typed, NEW r \in Seqno
  PROVE  request[r].op \in Op /\ request[r].attempt \in 0..RetryCount + 1
  BY DEF Typed, TypeOK, Requests

LEMMA StartStep ==
  ASSUME Typed, NEW r \in Seqno, Start(r)
  PROVE  Changes /\ RestTyped
<1> DEFINE op == request[r].op
<1>1. op \in Op
  BY TaskOperation
<1>2. row' \in [Op -> Rows]
  <2>1. CASE row' = row
    BY <2>1 DEF Typed, TypeOK
  <2>2. CASE row' = Mark(op, "running")
    BY <1>1, <2>2, MarkType DEF Typed, TypeOK, Statuses
  <2>3. CASE row' = [row EXCEPT ![op] = Fresh]
    BY <1>1, <2>3 DEF Typed, TypeOK, Rows, Fresh
  <2> QED  BY <2>1, <2>2, <2>3 DEF Start
<1>3. RestTyped
  BY <1>2 DEF Start, Typed, TypeOK, RestTyped
<1>4. Holds(request[r]) /\ "command" \in Running /\ 1 \in 0..RetryCount + 1
  BY QueueAssumption DEF Start, Holds, Running
<1> QED  BY <1>3, <1>4, MoveTask, Drains DEF Start

LEMMA BatchStep ==
  ASSUME Typed, NEW r \in Seqno, request[r].phase = "command",
         NEW reply \in {"ok", "some", "error"}, BatchReturns(r, reply), last' = last
  PROVE  Changes /\ row' \in [Op -> Rows]
<1> DEFINE op   == request[r].op
           rows == IF reply = "some" THEN [row EXCEPT ![op] = Fresh] ELSE row
<1>1. op \in Op /\ row \in [Op -> Rows] /\ Holds(request[r])
  BY TaskOperation DEF Typed, TypeOK, Holds, Running
<1>2. rows \in [Op -> Rows]
  BY <1>1 DEF Rows, Fresh
<1>3. CASE reply = "ok" /\ Finish(r, Settled(op, "completed"))
  BY <1>1, <1>3, FinishStep, SettledType
<1>4. CASE Finish(r, Mark(op, "cancelled"))
  BY <1>1, <1>4, FinishStep, MarkType DEF Statuses
<1>5. CASE /\ request[r].attempt <= RetryCount
           /\ row' = rows /\ request' = Drain(To(r, "backoff"), rows)
  <2>1. "backoff" \in Running /\ request' = Drain(To(r, "backoff"), row')
    BY <1>5 DEF Running
  <2>2. /\ To(r, "backoff") \in Queues /\ Attempts(To(r, "backoff"))
        /\ Kept(To(r, "backoff"))
    BY <1>1, <1>5, <2>1, MovePhase
  <2> QED  BY <1>2, <1>5, <2>1, <2>2, Drains
<1>6. CASE Finish(r, [rows EXCEPT ![op] = IF @ = Absent THEN @
                                          ELSE [@ EXCEPT !.status = "failed"]])
  <2>1. [rows EXCEPT ![op] = IF @ = Absent THEN @ ELSE [@ EXCEPT !.status = "failed"]]
          \in [Op -> Rows]
    BY <1>1, <1>2 DEF Rows
  <2> QED  BY <1>1, <1>6, <2>1, FinishStep
<1> QED  BY <1>3, <1>4, <1>5, <1>6 DEF BatchReturns

LEMMA SingleStep ==
  ASSUME Typed, NEW r \in Seqno, request[r].phase = "command",
         NEW reply \in {"ok", "some", "error"}, SingleReturns(r, reply), last' = last
  PROVE  Changes /\ row' \in [Op -> Rows]
<1> DEFINE op == request[r].op
<1>1. op \in Op /\ row \in [Op -> Rows] /\ Holds(request[r])
  BY TaskOperation DEF Typed, TypeOK, Holds, Running
<1>2. /\ Mark(op, "completed") \in [Op -> Rows]
      /\ Settled(op, "failed") \in [Op -> Rows]
  BY <1>1, MarkType, SettledType DEF Statuses
<1>3. CASE Settling(r, Mark(op, "completed"))
  BY <1>1, <1>2, <1>3, SettlingStep
<1>4. CASE Settling(r, Settled(op, "failed"))
  BY <1>1, <1>2, <1>4, SettlingStep
<1>5. CASE Finish(r, Settled(op, "failed"))
  BY <1>1, <1>2, <1>5, FinishStep
<1> QED  BY <1>3, <1>4, <1>5 DEF SingleReturns

LEMMA CommandStep ==
  ASSUME Typed, NEW r \in Seqno, NEW reply \in {"ok", "some", "error"},
         CommandReturns(r, reply)
  PROVE  Changes /\ RestTyped
<1>1. request[r].phase = "command" /\ last' = last
  BY DEF CommandReturns
<1>2. BatchReturns(r, reply) \/ SingleReturns(r, reply)
  BY DEF CommandReturns
<1>3. Changes /\ row' \in [Op -> Rows]
  BY <1>1, <1>2, BatchStep, SingleStep
<1> QED  BY <1>3 DEF CommandReturns, Typed, TypeOK, RestTyped

LEMMA BackoffStep ==
  ASSUME Typed, NEW r \in Seqno, Backoff(r)
  PROVE  Changes /\ RestTyped
<1> DEFINE op == request[r].op
<1>1. op \in Op /\ row \in [Op -> Rows] /\ Holds(request[r]) /\ last' = last
  BY TaskOperation DEF Backoff, Typed, TypeOK, Holds, Running
<1>2. CASE Finish(r, Mark(op, "cancelled"))
  <2>1. Changes /\ row' \in [Op -> Rows]
    BY <1>1, <1>2, FinishStep, MarkType DEF Statuses
  <2> QED  BY <2>1 DEF Backoff, Typed, TypeOK, RestTyped
<1>3. CASE /\ request' = [To(r, "command") EXCEPT ![r].attempt = @ + 1]
           /\ UNCHANGED row
  <2> DEFINE next == request[r].attempt + 1
             X    == [To(r, "command") EXCEPT ![r].attempt = next]
  <2>1. request[r].attempt <= RetryCount /\ request[r].attempt \in Nat
    BY TaskOperation DEF Backoff, Typed, Attempts
  <2>2. next \in 0..RetryCount + 1 /\ "command" \in Running
    BY <2>1, QueueAssumption DEF Running
  <2>3. request' = X
    BY <1>3 DEF To, Typed, TypeOK, Requests
  <2>4. X \in Queues /\ Attempts(X) /\ Kept(X) /\ Still(X)
    BY <1>1, <2>2, MoveTask
  <2>5. Changes
    BY <1>1, <1>3, <2>3, <2>4 DEF Changes
  <2> QED  BY <1>1, <1>3, <2>5 DEF Backoff, Typed, TypeOK, RestTyped
<1> QED  BY <1>2, <1>3 DEF Backoff

LEMMA SettleStep ==
  ASSUME Typed, NEW r \in Seqno, Settle(r)
  PROVE  Changes /\ RestTyped
<1>1. Holds(request[r]) /\ last' = last
  BY DEF Settle, Holds, Running
<1>2. Changes /\ row' = row
  BY <1>1, FinishStep DEF Settle
<1> QED  BY <1>2 DEF Settle, Typed, TypeOK, RestTyped

LEMMA NextChanges ==
  ASSUME Typed, [Next]_vars
  PROVE  Changes /\ RestTyped
<1>1. CASE Next
  BY <1>1, UserSteps, CloseStep, ProgressSteps, StartStep, CommandStep, BackoffStep, SettleStep
     DEF Next
<1>2. CASE UNCHANGED vars
  <2>1. RestTyped
    BY <1>2 DEF vars, Typed, TypeOK, RestTyped
  <2> QED  BY <1>2, <2>1, Stays DEF vars
<1> QED  BY <1>1, <1>2

-----------------------------------------------------------------------------
(* Theorems.                                                               *)

LEMMA InitTyped == Init => Typed
<1> SUFFICES ASSUME Init PROVE Typed
  OBVIOUS
<1>1. (CHOOSE op \in Op : TRUE) \in Op
  BY QueueAssumption
<1>2. request \in Queues /\ \A r \in Seqno : request[r].phase = "none"
  <2> DEFINE first == [op |-> CHOOSE op \in Op : TRUE, again |-> FALSE,
                       phase |-> "none", attempt |-> 0]
  <2>1. 0 \in 0..RetryCount + 1
    BY QueueAssumption
  <2>2. first \in Requests /\ first.phase = "none"
    BY <1>1, <2>1 DEF Requests
  <2>3. request \in [Seqno -> {first}]
    BY DEF Init
  <2> HIDE DEF first
  <2> QED  BY <2>2, <2>3 DEF Queues
<1>3. TypeOK
  BY <1>2, QueueAssumption DEF Init, TypeOK, Queues, Rows, Absent
<1> QED  BY <1>2, <1>3 DEF Typed, Attempts, Unused

LEMMA StepTyped == Typed /\ [Next]_vars => Typed'
<1> SUFFICES ASSUME Typed, [Next]_vars PROVE Typed'
  OBVIOUS
<1>1. Changes /\ RestTyped
  BY NextChanges
<1>2. /\ request' \in Queues /\ Attempts(request') /\ Unused(request', last')
      /\ last' \in 0..MaxRequests
  BY <1>1, ChangesKeepQueue
<1> QED  BY <1>1, <1>2 DEF Typed, TypeOK, RestTyped, Queues, Attempts, Unused

LEMMA AlwaysTyped == Spec => []Typed
  BY InitTyped, StepTyped, PTL DEF Spec

(* Every variable keeps its type: the attempts of a task never exceed what *)
(* sftpRetryCount allows (useSftpConnection.ts, runWithConfiguredRetries). *)
THEOREM TypeCorrect == Spec => []TypeOK
<1>1. Typed => TypeOK
  BY DEF Typed
<1> QED  BY <1>1, AlwaysTyped, PTL

(* The order of the queue: who holds the paths, who waits, and that nobody *)
(* waits who need not.                                                     *)
Ordered == Apart(request) /\ InOrder(request) /\ Served(request, row)

LEMMA AlwaysOrdered == Spec => []Ordered
<1>1. Init => Ordered
  BY DEF Init, Ordered, Apart, InOrder, Served, Holds, Running
<1>2. Typed /\ Ordered /\ [Next]_vars => Ordered'
  BY NextChanges, ChangesKeepOrder DEF Ordered, Apart, InOrder, Served, CanGrant
<1> QED  BY <1>1, <1>2, AlwaysTyped, PTL DEF Spec

(* Tasks with overlapping paths never run together (transferStore.ts,      *)
(* runPathOperation: "owning all supplied path scopes").                   *)
THEOREM MutualExclusion == Spec => []Exclusive
<1>1. Ordered => Exclusive
  BY DEF Ordered, Apart, Exclusive
<1> QED  BY <1>1, AlwaysOrdered, PTL

(* Overlapping requests are granted in FIFO order (transferStore.ts).      *)
THEOREM FirstComeFirstServed == Spec => []NoOvertaking
<1>1. Ordered => NoOvertaking
  BY DEF Ordered, InOrder, NoOvertaking
<1> QED  BY <1>1, AlwaysOrdered, PTL

(* No action forgets to drain the queue when it could release a request    *)
(* (transferStore.ts, pathOccupancyRevision).                              *)
THEOREM NoneOverlooked == Spec => []NothingOverlooked
<1>1. Ordered => NothingOverlooked
  BY DEF Ordered, Served, NothingOverlooked
<1> QED  BY <1>1, AlwaysOrdered, PTL

-----------------------------------------------------------------------------
(* What keeps paths busy.                                                  *)

(* A task that has not settled its row yet.                                *)
Unsettled(rq) == rq.phase \in {"command", "backoff"}

Live(rw) == rw.status \in {"running", "cancelling"}

(* Stronger than OccupancyOwned: also a row that is complete by its        *)
(* counters has such a task, for a late progress event may undo that.      *)
Owned(reqs, rows) ==
  \A op \in Op : Live(rows[op]) =>
    \E r \in Seqno : reqs[r].op = op /\ Unsettled(reqs[r])

LEMMA DrainOwned ==
  ASSUME NEW X \in Queues, NEW rows, Owned(X, rows)
  PROVE  Owned(Drain(X, rows), rows)
<1> SUFFICES ASSUME NEW op \in Op, Live(rows[op])
             PROVE  \E r \in Seqno : /\ Drain(X, rows)[r].op = op
                                     /\ Unsettled(Drain(X, rows)[r])
  BY DEF Owned
<1>1. PICK r \in Seqno : X[r].op = op /\ Unsettled(X[r])
  BY DEF Owned
<1>2. Drain(X, rows)[r].op = op /\ Unsettled(Drain(X, rows)[r])
  BY <1>1, DrainGrants DEF Unsettled
<1> QED  BY <1>2

(* The rows of other operations are left alone, and so are their tasks.    *)
LEMMA TaskOwned ==
  ASSUME Typed, Owned(request, row), NEW r \in Seqno, NEW X \in Queues,
         X[r].op = request[r].op,
         \A s \in Seqno : s # r => X[s] = request[s],
         NEW rows,
         \A op \in Op : op # request[r].op => rows[op] = row[op],
         Unsettled(X[r]) \/ ~Live(rows[request[r].op])
  PROVE  Owned(X, rows)
<1> SUFFICES ASSUME NEW op \in Op, Live(rows[op])
             PROVE  \E s \in Seqno : X[s].op = op /\ Unsettled(X[s])
  BY DEF Owned
<1>1. CASE op = request[r].op
  BY <1>1
<1>2. CASE op # request[r].op
  <2>1. PICK s \in Seqno : request[s].op = op /\ Unsettled(request[s])
    BY <1>2 DEF Owned
  <2>2. X[s] = request[s]
    BY <1>2, <2>1
  <2> QED  BY <2>1, <2>2
<1> QED  BY <1>1, <1>2

LEMMA FinishOwned ==
  ASSUME Typed, Owned(request, row), NEW r \in Seqno, Holds(request[r]),
         NEW rows, Finish(r, rows),
         \A op \in Op : op # request[r].op => rows[op] = row[op],
         ~Live(rows[request[r].op])
  PROVE  Owned(request', row')
<1> DEFINE X == [request EXCEPT ![r] = Gone(@)]
<1>1. X \in Queues
  BY EndTask
<1>2. request \in [Seqno -> Requests]
  BY DEF Typed, TypeOK
<1>3. X[r].op = request[r].op /\ \A s \in Seqno : s # r => X[s] = request[s]
  BY <1>2, GoneType
<1>4. Owned(X, rows)
  BY <1>1, <1>3, TaskOwned
<1>5. row' = rows /\ request' = Drain(X, rows)
  BY DEF Finish
<1> QED  BY <1>1, <1>4, <1>5, DrainOwned

LEMMA MoveOwned ==
  ASSUME Typed, Owned(request, row), NEW r \in Seqno, NEW phase \in Running,
         To(r, phase) \in Queues,
         NEW rows, \A op \in Op : op # request[r].op => rows[op] = row[op],
         phase # "settling" \/ ~Live(rows[request[r].op])
  PROVE  Owned(Drain(To(r, phase), rows), rows)
<1>1. request \in [Seqno -> Requests]
  BY DEF Typed, TypeOK
<1>2. /\ To(r, phase)[r].op = request[r].op /\ To(r, phase)[r].phase = phase
      /\ \A s \in Seqno : s # r => To(r, phase)[s] = request[s]
  BY <1>1 DEF To, Requests
<1>3. Unsettled(To(r, phase)[r]) \/ ~Live(rows[request[r].op])
  BY <1>2 DEF Unsettled, Running
<1>4. Owned(To(r, phase), rows)
  BY <1>2, <1>3, TaskOwned
<1> QED  BY <1>4, DrainOwned

(* Nothing but rows changes, and none becomes live.                        *)
LEMMA RowsOwned ==
  ASSUME Typed, Owned(request, row), NEW X \in Queues,
         \A r \in Seqno : Unsettled(request[r]) =>
           X[r].op = request[r].op /\ Unsettled(X[r]),
         NEW rows, \A op \in Op : Live(rows[op]) => Live(row[op])
  PROVE  Owned(X, rows) /\ Owned(Drain(X, rows), rows)
<1>1. Owned(X, rows)
  BY DEF Owned
<1> QED  BY <1>1, DrainOwned

LEMMA UserOwned ==
  ASSUME Typed, Owned(request, row), NEW op \in Op,
         \/ Enqueue(op) \/ Submit(op) \/ Retry(op) \/ CancelRunning(op)
         \/ CancelReturns(op) \/ CancelFails(op) \/ Discard(op) \/ Deliver(op)
  PROVE  Owned(request', row')
<1>1. row \in [Op -> Rows] /\ request \in Queues
  BY DEF Typed, TypeOK, Queues
<1>2. CASE Enqueue(op)
  <2>1. \A other \in Op : Live(row'[other]) => Live(row[other])
    BY <1>1, <1>2 DEF Enqueue, Live
  <2> QED  BY <1>1, <1>2, <2>1, RowsOwned DEF Enqueue
<1>3. CASE Submit(op) \/ Retry(op)
  <2>1. PICK again \in BOOLEAN :
          last < MaxRequests /\ request' = Drain(Push(op, again), row) /\ row' = row
    BY <1>3 DEF Submit, Retry
  <2>2. request[last + 1].phase = "none"
    BY <2>1, PushedRequest, QueueAssumption DEF Typed, TypeOK, Unused
  <2>3. \A r \in Seqno : Unsettled(request[r]) => Push(op, again)[r] = request[r]
    BY <2>1, <2>2, PushedRequest DEF Unsettled
  <2>4. Push(op, again) \in Queues
    BY <2>1, PushedRequest
  <2> QED  BY <2>1, <2>3, <2>4, RowsOwned
<1>4. CASE CancelRunning(op)
  <2>1. \A other \in Op : Live(row'[other]) => Live(row[other])
    BY <1>1, <1>4 DEF CancelRunning, Live
  <2> QED  BY <1>1, <1>4, <2>1, RowsOwned DEF CancelRunning
<1>5. CASE CancelReturns(op)
  BY <1>5 DEF CancelReturns
<1>6. CASE CancelFails(op)
  <2>1. \A other \in Op : Live(row'[other]) => Live(row[other])
    BY <1>1, <1>6, MarkType DEF CancelFails, Live, Statuses
  <2> QED  BY <1>1, <1>6, <2>1, RowsOwned DEF CancelFails
<1>7. CASE Discard(op)
  <2> DEFINE X == Without({r \in Seqno : request[r].op = op})
  <2>1. \A other \in Op : Live(row'[other]) => Live(row[other])
    BY <1>1, <1>7 DEF Discard, Live, Absent
  <2>2. X \in Queues
    BY DropRequests
  <2>3. \A r \in Seqno : Unsettled(request[r]) => X[r] = request[r]
    BY DEF Without, Unsettled
  <2>4. request' = Drain(X, row')
    BY <1>7 DEF Discard
  <2> HIDE DEF X
  <2> QED  BY <2>1, <2>2, <2>3, <2>4, RowsOwned
<1>8. CASE Deliver(op)
  <2>1. \A other \in Op : Live(row'[other]) => Live(row[other])
    BY <1>1, <1>8 DEF Deliver, Live, Rows
  <2>2. request' = Drain(request, row') \/ request' = request
    BY <1>8 DEF Deliver
  <2> QED  BY <1>1, <2>1, <2>2, RowsOwned
<1> QED  BY <1>2, <1>3, <1>4, <1>5, <1>6, <1>7, <1>8

LEMMA CloseOwned ==
  ASSUME Typed, Owned(request, row), NEW owner \in Owner, Close(owner)
  PROVE  Owned(request', row')
<1> DEFINE X == Without({r \in Seqno : OwnerOf[request[r].op] = owner})
<1>1. \A op \in Op : Live(row'[op]) => Live(row[op])
  BY DEF Close, Live, Absent
<1>2. X \in Queues
  BY DropRequests
<1>3. \A r \in Seqno : Unsettled(request[r]) => X[r] = request[r]
  BY DEF Without, Unsettled
<1>4. request' = Drain(X, row')
  BY DEF Close
<1> HIDE DEF X
<1> QED  BY <1>1, <1>2, <1>3, <1>4, RowsOwned

(* The next command of a task.                                             *)
LEMMA CommandOwned ==
  ASSUME Typed, Owned(request, row), NEW r \in Seqno, Holds(request[r]),
         NEW attempt \in 0..RetryCount + 1,
         NEW rows, \A op \in Op : op # request[r].op => rows[op] = row[op]
  PROVE  LET X == [To(r, "command") EXCEPT ![r].attempt = attempt] IN
         Owned(X, rows) /\ Owned(Drain(X, rows), rows)
<1> DEFINE X == [To(r, "command") EXCEPT ![r].attempt = attempt]
<1>1. request \in [Seqno -> Requests]
  BY DEF Typed, TypeOK
<1>2. X \in Queues
  <2>1. "command" \in Running /\ ("command" = "backoff" => attempt <= RetryCount)
    BY DEF Running
  <2> QED  BY <2>1, MoveTask
<1>3. /\ X[r].op = request[r].op /\ Unsettled(X[r])
      /\ \A s \in Seqno : s # r => X[s] = request[s]
  BY <1>1 DEF To, Requests, Unsettled
<1> HIDE DEF X
<1>4. Owned(X, rows)
  BY <1>2, <1>3, TaskOwned
<1>5. Owned(X, rows) /\ Owned(Drain(X, rows), rows)
  BY <1>2, <1>4, DrainOwned
<1> QED  BY <1>5 DEF X

LEMMA StartOwned ==
  ASSUME Typed, Owned(request, row), NEW r \in Seqno, Start(r)
  PROVE  Owned(request', row')
<1> DEFINE op == request[r].op
<1>1. op \in Op /\ row \in [Op -> Rows]
  BY TaskOperation DEF Typed, TypeOK
<1>2. \A other \in Op : other # op => row'[other] = row[other]
  <2>1. CASE row' = row
    BY <2>1
  <2>2. CASE row' = Mark(op, "running")
    BY <1>1, <2>2, MarkType DEF Statuses
  <2>3. CASE row' = [row EXCEPT ![op] = Fresh]
    BY <1>1, <2>3
  <2> QED  BY <2>1, <2>2, <2>3 DEF Start
<1>3. Holds(request[r]) /\ 1 \in 0..RetryCount + 1
  BY QueueAssumption DEF Start, Holds, Running
<1>4. request' = Drain([To(r, "command") EXCEPT ![r].attempt = 1], row')
  BY DEF Start
<1>5. Owned(Drain([To(r, "command") EXCEPT ![r].attempt = 1], row'), row')
  <2> HIDE DEF Owned, Typed, Holds, Drain, To
  <2> QED  BY <1>2, <1>3, CommandOwned
<1> QED  BY <1>4, <1>5

LEMMA BatchOwned ==
  ASSUME Typed, Owned(request, row), NEW r \in Seqno, request[r].phase = "command",
         NEW reply \in {"ok", "some", "error"}, BatchReturns(r, reply)
  PROVE  Owned(request', row')
<1> DEFINE op   == request[r].op
           rows == IF reply = "some" THEN [row EXCEPT ![op] = Fresh] ELSE row
           lastRow == [rows EXCEPT ![op] = IF @ = Absent THEN @
                                            ELSE [@ EXCEPT !.status = "failed"]]
<1>1. op \in Op /\ row \in [Op -> Rows] /\ Holds(request[r])
  BY TaskOperation DEF Typed, TypeOK, Holds, Running
<1>2. /\ rows \in [Op -> Rows]
      /\ \A other \in Op : other # op => rows[other] = row[other]
  BY <1>1 DEF Rows, Fresh
<1>3. CASE Finish(r, Settled(op, "completed"))
  BY <1>1, <1>3, SettledType, FinishOwned DEF Live
<1>4. CASE Finish(r, Mark(op, "cancelled"))
  BY <1>1, <1>4, MarkType, FinishOwned DEF Live, Statuses
<1>5. CASE /\ request[r].attempt <= RetryCount
           /\ row' = rows /\ request' = Drain(To(r, "backoff"), rows)
  <2>1. "backoff" \in Running /\ "backoff" # "settling"
    BY DEF Running
  <2>2. To(r, "backoff") \in Queues
    BY <1>1, <1>5, <2>1, MovePhase
  <2>3. Owned(Drain(To(r, "backoff"), rows), rows)
    BY <1>2, <2>1, <2>2, MoveOwned
  <2> QED  BY <1>5, <2>3
<1>6. CASE Finish(r, lastRow)
  <2>1. \A other \in Op : other # op => lastRow[other] = row[other]
    BY <1>1, <1>2
  <2>2. lastRow[op].status \in {"absent", "failed"}
    BY <1>1, <1>2 DEF Rows, Absent
  <2>3. ~Live(lastRow[op])
    BY <2>2 DEF Live
  <2> HIDE DEF lastRow
  <2> QED  BY <1>1, <1>6, <2>1, <2>3, FinishOwned
<1> QED  BY <1>3, <1>4, <1>5, <1>6 DEF BatchReturns

LEMMA SingleOwned ==
  ASSUME Typed, Owned(request, row), NEW r \in Seqno, request[r].phase = "command",
         NEW reply \in {"ok", "some", "error"}, SingleReturns(r, reply)
  PROVE  Owned(request', row')
<1> DEFINE op == request[r].op
<1>1. op \in Op /\ row \in [Op -> Rows] /\ Holds(request[r])
  BY TaskOperation DEF Typed, TypeOK, Holds, Running
<1>2. "settling" \in Running /\ To(r, "settling") \in Queues
  <2>1. "settling" \in Running
    BY DEF Running
  <2> QED  BY <1>1, <2>1, MovePhase
<1>3. /\ \A other \in Op : other # op => Mark(op, "completed")[other] = row[other]
      /\ ~Live(Mark(op, "completed")[op])
  BY <1>1, MarkType DEF Live, Statuses
<1>4. /\ \A other \in Op : other # op => Settled(op, "failed")[other] = row[other]
      /\ ~Live(Settled(op, "failed")[op])
  BY <1>1, SettledType DEF Live
<1>5. CASE Settling(r, Mark(op, "completed"))
  BY <1>2, <1>3, <1>5, MoveOwned DEF Settling
<1>6. CASE Settling(r, Settled(op, "failed"))
  BY <1>2, <1>4, <1>6, MoveOwned DEF Settling
<1>7. CASE Finish(r, Settled(op, "failed"))
  BY <1>1, <1>4, <1>7, FinishOwned
<1> QED  BY <1>5, <1>6, <1>7 DEF SingleReturns

LEMMA BackoffOwned ==
  ASSUME Typed, Owned(request, row), NEW r \in Seqno, Backoff(r)
  PROVE  Owned(request', row')
<1> DEFINE op == request[r].op
<1>1. op \in Op /\ row \in [Op -> Rows] /\ Holds(request[r])
  BY TaskOperation DEF Backoff, Typed, TypeOK, Holds, Running
<1>2. CASE Finish(r, Mark(op, "cancelled"))
  BY <1>1, <1>2, MarkType, FinishOwned DEF Live, Statuses
<1>3. CASE /\ request' = [To(r, "command") EXCEPT ![r].attempt = @ + 1]
           /\ UNCHANGED row
  <2> DEFINE next == request[r].attempt + 1
  <2>1. request[r].attempt <= RetryCount /\ request[r].attempt \in Nat
    BY TaskOperation DEF Backoff, Typed, Attempts
  <2>2. next \in 0..RetryCount + 1
    BY <2>1, QueueAssumption
  <2>3. request' = [To(r, "command") EXCEPT ![r].attempt = next]
    BY <1>3 DEF To, Typed, TypeOK, Requests
  <2>4. Owned([To(r, "command") EXCEPT ![r].attempt = next], row)
    BY <1>1, <2>2, CommandOwned
  <2> QED  BY <1>3, <2>3, <2>4
<1> QED  BY <1>2, <1>3 DEF Backoff

LEMMA SettleOwned ==
  ASSUME Typed, Owned(request, row), NEW r \in Seqno, Settle(r)
  PROVE  Owned(request', row')
<1> DEFINE X == [request EXCEPT ![r] = Gone(@)]
<1>1. Holds(request[r]) /\ ~Unsettled(request[r])
  BY DEF Settle, Holds, Running, Unsettled
<1>2. X \in Queues /\ request \in [Seqno -> Requests]
  BY <1>1, EndTask DEF Typed, TypeOK
<1>3. \A s \in Seqno : Unsettled(request[s]) => X[s] = request[s]
  BY <1>1, <1>2
<1>4. row' = row /\ request' = Drain(X, row)
  BY DEF Settle, Finish
<1> HIDE DEF X
<1> QED  BY <1>2, <1>3, <1>4, RowsOwned

LEMMA StepOwned == Typed /\ Owned(request, row) /\ [Next]_vars => Owned(request, row)'
<1> SUFFICES ASSUME Typed, Owned(request, row), [Next]_vars
             PROVE  Owned(request', row')
  BY DEF Owned
<1>1. ASSUME NEW r \in Seqno, NEW reply \in {"ok", "some", "error"}, CommandReturns(r, reply)
      PROVE  Owned(request', row')
  BY <1>1, BatchOwned, SingleOwned DEF CommandReturns
<1>2. ASSUME NEW r \in Seqno, NEW full \in BOOLEAN, CoreEmits(r, full)
      PROVE  Owned(request', row')
  BY <1>2 DEF CoreEmits
<1>3. CASE UNCHANGED vars
  BY <1>3 DEF vars
<1> QED  BY <1>1, <1>2, <1>3, UserOwned, CloseOwned, StartOwned, BackoffOwned, SettleOwned
         DEF Next

(* A row that keeps its paths busy always has a task that will give them   *)
(* up, so hasActivePathOperation (transferStore.ts) never stays true.      *)
THEOREM NoOrphanedOccupancy == Spec => []OccupancyOwned
<1>1. Init => Owned(request, row)
  BY DEF Init, Owned, Live, Absent
<1>2. Owned(request, row) => OccupancyOwned
  BY DEF Owned, OccupancyOwned, Active, Live, RunsOf, Holds, Running, Unsettled
<1> QED  BY <1>1, <1>2, AlwaysTyped, StepOwned, PTL DEF Spec

-----------------------------------------------------------------------------
(* What waits is wanted.                                                   *)

NoneDiscarded == \A op \in Op : row'[op].status = "absent" => row[op].status = "absent"

LEMMA WantedKept ==
  ASSUME Typed, StillWanted, Changes, last' = last, closed' = closed, NoneDiscarded
  PROVE  StillWanted'
<1>1. PICK X \in Queues :
        /\ Kept(X) \/ (Pushed(X) /\ last' = last + 1)
        /\ request' = Drain(X, row') \/ request' = X
  BY DEF Changes
<1>2. Kept(X)
  BY <1>1 DEF Typed, TypeOK
<1>3. \A r \in Seqno : request'[r].phase = "queued" =>
        /\ request[r].phase = "queued"
        /\ request'[r].op = request[r].op /\ request'[r].again = request[r].again
  BY <1>1, <1>2, DrainGrants DEF Kept
<1>4. \A r \in Seqno : request[r].op \in Op
  BY TaskOperation
<1> QED  BY <1>3, <1>4 DEF StillWanted, NoneDiscarded

(* The actions that take requests out of the queue.                        *)
LEMMA WantedDropped ==
  ASSUME Typed, StillWanted, NEW out, request' = Drain(Without(out), row'),
         \A r \in Seqno \ out :
           /\ OwnerOf[request[r].op] \in closed' => OwnerOf[request[r].op] \in closed
           /\ row'[request[r].op].status = "absent" => row[request[r].op].status = "absent"
  PROVE  StillWanted'
<1>1. Without(out) \in Queues
  BY DropRequests
<1>2. \A r \in Seqno : request'[r].phase = "queued" =>
        Without(out)[r].phase = "queued"
        /\ request'[r].op = Without(out)[r].op /\ request'[r].again = Without(out)[r].again
  BY <1>1, DrainGrants
<1>3. \A r \in Seqno : Without(out)[r].phase = "queued" =>
        /\ r \notin out /\ Without(out)[r] = request[r]
  <2> SUFFICES ASSUME NEW r \in Seqno, Without(out)[r].phase = "queued"
               PROVE  r \notin out /\ Without(out)[r] = request[r]
    OBVIOUS
  <2>1. request[r] \in Requests
    BY DEF Typed, TypeOK
  <2>2. CASE request[r].phase = "queued" /\ r \in out
    <3>1. Without(out)[r] = Gone(request[r])
      BY <2>2 DEF Without
    <3> QED  BY <2>1, <3>1, GoneType
  <2>3. CASE ~(request[r].phase = "queued" /\ r \in out)
    BY <2>3 DEF Without
  <2> QED  BY <2>2, <2>3
<1> QED  BY <1>2, <1>3 DEF StillWanted

LEMMA NewRequestWanted ==
  ASSUME Typed, StillWanted, NEW op \in Op, Submit(op) \/ Retry(op)
  PROVE  StillWanted'
<1>1. PICK again \in BOOLEAN :
        /\ last < MaxRequests /\ request' = Drain(Push(op, again), row)
        /\ row' = row /\ closed' = closed
        /\ OwnerOf[op] \notin closed /\ (again => row[op].status # "absent")
  BY DEF Submit, Retry
<1>2. Push(op, again) \in Queues
  BY <1>1, PushedRequest
<1>3. \A r \in Seqno :
        /\ request'[r].op = Push(op, again)[r].op
        /\ request'[r].again = Push(op, again)[r].again
        /\ request'[r].phase = "queued" => Push(op, again)[r].phase = "queued"
  BY <1>1, <1>2, DrainGrants
<1>4. \A r \in Seqno : \/ Push(op, again)[r] = request[r]
                       \/ Push(op, again)[r].op = op /\ Push(op, again)[r].again = again
  BY <1>1, PushedRequest
<1> QED  BY <1>1, <1>3, <1>4 DEF StillWanted

(* No task discards a row.                                                 *)
LEMMA TasksDiscardNone ==
  ASSUME Typed, NEW r \in Seqno,
         \/ Start(r) \/ Backoff(r) \/ Settle(r)
         \/ \E reply \in {"ok", "some", "error"} : CommandReturns(r, reply)
  PROVE  NoneDiscarded /\ last' = last /\ closed' = closed
<1> DEFINE op == request[r].op
<1>1. op \in Op /\ row \in [Op -> Rows]
  BY TaskOperation DEF Typed, TypeOK
<1>2. \A status \in Statuses \ {"absent"} : row' = Mark(op, status) => NoneDiscarded
  BY <1>1, MarkType DEF NoneDiscarded
<1>3. \A status \in {"completed", "failed"} : row' = Settled(op, status) => NoneDiscarded
  <2> SUFFICES ASSUME NEW status \in {"completed", "failed"}, row' = Settled(op, status)
               PROVE  NoneDiscarded
    OBVIOUS
  <2>1. \E s \in Statuses \ {"absent"} : row' = Mark(op, s)
    BY DEF Settled, Statuses
  <2> QED  BY <2>1, <1>2
<1>4. ASSUME Start(r) PROVE NoneDiscarded
  <2>1. \/ row' = row \/ row' = Mark(op, "running")
        \/ row' = [row EXCEPT ![op] = Fresh]
    BY <1>4 DEF Start
  <2> QED  BY <1>1, <1>2, <2>1 DEF NoneDiscarded, Fresh, Statuses
<1>5. ASSUME Backoff(r) PROVE NoneDiscarded
  <2>1. row' = row \/ row' = Mark(op, "cancelled")
    BY <1>5 DEF Backoff, Finish
  <2> QED  BY <1>2, <2>1 DEF NoneDiscarded, Statuses
<1>6. ASSUME Settle(r) PROVE NoneDiscarded
  BY <1>6 DEF Settle, Finish, NoneDiscarded
<1>7. ASSUME NEW reply \in {"ok", "some", "error"}, SingleReturns(r, reply)
      PROVE  NoneDiscarded
  <2>1. row' = Mark(op, "completed") \/ row' = Settled(op, "failed")
    BY <1>7 DEF SingleReturns, Settling, Finish
  <2> QED  BY <1>2, <1>3, <2>1 DEF Statuses
<1>8. ASSUME NEW reply \in {"ok", "some", "error"}, BatchReturns(r, reply)
      PROVE  NoneDiscarded
  <2> DEFINE rows == IF reply = "some" THEN [row EXCEPT ![op] = Fresh] ELSE row
  <2>1. /\ rows \in [Op -> Rows]
        /\ \A other \in Op : rows[other].status = "absent" => row[other].status = "absent"
    BY <1>1 DEF Rows, Fresh
  <2>2. \/ row' = Settled(op, "completed") \/ row' = Mark(op, "cancelled")
        \/ row' = rows
        \/ row' = [rows EXCEPT ![op] = IF @ = Absent THEN @
                                       ELSE [@ EXCEPT !.status = "failed"]]
    BY <1>8 DEF BatchReturns, Finish
  <2>3. CASE row' = [rows EXCEPT ![op] = IF @ = Absent THEN @
                                         ELSE [@ EXCEPT !.status = "failed"]]
    <3>1. \A other \in Op : row'[other].status = "absent" => rows[other].status = "absent"
      BY <1>1, <2>1, <2>3 DEF Rows, Absent
    <3> QED  BY <2>1, <3>1 DEF NoneDiscarded
  <2> QED  BY <1>2, <1>3, <2>1, <2>2, <2>3 DEF NoneDiscarded, Statuses
<1>9. NoneDiscarded
  BY <1>4, <1>5, <1>6, <1>7, <1>8 DEF CommandReturns
<1> QED  BY <1>9 DEF Start, Backoff, Settle, CommandReturns

LEMMA StepWanted == Typed /\ StillWanted /\ [Next]_vars => StillWanted'
<1> SUFFICES ASSUME Typed, StillWanted, [Next]_vars PROVE StillWanted'
  OBVIOUS
<1>1. Changes /\ row \in [Op -> Rows]
  BY NextChanges DEF Typed, TypeOK
<1>2. ASSUME NEW op \in Op, \/ Enqueue(op) \/ CancelRunning(op) \/ CancelReturns(op)
                            \/ CancelFails(op) \/ Deliver(op)
      PROVE  StillWanted'
  <2>1. last' = last /\ closed' = closed
    BY <1>2 DEF Enqueue, CancelRunning, CancelReturns, CancelFails, Deliver
  <2>2. CASE row' = Mark(op, "failed")
    BY <1>1, <2>1, <2>2, MarkType, WantedKept DEF NoneDiscarded, Statuses
  <2>3. CASE ~CancelFails(op)
    <3>1. NoneDiscarded
      BY <1>1, <1>2, <2>3
         DEF Enqueue, CancelRunning, CancelReturns, Deliver, NoneDiscarded, Rows
    <3> QED  BY <1>1, <2>1, <3>1, WantedKept
  <2> QED  BY <2>2, <2>3 DEF CancelFails
<1>3. ASSUME NEW op \in Op, Discard(op) PROVE StillWanted'
  <2> DEFINE out == {r \in Seqno : request[r].op = op}
  <2>1. \A r \in Seqno \ out : row'[request[r].op] = row[request[r].op]
    BY <1>1, <1>3 DEF Discard
  <2>2. request' = Drain(Without(out), row') /\ closed' = closed
    BY <1>3 DEF Discard
  <2> HIDE DEF out
  <2> QED  BY <2>1, <2>2, WantedDropped
<1>4. ASSUME NEW owner \in Owner, Close(owner) PROVE StillWanted'
  <2> DEFINE out == {r \in Seqno : OwnerOf[request[r].op] = owner}
  <2>1. \A r \in Seqno \ out :
          /\ OwnerOf[request[r].op] \in closed' => OwnerOf[request[r].op] \in closed
          /\ row'[request[r].op] = row[request[r].op]
    BY <1>4, TaskOperation DEF Close
  <2>2. request' = Drain(Without(out), row')
    BY <1>4 DEF Close
  <2> HIDE DEF out
  <2> QED  BY <2>1, <2>2, WantedDropped
<1>5. ASSUME NEW r \in Seqno, NEW full \in BOOLEAN, CoreEmits(r, full)
      PROVE  StillWanted'
  BY <1>1, <1>5, WantedKept DEF CoreEmits, NoneDiscarded
<1>6. CASE UNCHANGED vars
  BY <1>6 DEF vars, StillWanted
<1>7. ASSUME NEW r \in Seqno,
             \/ Start(r) \/ Backoff(r) \/ Settle(r)
             \/ \E reply \in {"ok", "some", "error"} : CommandReturns(r, reply)
      PROVE  StillWanted'
  BY <1>1, <1>7, TasksDiscardNone, WantedKept
<1> QED  BY <1>2, <1>3, <1>4, <1>5, <1>6, <1>7, NewRequestWanted DEF Next

(* What is granted is still wanted: closing a tab and discarding a row     *)
(* take their requests out of the queue (transferStore.ts, removeOperation *)
(* and cancelQueuedPathOperationsForOwner).                                *)
THEOREM WaitingIsWanted == Spec => []StillWanted
<1>1. Init => StillWanted
  BY DEF Init, StillWanted
<1> QED  BY <1>1, AlwaysTyped, StepWanted, PTL DEF Spec

=============================================================================
